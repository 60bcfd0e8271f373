------------------------------ MODULE Lifecycle ------------------------------
(***************************************************************************)
(* The life of a job as workflow.js draws it: the table of transitions     *)
(* that the rest of the backend is supposed to respect.  No request        *)
(* handler consults the table (each one hard-codes the states it starts    *)
(* from and the state it writes), so that every handler respects it is a   *)
(* property of the handlers, stated as refinement in Settlement.           *)
(***************************************************************************)
CONSTANT Job

VARIABLE status   \* status[j]: the state of job j, "NONE" before its row exists

\* The states a job row can be in.
JobState == {"DRAFT", "PUBLISHED", "ASSIGNED", "FUNDED", "IN_PROGRESS",
             "DELIVERED", "UNDER_REVIEW", "COMPLETED", "SETTLED"}

\* The states reachable in one step, by state; a row is born as a draft.
Transitions ==
  [s \in JobState \cup {"NONE"} |->
     CASE s = "NONE"         -> {"DRAFT"}
       [] s = "DRAFT"        -> {"PUBLISHED"}
       [] s = "PUBLISHED"    -> {"ASSIGNED", "FUNDED"}
       [] s = "ASSIGNED"     -> {"FUNDED"}
       [] s = "FUNDED"       -> {"IN_PROGRESS"}
       [] s = "IN_PROGRESS"  -> {"DELIVERED"}
       [] s = "DELIVERED"    -> {"COMPLETED", "UNDER_REVIEW"}
       [] s = "UNDER_REVIEW" -> {"COMPLETED"}
       [] s = "COMPLETED"    -> {"SETTLED"}
       [] s = "SETTLED"      -> {}]

CanTransition(from, to) == to \in Transitions[from]

Init == status = [j \in Job |-> "NONE"]

\* One job moves along one edge of the table; the others stay.
Move(j) ==
  \E to \in JobState : /\ CanTransition(status[j], to)
                       /\ status' = [status EXCEPT ![j] = to]

Next == \E j \in Job : Move(j)

Spec == Init /\ [][Next]_status
=============================================================================
