---------------------------- MODULE DurableStore ----------------------------
(***************************************************************************)
(* What a store promises its clients, free of memory, files, writes and    *)
(* restarts: what is stored stays stored, and a client is told only of     *)
(* changes that are stored.  A restart is not visible here at all.         *)
(***************************************************************************)
CONSTANT Change

VARIABLES
  stored,   \* the changes that survive whatever happens
  shown     \* the changes that some answer of success rests on

vars == <<stored, shown>>

Init == /\ stored = {}
        /\ shown = {}

\* More is stored.
Store ==
  /\ stored' \in SUBSET Change
  /\ stored \subseteq stored'
  /\ UNCHANGED shown

\* A client is told of something that is stored.
Show ==
  /\ shown' \in SUBSET stored
  /\ shown \subseteq shown'
  /\ UNCHANGED stored

Next == Store \/ Show

Spec == Init /\ [][Next]_vars
=============================================================================
