----------------------------- MODULE FileStore -----------------------------
(***************************************************************************)
(* The file store (db.js without DATABASE_URL) under the requests that use *)
(* it (handle in app.js, sendJson in http.js).                             *)
(*                                                                         *)
(* The collections live in memory; every insert, update, touch and save    *)
(* that finds something dirty hangs one more write of the whole memory     *)
(* onto a chain of promises.  A write goes to a temporary file, which then *)
(* replaces the data file.  sendJson waits for the chain as it is at that  *)
(* moment before it answers.                                               *)
(*                                                                         *)
(* JavaScript runs a handler without interruption between two awaits of    *)
(* input or output; awaits of promises that are settled already do not let *)
(* a write in between, because a write begins after an await of mkdir.     *)
(* So a handler that changes memory is one action up to sendJson, except   *)
(* two that wait in the middle: one for a save, one for the mail.          *)
(*                                                                         *)
(* The data are sets of changes: memory and file are what they are because *)
(* of the changes they have seen.  Base stands for the categories that a   *)
(* first start seeds.                                                      *)
(***************************************************************************)
EXTENDS Naturals

CONSTANTS
  Request,
  Base,        \* the seeded categories
  MaxLinks     \* bound on the writes one handler schedules without waiting

ASSUME StoreAssumption ==
  /\ Base \notin Request \X {1, 2}
  /\ MaxLinks \in Nat \ {0}

\* A request changes memory once, or a second time after it has waited.
Change == (Request \X {1, 2}) \cup {Base}

VARIABLES
  mem,         \* state: the changes memory has seen
  disk,        \* the data file
  temp,        \* the temporary file of the write under way
  writing,     \* a write is under way
  scheduled,   \* links of flushChain since the process started
  finished,    \* those that are resolved
  broken,      \* the link after those was rejected, and with it all later ones
  pc,          \* pc[r]: where the handler of request r is
  ticket,      \* ticket[r]: the link r waits for
  seen         \* seen[r]: the changes the answer of r rests on

chainVars   == <<scheduled, finished, broken, writing, temp>>
requestVars == <<pc, ticket, seen>>
vars        == <<mem, disk, chainVars, requestVars>>

Waiting == {"saving", "mailing", "sending", "closing"}
Final   == {"ok", "error", "lost"}
PC      == {"new"} \cup Waiting \cup Final

\* legacyLoad and seedBaseData at the start of a process: the file's contents,
\* and the categories if it has none.
Loaded(file) == file \cup {Base}

\* The links that seeding hangs on a new chain.
SeedLinks(file) == IF Base \in file THEN {0} ELSE 1..MaxLinks

Init ==
  /\ disk = {}
  /\ mem = Loaded(disk)
  /\ temp = {}
  /\ writing = FALSE
  /\ scheduled \in SeedLinks(disk)
  /\ finished = 0
  /\ broken = FALSE
  /\ pc = [r \in Request |-> "new"]
  /\ ticket = [r \in Request |-> 0]
  /\ seen = [r \in Request |-> {}]

-----------------------------------------------------------------------------
(* The chain of writes. *)

\* Mutant: only what is not in the file yet is written.
WrittenDirtyOnly == mem \ disk

\* persistLegacyFile writes all of memory, as it is when the write begins.
Written == mem

StartWrite ==
  /\ ~broken /\ ~writing
  /\ finished < scheduled
  /\ writing' = TRUE
  /\ temp' = Written
  /\ UNCHANGED <<mem, disk, scheduled, finished, broken, requestVars>>

\* The temporary file replaces the data file, in one step.
FinishWrite ==
  /\ writing
  /\ disk' = temp
  /\ writing' = FALSE
  /\ temp' = {}
  /\ finished' = finished + 1
  /\ UNCHANGED <<mem, scheduled, broken, requestVars>>

\* Somebody handles the rejection of the link after those finished, which
\* .then passes on to the last one: a request that waits for any of the links
\* after those finished throws, and the "finally" of handle then flushes the
\* last link; one that has thrown already does so for the link it waits for.
Heard ==
  \E r \in Request :
    /\ ticket[r] > finished
    /\ \/ pc[r] \in {"saving", "sending"}
       \/ pc[r] = "closing" /\ ticket[r] = scheduled

\* The directory, the file or the renaming fails: this link is rejected, and
\* all links after it.  A failure that nobody hears ends the process, which
\* installs no handler of its own for rejections: that is Restart.
FailWrite ==
  /\ writing
  /\ Heard
  /\ broken' = TRUE
  /\ writing' = FALSE
  /\ temp' = {}
  /\ UNCHANGED <<mem, disk, scheduled, finished, requestVars>>

\* Mutant: a rejected link wakes nobody.
SettledIfResolved(n) == n <= finished

\* The n-th link is resolved or rejected.
Settled(n) == n <= finished \/ broken

-----------------------------------------------------------------------------
(* Requests. *)

\* Mutant: a handler changes an object and does not touch its collection.
ChangeUntouched(c, n) == mem' = mem \cup {c} /\ UNCHANGED scheduled

\* Inserts, updates and touches: memory changes and n links are scheduled.
Changed(c, n) == mem' = mem \cup {c} /\ scheduled' = scheduled + n

\* r goes on to a point where it waits for the chain as it is now, having
\* seen memory as it is now.
Await(r, label) ==
  /\ pc' = [pc EXCEPT ![r] = label]
  /\ ticket' = [ticket EXCEPT ![r] = scheduled']
  /\ seen' = [seen EXCEPT ![r] = mem']

StoreUnchanged == UNCHANGED <<disk, temp, writing, finished, broken>>

\* A handler that only reads.
Read(r) ==
  /\ pc[r] = "new"
  /\ UNCHANGED <<mem, scheduled>>
  /\ Await(r, "sending")
  /\ StoreUnchanged

\* A handler that changes memory, with or without withTransaction.
Handle(r) ==
  /\ pc[r] = "new"
  /\ \E n \in 1..MaxLinks : Changed(<<r, 1>>, n)
  /\ Await(r, "sending")
  /\ StoreUnchanged

\* POST evidence inserts the row and saves; so does a refresh with a token
\* that was revoked, which revokes its family.
Save(r) ==
  /\ pc[r] = "new"
  /\ \E n \in 1..MaxLinks : Changed(<<r, 1>>, n)
  /\ Await(r, "saving")
  /\ StoreUnchanged

\* Then evidence adds its audit row, refresh throws, and either throws if the
\* save did.
Saved(r) ==
  /\ pc[r] = "saving"
  /\ Settled(ticket[r])
  /\ \/ /\ ticket[r] <= finished
        /\ Changed(<<r, 2>>, 1)
        /\ Await(r, "sending")
     \/ /\ UNCHANGED <<mem, scheduled>>
        /\ Await(r, "closing")
  /\ StoreUnchanged

\* A request to reset a password inserts the token and sends the mail.  On a
\* broken chain the new link is rejected while nobody waits for any: Restart.
Mail(r) ==
  /\ pc[r] = "new"
  /\ ~broken
  /\ Changed(<<r, 1>>, 1)
  /\ Await(r, "mailing")
  /\ StoreUnchanged

\* If the mail cannot be sent, the token is marked as used and the handler throws.
Mailed(r) ==
  /\ pc[r] = "mailing"
  /\ \/ /\ UNCHANGED <<mem, scheduled>>
        /\ Await(r, "sending")
     \/ /\ Changed(<<r, 2>>, 1)
        /\ Await(r, "closing")
  /\ StoreUnchanged

Finish(r, label) ==
  /\ pc' = [pc EXCEPT ![r] = label]
  /\ UNCHANGED <<mem, disk, chainVars, ticket, seen>>

\* Mutant: the answer does not wait for the chain.
SendAtOnce(r) == pc[r] = "sending" /\ Finish(r, "ok")

\* sendJson, when its flush is settled: the answer, or an error if it was rejected.
Send(r) ==
  /\ pc[r] = "sending"
  /\ Settled(ticket[r])
  /\ Finish(r, IF ticket[r] <= finished THEN "ok" ELSE "error")

\* A handler that threw: sendError has answered, and handle waits for the
\* chain before it ends.
Close(r) ==
  /\ pc[r] = "closing"
  /\ Settled(ticket[r])
  /\ Finish(r, "error")

-----------------------------------------------------------------------------
(* The process dies and starts again.  It also dies of a rejection nobody    *)
(* handles: of a write that fails when no request waits for it (of a seed,   *)
(* or while a mail is delivered), or of a health check on a broken chain.    *)

Restart ==
  /\ mem' = Loaded(disk)
  /\ scheduled' \in SeedLinks(disk)
  /\ finished' = 0
  /\ broken' = FALSE
  /\ writing' = FALSE
  /\ temp' = {}
  /\ pc' = [r \in Request |-> IF pc[r] \in Waiting THEN "lost" ELSE pc[r]]
  /\ UNCHANGED <<disk, ticket, seen>>

-----------------------------------------------------------------------------
Step(r) == Saved(r) \/ Mailed(r) \/ Send(r) \/ Close(r)

Next ==
  \/ StartWrite \/ FinishWrite \/ FailWrite
  \/ \E r \in Request : Read(r) \/ Handle(r) \/ Save(r) \/ Mail(r) \/ Step(r)
  \/ Restart

Spec == Init /\ [][Next]_vars

(***************************************************************************)
(* Fairness.  The runtime starts a link when the one before it is          *)
(* resolved, file system calls return, a handler goes on when its promise  *)
(* is settled, and the delivery of a mail is aborted by a timeout of its   *)
(* own.  Nothing makes a request arrive, a write fail or a process die.    *)
(***************************************************************************)
Fairness ==
  /\ WF_vars(StartWrite)
  /\ WF_vars(FinishWrite \/ FailWrite)
  /\ \A r \in Request : WF_vars(Step(r))

FairSpec == Spec /\ Fairness

TypeOK ==
  /\ mem \subseteq Change
  /\ disk \subseteq Change
  /\ temp \subseteq Change
  /\ writing \in BOOLEAN
  /\ broken \in BOOLEAN
  /\ scheduled \in Nat
  /\ finished \in Nat
  /\ pc \in [Request -> PC]
  /\ ticket \in [Request -> Nat]
  /\ seen \in [Request -> SUBSET Change]

-----------------------------------------------------------------------------
(* Safety. *)

\* An answer of success rests on nothing that a restart could undo: neither a
\* change the handler made itself nor one of another request that it read in
\* memory, whichever writes have failed, overlapped or been lost since.
ShownIsDurable == \A r \in Request : pc[r] = "ok" => seen[r] \subseteq disk

Shown == UNION {seen[r] : r \in {q \in Request : pc[q] = "ok"}}

Promise == INSTANCE DurableStore WITH stored <- disk, shown <- Shown

\* Memory, chain, file and restarts together keep the promise of DurableStore:
\* the file never loses what it had, though each write replaces all of it, and
\* nothing is shown before it is there.
ImplementsDurableStore == Promise!Spec

(***************************************************************************)
(* The inductive invariant.                                                *)
(***************************************************************************)

\* The file is behind the write under way, which is behind memory.
FileIsBehindMemory ==
  /\ disk \subseteq mem
  /\ writing => disk \subseteq temp /\ temp \subseteq mem

\* Writes stay within the chain, and a broken chain has a link that was
\* rejected and writes nothing.
ChainInOrder ==
  /\ finished <= scheduled
  /\ broken => finished < scheduled
  /\ writing => ~broken /\ finished < scheduled

\* A request in flight waits for a link that carries what it has seen: its
\* changes were made before that link's write begins.
TicketCarriesSeen ==
  \A r \in Request :
    pc[r] \in Waiting =>
      /\ ticket[r] <= scheduled
      /\ seen[r] \subseteq mem
      /\ ticket[r] <= finished => seen[r] \subseteq disk
      /\ ticket[r] = finished + 1 /\ writing => seen[r] \subseteq temp

\* When the chain is at rest, memory and file are the same; while the last
\* write is under way, memory is what it writes.
RestMeansSaved ==
  ~broken =>
    /\ finished = scheduled => mem = disk
    /\ writing /\ finished + 1 = scheduled => mem = temp

FileInv ==
  /\ TypeOK
  /\ FileIsBehindMemory
  /\ ChainInOrder
  /\ TicketCarriesSeen
  /\ RestMeansSaved
  /\ ShownIsDurable

-----------------------------------------------------------------------------
(* Liveness. *)

\* Every request comes to an end, whichever writes fail: no handler waits for
\* ever for a link that was rejected.
EveryRequestIsAnswered ==
  \A r \in Request : (pc[r] \in Waiting) ~> (pc[r] \in Final)

\* No change stays in memory only: it reaches the file, unless a write fails
\* or the process dies.
SavedUnlessBroken ==
  \A c \in Request \X {1, 2} : (c \in mem) ~> (c \in disk \/ c \notin mem \/ broken)
=============================================================================
