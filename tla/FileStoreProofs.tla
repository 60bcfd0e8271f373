-------------------------- MODULE FileStoreProofs --------------------------
(***************************************************************************)
(* Proofs about FileStore for every number of requests and of links.       *)
(***************************************************************************)
EXTENDS FileStore, TLAPS

USE StoreAssumption

\* A new process has seen its file, and has writes to do if that had no
\* categories.
LEMMA SeedingSchedules ==
  ASSUME NEW file \in SUBSET Change, NEW n \in SeedLinks(file)
  PROVE  n \in Nat /\ (n = 0 => Loaded(file) = file)
BY DEF SeedLinks, Loaded

LEMMA InvInit == Init => FileInv
<1> SUFFICES ASSUME Init PROVE FileInv
  OBVIOUS
<1>1. scheduled \in Nat \ {0} /\ mem = {Base}
  BY DEF Init, SeedLinks, Loaded
<1>2. TypeOK
  BY <1>1 DEF Init, TypeOK, Change, PC
<1>3. TicketCarriesSeen /\ ShownIsDurable
  BY DEF Init, TicketCarriesSeen, ShownIsDurable, Waiting
<1>4. FileIsBehindMemory /\ ChainInOrder /\ RestMeansSaved
  BY <1>1 DEF Init, FileIsBehindMemory, ChainInOrder, RestMeansSaved
<1>5. QED
  BY <1>2, <1>3, <1>4 DEF FileInv

(***************************************************************************)
(* What all steps of a handler that end in a wait have in common: memory   *)
(* grows if at least one link is scheduled, and the request waits for the  *)
(* last link, having seen what memory has become.                          *)
(***************************************************************************)
LEMMA AwaitStep ==
  ASSUME FileInv,
         NEW r \in Request,
         NEW label \in Waiting,
         pc[r] # "ok",
         \/ UNCHANGED <<mem, scheduled>>
         \/ \E c \in Change, n \in Nat \ {0} : Changed(c, n),
         Await(r, label),
         StoreUnchanged
  PROVE  FileInv'
<1> USE DEF FileInv, Await, StoreUnchanged
<1>1. mem \subseteq mem' /\ mem' \subseteq Change /\ scheduled' \in Nat /\ scheduled <= scheduled'
  BY DEF TypeOK, Changed
<1>2. scheduled' = scheduled => mem' = mem
  BY DEF TypeOK, Changed
<1>3. TypeOK'
  BY <1>1 DEF TypeOK, PC
<1>4. FileIsBehindMemory'
  BY <1>1 DEF FileIsBehindMemory
<1>5. ChainInOrder'
  BY <1>1 DEF ChainInOrder, TypeOK
<1>6. RestMeansSaved'
  BY <1>1, <1>2 DEF RestMeansSaved, ChainInOrder, TypeOK
<1>7. TicketCarriesSeen'
  <2> SUFFICES ASSUME NEW q \in Request, pc'[q] \in Waiting
               PROVE  /\ ticket'[q] <= scheduled'
                      /\ seen'[q] \subseteq mem'
                      /\ ticket'[q] <= finished => seen'[q] \subseteq disk
                      /\ ticket'[q] = finished + 1 /\ writing => seen'[q] \subseteq temp
    BY DEF TicketCarriesSeen
  <2>1. CASE q = r
    <3>1. ticket'[q] = scheduled' /\ seen'[q] = mem' BY <2>1 DEF TypeOK
    <3>2. ASSUME scheduled' <= finished PROVE mem' \subseteq disk
      <4>1. scheduled' = scheduled /\ finished = scheduled
        BY <1>1, <3>2 DEF ChainInOrder, TypeOK
      <4>2. QED BY <4>1, <1>2, <3>2 DEF RestMeansSaved, ChainInOrder, TypeOK
    <3>3. ASSUME scheduled' = finished + 1, writing PROVE mem' \subseteq temp
      <4>1. scheduled' = scheduled /\ ~broken
        BY <1>1, <3>3 DEF ChainInOrder, TypeOK
      <4>2. QED BY <4>1, <1>2, <3>3 DEF RestMeansSaved
    <3>4. QED BY <1>1, <3>1, <3>2, <3>3
  <2>2. CASE q # r
    <3>1. pc[q] \in Waiting /\ ticket'[q] = ticket[q] /\ seen'[q] = seen[q] BY <2>2 DEF TypeOK
    <3>2. QED BY <1>1, <3>1 DEF TicketCarriesSeen, TypeOK
  <2>3. QED BY <2>1, <2>2
<1>8. ShownIsDurable'
  BY DEF ShownIsDurable, TypeOK, Waiting
<1>9. QED BY <1>3, <1>4, <1>5, <1>6, <1>7, <1>8

(***************************************************************************)
(* One step per action.                                                    *)
(***************************************************************************)
LEMMA InvStep == FileInv /\ [Next]_vars => FileInv'
<1> SUFFICES ASSUME FileInv, [Next]_vars
             PROVE  FileInv'
  OBVIOUS
<1> USE DEF FileInv, chainVars, requestVars
<1>1. CASE StartWrite
  <2> USE <1>1 DEF StartWrite, Written
  <2>1. TypeOK' BY DEF TypeOK
  <2>2. FileIsBehindMemory' BY DEF FileIsBehindMemory
  <2>3. ChainInOrder' BY DEF ChainInOrder
  <2>4. TicketCarriesSeen' BY DEF TicketCarriesSeen
  <2>5. RestMeansSaved' BY DEF RestMeansSaved
  <2>6. ShownIsDurable' BY DEF ShownIsDurable
  <2>7. QED BY <2>1, <2>2, <2>3, <2>4, <2>5, <2>6
<1>2. CASE FinishWrite
  <2> USE <1>2 DEF FinishWrite
  <2>1. TypeOK'
    <3>1. finished' \in Nat BY DEF TypeOK
    <3>2. disk' \subseteq Change /\ temp' \subseteq Change BY DEF TypeOK
    <3>3. QED BY <3>1, <3>2 DEF TypeOK
  <2>2. FileIsBehindMemory' BY DEF FileIsBehindMemory
  <2>3. ChainInOrder' BY DEF ChainInOrder, TypeOK
  <2>4. TicketCarriesSeen'
    <3> SUFFICES ASSUME NEW q \in Request, pc[q] \in Waiting
                 PROVE  /\ ticket[q] <= scheduled
                        /\ seen[q] \subseteq mem
                        /\ ticket[q] <= finished + 1 => seen[q] \subseteq temp
      BY DEF TicketCarriesSeen
    <3>1. disk \subseteq temp BY DEF FileIsBehindMemory
    <3>2. ticket[q] \in Nat /\ finished \in Nat BY DEF TypeOK
    <3>3. QED BY <3>1, <3>2 DEF TicketCarriesSeen
  <2>5. RestMeansSaved' BY DEF RestMeansSaved, ChainInOrder
  <2>6. ShownIsDurable' BY DEF ShownIsDurable, FileIsBehindMemory
  <2>7. QED BY <2>1, <2>2, <2>3, <2>4, <2>5, <2>6
<1>3. CASE FailWrite
  <2> USE <1>3 DEF FailWrite
  <2>1. TypeOK' BY DEF TypeOK
  <2>2. FileIsBehindMemory' BY DEF FileIsBehindMemory
  <2>3. ChainInOrder' BY DEF ChainInOrder
  <2>4. TicketCarriesSeen' BY DEF TicketCarriesSeen
  <2>5. RestMeansSaved' BY DEF RestMeansSaved
  <2>6. ShownIsDurable' BY DEF ShownIsDurable
  <2>7. QED BY <2>1, <2>2, <2>3, <2>4, <2>5, <2>6
<1>4. ASSUME NEW r \in Request, Read(r) PROVE FileInv'
  BY <1>4, AwaitStep DEF Read, Waiting
<1>5. ASSUME NEW r \in Request, Handle(r) \/ Save(r) PROVE FileInv'
  <2>1. PICK n \in 1..MaxLinks : Changed(<<r, 1>>, n) BY <1>5 DEF Handle, Save
  <2>2. PICK label \in Waiting : Await(r, label) BY <1>5 DEF Handle, Save, Waiting
  <2>3. <<r, 1>> \in Change /\ n \in Nat \ {0} BY DEF Change
  <2>4. pc[r] # "ok" /\ StoreUnchanged BY <1>5 DEF Handle, Save
  <2>5. QED BY <2>1, <2>2, <2>3, <2>4, AwaitStep
<1>6. ASSUME NEW r \in Request, Mail(r) PROVE FileInv'
  <2>1. <<r, 1>> \in Change /\ 1 \in Nat \ {0} BY DEF Change
  <2>2. QED BY <1>6, <2>1, AwaitStep DEF Mail, Waiting
<1>7. ASSUME NEW r \in Request, Saved(r) \/ Mailed(r) PROVE FileInv'
  <2>1. PICK label \in Waiting : Await(r, label) BY <1>7 DEF Saved, Mailed, Waiting
  <2>2. <<r, 2>> \in Change /\ 1 \in Nat \ {0} BY DEF Change
  <2>3. UNCHANGED <<mem, scheduled>> \/ Changed(<<r, 2>>, 1) BY <1>7 DEF Saved, Mailed
  <2>4. pc[r] # "ok" /\ StoreUnchanged BY <1>7 DEF Saved, Mailed
  <2>5. QED BY <2>1, <2>2, <2>3, <2>4, AwaitStep
<1>8. ASSUME NEW r \in Request, Send(r) \/ Close(r) PROVE FileInv'
  <2> USE DEF Finish
  <2>1. PICK label \in {"ok", "error"} :
          Finish(r, label) /\ (label = "ok" => pc[r] \in Waiting /\ ticket[r] <= finished)
    BY <1>8 DEF Send, Close, Waiting
  <2>2. TypeOK' BY <2>1 DEF TypeOK, PC, Final
  <2>3. FileIsBehindMemory' /\ ChainInOrder' /\ RestMeansSaved'
    BY <2>1 DEF FileIsBehindMemory, ChainInOrder, RestMeansSaved
  <2>4. TicketCarriesSeen' BY <2>1 DEF TicketCarriesSeen, TypeOK, Waiting
  <2>5. ShownIsDurable' BY <2>1 DEF ShownIsDurable, TicketCarriesSeen, TypeOK
  <2>6. QED BY <2>2, <2>3, <2>4, <2>5
<1>9. CASE Restart
  <2> USE <1>9 DEF Restart
  <2>1. scheduled' \in Nat /\ (scheduled' = 0 => mem' = disk)
    BY SeedingSchedules DEF TypeOK
  <2>2. TypeOK' BY <2>1 DEF TypeOK, Loaded, Change, PC, Final
  <2>3. FileIsBehindMemory' BY DEF FileIsBehindMemory, Loaded
  <2>4. ChainInOrder' BY <2>1 DEF ChainInOrder
  <2>5. TicketCarriesSeen' BY DEF TicketCarriesSeen, TypeOK, Waiting
  <2>6. RestMeansSaved' BY <2>1 DEF RestMeansSaved
  <2>7. ShownIsDurable' BY DEF ShownIsDurable, TypeOK
  <2>8. QED BY <2>2, <2>3, <2>4, <2>5, <2>6, <2>7
<1>10. CASE UNCHANGED vars
  BY <1>10 DEF vars, TypeOK, FileIsBehindMemory, ChainInOrder, TicketCarriesSeen, RestMeansSaved,
               ShownIsDurable
<1>11. QED
  BY <1>1, <1>2, <1>3, <1>4, <1>5, <1>6, <1>7, <1>8, <1>9, <1>10 DEF Next, Step

\* The invariant holds of every run, so the file is never ahead of memory and
\* every request waits for a write that carries what it has seen.
THEOREM FileStoreInductive == Spec => []FileInv
<1>1. QED
  BY InvInit, InvStep, PTL DEF Spec

\* Whoever is answered with success is told of nothing that a restart undoes.
THEOREM AnswersAreDurable == Spec => []ShownIsDurable
<1>1. FileInv => ShownIsDurable
  BY DEF FileInv
<1>2. QED
  BY <1>1, FileStoreInductive, PTL

\* No wait is in vain: the link that a handler waits for is settled, or it
\* comes at the end of writes of which one is under way or can begin; and what
\* memory has and the file has not is due to be written, unless a link was
\* rejected.
NoWaitIsInVain ==
  /\ \A r \in Request :
       pc[r] \in Waiting => Settled(ticket[r]) \/ (~broken /\ finished < scheduled)
  /\ mem # disk => broken \/ finished < scheduled

\* However requests, writes, failures and restarts follow one another, nobody
\* counts on a write that was never scheduled: this is what the chain has to
\* offer to the fairness of the runtime, which then answers every request and
\* saves every change.
THEOREM NobodyWaitsInVain == Spec => []NoWaitIsInVain
<1>1. ASSUME FileInv
      PROVE  NoWaitIsInVain
  <2>1. ASSUME NEW r \in Request, pc[r] \in Waiting, ~Settled(ticket[r])
        PROVE  ~broken /\ finished < scheduled
    <3>1. ticket[r] \in Nat /\ scheduled \in Nat /\ finished \in Nat /\ ticket[r] <= scheduled
      BY <1>1, <2>1 DEF FileInv, TypeOK, TicketCarriesSeen
    <3>2. QED BY <2>1, <3>1 DEF Settled
  <2>2. ASSUME mem # disk, ~broken
        PROVE  finished < scheduled
    <3>1. finished <= scheduled /\ finished # scheduled
      BY <1>1, <2>2 DEF FileInv, ChainInOrder, RestMeansSaved
    <3>2. QED BY <1>1, <3>1 DEF FileInv, TypeOK
  <2>3. QED BY <2>1, <2>2 DEF NoWaitIsInVain
<1>2. QED BY <1>1, FileStoreInductive, PTL

(***************************************************************************)
(* The refinement: a write that ends stores more, an answer shows more,    *)
(* and every other step, a restart included, is a stutter.                 *)
(***************************************************************************)
LEMMA ShownMembers ==
  /\ \A c : c \in Shown <=> \E r \in Request : pc[r] = "ok" /\ c \in seen[r]
  /\ \A c : c \in Shown' <=> \E r \in Request : pc'[r] = "ok" /\ c \in seen'[r]
BY DEF Shown

LEMMA PromiseInit == Init => Promise!Init
<1> SUFFICES ASSUME Init PROVE disk = {} /\ Shown = {}
  BY DEF Promise!Init
<1>1. QED
  BY ShownMembers DEF Init

LEMMA PromiseStep == FileInv /\ FileInv' /\ [Next]_vars => [Promise!Next]_(Promise!vars)
<1> SUFFICES ASSUME FileInv, FileInv', [Next]_vars
             PROVE  Promise!Store \/ Promise!Show \/ (UNCHANGED <<disk, Shown>>)
  BY DEF Promise!Next, Promise!vars
<1> USE DEF chainVars, requestVars
<1>1. ASSUME UNCHANGED <<pc, seen>> PROVE Shown' = Shown
  BY <1>1 DEF Shown
<1>2. CASE FinishWrite
  <2>1. disk \subseteq disk' /\ disk' \in SUBSET Change
    BY <1>2 DEF FinishWrite, FileInv, FileIsBehindMemory, TypeOK
  <2>2. QED BY <1>1, <1>2, <2>1 DEF FinishWrite, Promise!Store
<1>3. ASSUME NEW r \in Request, Send(r) PROVE Promise!Show \/ UNCHANGED <<disk, Shown>>
  <2> USE <1>3 DEF Send, Finish
  <2>1. Shown' \in SUBSET disk
    BY ShownMembers DEF FileInv, ShownIsDurable
  <2>2. Shown \subseteq Shown'
    BY ShownMembers DEF FileInv, TypeOK
  <2>3. QED BY <2>1, <2>2 DEF Promise!Show
<1>4. ASSUME NEW r \in Request, NEW label \in Waiting \cup {"error"}, pc[r] # "ok",
             pc' = [pc EXCEPT ![r] = label],
             \A q \in Request \ {r} : seen'[q] = seen[q]
      PROVE  Shown' = Shown
  BY <1>4, ShownMembers DEF FileInv, TypeOK, Waiting
<1>5. ASSUME NEW r \in Request, Read(r) \/ Handle(r) \/ Save(r) \/ Mail(r) \/ Saved(r) \/ Mailed(r)
      PROVE  UNCHANGED <<disk, Shown>>
  <2>1. PICK label \in Waiting : Await(r, label)
    BY <1>5 DEF Read, Handle, Save, Mail, Saved, Mailed, Waiting
  <2>2. pc[r] # "ok" /\ UNCHANGED disk
    BY <1>5 DEF Read, Handle, Save, Mail, Saved, Mailed, StoreUnchanged
  <2>3. QED BY <1>4, <2>1, <2>2 DEF Await, FileInv, TypeOK
<1>6. ASSUME NEW r \in Request, Close(r) PROVE UNCHANGED <<disk, Shown>>
  BY <1>4, <1>6 DEF Close, Finish
<1>7. CASE Restart
  BY <1>7, ShownMembers DEF Restart, FileInv, TypeOK, Waiting
<1>8. CASE StartWrite \/ FailWrite \/ UNCHANGED vars
  BY <1>1, <1>8 DEF StartWrite, FailWrite, vars
<1>9. QED
  BY <1>2, <1>3, <1>5, <1>6, <1>7, <1>8 DEF Next, Step

\* FileStore implements DurableStore: the file only grows, whatever fails or
\* restarts, and nothing is shown that is not in it.
THEOREM FileKeepsPromise == Spec => ImplementsDurableStore
<1>1. QED
  BY PromiseInit, PromiseStep, FileStoreInductive, PTL DEF Spec, ImplementsDurableStore, Promise!Spec
=============================================================================
