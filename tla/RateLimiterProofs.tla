-------------------------- MODULE RateLimiterProofs --------------------------
(***************************************************************************)
(* Proofs about RateLimiter, for any numbers of clients and any limits,    *)
(* windows and bound of the maps: its type invariant, how many requests a  *)
(* client gets through within a window, and when the maps are swept.       *)
(***************************************************************************)
EXTENDS RateLimiter, TLAPS

USE LimiterAssumption

\* TypeOK, with the domains of the functions.
Entry(l) == [age : 0 .. Window[l], count : 0 .. Limit[l] + 1]
Counts(l) == [Span(l) -> Nat]
LimiterInv ==
  /\ entries = [l \in Limiter |-> entries[l]]
  /\ \A l \in Limiter : entries[l] \in [Client -> Entry(l)]
  /\ recent = [l \in Limiter |-> recent[l]]
  /\ \A l \in Limiter : recent[l] \in [Client -> Counts(l)]

\* What the code keeps of a client stays an entry, whatever happens to it.
LEMMA EntryKept ==
  ASSUME NEW l \in Limiter, NEW c \in Client, entries[l][c] \in Entry(l)
  PROVE  /\ NoEntry \in Entry(l)
         /\ Counted(l, c) \in Entry(l)
         /\ Older(l, entries[l][c]) \in Entry(l)
<1>1. Limit[l] \in Nat \ {0} /\ Window[l] \in Nat \ {0}
  OBVIOUS
<1>2. NoEntry \in Entry(l) /\ [age |-> 0, count |-> 1] \in Entry(l)
  BY <1>1 DEF NoEntry, Entry
<1>3. Counted(l, c) \in Entry(l)
  BY <1>1, <1>2 DEF Counted, Entry
<1>4. Older(l, entries[l][c]) \in Entry(l)
  BY <1>1 DEF Older, Forgotten, Past, Entry
<1>5. QED BY <1>2, <1>3, <1>4

\* Sweeping takes entries away and adds none.
LEMMA SweptKept ==
  ASSUME NEW l \in Limiter, NEW c \in Client, NEW map \in [Client -> Entry(l)]
  PROVE  Swept(l, c, map) \in [Client -> Entry(l)]
<1>1. NoEntry \in Entry(l)
  BY DEF NoEntry, Entry
<1>2. QED BY <1>1 DEF Swept

\* A map after a request, swept or not.
LEMMA ConsumedKept ==
  ASSUME NEW l \in Limiter, NEW c \in Client, entries[l] \in [Client -> Entry(l)]
  PROVE  Consumed(l, c) \in [Client -> Entry(l)]
<1>1. [entries[l] EXCEPT ![c] = Counted(l, c)] \in [Client -> Entry(l)]
  BY EntryKept
<1>2. QED BY <1>1, SweptKept DEF Consumed

LEMMA OneMoreKept ==
  ASSUME NEW l \in Limiter, NEW c \in Client, recent[l] \in [Client -> Counts(l)]
  PROVE  OneMore(l, c) \in [Client -> Counts(l)]
<1>1. \A k \in Span(l) : recent[l][c][k] + 1 \in Nat
  BY DEF Counts
<1>2. [k \in Span(l) |-> recent[l][c][k] + 1] \in Counts(l)
  BY <1>1 DEF Counts
<1>3. QED BY <1>2 DEF OneMore

-----------------------------------------------------------------------------
(* The invariant. *)

\* Nothing is known of anyone at the start and after a restart.
LEMMA NothingKnown ==
  ASSUME NEW l \in Limiter
  PROVE  /\ NoEntries[l] \in [Client -> Entry(l)]
         /\ NoneRecent[l] \in [Client -> Counts(l)]
<1>1. NoEntry \in Entry(l)
  BY DEF NoEntry, Entry
<1>2. QED BY <1>1 DEF NoEntries, NoneRecent, Counts

LEMMA InvInit ==
  ASSUME Init
  PROVE  LimiterInv
<1>1. entries = [l \in Limiter |-> entries[l]] /\ recent = [l \in Limiter |-> recent[l]]
  BY DEF Init, NoEntries, NoneRecent
<1>2. QED BY <1>1, NothingKnown DEF Init, LimiterInv

LEMMA RequestKeeps ==
  ASSUME LimiterInv, NEW c \in Client, NEW limiters \in SUBSET Limiter, Request(c, limiters)
  PROVE  LimiterInv'
<1>1. /\ entries' = [l \in Limiter |-> entries'[l]]
      /\ \A l \in Limiter : entries'[l] = Consumed(l, c) \/ entries'[l] = entries[l]
  BY DEF Request
<1>2. \A l \in Limiter : entries'[l] \in [Client -> Entry(l)]
  BY <1>1, ConsumedKept DEF LimiterInv
<1>3. /\ recent' = [l \in Limiter |-> recent'[l]]
      /\ \A l \in Limiter : recent'[l] = OneMore(l, c) \/ recent'[l] = recent[l]
  BY DEF Request
<1>4. \A l \in Limiter : recent'[l] \in [Client -> Counts(l)]
  BY <1>3, OneMoreKept DEF LimiterInv
<1>5. QED BY <1>1, <1>2, <1>3, <1>4 DEF LimiterInv

LEMMA TickKeeps ==
  ASSUME LimiterInv, Tick
  PROVE  LimiterInv'
<1>1. /\ entries' = [l \in Limiter |-> entries'[l]]
      /\ recent' = [l \in Limiter |-> recent'[l]]
  BY DEF Tick
<1>2. ASSUME NEW l \in Limiter
      PROVE  entries'[l] \in [Client -> Entry(l)]
  <2>1. entries'[l] = [c \in Client |-> Older(l, entries[l][c])]
    BY DEF Tick
  <2>2. \A c \in Client : entries[l][c] \in Entry(l)
    BY DEF LimiterInv
  <2>3. QED BY <2>1, <2>2, EntryKept
<1>3. ASSUME NEW l \in Limiter
      PROVE  recent'[l] \in [Client -> Counts(l)]
  <2>1. Window[l] \in Nat \ {0} /\ recent[l] \in [Client -> Counts(l)]
    BY DEF LimiterInv
  <2>2. recent'[l] = [c \in Client |->
          [k \in Span(l) |-> IF k = 0 THEN 0 ELSE recent[l][c][k - 1]]]
    BY DEF Tick
  <2>3. \A c \in Client, k \in Span(l) :
          (IF k = 0 THEN 0 ELSE recent[l][c][k - 1]) \in Nat
    <3>1. TAKE c \in Client, k \in Span(l)
    <3>2. recent[l][c] \in [Span(l) -> Nat]
      BY <2>1 DEF Counts
    <3>3. k # 0 => k - 1 \in Span(l)
      BY <2>1 DEF Span
    <3>4. QED BY <3>2, <3>3
  <2>4. QED BY <2>2, <2>3 DEF Counts
<1>4. QED BY <1>1, <1>2, <1>3 DEF LimiterInv

LEMMA RestartKeeps ==
  ASSUME Restart
  PROVE  LimiterInv'
<1>1. entries' = [l \in Limiter |-> entries'[l]] /\ recent' = [l \in Limiter |-> recent'[l]]
  BY DEF Restart, NoEntries, NoneRecent
<1>2. QED BY <1>1, NothingKnown DEF Restart, LimiterInv

LEMMA InvNext ==
  ASSUME LimiterInv, [Next]_vars
  PROVE  LimiterInv'
<1>1. CASE \E c \in Client : AuthRequest(c) \/ OtherRequest(c)
  BY <1>1, RequestKeeps DEF AuthRequest, OtherRequest, Limiter
<1>2. CASE Tick
  BY <1>2, TickKeeps
<1>3. CASE Restart
  BY <1>3, RestartKeeps
<1>4. CASE UNCHANGED vars
  BY <1>4 DEF vars, LimiterInv
<1>5. QED BY <1>1, <1>2, <1>3, <1>4 DEF Next

-----------------------------------------------------------------------------
(* The sweep. *)

\* What one limiter's step must not do.
Sweeps(l) ==
  Cardinality(Known(entries'[l])) > MaxEntries /\ Known(entries'[l]) # Known(entries[l])
    => \A c \in Known(entries'[l]) : ~Past(l, entries'[l][c])

\* A request leaves a map as it was, or small enough, or without windows that
\* have gone by.
LEMMA RequestSweeps ==
  ASSUME NEW c \in Client, NEW limiters, Request(c, limiters), NEW l \in Limiter
  PROVE  Sweeps(l)
<1>1. CASE entries'[l] = entries[l]
  BY <1>1 DEF Sweeps
<1>2. CASE entries'[l] = Consumed(l, c)
  <2> DEFINE map == [entries[l] EXCEPT ![c] = Counted(l, c)]
  <2>1. entries'[l] = Swept(l, c, map)
    BY <1>2 DEF Consumed
  <2>2. CASE Cardinality(Known(map)) > MaxEntries
    <3>1. entries'[l] = [d \in Client |-> IF Past(l, map[d]) THEN NoEntry ELSE map[d]]
      BY <2>1, <2>2 DEF Swept
    <3>2. \A d \in Client : entries'[l][d] # NoEntry => entries'[l][d] = map[d] /\ ~Past(l, map[d])
      BY <3>1
    <3>3. QED BY <3>2 DEF Sweeps, Known
  <2>3. CASE ~(Cardinality(Known(map)) > MaxEntries)
    <3>1. entries'[l] = map
      BY <2>1, <2>3 DEF Swept
    <3>2. QED BY <2>3, <3>1, Zenon DEF Sweeps
  <2>4. QED BY <2>2, <2>3
<1>3. QED BY <1>1, <1>2 DEF Request

\* A tick makes nobody known and nobody unknown.
LEMMA TickSweeps ==
  ASSUME LimiterInv, Tick, NEW l \in Limiter
  PROVE  Sweeps(l)
<1>1. \A c \in Client : entries[l][c] \in Entry(l)
  BY DEF LimiterInv
<1>2. \A c \in Client : entries'[l][c] = Older(l, entries[l][c])
  BY DEF Tick
<1>3. ASSUME NEW e \in Entry(l)
      PROVE  Older(l, e) # NoEntry <=> e # NoEntry
  BY DEF Older, Forgotten, Entry, NoEntry
<1>4. Known(entries'[l]) = Known(entries[l])
  BY <1>1, <1>2, <1>3 DEF Known
<1>5. QED BY <1>4 DEF Sweeps

\* After a restart nobody is known.
LEMMA RestartSweeps ==
  ASSUME Restart, NEW l \in Limiter
  PROVE  Sweeps(l)
<1>1. Known(entries'[l]) = {}
  BY DEF Restart, NoEntries, Known
<1>2. QED BY <1>1 DEF Sweeps

-----------------------------------------------------------------------------
(* How many requests get through. *)

CountingInv == LimiterInv /\ RecentIsCounted

\* Of what an entry stands for, at most twice the limit lies within a span.
LEMMA FitsBound ==
  ASSUME NEW l \in Limiter, NEW e \in Entry(l), NEW n \in Counts(l), Fits(l, e, n)
  PROVE  n[Window[l] - 1] <= 2 * Limit[l]
<1>1. Window[l] - 1 \in Span(l) /\ Limit[l] \in Nat \ {0}
  BY DEF Span
<1>2. PassedIn(l, e) \in Nat /\ PassedIn(l, e) <= Limit[l]
  BY <1>1 DEF PassedIn, Entry
<1>3. n[Window[l] - 1] \in Nat
  BY <1>1 DEF Counts
<1>4. n[Window[l] - 1] <= PassedIn(l, e) + Limit[l] \/ n[Window[l] - 1] <= Limit[l]
  BY <1>1, <1>2, <1>3 DEF Fits
<1>5. QED BY <1>1, <1>2, <1>3, <1>4

\* consume counts a request if and only if it lets it pass.
LEMMA FitsCounted ==
  ASSUME NEW l \in Limiter, NEW c \in Client, entries[l][c] \in Entry(l),
         NEW n \in Counts(l), Fits(l, entries[l][c], n)
  PROVE  Fits(l, Counted(l, c), IF Passes(l, c) THEN [k \in Span(l) |-> n[k] + 1] ELSE n)
<1> DEFINE e == entries[l][c]
           m == [k \in Span(l) |-> n[k] + 1]
<1>1. /\ Limit[l] \in Nat \ {0} /\ 0 \in Span(l)
      /\ \A k \in Span(l) : k \in Nat /\ n[k] \in Nat
  <2>1. Limit[l] \in Nat \ {0} /\ Window[l] \in Nat \ {0}
    OBVIOUS
  <2>2. QED BY <2>1 DEF Span, Counts
<1>2. e.age \in Nat /\ e.count \in Nat /\ e.count <= Limit[l] + 1
  BY <1>1 DEF Entry
<1>3. CASE Forgotten(l, e)
  <2>1. Counted(l, c) = [age |-> 0, count |-> 1] /\ Passes(l, c)
    BY <1>1, <1>3 DEF Counted, Passes
  <2>2. ~Forgotten(l, Counted(l, c)) /\ PassedIn(l, Counted(l, c)) = 1
    BY <1>1, <2>1 DEF Forgotten, NoEntry, Past, PassedIn
  <2>3. \A k \in Span(l) : m[k] <= 1 + (IF k <= 0 THEN 0 ELSE Limit[l])
    BY <1>1, <1>3 DEF Fits
  <2>4. QED BY <2>1, <2>2, <2>3 DEF Fits
<1>4. CASE ~Forgotten(l, e)
  <2>1. \A k \in Span(l) : n[k] <= PassedIn(l, e) + (IF k <= e.age THEN 0 ELSE Limit[l])
    BY <1>4 DEF Fits
  <2>2. CASE e.count > Limit[l]
    <3>1. Counted(l, c) = e /\ ~Passes(l, c)
      BY <1>1, <1>2, <1>4, <2>2 DEF Counted, Passes
    <3>2. QED BY <3>1
  <2>3. CASE ~(e.count > Limit[l])
    <3>1. Counted(l, c) = [age |-> e.age, count |-> e.count + 1]
      BY <1>1, <1>2, <1>4, <2>3 DEF Counted, Entry
    <3>2. ~Forgotten(l, Counted(l, c))
      BY <1>2, <1>4, <3>1 DEF Forgotten, Past, NoEntry
    <3>3. CASE Passes(l, c)
      <4>1. PassedIn(l, Counted(l, c)) = PassedIn(l, e) + 1 /\ PassedIn(l, e) \in Nat
        BY <1>1, <1>2, <3>1, <3>3 DEF PassedIn, Passes
      <4>2. \A k \in Span(l) :
              m[k] <= PassedIn(l, Counted(l, c)) + (IF k <= e.age THEN 0 ELSE Limit[l])
        BY <1>1, <1>2, <2>1, <4>1
      <4>3. QED BY <3>1, <3>2, <3>3, <4>2 DEF Fits
    <3>4. CASE ~Passes(l, c)
      <4>1. PassedIn(l, Counted(l, c)) = PassedIn(l, e)
        BY <1>1, <1>2, <2>3, <3>1, <3>4 DEF PassedIn, Passes
      <4>2. QED BY <2>1, <3>1, <3>2, <3>4, <4>1 DEF Fits
    <3>5. QED BY <3>3, <3>4
  <2>4. QED BY <2>2, <2>3
<1>5. QED BY <1>3, <1>4

\* Time makes no window count less than it let pass.
LEMMA FitsOlder ==
  ASSUME NEW l \in Limiter, NEW e \in Entry(l), NEW n \in Counts(l), Fits(l, e, n)
  PROVE  Fits(l, Older(l, e), [k \in Span(l) |-> IF k = 0 THEN 0 ELSE n[k - 1]])
<1> DEFINE m == [k \in Span(l) |-> IF k = 0 THEN 0 ELSE n[k - 1]]
<1>1. /\ Limit[l] \in Nat \ {0} /\ Window[l] \in Nat \ {0} /\ 0 \in Span(l)
      /\ \A k \in Span(l) : k \in Nat /\ k < Window[l] /\ n[k] \in Nat
      /\ \A k \in Span(l) : k # 0 => k - 1 \in Span(l)
  BY DEF Span, Counts
<1>2. e.age \in Nat /\ e.count \in Nat /\ PassedIn(l, e) \in Nat /\ PassedIn(l, e) <= Limit[l]
  BY <1>1 DEF Entry, PassedIn
<1>3. CASE Forgotten(l, e)
  <2>1. Older(l, e) = e /\ m[0] = 0
    BY <1>1, <1>3 DEF Older
  <2>2. \A k \in Span(l) : m[k] <= Limit[l]
    BY <1>1, <1>3 DEF Fits
  <2>3. QED BY <1>3, <2>1, <2>2 DEF Fits
<1>4. CASE ~Forgotten(l, e)
  <2>1. Older(l, e) = [age |-> e.age + 1, count |-> e.count]
    BY <1>4 DEF Older, Entry
  <2>2. \A k \in Span(l) : n[k] <= PassedIn(l, e) + (IF k <= e.age THEN 0 ELSE Limit[l])
    BY <1>4 DEF Fits
  <2>3. \A k \in Span(l) : m[k] <= PassedIn(l, e) + (IF k <= e.age + 1 THEN 0 ELSE Limit[l])
    <3>1. TAKE k \in Span(l)
    <3>2. CASE k = 0
      BY <1>1, <1>2, <3>2
    <3>3. CASE k # 0
      <4>1. m[k] = n[k - 1] /\ k - 1 \in Span(l)
        BY <1>1, <3>3
      <4>2. n[k - 1] <= PassedIn(l, e) + (IF k - 1 <= e.age THEN 0 ELSE Limit[l])
        BY <2>2, <4>1
      <4>3. k - 1 <= e.age <=> k <= e.age + 1
        BY <1>1, <1>2
      <4>4. QED BY <4>1, <4>2, <4>3
    <3>4. QED BY <3>2, <3>3
  <2>4. PassedIn(l, Older(l, e)) = PassedIn(l, e)
    BY <2>1 DEF PassedIn
  <2>5. CASE ~Forgotten(l, Older(l, e))
    BY <2>1, <2>3, <2>4, <2>5 DEF Fits
  <2>6. CASE Forgotten(l, Older(l, e))
    <3>1. e.age + 1 >= Window[l]
      BY <1>2, <2>1, <2>6 DEF Forgotten, Past, NoEntry
    <3>2. \A k \in Span(l) : m[k] <= Limit[l]
      <4>1. TAKE k \in Span(l)
      <4>2. k <= e.age + 1
        BY <1>1, <1>2, <3>1
      <4>3. m[k] \in Nat /\ m[k] <= PassedIn(l, e)
        BY <1>1, <1>2, <2>3, <4>2
      <4>4. QED BY <1>1, <1>2, <4>3
    <3>3. m[0] = 0
      BY <1>1
    <3>4. QED BY <2>6, <3>2, <3>3 DEF Fits
  <2>7. QED BY <2>5, <2>6
<1>5. QED BY <1>3, <1>4

\* What the sweep forgets stands for the same as no entry.
LEMMA FitsSwept ==
  ASSUME NEW l \in Limiter, NEW c \in Client, NEW map \in [Client -> Entry(l)],
         NEW d \in Client, NEW n, Fits(l, map[d], n)
  PROVE  Fits(l, Swept(l, c, map)[d], n)
<1>1. Swept(l, c, map)[d] = map[d] \/ (Swept(l, c, map)[d] = NoEntry /\ Past(l, map[d]))
  BY DEF Swept
<1>2. QED BY <1>1 DEF Fits, Forgotten

LEMMA RequestCounts ==
  ASSUME CountingInv, NEW c \in Client, NEW limiters \in SUBSET Limiter, Request(c, limiters)
  PROVE  RecentIsCounted'
<1> SUFFICES ASSUME NEW l \in Limiter, NEW d \in Client
             PROVE  Fits(l, entries'[l][d], recent'[l][d])
  BY DEF RecentIsCounted
<1> DEFINE map == [entries[l] EXCEPT ![c] = Counted(l, c)]
           n == recent[l][d]
<1>1. /\ entries[l] \in [Client -> Entry(l)] /\ recent[l] \in [Client -> Counts(l)]
      /\ Fits(l, entries[l][d], n)
  BY DEF CountingInv, LimiterInv, RecentIsCounted
<1>2. CASE entries'[l] = entries[l] /\ recent'[l] = recent[l]
  BY <1>1, <1>2
<1>3. CASE /\ entries'[l] = Consumed(l, c)
           /\ recent'[l] = IF Passes(l, c) THEN OneMore(l, c) ELSE recent[l]
  <2>1. map \in [Client -> Entry(l)]
    BY <1>1, EntryKept
  <2>2. Fits(l, map[d], recent'[l][d])
    <3>1. CASE d # c
      <4>1. map[d] = entries[l][d] /\ recent'[l][d] = n
        BY <1>1, <1>3, <3>1 DEF OneMore
      <4>2. QED BY <1>1, <4>1
    <3>2. CASE d = c
      <4>1. map[d] = Counted(l, c)
        BY <1>1, <3>2
      <4>2. recent'[l][d] = IF Passes(l, c) THEN [k \in Span(l) |-> n[k] + 1] ELSE n
        BY <1>1, <1>3, <3>2 DEF OneMore
      <4>3. QED BY <1>1, <3>2, <4>1, <4>2, FitsCounted
    <3>3. QED BY <3>1, <3>2
  <2>3. entries'[l] = Swept(l, c, map)
    BY <1>3 DEF Consumed
  <2>4. QED BY <2>1, <2>2, <2>3, FitsSwept
<1>4. QED BY <1>2, <1>3 DEF Request

LEMMA TickCounts ==
  ASSUME CountingInv, Tick
  PROVE  RecentIsCounted'
<1> SUFFICES ASSUME NEW l \in Limiter, NEW c \in Client
             PROVE  Fits(l, entries'[l][c], recent'[l][c])
  BY DEF RecentIsCounted
<1>1. /\ entries[l][c] \in Entry(l) /\ recent[l][c] \in Counts(l)
      /\ Fits(l, entries[l][c], recent[l][c])
  BY DEF CountingInv, LimiterInv, RecentIsCounted
<1>2. /\ entries'[l][c] = Older(l, entries[l][c])
      /\ recent'[l][c] = [k \in Span(l) |-> IF k = 0 THEN 0 ELSE recent[l][c][k - 1]]
  BY DEF Tick
<1>3. QED BY <1>1, <1>2, FitsOlder

\* Nobody is known, and the history begins anew with the process.
LEMMA NothingCounted ==
  ASSUME NEW l \in Limiter, NEW c \in Client
  PROVE  Fits(l, NoEntries[l][c], NoneRecent[l][c])
<1>1. 0 \in Span(l) /\ Limit[l] \in Nat
  BY DEF Span
<1>2. QED BY <1>1 DEF Fits, Forgotten, NoEntries, NoneRecent

LEMMA CountingInit ==
  ASSUME Init
  PROVE  CountingInv
BY InvInit, NothingCounted DEF CountingInv, RecentIsCounted, Init

LEMMA CountingNext ==
  ASSUME CountingInv, [Next]_vars
  PROVE  CountingInv'
<1>1. LimiterInv'
  BY InvNext DEF CountingInv
<1>2. CASE \E c \in Client : AuthRequest(c) \/ OtherRequest(c)
  BY <1>1, <1>2, RequestCounts DEF AuthRequest, OtherRequest, Limiter, CountingInv
<1>3. CASE Tick
  BY <1>1, <1>3, TickCounts DEF CountingInv
<1>4. CASE Restart
  BY <1>1, <1>4, NothingCounted DEF Restart, CountingInv, RecentIsCounted
<1>5. CASE UNCHANGED vars
  BY <1>1, <1>5 DEF vars, CountingInv, RecentIsCounted
<1>6. QED BY <1>2, <1>3, <1>4, <1>5 DEF Next

-----------------------------------------------------------------------------
(* The results. *)

\* Whatever the limits, the windows and the number of clients: ages and
\* counts stay within what consume tells apart.
THEOREM TypeCorrect == Spec => []TypeOK
<1>1. Init => LimiterInv
  BY InvInit
<1>2. LimiterInv /\ [Next]_vars => LimiterInv'
  BY InvNext
<1>3. LimiterInv => TypeOK
  BY DEF LimiterInv, TypeOK, Entry, Counts
<1>4. QED BY <1>1, <1>2, <1>3, PTL DEF Spec

\* However a client's requests fall on two windows, whoever's entries are
\* swept in between, and whatever the limits: within a span as long as a
\* window consume lets no more than twice the limit pass.
THEOREM NobodyPassesMore == Spec => []AtMostTwiceTheLimit
<1>1. Init => CountingInv
  BY CountingInit
<1>2. CountingInv /\ [Next]_vars => CountingInv'
  BY CountingNext
<1>3. ASSUME CountingInv
      PROVE  AtMostTwiceTheLimit
  <2> SUFFICES ASSUME NEW l \in Limiter, NEW c \in Client
               PROVE  recent[l][c][Window[l] - 1] <= 2 * Limit[l]
    BY DEF AtMostTwiceTheLimit
  <2>1. /\ entries[l][c] \in Entry(l) /\ recent[l][c] \in Counts(l)
        /\ Fits(l, entries[l][c], recent[l][c])
    BY <1>3 DEF CountingInv, LimiterInv, RecentIsCounted
  <2>2. QED BY <2>1, FitsBound
<1>4. CountingInv => AtMostTwiceTheLimit
  BY <1>3
<1>5. QED BY <1>1, <1>2, <1>4, PTL DEF Spec

\* However many clients come and however large a map may get, a step of
\* consume that leaves it above its bound leaves no window in it that has gone
\* by: what exceeds the bound is clients that are active now.
THEOREM MapsAreSwept == Spec => SweptWhenLarge
<1>1. Init => LimiterInv
  BY InvInit
<1>2. LimiterInv /\ [Next]_vars => LimiterInv'
  BY InvNext
<1>3. ASSUME LimiterInv, [Next]_vars, NEW l \in Limiter
      PROVE  Sweeps(l)
  <2>1. CASE \E c \in Client : AuthRequest(c) \/ OtherRequest(c)
    BY <2>1, RequestSweeps DEF AuthRequest, OtherRequest
  <2>2. CASE Tick
    BY <1>3, <2>2, TickSweeps
  <2>3. CASE Restart
    BY <2>3, RestartSweeps
  <2>4. CASE UNCHANGED vars
    BY <2>4 DEF vars, Sweeps
  <2>5. QED BY <1>3, <2>1, <2>2, <2>3, <2>4 DEF Next
<1>4. LimiterInv /\ [Next]_vars =>
        [\A l \in Limiter :
           Cardinality(Known(entries'[l])) > MaxEntries /\ Known(entries'[l]) # Known(entries[l])
             => \A c \in Known(entries'[l]) : ~Past(l, entries'[l][c])]_vars
  BY <1>3 DEF Sweeps
<1>5. QED BY <1>1, <1>2, <1>4, PTL DEF Spec, SweptWhenLarge
=============================================================================
