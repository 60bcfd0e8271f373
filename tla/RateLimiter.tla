----------------------------- MODULE RateLimiter -----------------------------
(***************************************************************************)
(* The two fixed-window rate limiters that every request passes in handle  *)
(* before it is routed, in one server process.  Time goes on in ticks; a   *)
(* client is the key that clientKey makes of a request.  Health checks,    *)
(* metrics and preflight requests are not limited and left out.            *)
(*                                                                         *)
(* An operator whose comment begins with "Mutant" is not part of the       *)
(* specification: it is a plausible mistake in the operator after it.      *)
(***************************************************************************)
EXTENDS Integers, FiniteSets

CONSTANTS
  Client,
  Limit, Window,  \* per limiter: requests, and ticks, of a window
  MaxEntries      \* the size of a map above which it is swept (10000)

Limiter == {"auth", "general"}

ASSUME LimiterAssumption ==
  /\ Limit \in [Limiter -> Nat \ {0}]
  /\ Window \in [Limiter -> Nat \ {0}]
  /\ MaxEntries \in Nat

VARIABLES
  entries,  \* authWindows and requestWindows: [age, count], or no entry
  recent    \* history: how many requests of a client each limiter has let
            \* pass in this tick and the k before it, for each k < Window

vars == <<entries, recent>>

\* An entry whose window has gone by is as old as it can get, and a count
\* above the limit as high: the code tells no more apart.
NoEntry == [age |-> 0, count |-> 0]
Past(l, e) == e.age >= Window[l]
Forgotten(l, e) == e = NoEntry \/ Past(l, e)
Span(l) == 0 .. Window[l] - 1
Known(map) == {c \in Client : map[c] # NoEntry}

NoEntries == [l \in Limiter |-> [c \in Client |-> NoEntry]]
NoneRecent == [l \in Limiter |-> [c \in Client |-> [k \in Span(l) |-> 0]]]

Init == entries = NoEntries /\ recent = NoneRecent

\* Mutant: a request that is refused starts the window again.
CountedAnew(l, c) ==
  LET e == entries[l][c] IN
  IF Forgotten(l, e) THEN [age |-> 0, count |-> 1]
  ELSE IF e.count >= Limit[l] THEN [age |-> 0, count |-> Limit[l] + 1]
  ELSE [e EXCEPT !.count = @ + 1]

\* consume: the entry of c with this request, in the window that is open or
\* in a new one.
Counted(l, c) ==
  LET e == entries[l][c] IN
  IF Forgotten(l, e) THEN [age |-> 0, count |-> 1]
  ELSE IF e.count > Limit[l] THEN e
  ELSE [e EXCEPT !.count = @ + 1]

\* Mutant: room is made by forgetting everybody else.
SweptAll(l, c, map) ==
  IF Cardinality(Known(map)) > MaxEntries
  THEN [d \in Client |-> IF d = c THEN map[d] ELSE NoEntry]
  ELSE map

\* Mutant: the map is swept when it is full, before the new entry.
SweptBefore(l, c, map) ==
  IF Cardinality(Known(entries[l])) > MaxEntries
  THEN [d \in Client |-> IF Past(l, map[d]) THEN NoEntry ELSE map[d]]
  ELSE map

\* A map that has grown too large forgets the windows that have gone by.
Swept(l, c, map) ==
  IF Cardinality(Known(map)) > MaxEntries
  THEN [d \in Client |-> IF Past(l, map[d]) THEN NoEntry ELSE map[d]]
  ELSE map

Consumed(l, c) == Swept(l, c, [entries[l] EXCEPT ![c] = Counted(l, c)])
Passes(l, c) == Counted(l, c).count <= Limit[l]

\* A request of c that is let pass now falls into every span that ends now.
OneMore(l, c) == [recent[l] EXCEPT ![c] = [k \in Span(l) |-> recent[l][c][k] + 1]]

\* handle: a request meets these limiters one after the other, as long as it
\* passes.
Request(c, limiters) ==
  LET meets(l) == l \in limiters /\ (l = "general" /\ "auth" \in limiters => Passes("auth", c))
      lets(l) == meets(l) /\ Passes(l, c)
  IN
  /\ entries' = [l \in Limiter |-> IF meets(l) THEN Consumed(l, c) ELSE entries[l]]
  /\ recent' = [l \in Limiter |-> IF lets(l) THEN OneMore(l, c) ELSE recent[l]]

AuthRequest(c) == Request(c, {"auth", "general"})
OtherRequest(c) == Request(c, {"general"})

Older(l, e) == IF Forgotten(l, e) THEN e ELSE [e EXCEPT !.age = @ + 1]

Tick ==
  /\ entries' = [l \in Limiter |-> [c \in Client |-> Older(l, entries[l][c])]]
  /\ recent' = [l \in Limiter |-> [c \in Client |->
                 [k \in Span(l) |-> IF k = 0 THEN 0 ELSE recent[l][c][k - 1]]]]

\* The process ends and is started again; the maps are its own.
Restart == entries' = NoEntries /\ recent' = NoneRecent

Next == (\E c \in Client : AuthRequest(c) \/ OtherRequest(c)) \/ Tick \/ Restart

\* Clocks advance.
Spec == Init /\ [][Next]_vars /\ WF_vars(Tick)

-----------------------------------------------------------------------------
(* Properties. *)

TypeOK ==
  \A l \in Limiter, c \in Client :
    /\ entries[l][c] \in [age : 0 .. Window[l], count : 0 .. Limit[l] + 1]
    /\ recent[l][c] \in [Span(l) -> Nat]

\* However its requests fall on two windows, and whoever's entries are swept
\* in between, a limiter lets no client pass more than twice the limit in a
\* span as long as a window.
AtMostTwiceTheLimit ==
  \A l \in Limiter, c \in Client :
    recent[l][c][Window[l] - 1] <= 2 * Limit[l]

\* A map grows beyond its bound only while every client in it has a window
\* that is open.
SweptWhenLarge ==
  [][\A l \in Limiter :
       Cardinality(Known(entries'[l])) > MaxEntries /\ Known(entries'[l]) # Known(entries[l])
         => \A c \in Known(entries'[l]) : ~Past(l, entries'[l][c])]_vars

\* Nobody is locked out: a client that goes on asking although it is refused
\* will be let pass again.
NobodyIsLockedOut == \A l \in Limiter, c \in Client : []<>Passes(l, c)

-----------------------------------------------------------------------------
(***************************************************************************)
(* The inductive invariant behind AtMostTwiceTheLimit.                     *)
(***************************************************************************)

\* The requests of an open window that were let pass.
PassedIn(l, e) == IF e.count < Limit[l] THEN e.count ELSE Limit[l]

\* n, the requests let pass in each span that ends now, is what an entry e
\* stands for: since an open window began as many as it counts, and no more
\* than the limit before that; without an open window, none in this tick.
Fits(l, e, n) ==
  IF Forgotten(l, e)
  THEN n[0] = 0 /\ \A k \in Span(l) : n[k] <= Limit[l]
  ELSE \A k \in Span(l) : n[k] <= PassedIn(l, e) + (IF k <= e.age THEN 0 ELSE Limit[l])

RecentIsCounted == \A l \in Limiter, c \in Client : Fits(l, entries[l][c], recent[l][c])
=============================================================================
