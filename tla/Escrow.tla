------------------------------- MODULE Escrow -------------------------------
(***************************************************************************)
(* What the marketplace promises about the money of a job, free of how it  *)
(* keeps the promise (tables, an outbox, workers, retries):                *)
(*                                                                         *)
(*   - the platform books a hold only when the money is in escrow;         *)
(*   - the money reaches the provider once, only from escrow, and only     *)
(*     after the owner approved the delivery;                              *)
(*   - the platform books the job as settled only when the provider has    *)
(*     been paid.                                                          *)
(*                                                                         *)
(* The money and the books are two different things: money is moved by the *)
(* payment service provider, the books are rows of the payments table, and *)
(* either may lag behind the other.                                        *)
(***************************************************************************)
CONSTANT Job

VARIABLES
  money,   \* money[j]: where the money of job j is
  book     \* book[j]: what the platform's books say of it

vars == <<money, book>>

Init == /\ money = [j \in Job |-> "client"]
        /\ book  = [j \in Job |-> "open"]

Hold(j) ==
  /\ money[j] = "client"
  /\ money' = [money EXCEPT ![j] = "escrow"]
  /\ UNCHANGED book

Confirm(j) ==
  /\ money[j] = "escrow"
  /\ book[j] = "open"
  /\ book' = [book EXCEPT ![j] = "confirmed"]
  /\ UNCHANGED money

Approve(j) ==
  /\ book[j] = "confirmed"
  /\ book' = [book EXCEPT ![j] = "approved"]
  /\ UNCHANGED money

Pay(j) ==
  /\ money[j] = "escrow"
  /\ book[j] = "approved"
  /\ money' = [money EXCEPT ![j] = "provider"]
  /\ UNCHANGED book

Settle(j) ==
  /\ money[j] = "provider"
  /\ book[j] = "approved"
  /\ book' = [book EXCEPT ![j] = "settled"]
  /\ UNCHANGED money

Next == \E j \in Job : Hold(j) \/ Confirm(j) \/ Approve(j) \/ Pay(j) \/ Settle(j)

Spec == Init /\ [][Next]_vars
=============================================================================
