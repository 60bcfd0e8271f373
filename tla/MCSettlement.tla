---------------------------- MODULE MCSettlement ----------------------------
(***************************************************************************)
(* Small instances of Settlement for TLC.  An instance is chosen by the    *)
(* tables of rows the .cfg files pick: which jobs there are and who owns   *)
(* them, which offers may be made, by whom and at what price.              *)
(***************************************************************************)
EXTENDS Settlement

CONSTANTS olga, paul, pia, j1, j2, o1, o2, o3, w1, w2, w3

Users == {olga, paul, pia}

OlgaOwns == [j \in Job |-> olga]

\* One job: two offers of paul at different prices, one of pia between them.
RivalJob   == [o \in Offer |-> j1]
RivalBy    == [o \in Offer |-> IF o = o2 THEN pia ELSE paul]
RivalPrice == [o \in Offer |-> IF o = o1 THEN 1 ELSE IF o = o2 THEN 2 ELSE 3]

\* Two jobs with one offer each, both of paul.
PairJob   == [o \in Offer |-> IF o = o1 THEN j1 ELSE j2]
PairBy    == [o \in Offer |-> paul]
PairPrice == [o \in Offer |-> 1]

\* Two jobs: on the first the offers of two providers, on the second one more.
MixedJob == [o \in Offer |-> IF o = o3 THEN j2 ELSE j1]
=============================================================================
