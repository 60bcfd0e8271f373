----------------------------- MODULE MCUploads -----------------------------
(***************************************************************************)
(* Small instances of Uploads for TLC.                                     *)
(***************************************************************************)
EXTENDS Uploads, TLC

CONSTANTS u1, u2, j1, t1, t2

\* Two objects that pass for t1, one of them without a content
\* type; one that is not what it says; one that is too large.
SomeObjects ==
  { [type |-> t1, size |-> 1, looks |-> {t1}],
    [type |-> NoType, size |-> 2, looks |-> {t1, t2}],
    [type |-> t1, size |-> 2, looks |-> {t2}],
    [type |-> t1, size |-> 3, looks |-> {t1}] }

FirstUser == [j \in {j1} |-> u1]

Symmetry == Permutations(Request)
=============================================================================
