---------------------------- MODULE MCSeatCommit ----------------------------
(* SeatCommit on a small instance: t1 declares both paths and has two       *)
(* attempts, t2 one path and one attempt; only t2's seat writes late, on a  *)
(* path t2 does not declare.                                                *)
EXTENDS SeatCommit

CONSTANTS t1, t2, f, g

MCDeclared    == [t \in Tasks |-> IF t = t1 THEN Paths ELSE {f}]
MCLate        == [t \in Tasks |-> IF t = t1 THEN {} ELSE {g}]
MCMaxAttempts == [t \in Tasks |-> IF t = t1 THEN 2 ELSE 1]
=============================================================================
