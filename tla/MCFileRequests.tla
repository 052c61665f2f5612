--------------------------- MODULE MCFileRequests ---------------------------
(* An instance of FileRequests for TLC: one file, a confirm and retries of *)
(* it, and the faults of the API's side.                                   *)
EXTENDS FileRequests, TLC

CONSTANTS c1, r1, r2, f1, p1, w1

OneFile == [r \in Jobs |-> f1]
OneProc == [w \in Workers |-> p1]
KindOf == [r \in Jobs |-> IF r = c1 THEN "confirm" ELSE "retry"]

ApiFaults ==
  [k \in Faults |-> IF k \in {"answer", "refused", "apicrash"} THEN 1 ELSE 0]
=============================================================================
