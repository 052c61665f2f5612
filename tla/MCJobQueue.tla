----------------------------- MODULE MCJobQueue -----------------------------
(* Instances of JobQueue for TLC: one job and its file, and two or three   *)
(* goroutines in two worker processes.                                     *)
EXTENDS JobQueue, TLC

CONSTANTS j1, f1, p1, p2, w1, w2, w3

OneFile == j1 :> f1

TwoProcs == w1 :> p1 @@ w2 :> p2
ThreeGoroutines == w1 :> p1 @@ w2 :> p1 @@ w3 :> p2

(* Budgets: the faults named, the given number of times, and no other.     *)
Only(kinds, n) == [k \in Faults |-> IF k \in kinds THEN n ELSE 0]

CrashAndDuplicate == Only({"crash", "duplicate", "apicrash"}, 1)
DuplicatesAndDb == [Only({"duplicate", "db", "answer", "refused", "malformed"}, 1)
                      EXCEPT !["duplicate"] = 2]
LinkAndDb == Only({"drop", "stop", "db", "refused", "lost"}, 1)
OneStop == Only({"stop"}, 1)
OneDuplicate == Only({"duplicate"}, 1)
=============================================================================
