----------------------------- MODULE MCSessions -----------------------------
(* Instances of Sessions for TLC. Worker threads are interchangeable, and  *)
(* so are the requests that only read; liveness is checked without that.    *)
EXTENDS Sessions, TLC

Symmetry == Permutations(Thread) \cup Permutations(Req \ Writes)
=============================================================================
