----------------------------- MODULE Collections -----------------------------
(* Functions put together and sequences filtered, in forms theorems can be  *)
(* proved about: TLC's @@ and SelectSeq are opaque to the provers.          *)
EXTENDS Naturals, Sequences

(* f, and g where f says nothing.                                          *)
Extended(f, g) == [x \in DOMAIN f \cup DOMAIN g |-> IF x \in DOMAIN f THEN f[x] ELSE g[x]]

(* The entries of s that are in S, in their order.                         *)
Those(s, S) ==
  LET those[n \in 0..Len(s)] ==
        IF n = 0 THEN <<>> ELSE IF s[n] \in S THEN Append(those[n - 1], s[n]) ELSE those[n - 1]
  IN those[Len(s)]
=============================================================================
