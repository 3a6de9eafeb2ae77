------------------------------ MODULE MCImports ------------------------------
(* Instances of Imports for TLC.                                           *)
EXTENDS Imports, TLC

CONSTANTS t1, t2, k1, k2, w1, w2, p1, p2, m1

\* Tokens, keys, requests and position files are interchangeable.
Symmetry ==
    Permutations({t1, t2}) \cup Permutations({k1, k2}) \cup Permutations({w1, w2})
    \cup Permutations({p1, p2})
==============================================================================
