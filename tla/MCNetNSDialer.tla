---------------------------- MODULE MCNetNSDialer ----------------------------
(* Small instances of NetNSDialer; dials are interchangeable.               *)
EXTENDS NetNSDialer, TLC

DialSymmetry == Permutations(Dials)
=============================================================================
