--------------------------- MODULE MCCharSession ---------------------------
(* Instances of CharSession for TLC. *)
EXTENDS CharSession, TLC

CONSTANTS c1, c2, a1, a2, f1, f2

\* Two clients at different addresses, or behind one.
TwoAddresses == (c1 :> a1) @@ (c2 :> a2)
OneAddress   == (c1 :> a1) @@ (c2 :> a1)

\* The descriptors are interchangeable (safety runs only).
FdSymmetry == Permutations({f1, f2})
=============================================================================
