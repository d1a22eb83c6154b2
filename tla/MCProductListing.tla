-------------------------- MODULE MCProductListing --------------------------
(* Small instances of ProductListing: limits 0 to 4 with the default 1, the *)
(* cap 2 and the handler's limit 3.                                        *)
EXTENDS ProductListing, TLC

CONSTANTS p1, p2, p3, p4, p5

MCProducts == {p1, p2, p3, p4, p5}
MCExisting == <<p1, p2, p3>>
MCLimits == 0..4
Symmetric == Permutations({p4, p5})
=============================================================================
