----------------------------- MODULE MCDelivery ------------------------------
(***************************************************************************)
(* Delivery with two colleagues at one company, a partner of another, a    *)
(* sales rep and an administrator.  One opportunity is entered by hand and *)
(* staffed, the other is its renewal.                                      *)
(***************************************************************************)
EXTENDS Delivery, TLC

CONSTANTS p1, p2, p3, r1, a1, c1, c2, o1, o2, d1, s1

MCCompanyOf == p1 :> c1 @@ p2 :> c1 @@ p3 :> c2

MCSymmetry == Permutations({p1, p2})
=============================================================================
