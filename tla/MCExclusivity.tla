---------------------------- MODULE MCExclusivity ----------------------------
(***************************************************************************)
(* Exclusivity on small instances: "acme" is a customer's name, "theCo" a  *)
(* name made of company suffixes, which the stricter normalisation blanks. *)
(***************************************************************************)
EXTENDS Exclusivity, TLC

CONSTANTS c1, c2, acme, theCo, d1, d2, q1, q2

MCNorm ==
    [n \in Name |-> IF n = theCo THEN Blank ELSE "acme"]

RenewedByC2 == {<<c2, acme>>}
NothingDeployed == {}

Symmetric == Permutations(Deal) \cup Permutations(Request)
SymmetricCompanies == Symmetric \cup Permutations(Company)
=============================================================================
