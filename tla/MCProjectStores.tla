---------------------------- MODULE MCProjectStores ----------------------------
(* ProjectStores on small instances.                                       *)
EXTENDS ProjectStores, TLC

CONSTANTS pa, pb, ca, cb, cc, r1, r2, none

Projects2 == {pa, pb}
Companies3 == {ca, cb, cc}
TwoCompanies == {ca, cb}
Homes == (pa :> ca) @@ (pb :> none)
OldProjects == {pa}
Requests2 == {r1, r2}
Sym == Permutations(Requests2)
=============================================================================
