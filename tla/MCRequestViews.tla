-------------------------- MODULE MCRequestViews --------------------------
(* Instances of RequestViews for TLC.                                      *)
EXTENDS RequestViews, TLC

(* Every provider offers every service.                                    *)
EveryoneSuits == [r \in Request |-> Provider]

(* Providers are interchangeable, and requests among those of a kind;      *)
(* quotes are numbered.                                                    *)
Symmetry == Permutations(Ownerless) \cup Permutations(Request \ Ownerless)
            \cup Permutations(Provider)
=============================================================================
