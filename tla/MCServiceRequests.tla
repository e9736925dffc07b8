------------------------- MODULE MCServiceRequests -------------------------
(* Instances of ServiceRequests for TLC.                                   *)
EXTENDS ServiceRequests, TLC

(* Every provider offers every service.                                    *)
EveryoneSuits == [r \in Request |-> Provider]

(* Ids are interchangeable, those of requests among the ownerless and      *)
(* among the others.                                                       *)
Symmetry == Permutations(Ownerless) \cup Permutations(Request \ Ownerless)
            \cup Permutations(Provider) \cup Permutations(Quote)
=============================================================================
