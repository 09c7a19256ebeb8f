---------------------------- MODULE MCElasticPool ----------------------------
(* Instances of ElasticPool; callers and slots are interchangeable (the     *)
(* symmetry is used where only an invariant is checked).                    *)
EXTENDS ElasticPool, TLC

MCSymmetry == Permutations(Callers) \cup Permutations(Slots)
=============================================================================
