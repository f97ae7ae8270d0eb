-------------------------- MODULE MCUpdateJournal --------------------------
(* UpdateJournal on a small instance.  Owners are interchangeable.         *)
EXTENDS UpdateJournal, TLC

CONSTANTS o1, o2

MCOwners == {o1, o2}
OwnerSymmetry == Permutations(MCOwners)
=============================================================================
