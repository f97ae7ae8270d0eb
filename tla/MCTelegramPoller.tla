-------------------------- MODULE MCTelegramPoller --------------------------
(* TelegramPoller on a small instance.  Two updates leave at most two      *)
(* owner tokens in the journal, so a third is always free.                 *)
EXTENDS TelegramPoller, TLC

CONSTANTS o1, o2, o3

OwnerSymmetry == Permutations({o1, o2, o3})
=============================================================================
