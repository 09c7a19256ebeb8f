----------------------------- MODULE MCAccounts -----------------------------
(* Instance of Accounts: symmetric instances and requests.                  *)
EXTENDS Accounts, TLC

MCSymmetry == Permutations(Instances) \cup Permutations(Creators)
=============================================================================
