----------------------------- MODULE MCAccounts -----------------------------
(* Accounts on a small instance: two requests at a time, three identities. *)
EXTENDS Accounts, TLC

Alike == Permutations(Workers) \cup Permutations(Google)

=============================================================================
