----------------------------- MODULE MCIdentity -----------------------------
(* Small instances of Identity for TLC: users and sign-in attempts are alike. *)
EXTENDS Identity, TLC

MCSymmetry == Permutations(Pubkey) \union Permutations(Login) 

=============================================================================
