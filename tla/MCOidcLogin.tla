----------------------------- MODULE MCOidcLogin -----------------------------
(***************************************************************************)
(* An instance of OidcLogin for TLC; the constants are in the .cfg file.    *)
(***************************************************************************)
EXTENDS OidcLogin, TLC

Symmetry == Permutations(Login) \cup Permutations(Code)
            \cup Permutations(Call) \cup Permutations(User)
=============================================================================
