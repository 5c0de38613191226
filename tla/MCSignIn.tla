------------------------------ MODULE MCSignIn ------------------------------
(* Two browsers and two requests under way, one account.                   *)
EXTENDS SignIn, TLC

Symmetric == Permutations(Browsers) \cup Permutations(Requests) \cup Permutations(Passkeys)

=============================================================================
