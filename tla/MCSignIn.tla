----------------------------- MODULE MCSignIn -----------------------------
(* Two people, two verifiers, one redirect URI that parses and one that    *)
(* does not.  The codes are interchangeable.                               *)
EXTENDS SignIn, TLC

Symmetry == Permutations(Requests) \cup Permutations(Codes)

===========================================================================
