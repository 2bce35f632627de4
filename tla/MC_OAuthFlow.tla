---------------------------- MODULE MC_OAuthFlow ----------------------------
(* Instances of OAuthFlow for TLC.                                          *)
EXTENDS OAuthFlow, TLC

Symmetric ==
    Permutations(Tokens) \cup Permutations(Providers) \cup Permutations(Subjects)
        \cup Permutations(Requests)
=============================================================================
