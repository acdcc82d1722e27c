------------------------------ MODULE MCOAuthStore ------------------------------
(* One or two requests in flight at the credential store. *)
EXTENDS OAuthStore, TLC

CONSTANTS r1, r2

MCPlaces == {<<"d", "x">>, <<"y">>}
MCAsked == {[write |-> FALSE, prefix |-> <<>>], [write |-> TRUE, prefix |-> <<"d">>]}

Interchangeable == Permutations({r1, r2})
=================================================================================
