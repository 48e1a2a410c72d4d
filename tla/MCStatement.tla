---------------------------- MODULE MCStatement ----------------------------
(***************************************************************************)
(* An instance of Statement, with the search of House beside it, for TLC.  *)
(***************************************************************************)
EXTENDS Statement

BothSearches == {"anywhere", "shelter"}
Rails == {<<"nosana", "modal">>, <<"other">>}
FarApart == {0, 2}

=============================================================================
