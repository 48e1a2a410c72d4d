----------------------------- MODULE MCBootstrap -----------------------------
(***************************************************************************)
(* Instances of Bootstrap for TLC.                                         *)
(***************************************************************************)
EXTENDS Bootstrap

\* Bootstraps that die, with the index down; jobs that queue for long; other
\* transactions; failing requests of the worker; failing requests of the caller.
SomeWorlds == {
  {"death", "index"},
  {"queue"},
  {"traffic"},
  {"search", "outage"},
  {"parting"}}

\* Enough for two jobs, and not enough for one.
SomeWallets == {<<3, 2>>, <<1, 2>>}

=============================================================================
