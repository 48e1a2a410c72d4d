---------------------------- MODULE MCAcquireNos ----------------------------
(***************************************************************************)
(* Instances of AcquireNos for TLC.  One unit of SOL stands for 0.0025:    *)
(* Requested = 4 is the default 0.01 and Floor = 8 the default 0.02.       *)
(***************************************************************************)
EXTENDS AcquireNos

HandSolMoves == {-4, 3}
HandNosMoves == {-1, 1}
NoMoves == {}

=============================================================================
