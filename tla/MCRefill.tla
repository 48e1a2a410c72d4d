------------------------------ MODULE MCRefill ------------------------------
(***************************************************************************)
(* Instances of Refill for TLC.  One unit of SOL stands for 0.005, so that *)
(* UnitTarget.sol = SubFloor = 1 are the cap and the floor of the          *)
(* transfer, and SwapFloor = 4 and Requested = 2 those of the swap.        *)
(***************************************************************************)
EXTENDS Refill

UnitTarget == [nos |-> 2, sol |-> 1]

Start(b, on, os, sn, ss) ==
  [base |-> b, owner |-> [nos |-> on, sol |-> os], sub |-> [nos |-> sn, sol |-> ss]]

\* Poor; rich on Base only; stocked for a swap; able to pay directly; able to
\* pay but for the treasury's own floor; short of SOL only, with NOS refunded
\* above the cap.
AllStarts ==
  {Start(1, 0, 0, 0, 0), Start(5, 0, 0, 0, 0), Start(2, 0, 6, 1, 1),
   Start(0, 2, 3, 0, 0), Start(4, 2, 1, 0, 0),
   Start(1, 0, 3, 3, 0)}

=============================================================================
