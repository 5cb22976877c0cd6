----------------------------- MODULE BlockClock -----------------------------
(***************************************************************************)
(* The clock every contract reads as block.timestamp.  All the contracts   *)
(* of one model share it: a transaction runs at one block time, and        *)
(* between two transactions any number of blocks may pass.                 *)
(***************************************************************************)
EXTENDS Integers

CONSTANT MaxBlockTime    \* bound: the last block time a run explores

ASSUME MaxBlockTimeAssumption == MaxBlockTime \in Nat \ {0}

BlockTimes == 1..MaxBlockTime

VARIABLE blockTime

\* A timestamp of 0 is the value of one not yet taken (Epoch.settledAt: "0 until
\* settled"), so no block is at 0.
FirstBlock == blockTime = 1

Tick == blockTime < MaxBlockTime /\ blockTime' = blockTime + 1
=============================================================================
