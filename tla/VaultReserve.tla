---------------------------- MODULE VaultReserve ----------------------------
(***************************************************************************)
(* What the vault promises the claim path: an abstract ledger with the     *)
(* vault's cash and the part of it reserved for approved claims.  A        *)
(* reserve is taken only out of unreserved cash, LPs leave only with       *)
(* unreserved cash, and a payout draws its own reserve down.               *)
(*                                                                         *)
(* A vault that charges a management fee promises less: collecting the fee *)
(* may draw reserved cash.  InsuranceVault implements this ledger, and     *)
(* ClaimManager is composed with it.                                       *)
(*                                                                         *)
(* The ledger speaks of cash alone.  For a while after the owner locks the *)
(* clock to real time, every call of the vault that accrues a fee reverts, *)
(* a payout too; the vault's own module has that as FeeClockReadable.      *)
(***************************************************************************)
EXTENDS Integers

CONSTANTS MaxCash,          \* bound: the most cash a run explores
          FeesCharged       \* whether the vault charges a management fee

ASSUME LedgerAssumption == /\ MaxCash \in Nat
                           /\ FeesCharged \in BOOLEAN

VARIABLES cash, reserved

ledger == <<cash, reserved>>

LedgerTypeOK == /\ cash \in 0..MaxCash
                /\ reserved \in 0..MaxCash

LedgerInit == cash = 0 /\ reserved = 0

\* Mutant: the reserves already standing are not counted.
TakeReserveOverlapping(amount) ==
    /\ amount <= cash
    /\ reserved' = reserved + amount
    /\ UNCHANGED cash

TakeReserve(amount) ==
    /\ reserved + amount <= cash
    /\ reserved' = reserved + amount
    /\ UNCHANGED cash

ReleaseReserve(amount) ==
    /\ amount <= reserved
    /\ reserved' = reserved - amount
    /\ UNCHANGED cash

PayFromReserve(amount) ==
    /\ amount <= reserved
    /\ amount <= cash
    /\ reserved' = reserved - amount
    /\ cash' = cash - amount

CashIn(amount) ==
    /\ cash + amount <= MaxCash
    /\ cash' = cash + amount
    /\ UNCHANGED reserved

LPExit(amount) ==
    /\ reserved + amount <= cash
    /\ cash' = cash - amount
    /\ UNCHANGED reserved

FeesOut(amount) ==
    /\ FeesCharged
    /\ amount <= cash
    /\ cash' = cash - amount
    /\ UNCHANGED reserved

CashStep == \E amount \in 1..MaxCash :
               CashIn(amount) \/ LPExit(amount) \/ FeesOut(amount)

LedgerNext ==
    \/ \E amount \in 1..MaxCash :
          TakeReserve(amount) \/ ReleaseReserve(amount) \/ PayFromReserve(amount)
    \/ CashStep

LedgerSpec == LedgerInit /\ [][LedgerNext]_ledger

\* A vault without a management fee always covers its claim reserves.
FullyReserved == ~FeesCharged => reserved <= cash
=============================================================================
