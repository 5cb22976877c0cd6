--------------------------- MODULE PolicyRegistry ---------------------------
(***************************************************************************)
(* PolicyRegistry.sol: the protocol clock and the lifecycle of policies.   *)
(*                                                                         *)
(* The clock is virtual: currentTime() = block.timestamp + timeOffset.     *)
(* The owner advances the offset until lockRealTime() sets it back to zero *)
(* for ever, which turns currentTime() BACK to the block time.             *)
(***************************************************************************)
EXTENDS BlockClock, FiniteSets

CONSTANTS Policies,      \* policy ids
          Durations,     \* the durations a cedant may register
          OffsetSteps,   \* the seconds one advanceTime() may add
          MaxOffset      \* bound: the largest offset a run explores

ASSUME PolicyAssumption ==
    /\ IsFiniteSet(Policies)
    /\ Durations \subseteq Nat \ {0}
    /\ OffsetSteps \subseteq Nat
    /\ MaxOffset \in Nat

VARIABLES timeOffset, clockLocked,
          policies       \* policies[p]: status, startTime and duration of p

clockVars  == <<timeOffset, clockLocked>>
policyVars == <<timeOffset, clockLocked, policies>>

PolicyStatus == {"NONE", "REGISTERED", "ACTIVE"}

PolicyTypeOK ==
    /\ timeOffset \in 0..MaxOffset
    /\ clockLocked \in BOOLEAN
    /\ policies \in [Policies -> [status    : PolicyStatus,
                                  startTime : Nat,
                                  duration  : Nat]]

PolicyInit ==
    /\ timeOffset = 0
    /\ clockLocked = FALSE
    /\ policies = [p \in Policies |->
                     [status |-> "NONE", startTime |-> 0, duration |-> 0]]

CurrentTime == blockTime + timeOffset

\* Mutant: a policy expires one second early.
IsPolicyExpiredEarly(p) ==
    /\ policies[p].status = "ACTIVE"
    /\ CurrentTime + 1 >= policies[p].startTime + policies[p].duration

IsPolicyExpired(p) ==
    /\ policies[p].status = "ACTIVE"
    /\ CurrentTime >= policies[p].startTime + policies[p].duration

-----------------------------------------------------------------------------
\* Mutant: the offset is set to the seconds instead of advanced by them.
AdvanceTimeBySetting(seconds) ==
    /\ ~clockLocked
    /\ seconds <= MaxOffset
    /\ timeOffset' = seconds
    /\ UNCHANGED <<clockLocked, policies>>

AdvanceTime(seconds) ==
    /\ ~clockLocked
    /\ timeOffset + seconds <= MaxOffset
    /\ timeOffset' = timeOffset + seconds
    /\ UNCHANGED <<clockLocked, policies>>

LockRealTime ==
    /\ ~clockLocked
    /\ timeOffset' = 0
    /\ clockLocked' = TRUE
    /\ UNCHANGED policies

RegisterPolicy(p, duration) ==
    /\ policies[p].status = "NONE"
    /\ policies' = [policies EXCEPT ![p] = [status    |-> "REGISTERED",
                                            startTime |-> 0,
                                            duration  |-> duration]]
    /\ UNCHANGED clockVars

ActivatePolicy(p) ==
    /\ policies[p].status = "REGISTERED"
    /\ policies' = [policies EXCEPT ![p].status = "ACTIVE",
                                    ![p].startTime = CurrentTime]
    /\ UNCHANGED clockVars

PolicyNext ==
    \/ \E seconds \in OffsetSteps : AdvanceTime(seconds)
    \/ LockRealTime
    \/ \E p \in Policies, duration \in Durations : RegisterPolicy(p, duration)
    \/ \E p \in Policies : ActivatePolicy(p)
=============================================================================
