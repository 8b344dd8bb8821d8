------------------------------- MODULE Clock -------------------------------
(* The wall clock that the limiters read, always inside their mutex.        *)
EXTENDS Naturals

CONSTANT LastTick   \* bound on the clock

ASSUME ClockAssumption == LastTick \in Nat

VARIABLE now

Tick == now < LastTick /\ now' = now + 1
=============================================================================
