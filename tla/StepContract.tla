---------------------------- MODULE StepContract ----------------------------
(* What a transition may rely on (application/async_steps.py): it is resumed *)
(* exactly once for every step it has asked for, with that step's result,    *)
(* and it ends exactly once; after the end nothing is delivered any more.    *)
EXTENDS Naturals

CONSTANT MaxSteps   \* bound: steps of a transition

VARIABLES
  asked,   \* steps yielded so far
  given,   \* results delivered so far
  over,    \* the transition has ended
  told     \* times its owner has been told

contractVars == <<asked, given, over, told>>

ContractInit == asked = 0 /\ given = 0 /\ over = FALSE /\ told = 0

(* The first run, or the delivery of the result that is awaited.             *)
Deliver == given' = asked

Ask == ~over /\ Deliver /\ asked < MaxSteps /\ asked' = asked + 1 /\ UNCHANGED <<over, told>>

(* The transition ends by itself, with the last result, or it is abandoned   *)
(* while it waits.                                                           *)
End ==
  /\ ~over /\ over' = TRUE /\ told' = told + 1
  /\ Deliver \/ UNCHANGED given
  /\ UNCHANGED asked

ContractNext == Ask \/ End

ContractSpec == ContractInit /\ [][ContractNext]_contractVars
=============================================================================
