--------------------------------- MODULE Tasks ---------------------------------
(****************************************************************************)
(* What the components of zenoo_rpc that are checked together share: the    *)
(* asyncio tasks of the program that uses them, and a clock.                *)
(****************************************************************************)
EXTENDS Naturals, Sequences, FiniteSets

CONSTANT Task   \* asyncio tasks of the program

ASSUME TaskAssumption == Task # {} /\ IsFiniteSet(Task)

VARIABLE now    \* time.time()

\* Bound: the clock stops at a time.
Later(horizon) == now < horizon /\ now' = now + 1

================================================================================
