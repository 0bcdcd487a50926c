------------------------------ MODULE Semaphore ------------------------------
(***************************************************************************)
(* What a bounded resource promises its users: never more than Capacity of *)
(* them have it, whoever has it can give it back, and a unit given back is *)
(* there for the next.  The database connections of Api.tla are one of     *)
(* these.                                                                  *)
(***************************************************************************)
EXTENDS Integers, FiniteSets

CONSTANTS
  User,      \* who may hold a unit
  Capacity   \* units

VARIABLES
  holders,   \* who holds one
  free       \* units nobody holds

Init == holders = {} /\ free = Capacity

Acquire(u) ==
  /\ u \notin holders /\ Cardinality(holders) < Capacity
  /\ holders' = holders \cup {u}
  /\ free' = free - 1

Release(u) ==
  /\ u \in holders
  /\ holders' = holders \ {u}
  /\ free' = free + 1

\* Everything is given back at once: the process that held it is gone.
Reset == holders' = {} /\ free' = Capacity

Next == (\E u \in User : Acquire(u) \/ Release(u)) \/ Reset

Spec == Init /\ [][Next]_<<holders, free>>
=============================================================================
