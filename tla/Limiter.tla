------------------------------- MODULE Limiter -------------------------------
(***************************************************************************)
(* The rate limiter: one counter per client address and route in the heap  *)
(* of the one process.  slowapi's default strategy is the fixed window: a  *)
(* window opens with the first call after the last one has expired, and a  *)
(* call is let through while the count, itself included, is within the     *)
(* limit.  Refused calls are counted too, which extends nothing.           *)
(*                                                                         *)
(* slowapi and its storage are external; they are modelled as the service  *)
(* configures them (limiter.py names no strategy and no storage).  Time    *)
(* passes in ticks and is relative: left is what remains of a window, an   *)
(* age what has passed since a call.                                       *)
(***************************************************************************)
EXTENDS Integers, FiniteSets

CONSTANTS
  Key,       \* counters: a client address and a route
  LimitOf,   \* Key -> the calls a window admits, the <count> of the setting
  PeriodOf   \* Key -> the length of a window, the <period> of the setting

\* config.py refuses what does not parse as a limit.
ASSUME LimitAssumption ==
  /\ LimitOf \in [Key -> Nat \ {0}]
  /\ PeriodOf \in [Key -> Nat \ {0}]

VARIABLES
  hits,    \* Key -> calls counted in its window, 0 without one
  left,    \* Key -> time left of its window
  recent   \* history: Key -> the calls let through less than a period ago

limits == <<hits, left, recent>>

\* A call let through: the nth of this window or of the one before.
Passage(k) == [window: {"this", "last"}, nth: 1 .. LimitOf[k],
               age: 0 .. PeriodOf[k] - 1]

LimiterTypeOK ==
  /\ hits \in [Key -> Nat]
  /\ left \in [Key -> Nat]
  /\ DOMAIN recent = Key
  /\ \A k \in Key : /\ recent[k] \subseteq Passage(k)
                    /\ left[k] <= PeriodOf[k]

LimiterInit ==
  /\ hits = [k \in Key |-> 0]
  /\ left = [k \in Key |-> 0]
  /\ recent = [k \in Key |-> {}]

-----------------------------------------------------------------------------
\* The number a call gets in its window.
Nth(k) == hits[k] + 1

Within_OffByOne(k) == Nth(k) <= LimitOf[k] + 1

Within(k) == Nth(k) <= LimitOf[k]

Passed(k) == [window |-> "this", nth |-> Nth(k), age |-> 0]

\* A call is let through; the first of a window opens it.
Admit(k) ==
  /\ Within(k)
  /\ hits' = [hits EXCEPT ![k] = Nth(k)]
  /\ left' = [left EXCEPT ![k] = IF hits[k] = 0 THEN PeriodOf[k] ELSE @]
  /\ recent' = [recent EXCEPT ![k] =
       {Passed(k)} \cup
         (IF hits[k] = 0 THEN {[p EXCEPT !.window = "last"] : p \in @} ELSE @)]

\* 429.  Counts above the limit are not told apart.
TurnAway(k) ==
  /\ ~Within(k)
  /\ hits' = [hits EXCEPT ![k] = LimitOf[k] + 1]
  /\ UNCHANGED <<left, recent>>

\* Time passes; the storage drops a counter whose window has expired.
Tick ==
  /\ left' = [k \in Key |-> IF left[k] = 0 THEN 0 ELSE left[k] - 1]
  /\ hits' = [k \in Key |-> IF left[k] <= 1 THEN 0 ELSE hits[k]]
  /\ recent' = [k \in Key |->
       {[p EXCEPT !.age = @ + 1] : p \in {q \in recent[k] : q.age + 1 < PeriodOf[k]}}]

\* The process starts anew: the counters are gone, and the history with them.
ResetLimits ==
  /\ hits' = [k \in Key |-> 0]
  /\ left' = [k \in Key |-> 0]
  /\ recent' = [k \in Key |-> {}]

LimiterNext ==
  \/ \E k \in Key : Admit(k) \/ TurnAway(k)
  \/ Tick
  \/ ResetLimits

LimiterSpec == LimiterInit /\ [][LimiterNext]_limits

-----------------------------------------------------------------------------
\* However calls fall across two windows, no period ever sees as many as two
\* full windows ("<count>/<period>", core/config.py:44): the first call of a
\* window is what opens it, so it is a period old when the next can open.
BurstCap == \A k \in Key : Cardinality(recent[k]) <= 2 * LimitOf[k] - 1
=============================================================================
