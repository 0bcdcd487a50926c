---------------------------- MODULE LimiterProofs ----------------------------
(***************************************************************************)
(* The bound on bursts, for every limit and every period.                  *)
(*                                                                         *)
(* The argument: the calls of one window have numbers of their own, and so *)
(* have those of the window before, the first of which is missing: it is   *)
(* the call that opened that window, which was a whole period long.  So    *)
(* the calls of a period fit into 2 * LimitOf[k] - 1 numbers.              *)
(***************************************************************************)
EXTENDS Limiter, FiniteSetTheorems, TLAPS

\* The first call of a window is as old as the window, and so is every call
\* of the window before, at least.
Dated(k) == \A p \in recent[k] :
  /\ p.window = "this" /\ p.nth = 1 => p.age >= PeriodOf[k] - left[k]
  /\ p.window = "last" => p.nth # 1 /\ p.age >= PeriodOf[k] - left[k]

\* The calls of an open window have been counted.
Counted(k) ==
  /\ hits[k] = 0 <=> left[k] = 0
  /\ hits[k] # 0 => \A p \in recent[k] : p.window = "this" => p.nth <= hits[k]

Numbered(k) == \A p, q \in recent[k] : p.window = q.window /\ p.nth = q.nth => p = q

LimiterInv ==
  /\ LimiterTypeOK
  /\ \A k \in Key : Dated(k) /\ Counted(k) /\ Numbered(k)

-----------------------------------------------------------------------------
\* Without a window nothing of the window before the last is left, nor the call
\* that opened the last (limiter.py:25).
LEMMA ClosedWindow ==
  ASSUME LimiterInv, NEW k \in Key, hits[k] = 0, NEW p \in recent[k]
  PROVE  p.window = "this" /\ p.nth # 1
<1>1. left[k] = 0 BY DEF LimiterInv, Counted
<1>2. p \in Passage(k) BY DEF LimiterInv, LimiterTypeOK
<1>3. p.age < PeriodOf[k] /\ p.age \in Int
  BY <1>2, LimitAssumption DEF Passage
<1>. QED BY <1>1, <1>2, <1>3, LimitAssumption DEF LimiterInv, Dated, Passage

LEMMA LimiterInvInit == LimiterInit => LimiterInv
BY LimitAssumption
   DEF LimiterInit, LimiterInv, LimiterTypeOK, Dated, Counted, Numbered

\* The calls of the window that has expired, once the next one opens.
Aged(S) == {[p EXCEPT !.window = "last"] : p \in S}

LEMMA LimiterInvAdmit ==
  ASSUME LimiterInv, NEW k \in Key, Admit(k)
  PROVE  LimiterInv'
<1>. USE LimitAssumption
<1>1. /\ hits \in [Key -> Nat] /\ left \in [Key -> Nat] /\ DOMAIN recent = Key
      /\ \A j \in Key : recent[j] \subseteq Passage(j) /\ left[j] <= PeriodOf[j]
  BY DEF LimiterInv, LimiterTypeOK
<1>2. /\ hits' = [hits EXCEPT ![k] = hits[k] + 1]
      /\ left' = [left EXCEPT ![k] = IF hits[k] = 0 THEN PeriodOf[k] ELSE left[k]]
      /\ hits[k] + 1 <= LimitOf[k]
  BY DEF Admit, Within, Nth
<1>3. recent' = [recent EXCEPT ![k] = {Passed(k)} \cup
                   (IF hits[k] = 0 THEN Aged(recent[k]) ELSE recent[k])]
  BY DEF Admit, Aged
<1>4. /\ Passed(k) \in Passage(k)
      /\ Passed(k).window = "this" /\ Passed(k).nth = hits[k] + 1 /\ Passed(k).age = 0
  BY <1>1, <1>2 DEF Passed, Passage, Nth
<1>5. ASSUME hits[k] = 0, NEW p \in Aged(recent[k])
      PROVE  /\ p \in Passage(k) /\ p.window = "last" /\ p.nth # 1
             /\ \E q \in recent[k] : /\ p = [q EXCEPT !.window = "last"]
                                     /\ q.nth = p.nth /\ q.window = "this"
  <2>1. PICK q \in recent[k] : p = [q EXCEPT !.window = "last"] BY DEF Aged
  <2>2. q.window = "this" /\ q.nth # 1 BY <1>5, ClosedWindow
  <2>3. q \in Passage(k) BY <1>1
  <2>. QED BY <2>1, <2>2, <2>3 DEF Passage
<1>6. LimiterTypeOK'
  <2>1. recent'[k] \subseteq Passage(k) BY <1>1, <1>3, <1>4, <1>5
  <2>. QED BY <1>1, <1>2, <1>3, <2>1 DEF LimiterTypeOK, Passage
<1>7. ASSUME NEW j \in Key, j # k
      PROVE  (Dated(j) /\ Counted(j) /\ Numbered(j))'
  <2>1. hits'[j] = hits[j] /\ left'[j] = left[j] /\ recent'[j] = recent[j]
    BY <1>1, <1>2, <1>3, <1>7
  <2>2. Dated(j) /\ Counted(j) /\ Numbered(j) BY DEF LimiterInv
  <2>. QED BY <2>1, <2>2 DEF Dated, Counted, Numbered
<1>8. Dated(k) /\ Counted(k) /\ Numbered(k) BY DEF LimiterInv
<1>9. hits'[k] = hits[k] + 1 BY <1>1, <1>2
<1>10. ASSUME hits[k] = 0 PROVE (Dated(k) /\ Counted(k) /\ Numbered(k))'
  <2>1. left'[k] = PeriodOf[k] /\ recent'[k] = {Passed(k)} \cup Aged(recent[k])
    BY <1>1, <1>2, <1>3, <1>10
  <2>2. Dated(k)'
    <3>. SUFFICES ASSUME NEW p \in recent'[k]
                  PROVE  /\ p.window = "this" /\ p.nth = 1 => p.age >= 0
                         /\ p.window = "last" => p.nth # 1 /\ p.age >= 0
      BY <2>1 DEF Dated
    <3>1. p \in Passage(k) BY <1>4, <1>5, <1>10, <2>1
    <3>2. p.age >= 0 BY <3>1 DEF Passage
    <3>. QED BY <1>4, <1>5, <1>10, <2>1, <3>2
  <2>3. Counted(k)' BY <1>1, <1>4, <1>5, <1>9, <1>10, <2>1 DEF Counted
  <2>4. Numbered(k)'
    <3>. SUFFICES ASSUME NEW p \in recent'[k], NEW q \in recent'[k],
                         p.window = q.window, p.nth = q.nth
                  PROVE  p = q
      BY DEF Numbered
    <3>1. CASE p.window = "this" BY <1>4, <1>5, <1>10, <2>1, <3>1
    <3>2. CASE p.window # "this"
      <4>1. p \in Aged(recent[k]) /\ q \in Aged(recent[k]) BY <1>4, <2>1, <3>2
      <4>. QED BY <1>5, <1>8, <1>10, <4>1 DEF Numbered
    <3>. QED BY <3>1, <3>2
  <2>. QED BY <2>2, <2>3, <2>4
<1>11. ASSUME hits[k] # 0 PROVE (Dated(k) /\ Counted(k) /\ Numbered(k))'
  <2>1. left'[k] = left[k] /\ recent'[k] = {Passed(k)} \cup recent[k]
    BY <1>1, <1>2, <1>3, <1>11
  <2>2. Dated(k)' BY <1>1, <1>4, <1>8, <1>11, <2>1 DEF Dated
  <2>3. Counted(k)'
    <3>1. \A p \in recent[k] : p.nth \in Nat BY <1>1 DEF Passage
    <3>. QED BY <1>1, <1>4, <1>8, <1>9, <1>11, <2>1, <3>1 DEF Counted
  <2>4. Numbered(k)'
    <3>1. \A p \in recent[k] : p.nth \in Nat BY <1>1 DEF Passage
    <3>2. \A p \in recent[k] : p.window = "this" => p.nth # Passed(k).nth
      BY <1>1, <1>4, <1>8, <1>11, <3>1 DEF Counted
    <3>. QED BY <1>4, <1>8, <2>1, <3>2 DEF Numbered
  <2>. QED BY <2>2, <2>3, <2>4
<1>. QED BY <1>6, <1>7, <1>10, <1>11 DEF LimiterInv

LEMMA LimiterInvTurnAway ==
  ASSUME LimiterInv, NEW k \in Key, TurnAway(k)
  PROVE  LimiterInv'
<1>. USE LimitAssumption
<1>1. /\ hits \in [Key -> Nat] /\ left \in [Key -> Nat] /\ DOMAIN recent = Key
      /\ \A j \in Key : recent[j] \subseteq Passage(j) /\ left[j] <= PeriodOf[j]
  BY DEF LimiterInv, LimiterTypeOK
<1>2. /\ hits' = [hits EXCEPT ![k] = LimitOf[k] + 1] /\ left' = left /\ recent' = recent
      /\ hits[k] # 0
  BY <1>1 DEF TurnAway, Within, Nth
<1>3. LimiterTypeOK' BY <1>1, <1>2 DEF LimiterTypeOK, Passage
<1>4. ASSUME NEW j \in Key PROVE (Dated(j) /\ Counted(j) /\ Numbered(j))'
  <2>1. Dated(j) /\ Counted(j) /\ Numbered(j) BY DEF LimiterInv
  <2>2. Dated(j)' /\ Numbered(j)' BY <1>2, <2>1 DEF Dated, Numbered
  <2>3. CASE j = k
    <3>1. hits'[k] = LimitOf[k] + 1 BY <1>1, <1>2
    <3>2. \A p \in recent[k] : p.nth <= LimitOf[k] + 1 BY <1>1 DEF Passage
    <3>. QED BY <1>2, <2>1, <2>2, <2>3, <3>1, <3>2 DEF Counted
  <2>4. CASE j # k
    <3>1. hits'[j] = hits[j] BY <1>1, <1>2, <2>4
    <3>. QED BY <1>2, <2>1, <2>2, <3>1 DEF Counted
  <2>. QED BY <2>3, <2>4
<1>. QED BY <1>3, <1>4 DEF LimiterInv

LEMMA LimiterInvTick ==
  ASSUME LimiterInv, Tick
  PROVE  LimiterInv'
<1>. USE LimitAssumption
<1>1. /\ hits \in [Key -> Nat] /\ left \in [Key -> Nat] /\ DOMAIN recent = Key
      /\ \A j \in Key : recent[j] \subseteq Passage(j) /\ left[j] <= PeriodOf[j]
  BY DEF LimiterInv, LimiterTypeOK
<1>2. ASSUME NEW k \in Key
      PROVE  /\ hits'[k] = IF left[k] <= 1 THEN 0 ELSE hits[k]
             /\ left'[k] = IF left[k] = 0 THEN 0 ELSE left[k] - 1
             /\ \A p \in recent'[k] : \E q \in recent[k] :
                  /\ p = [q EXCEPT !.age = @ + 1] /\ q.age + 1 < PeriodOf[k]
                  /\ p.window = q.window /\ p.nth = q.nth /\ p.age = q.age + 1
                  /\ p \in Passage(k)
  <2>1. recent'[k] = {[p EXCEPT !.age = @ + 1] :
                        p \in {q \in recent[k] : q.age + 1 < PeriodOf[k]}}
    BY DEF Tick
  <2>2. \A q \in recent[k] : q \in Passage(k) BY <1>1
  <2>. QED BY <2>1, <2>2 DEF Tick, Passage
<1>3. LimiterTypeOK'
  <2>1. hits' \in [Key -> Nat] /\ left' \in [Key -> Nat] /\ DOMAIN recent' = Key
    BY <1>1 DEF Tick
  <2>2. \A k \in Key : recent'[k] \subseteq Passage(k) /\ left'[k] <= PeriodOf[k]
    BY <1>1, <1>2
  <2>. QED BY <2>1, <2>2 DEF LimiterTypeOK, Passage
<1>4. ASSUME NEW k \in Key PROVE (Dated(k) /\ Counted(k) /\ Numbered(k))'
  <2>1. Dated(k) /\ Counted(k) /\ Numbered(k) BY DEF LimiterInv
  <2>2. hits[k] \in Nat /\ left[k] \in Nat /\ PeriodOf[k] \in Nat BY <1>1
  <2>3. \A q \in recent[k] : q.age \in Int BY <1>1 DEF Passage
  <2>4. Dated(k)'
    <3>. SUFFICES ASSUME NEW p \in recent'[k]
                  PROVE  /\ p.window = "this" /\ p.nth = 1 => p.age >= PeriodOf[k] - left'[k]
                         /\ p.window = "last" => p.nth # 1 /\ p.age >= PeriodOf[k] - left'[k]
      BY DEF Dated
    <3>1. PICK q \in recent[k] : /\ q.age + 1 < PeriodOf[k] /\ p.window = q.window
                                 /\ p.nth = q.nth /\ p.age = q.age + 1
      BY <1>2
    <3>2. /\ q.window = "this" /\ q.nth = 1 => q.age >= PeriodOf[k] - left[k]
          /\ q.window = "last" => q.nth # 1 /\ q.age >= PeriodOf[k] - left[k]
      BY <2>1 DEF Dated
    <3>3. left'[k] = IF left[k] = 0 THEN 0 ELSE left[k] - 1 BY <1>2
    <3>. QED BY <2>2, <2>3, <3>1, <3>2, <3>3
  <2>5. Counted(k)'
    <3>1. hits'[k] = 0 <=> left'[k] = 0 BY <1>2, <2>1, <2>2 DEF Counted
    <3>2. ASSUME hits'[k] # 0, NEW p \in recent'[k], p.window = "this"
          PROVE  p.nth <= hits'[k]
      BY <1>2, <2>1, <3>2 DEF Counted
    <3>. QED BY <3>1, <3>2 DEF Counted
  <2>6. Numbered(k)' BY <1>2, <2>1 DEF Numbered
  <2>. QED BY <2>4, <2>5, <2>6
<1>. QED BY <1>3, <1>4 DEF LimiterInv

LEMMA LimiterInvReset ==
  ASSUME ResetLimits
  PROVE  LimiterInv'
BY LimitAssumption
   DEF ResetLimits, LimiterInv, LimiterTypeOK, Dated, Counted, Numbered

LEMMA LimiterInvNext ==
  ASSUME LimiterInv, [LimiterNext]_limits
  PROVE  LimiterInv'
<1>1. CASE UNCHANGED limits
  BY <1>1 DEF limits, LimiterInv, LimiterTypeOK, Passage, Dated, Counted, Numbered
<1>. QED
  BY <1>1, LimiterInvAdmit, LimiterInvTurnAway, LimiterInvTick, LimiterInvReset
  DEF LimiterNext

-----------------------------------------------------------------------------
\* The calls of a period have different numbers between 1 and 2 * LimitOf[k] - 1
\* (limiter.py:25).
LEMMA BurstCapFollows == LimiterInv => BurstCap
<1>. SUFFICES ASSUME LimiterInv, NEW k \in Key
              PROVE  Cardinality(recent[k]) <= 2 * LimitOf[k] - 1
  BY DEF BurstCap
<1>. DEFINE L == LimitOf[k]
            T == 1 .. (2 * L - 1)
            f == [p \in recent[k] |-> IF p.window = "this" THEN p.nth ELSE L + p.nth - 1]
<1>1. L \in Nat \ {0} BY LimitAssumption
<1>. HIDE DEF L
<1>2. ASSUME NEW p \in recent[k]
      PROVE  /\ p.window \in {"this", "last"} /\ p.nth \in 1 .. L
             /\ p.window = "last" => p.nth # 1
  BY DEF LimiterInv, LimiterTypeOK, Passage, Dated, L
<1>3. f \in [recent[k] -> T] BY <1>1, <1>2
<1>4. ASSUME NEW p \in recent[k], NEW q \in recent[k], f[p] = f[q] PROVE p = q
  <2>1. p.window = q.window /\ p.nth = q.nth BY <1>1, <1>2, <1>4
  <2>. QED BY <2>1 DEF LimiterInv, Numbered
<1>5. f \in Injection(recent[k], T) BY <1>3, <1>4 DEF Injection, IsInjective
<1>6. IsFiniteSet(T) /\ Cardinality(T) = 2 * L - 1 BY <1>1, FS_Interval
<1>7. Cardinality(recent[k]) <= Cardinality(T)
  <2>. HIDE DEF f, T
  <2>. QED BY <1>5, <1>6, FS_Injection
<1>. QED BY <1>6, <1>7 DEF L

\* No period sees as many calls as two windows admit, whatever the limits and
\* the periods are and however the calls fall (limiter.py:25).
THEOREM LimiterBurstCap == LimiterSpec => []BurstCap
<1>1. LimiterInit => LimiterInv BY LimiterInvInit
<1>2. LimiterInv /\ [LimiterNext]_limits => LimiterInv' BY LimiterInvNext
<1>3. LimiterInv => BurstCap BY BurstCapFollows
<1>. QED BY <1>1, <1>2, <1>3, PTL DEF LimiterSpec
=============================================================================
