--------------------------- MODULE SnowflakeProofs ---------------------------
(* The generator refines UniqueIds, for every number of threads, length of  *)
(* the sequence and clock.                                                  *)
EXTENDS Snowflake, TLAPS

\* What keeps the next identifier fresh: the clock is not behind last_ms_, the
\* identifiers of a later millisecond lie above all of an earlier one, and
\* within one millisecond they follow the sequence.
Below ==
    \A i \in issued : /\ i \in Nat
                      /\ i < Id(lastMs + 1, 0)
                      /\ spinner = None => i <= Id(lastMs, sequence)

IdInv ==
    /\ clock \in Nat /\ lastMs \in Nat /\ calls \in Nat
    /\ sequence \in 0 .. (SeqSize - 1)
    /\ spinner \in Worker \union {None}
    /\ lastMs <= clock
    /\ Below

(* Later milliseconds have greater identifiers, and room for all of their   *)
(* sequence (SnowflakeID.h:59-61).                                          *)
LEMMA IdOrder ==
    ASSUME NEW m \in Nat, NEW n \in Nat, NEW s \in 0 .. (SeqSize - 1), m < n
    PROVE  /\ Id(m, s) \in Nat /\ Id(n, 0) \in Nat
           /\ Id(m, s) < Id(m + 1, 0)
           /\ Id(m + 1, 0) <= Id(n, 0)
<1>1. SeqSize \in Nat /\ SeqSize > 0 /\ s \in Nat /\ s < SeqSize
  BY SeqAssumption
<1>2. m * SeqSize \in Nat /\ n * SeqSize \in Nat /\ (m + 1) * SeqSize = m * SeqSize + SeqSize
  BY <1>1
<1>3. (m + 1) * SeqSize <= n * SeqSize
  <2>1. PICK d \in Nat : n = (m + 1) + d
    <3>1. n - (m + 1) \in Nat /\ n = (m + 1) + (n - (m + 1))
      OBVIOUS
    <3>2. QED BY <3>1
  <2>2. n * SeqSize = (m + 1) * SeqSize + d * SeqSize /\ d * SeqSize \in Nat
    BY <1>1, <2>1
  <2>3. QED BY <1>1, <1>2, <2>2
<1>4. QED BY <1>1, <1>2, <1>3 DEF Id

LEMMA IdInvInit == InitIds => IdInv
BY SeqAssumption DEF InitIds, IdInv, Below

LEMMA FirstStep == IdInv /\ GenerateFirst => IdInv' /\ NewId \notin issued
<1> SUFFICES ASSUME IdInv, GenerateFirst PROVE IdInv' /\ NewId \notin issued
  OBVIOUS
<1>1. SeqSize \in Nat /\ SeqSize > 0
  BY SeqAssumption
<1>2. lastMs < clock /\ clock \in Nat /\ lastMs \in Nat
  BY DEF IdInv, GenerateFirst
<1>3. NewId = Id(clock, 0)
  BY <1>2 DEF NewId
<1>4. /\ Id(lastMs + 1, 0) <= NewId
      /\ NewId \in Nat /\ NewId < Id(clock + 1, 0) /\ Id(lastMs + 1, 0) \in Nat
  <2>1. Id(lastMs + 1, 0) <= Id(clock, 0) /\ Id(clock, 0) \in Nat
    BY <1>1, <1>2, IdOrder
  <2>2. Id(clock, 0) < Id(clock + 1, 0)
    BY <1>1, <1>2, IdOrder
  <2>3. Id(lastMs + 1, 0) \in Nat
    BY <1>1, <1>2 DEF Id
  <2>4. QED BY <2>1, <2>2, <2>3, <1>3
<1>5. ASSUME NEW i \in issued
      PROVE  i \in Nat /\ i < NewId
  BY <1>4, <1>5 DEF IdInv, Below
<1>6. Id(clock + 1, 0) \in Nat
  BY <1>1, <1>2 DEF Id
<1>7. ASSUME NEW i \in issued \union {NewId}
      PROVE  i \in Nat /\ i <= NewId /\ i < Id(clock + 1, 0)
  BY <1>4, <1>5, <1>6
<1>8. issued' = issued \union {NewId} /\ lastMs' = clock /\ sequence' = 0
      /\ clock' = clock /\ spinner' = spinner /\ calls' = calls + 1
  BY DEF GenerateFirst, HandOut
<1>9. \A i \in issued' : i \in Nat /\ i <= Id(lastMs', sequence') /\ i < Id(lastMs' + 1, 0)
  BY <1>3, <1>7, <1>8
<1>10. IdInv'
  <2>1. Below'
    BY <1>9 DEF Below, Id
  <2>2. 0 \in 0 .. (SeqSize - 1)
    BY <1>1
  <2>3. QED BY <2>1, <2>2, <1>1, <1>2, <1>8 DEF IdInv
<1>11. QED BY <1>4, <1>5, <1>10

LEMMA NextStep == IdInv /\ GenerateNext => IdInv' /\ NewId \notin issued
<1> SUFFICES ASSUME IdInv, GenerateNext PROVE IdInv' /\ NewId \notin issued
  OBVIOUS
<1>1. SeqSize \in Nat /\ SeqSize > 0
  BY SeqAssumption
<1>2. /\ clock = lastMs /\ lastMs \in Nat /\ spinner = None
      /\ sequence \in Nat /\ sequence + 1 \in 0 .. (SeqSize - 1)
  BY <1>1 DEF IdInv, GenerateNext
<1>3. NewId = Id(lastMs, sequence + 1)
  BY <1>2 DEF NewId
<1>4. lastMs * SeqSize \in Nat
  BY <1>1, <1>2
<1>5. NewId \in Nat /\ Id(lastMs, sequence) < NewId
  BY <1>1, <1>2, <1>3, <1>4 DEF Id
<1>6. NewId < Id(lastMs + 1, 0)
  BY <1>1, <1>2, <1>3, IdOrder
<1>7. ASSUME NEW i \in issued
      PROVE  i \in Nat /\ i < NewId
  <2>1. i \in Nat /\ i <= Id(lastMs, sequence)
    BY <1>2, <1>7 DEF IdInv, Below
  <2>2. Id(lastMs, sequence) \in Nat
    BY <1>1, <1>2, <1>4 DEF Id
  <2>3. QED BY <1>5, <2>1, <2>2
<1>8. Id(lastMs + 1, 0) \in Nat
  BY <1>1, <1>2 DEF Id
<1>9. ASSUME NEW i \in issued \union {NewId}
      PROVE  i \in Nat /\ i <= NewId /\ i < Id(lastMs + 1, 0)
  BY <1>5, <1>6, <1>7, <1>8
<1>10. issued' = issued \union {NewId} /\ lastMs' = lastMs /\ sequence' = sequence + 1
       /\ clock' = clock /\ spinner' = spinner /\ calls' = calls + 1
  BY DEF GenerateNext, HandOut
<1>11. \A i \in issued' : i \in Nat /\ i <= Id(lastMs', sequence') /\ i < Id(lastMs' + 1, 0)
  BY <1>3, <1>9, <1>10
<1>12. IdInv'
  <2>1. Below'
    BY <1>11 DEF Below, Id
  <2>2. 0 \in 0 .. (SeqSize - 1)
    BY <1>1
  <2>3. QED BY <2>1, <2>2, <1>1, <1>2, <1>10 DEF IdInv
<1>13. QED BY <1>5, <1>7, <1>12

LEMMA LaterStep ==
    ASSUME NEW t \in Worker, IdInv, GenerateLater(t)
    PROVE  IdInv' /\ NewId \notin issued
<1>1. SeqSize \in Nat /\ SeqSize > 0
  BY SeqAssumption
<1>2. lastMs < clock /\ clock \in Nat /\ lastMs \in Nat
  BY DEF IdInv, GenerateLater
<1>3. NewId = Id(clock, 0)
  BY <1>2 DEF NewId
<1>4. spinner = t /\ t # None
  BY IdleAssumption DEF GenerateLater
<1>5. sequence \in 0 .. (SeqSize - 1)
  BY DEF IdInv
<1>6. Id(clock, sequence) \in Nat /\ Id(clock, 0) \in Nat /\ Id(clock, 0) <= Id(clock, sequence)
      /\ Id(lastMs + 1, 0) <= Id(clock, 0) /\ Id(clock, 0) < Id(clock + 1, 0)
      /\ Id(lastMs + 1, 0) \in Nat /\ Id(clock + 1, 0) \in Nat
  <2>1. clock * SeqSize \in Nat /\ (lastMs + 1) * SeqSize \in Nat /\ (clock + 1) * SeqSize \in Nat
    BY <1>1, <1>2
  <2>2. Id(lastMs + 1, 0) <= Id(clock, 0)
    BY <1>1, <1>2, IdOrder
  <2>3. Id(clock, 0) < Id(clock + 1, 0)
    BY <1>1, <1>2, IdOrder
  <2>4. QED BY <1>1, <1>2, <1>5, <2>1, <2>2, <2>3 DEF Id
<1>7. ASSUME NEW i \in issued
      PROVE  i \in Nat /\ i < NewId
  BY <1>3, <1>6, <1>7 DEF IdInv, Below
<1>8. ASSUME NEW i \in issued \union {NewId}
      PROVE  i \in Nat /\ i <= Id(clock, sequence) /\ i < Id(clock + 1, 0)
  BY <1>3, <1>6, <1>7
<1>9. issued' = issued \union {NewId} /\ lastMs' = clock /\ sequence' = sequence
      /\ clock' = clock /\ spinner' = None /\ calls' = calls + 1
  BY DEF GenerateLater, HandOut
<1>10. \A i \in issued' : i \in Nat /\ i <= Id(lastMs', sequence') /\ i < Id(lastMs' + 1, 0)
  BY <1>8, <1>9
<1>11. IdInv'
  <2>1. Below'
    BY <1>10 DEF Below, Id
  <2>2. 0 \in 0 .. (SeqSize - 1)
    BY <1>1
  <2>3. QED BY <2>1, <2>2, <1>1, <1>2, <1>5, <1>9 DEF IdInv
<1>12. QED BY <1>7, <1>11

LEMMA WaitStep ==
    ASSUME NEW t \in Worker, IdInv, GenerateWait(t)
    PROVE  IdInv'
<1>1. 0 \in 0 .. (SeqSize - 1)
  BY SeqAssumption
<1>2. QED BY <1>1, IdleAssumption DEF IdInv, GenerateWait, Below, Id

LEMMA TickStep == IdInv /\ Tick => IdInv'
BY DEF IdInv, Tick, Below, Id

(* Every step keeps the invariant, and hands out either nothing or a fresh  *)
(* identifier.                                                              *)
LEMMA IdStep == IdInv /\ [NextIds]_idVars => IdInv' /\ [Unique!Issue]_<<issued, calls>>
<1> SUFFICES ASSUME IdInv, [NextIds]_idVars
             PROVE  IdInv' /\ [Unique!Issue]_<<issued, calls>>
  OBVIOUS
<1>1. ASSUME NewId \notin issued, HandOut PROVE Unique!Issue
  BY <1>1 DEF HandOut, Unique!Issue
<1>2. CASE Tick
  BY <1>2, TickStep DEF Tick
<1>3. CASE GenerateFirst
  BY <1>1, <1>3, FirstStep DEF GenerateFirst
<1>4. CASE GenerateNext
  BY <1>1, <1>4, NextStep DEF GenerateNext
<1>5. ASSUME NEW t \in Worker, GenerateLater(t)
      PROVE  IdInv' /\ [Unique!Issue]_<<issued, calls>>
  BY <1>1, <1>5, LaterStep DEF GenerateLater
<1>6. ASSUME NEW t \in Worker, GenerateWait(t)
      PROVE  IdInv' /\ [Unique!Issue]_<<issued, calls>>
  BY <1>6, WaitStep DEF GenerateWait
<1>7. CASE UNCHANGED idVars
  BY <1>7 DEF idVars, IdInv, Below, Id
<1>8. QED
  BY <1>2, <1>3, <1>4, <1>5, <1>6, <1>7 DEF NextIds, Generate

(* The generator implements UniqueIds: no identifier is handed out twice,   *)
(* as long as the clock is not set back (SnowflakeID.h:36-62).              *)
THEOREM GeneratorIsUnique == IdSpec => IdsAreUnique
<1>1. InitIds => Unique!Init
  BY DEF InitIds, Unique!Init
<1>2. QED
  BY IdInvInit, IdStep, <1>1, PTL DEF IdSpec, IdsAreUnique, Unique!Spec
============================================================================
