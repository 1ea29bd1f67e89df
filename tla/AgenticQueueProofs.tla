-------------------------- MODULE AgenticQueueProofs --------------------------
(***************************************************************************)
(* Theorems about AgenticQueue, for every set of segments and hashes and   *)
(* every value of the bounds.                                              *)
(***************************************************************************)
EXTENDS AgenticQueue, FiniteSetTheorems, TLAPS

(***************************************************************************)
(* TypeOK is not inductive: that the retry count passes its limit by no    *)
(* more than the faults rests on what a row's status says of it and on who *)
(* may still charge it, and that a node holds a hash rests on a claimed    *)
(* row having content.                                                     *)
(***************************************************************************)

\* The worker's own charge, still to come.
Busy(s) == IF stage[s] = "none" THEN 0 ELSE 1

\* A row that is queued or claimed has budget left. Each coroutine at a segment may charge
\* it once more; one of them may be without a fault, the others are owed one each.
Budget(s) ==
  /\ status[s] \in {"none", "pending", "processing"} => retry[s] < MaxRetries
  /\ IsFiniteSet(strays[s]) /\ Cardinality(strays[s]) \in 0..faults
  /\ retry[s] + Cardinality(strays[s]) + Busy(s) <= MaxRetries + faults

\* What is queued, claimed or swept is a row with content, and so is what was read.
RowKnown(s) ==
  /\ status[s] # "none" \/ stage[s] # "none" \/ s \in candidates \/ strays[s] # {}
       => content[s] \in Hash
  /\ stage[s] \in {"read", "model"} => held[s] \in Hash

TypeInv == /\ TypeOK
           /\ \A s \in Segment : Budget(s) /\ RowKnown(s)

\* What the budget says of the counts of every segment.
LEMMA AllCounted ==
  ASSUME TypeInv, NEW s \in Segment
  PROVE  /\ IsFiniteSet(strays[s]) /\ Cardinality(strays[s]) \in Nat
         /\ faults \in Nat /\ Cardinality(strays[s]) <= faults
         /\ retry[s] \in Nat /\ Busy(s) \in {0, 1}
         /\ retry[s] + Cardinality(strays[s]) + Busy(s) <= MaxRetries + faults
         /\ status[s] \in {"none", "pending", "processing"} => retry[s] < MaxRetries
<1>1. faults \in Nat /\ retry[s] \in Nat
  BY DEF TypeInv, TypeOK
<1> QED BY <1>1 DEF TypeInv, Budget, Busy

\* A segment whose counts a step leaves alone keeps its budget, whatever fails elsewhere.
LEMMA BudgetKept ==
  ASSUME TypeInv, NEW s \in Segment,
         status'[s] = status[s], retry'[s] = retry[s], strays'[s] = strays[s],
         stage'[s] = stage[s], faults' \in {faults, faults + 1}
  PROVE  Budget(s)'
<1>1. Busy(s)' = Busy(s)
  BY DEF Busy
<1> QED BY <1>1, AllCounted, AgenticAssumption DEF Budget

\* An upsert or a sweep either leaves a row alone or makes it pending with a fresh
\* budget, and only rows it was asked to touch.
LEMMA RequeueEffect ==
  ASSUME TypeInv, NEW S \in SUBSET Segment, Requeue(S)
  PROVE  /\ status' \in [Segment -> Status]
         /\ retry' \in [Segment -> Nat]
         /\ \A s \in Segment :
              \/ status'[s] = status[s] /\ retry'[s] = retry[s]
              \/ s \in S /\ status'[s] = "pending" /\ retry'[s] = 0
BY AgenticAssumption DEF Requeue, TypeInv, TypeOK, Status

\* An answer, of the worker or of a stray, charges its row at most once, and leaves it
\* queued only with budget left.
LEMMA AnswerEffect ==
  ASSUME TypeInv, NEW s \in Segment, NEW h \in Hash, Answer(s, h)
  PROVE  /\ status' \in [Segment -> Status]
         /\ retry' \in [Segment -> Nat]
         /\ mark' \in [Segment -> Hash \cup {NoHash}]
         /\ nodes' \in [Segment -> Seq(Hash)]
         /\ givenUp' \subseteq Segment
         /\ \A t \in Segment : t # s => status'[t] = status[t] /\ retry'[t] = retry[t]
         /\ retry'[s] \in {retry[s], retry[s] + 1}
         /\ status'[s] \in {"none", "pending", "processing"} => retry'[s] < MaxRetries
<1>1. /\ status \in [Segment -> Status] /\ retry \in [Segment -> Nat]
      /\ mark \in [Segment -> Hash \cup {NoHash}] /\ nodes \in [Segment -> Seq(Hash)]
      /\ givenUp \subseteq Segment
  BY DEF TypeInv, TypeOK
<1>2. status[s] \in {"none", "pending", "processing"} => retry[s] < MaxRetries
  BY DEF TypeInv, Budget
<1>3. CASE Release(s, h)
  BY <1>1, <1>2, <1>3 DEF Release, Status
<1>4. CASE Write(s, h)
  <2>1. <<h>> \in Seq(Hash)
    OBVIOUS
  <2> QED BY <1>1, <1>4, <2>1 DEF Write, ReplaceNode, Status
<1>5. CASE Fail(s, h)
  <2>1. retry' = [retry EXCEPT ![s] = retry[s] + 1] /\ nodes' = nodes
    BY <1>5 DEF Fail
  <2>2. CASE Exhausted(s)
    <3>1. /\ status' = [status EXCEPT ![s] = "failed"] /\ mark' = [mark EXCEPT ![s] = h]
          /\ givenUp' = givenUp \cup {s}
      BY <1>5, <2>2 DEF Fail
    <3>2. status'[s] = "failed" /\ "failed" \in Status
      BY <1>1, <3>1 DEF Status
    <3> QED BY <1>1, <2>1, <3>1, <3>2
  <2>3. CASE ~Exhausted(s)
    <3>1. retry[s] + 1 < MaxRetries
      BY <1>1, <2>3, AgenticAssumption DEF Exhausted
    <3> QED BY <1>1, <1>5, <2>1, <2>3, <3>1 DEF Fail, Status
  <2> QED BY <2>2, <2>3
<1> QED BY <1>3, <1>4, <1>5 DEF Answer

\* Each transaction of the daemon and of the brain preserves the invariant.
LEMMA TypeInvStep == TypeInv /\ [Next]_vars => TypeInv'
<1> SUFFICES ASSUME TypeInv, [Next]_vars PROVE TypeInv'
  OBVIOUS
<1> USE AgenticAssumption
<1>1. ASSUME NEW s \in Segment, NEW h \in Hash, Upsert(s, h) PROVE TypeInv'
  <2>1. /\ status' \in [Segment -> Status] /\ retry' \in [Segment -> Nat]
        /\ \A t \in Segment :
              \/ status'[t] = status[t] /\ retry'[t] = retry[t]
              \/ t = s /\ status'[t] = "pending" /\ retry'[t] = 0
    BY <1>1, RequeueEffect DEF Upsert, queueVars, TypeInv, TypeOK
  <2>2. content' \in [Segment -> Hash \cup {NoHash}] /\ content'[s] = h
        /\ \A t \in Segment : t # s => content'[t] = content[t]
    BY <1>1 DEF Upsert, TypeInv, TypeOK
  <2>3. UNCHANGED <<harness, mark, nodes, linked, givenUp, stage, held, heldMark, strays,
                    candidates, faults>>
        /\ edits' \in Nat
    BY <1>1 DEF Upsert, nodeVars, workerVars, TypeInv, TypeOK
  <2>4. \A t \in Segment : retry'[t] <= MaxRetries + faults'
    <3>1. faults \in Nat /\ \A t \in Segment : retry[t] <= MaxRetries + faults
      BY DEF TypeInv, TypeOK
    <3> QED BY <2>1, <2>3, <3>1
  <2>5. TypeOK'
    BY <2>1, <2>2, <2>3, <2>4 DEF TypeInv, TypeOK
  <2>6. ASSUME NEW t \in Segment PROVE Budget(t)'
    <3>1. CASE status'[t] = status[t] /\ retry'[t] = retry[t]
      BY <2>3, <3>1, BudgetKept
    <3>2. CASE retry'[t] = 0
      <4>1. strays'[t] = strays[t] /\ Busy(t)' \in {0, 1} /\ faults' = faults
        BY <2>3 DEF Busy
      <4> QED BY <3>2, <4>1, AllCounted DEF Budget
    <3> QED BY <2>1, <3>1, <3>2
  <2>7. \A t \in Segment : RowKnown(t)'
    BY <2>1, <2>2, <2>3 DEF TypeInv, TypeOK, RowKnown
  <2> QED BY <2>5, <2>6, <2>7 DEF TypeInv
<1>2. ASSUME NEW C \in SUBSET Segment, SweepSelect(C) PROVE TypeInv'
  BY <1>2 DEF SweepSelect, Sweepable, rowVars, queueVars, nodeVars, workerVars, TypeInv, TypeOK,
              Budget, Busy, RowKnown
<1>3. CASE SweepEnqueue
  <2>1. candidates \in SUBSET Segment
    BY DEF TypeInv, TypeOK
  <2>2. /\ status' \in [Segment -> Status] /\ retry' \in [Segment -> Nat]
        /\ \A t \in Segment :
              \/ status'[t] = status[t] /\ retry'[t] = retry[t]
              \/ t \in candidates /\ status'[t] = "pending" /\ retry'[t] = 0
    BY <1>3, <2>1, RequeueEffect DEF SweepEnqueue
  <2>3. UNCHANGED <<harness, content, mark, nodes, linked, givenUp, stage, held, heldMark,
                    strays, edits, faults>>
        /\ candidates' = {}
    BY <1>3 DEF SweepEnqueue, rowVars, nodeVars, workerVars
  <2>4. TypeOK'
    <3>1. \A t \in Segment : retry'[t] <= MaxRetries + faults'
      <4>1. faults \in Nat /\ \A t \in Segment : retry[t] <= MaxRetries + faults
        BY DEF TypeInv, TypeOK
      <4> QED BY <2>2, <2>3, <4>1
    <3> QED BY <2>2, <2>3, <3>1 DEF TypeInv, TypeOK
  <2>5. \A t \in Segment : Budget(t)' /\ RowKnown(t)'
    BY <2>2, <2>3 DEF TypeInv, TypeOK, Budget, Busy, RowKnown
  <2> QED BY <2>4, <2>5 DEF TypeInv
<1>4. CASE SweepAborts
  <2>1. UNCHANGED <<harness, content, mark, status, retry, nodes, linked, givenUp, stage, held,
                    heldMark, strays, edits>>
        /\ candidates' = {} /\ faults' = faults + 1
    BY <1>4 DEF SweepAborts, rowVars, queueVars, nodeVars, workerVars
  <2> QED BY <2>1 DEF TypeInv, TypeOK, Budget, Busy, RowKnown
<1>5. ASSUME NEW s \in Segment, Claim(s) PROVE TypeInv'
  <2>1. UNCHANGED <<harness, content, mark, retry, nodes, linked, givenUp, held, heldMark,
                    strays, candidates, edits, faults>>
    BY <1>5 DEF Claim, rowVars, nodeVars
  <2>2. TypeOK'
    BY <1>5, <2>1 DEF Claim, TypeInv, TypeOK, Status, Stage
  <2>3. \A t \in Segment : Budget(t)' /\ RowKnown(t)'
    BY <1>5, <2>1 DEF Claim, TypeInv, TypeOK, Budget, Busy, RowKnown
  <2> QED BY <2>2, <2>3 DEF TypeInv
<1>6. ASSUME NEW s \in Segment, Read(s) PROVE TypeInv'
  <2>1. UNCHANGED <<harness, content, mark, status, retry, nodes, linked, givenUp, strays,
                    candidates, edits, faults>>
    BY <1>6 DEF Read, rowVars, queueVars, nodeVars
  <2>2. TypeOK'
    BY <1>6, <2>1 DEF Read, TypeInv, TypeOK, Stage
  <2>3. \A t \in Segment : Budget(t)' /\ RowKnown(t)'
    BY <1>6, <2>1 DEF Read, TypeInv, TypeOK, Budget, Busy, RowKnown
  <2> QED BY <2>2, <2>3 DEF TypeInv
<1>7. ASSUME NEW s \in Segment, Drop(s) PROVE TypeInv'
  <2>1. UNCHANGED <<harness, content, mark, retry, nodes, linked, givenUp, strays,
                    candidates, edits, faults>>
    BY <1>7 DEF Drop, rowVars, nodeVars
  <2>2. TypeOK'
    BY <1>7, <2>1 DEF Drop, Leave, TypeInv, TypeOK, Status, Stage
  <2>3. \A t \in Segment : Budget(t)' /\ RowKnown(t)'
    BY <1>7, <2>1 DEF Drop, Leave, TypeInv, TypeOK, Budget, Busy, RowKnown
  <2> QED BY <2>2, <2>3 DEF TypeInv
<1>8. ASSUME NEW s \in Segment, Skip(s) PROVE TypeInv'
  <2>1. UNCHANGED <<harness, content, retry, nodes, linked, strays, candidates, edits, faults>>
    BY <1>8 DEF Skip
  <2>2. /\ mark' \in [Segment -> Hash \cup {NoHash}] /\ givenUp' \subseteq Segment
    BY <1>8 DEF Skip, TypeInv, TypeOK, RowKnown
  <2>3. TypeOK'
    BY <1>8, <2>1, <2>2 DEF Skip, Leave, TypeInv, TypeOK, Status, Stage
  <2>4. \A t \in Segment : Budget(t)' /\ RowKnown(t)'
    BY <1>8, <2>1 DEF Skip, Leave, TypeInv, TypeOK, Budget, Busy, RowKnown
  <2> QED BY <2>3, <2>4 DEF TypeInv
<1>9. ASSUME NEW s \in Segment, Keep(s) PROVE TypeInv'
  <2>1. UNCHANGED <<harness, content, mark, status, retry, nodes, linked, givenUp, held,
                    heldMark, strays, candidates, edits, faults>>
    BY <1>9 DEF Keep, rowVars, queueVars, nodeVars
  <2> QED BY <1>9, <2>1 DEF Keep, TypeInv, TypeOK, Budget, Busy, RowKnown, Stage
<1>10. ASSUME NEW s \in Segment, Settle(s) PROVE TypeInv'
  <2>1. held[s] \in Hash /\ content[s] \in Hash /\ Answer(s, held[s]) /\ stage[s] = "model"
    BY <1>10 DEF Settle, TypeInv, RowKnown
  <2>2. UNCHANGED <<harness, content, linked, strays, candidates, edits, faults>>
    BY <1>10 DEF Settle
  <2>3. TypeOK'
    <3>1. retry[s] + 1 <= MaxRetries + faults
      <4>1. Busy(s) = 1
        BY <2>1 DEF Busy
      <4> QED BY <4>1, AllCounted
    <3>2. \A t \in Segment : retry'[t] <= MaxRetries + faults
      BY <2>1, <3>1, AnswerEffect DEF TypeInv, TypeOK
    <3> QED BY <1>10, <2>1, <2>2, <3>2, AnswerEffect DEF Settle, Leave, TypeInv, TypeOK, Stage
  <2>4. /\ stage'[s] = "none" /\ \A t \in Segment : t # s => stage'[t] = stage[t]
        /\ \A t \in Segment : t # s => held'[t] = held[t]
    BY <1>10 DEF Settle, Leave, TypeInv, TypeOK
  <2>5. ASSUME NEW t \in Segment PROVE Budget(t)'
    <3>1. CASE t = s
      <4>1. Busy(s) = 1 /\ Busy(s)' = 0 /\ strays'[s] = strays[s] /\ faults' = faults
        BY <2>1, <2>2, <2>4 DEF Busy
      <4>2. /\ retry'[s] \in {retry[s], retry[s] + 1}
            /\ status'[s] \in {"none", "pending", "processing"} => retry'[s] < MaxRetries
        BY <2>1, AnswerEffect
      <4> QED BY <3>1, <4>1, <4>2, AllCounted, AgenticAssumption DEF Budget
    <3>2. CASE t # s
      BY <2>1, <2>2, <2>4, <3>2, AnswerEffect, BudgetKept
    <3> QED BY <3>1, <3>2
  <2>6. \A t \in Segment : RowKnown(t)'
    BY <2>1, <2>2, <2>4, AnswerEffect DEF TypeInv, TypeOK, RowKnown
  <2> QED BY <2>3, <2>5, <2>6 DEF TypeInv
<1>11. ASSUME NEW s \in Segment, Escape(s) PROVE TypeInv'
  <2> DEFINE new == [held |-> held[s], born |-> faults]
  <2>1. UNCHANGED <<harness, content, mark, status, retry, nodes, linked, givenUp, candidates,
                    edits>>
        /\ faults' = faults + 1 /\ stage[s] = "model"
    BY <1>11 DEF Escape, rowVars, queueVars, nodeVars
  <2>2. new \in Stray
    BY <2>1 DEF TypeInv, TypeOK, RowKnown, Stray
  <2>3. /\ strays' \in [Segment -> SUBSET Stray]
        /\ strays'[s] = strays[s] \cup {new}
        /\ \A t \in Segment : t # s => strays'[t] = strays[t]
    BY <1>11, <2>2 DEF Escape, TypeInv, TypeOK
  <2>4. IsFiniteSet(strays'[s]) /\ Cardinality(strays'[s]) \in 0..(Cardinality(strays[s]) + 1)
    <3>1. IsFiniteSet(strays[s]) /\ Cardinality(strays[s]) \in Nat
      BY AllCounted
    <3>2. /\ IsFiniteSet(strays[s] \cup {new})
          /\ Cardinality(strays[s] \cup {new}) \in {Cardinality(strays[s]), Cardinality(strays[s]) + 1}
      BY <3>1, FS_AddElement
    <3> QED BY <2>3, <3>1, <3>2
  <2>5. TypeOK'
    BY <1>11, <2>1, <2>3 DEF Escape, Leave, TypeInv, TypeOK, Stage
  <2>6. /\ stage'[s] = "none" /\ \A t \in Segment : t # s => stage'[t] = stage[t]
        /\ \A t \in Segment : t # s => held'[t] = held[t]
    BY <1>11 DEF Escape, Leave, TypeInv, TypeOK
  <2>7. ASSUME NEW t \in Segment PROVE Budget(t)'
    <3>1. CASE t = s
      <4>1. Busy(s) = 1 /\ Busy(s)' = 0 /\ retry'[s] = retry[s] /\ status'[s] = status[s]
        BY <2>1, <2>6 DEF Busy
      <4> QED BY <2>1, <2>4, <3>1, <4>1, AllCounted, AgenticAssumption DEF Budget
    <3>2. CASE t # s
      BY <2>1, <2>3, <2>6, <3>2, BudgetKept
    <3> QED BY <3>1, <3>2
  <2>8. \A t \in Segment : RowKnown(t)'
    BY <2>1, <2>3, <2>6 DEF TypeInv, TypeOK, RowKnown
  <2> QED BY <2>5, <2>7, <2>8 DEF TypeInv
<1>12. ASSUME NEW s \in Segment, NEW t \in strays[s], StraySettles(s, t) PROVE TypeInv'
  <2>1. t.held \in Hash /\ Answer(s, t.held) /\ content[s] \in Hash
    BY <1>12 DEF StraySettles, TypeInv, TypeOK, RowKnown, Stray
  <2>2. UNCHANGED <<harness, content, linked, stage, held, heldMark, candidates, edits, faults>>
    BY <1>12 DEF StraySettles, workerVars
  <2>3. /\ strays' \in [Segment -> SUBSET Stray]
        /\ strays'[s] = strays[s] \ {t}
        /\ \A u \in Segment : u # s => strays'[u] = strays[u]
    BY <1>12 DEF StraySettles, TypeInv, TypeOK
  <2>4. IsFiniteSet(strays'[s]) /\ Cardinality(strays'[s]) = Cardinality(strays[s]) - 1
        /\ Cardinality(strays'[s]) \in Nat
    <3>1. IsFiniteSet(strays[s])
      BY DEF TypeInv, Budget
    <3> QED BY <2>3, <3>1, FS_RemoveElement, FS_CardinalityType
  <2>5. TypeOK'
    <3>1. retry[s] + 1 <= MaxRetries + faults
      <4>1. Cardinality(strays[s]) >= 1
        BY <2>4, AllCounted
      <4> QED BY <4>1, AllCounted
    <3>2. \A u \in Segment : retry'[u] <= MaxRetries + faults
      BY <2>1, <3>1, AnswerEffect DEF TypeInv, TypeOK
    <3> QED BY <2>1, <2>2, <2>3, <3>2, AnswerEffect DEF TypeInv, TypeOK
  <2>6. \A u \in Segment : Budget(u)' /\ RowKnown(u)'
    <3>1. Budget(s)'
      <4>1. /\ Busy(s)' = Busy(s) /\ faults' = faults
            /\ retry'[s] \in {retry[s], retry[s] + 1}
            /\ status'[s] \in {"none", "pending", "processing"} => retry'[s] < MaxRetries
        BY <2>1, <2>2, AnswerEffect DEF Busy
      <4> QED BY <4>1, <2>4, AllCounted, AgenticAssumption DEF Budget
    <3>2. \A u \in Segment : u # s => Budget(u)'
      BY <2>1, <2>2, <2>3, AnswerEffect DEF TypeInv, TypeOK, Budget, Busy
    <3>3. \A u \in Segment : RowKnown(u)'
      BY <2>1, <2>2, <2>3, AnswerEffect DEF TypeInv, TypeOK, RowKnown
    <3> QED BY <3>1, <3>2, <3>3
  <2> QED BY <2>5, <2>6 DEF TypeInv
<1>13. ASSUME NEW s \in Segment, Abandon(s) PROVE TypeInv'
  <2>1. UNCHANGED <<harness, content, mark, status, retry, nodes, linked, givenUp, strays,
                    candidates, edits>>
        /\ faults' = faults + 1
    BY <1>13 DEF Abandon, rowVars, queueVars, nodeVars
  <2> QED BY <1>13, <2>1 DEF Abandon, Leave, TypeInv, TypeOK, Budget, Busy, RowKnown, Stage
<1>14. ASSUME NEW s \in Segment, Reap(s) PROVE TypeInv'
  <2>1. UNCHANGED <<harness, content, mark, nodes, linked, givenUp, stage, held, heldMark,
                    strays, candidates, edits>>
    BY <1>14 DEF Reap, rowVars, nodeVars, workerVars
  <2>2. /\ retry[s] \in Nat /\ retry[s] < MaxRetries /\ retry'[s] = retry[s] + 1
        /\ faults' = faults + Busy(s)
    BY <1>14 DEF Reap, TypeInv, TypeOK, Budget, Busy
  <2>3. TypeOK'
    BY <1>14, <2>1, <2>2 DEF Reap, TypeInv, TypeOK, Busy, Status
  <2>4. /\ status'[s] \in {"failed", "pending"}
        /\ status'[s] = "pending" => retry'[s] < MaxRetries
        /\ status[s] = "processing"
        /\ \A t \in Segment : t # s => status'[t] = status[t] /\ retry'[t] = retry[t]
    BY <1>14, <2>2 DEF Reap, Exhausted, TypeInv, TypeOK
  <2>5. ASSUME NEW t \in Segment PROVE Budget(t)'
    <3>1. CASE t = s
      <4>1. Busy(s)' = Busy(s) /\ strays'[s] = strays[s]
        BY <2>1 DEF Busy
      <4> QED BY <2>2, <2>4, <3>1, <4>1, AllCounted, AgenticAssumption DEF Budget
    <3>2. CASE t # s
      <4>1. faults' \in {faults, faults + 1}
        BY <2>2, AllCounted
      <4> QED BY <2>1, <2>4, <3>2, <4>1, BudgetKept
    <3> QED BY <3>1, <3>2
  <2>6. \A t \in Segment : RowKnown(t)'
    BY <2>1, <2>4 DEF TypeInv, TypeOK, RowKnown
  <2> QED BY <2>3, <2>5, <2>6 DEF TypeInv
<1>15. ASSUME NEW s \in Segment, LinkOutcome(s) PROVE TypeInv'
  <2>1. UNCHANGED <<harness, content, mark, status, retry, nodes, givenUp, stage, held, heldMark,
                    strays, candidates, edits, faults>>
        /\ linked' \subseteq Segment
    BY <1>15 DEF LinkOutcome, rowVars, queueVars, workerVars, TypeInv, TypeOK
  <2> QED BY <2>1 DEF TypeInv, TypeOK, Budget, Busy, RowKnown
<1>16. CASE BrainCrash
  <2>1. UNCHANGED <<harness, content, mark, status, retry, nodes, linked, givenUp, candidates,
                    edits>>
        /\ faults' = faults + 1
    BY <1>16 DEF BrainCrash, rowVars, queueVars, nodeVars
  <2>2. IsFiniteSet({}) /\ Cardinality({}) = 0
    BY FS_EmptySet
  <2> QED BY <1>16, <2>1, <2>2 DEF BrainCrash, TypeInv, TypeOK, Budget, Busy, RowKnown, Stage
<1>17. CASE UNCHANGED vars
  BY <1>17 DEF vars, rowVars, queueVars, nodeVars, workerVars, TypeInv, TypeOK, Budget, Busy,
               RowKnown
<1> QED
  BY <1>1, <1>2, <1>3, <1>4, <1>5, <1>6, <1>7, <1>8, <1>9, <1>10, <1>11, <1>12, <1>13,
     <1>14, <1>15, <1>16, <1>17
  DEF Next, WorkerNext, Judge

\* The invariant holds of the empty tables.
LEMMA TypeInvInit == Init => TypeInv
<1>1. IsFiniteSet({}) /\ Cardinality({}) = 0
  BY FS_EmptySet
<1> QED
  BY <1>1, AgenticAssumption
  DEF Init, TypeInv, TypeOK, Budget, Busy, RowKnown, Harness, Status, Stage

\* Every variable keeps its type, and the retry count passes its limit by no more than
\* one for each coroutine that lost its row (mark_claude_queue_failed).
THEOREM TypeCorrect == Spec => []TypeOK
<1>1. TypeInv => TypeOK
  BY DEF TypeInv
<1> QED
  BY <1>1, TypeInvInit, TypeInvStep, PTL DEF Spec
-----------------------------------------------------------------------------
\* The observations are written by Write alone, and Write replaces them.
NodesKept == UNCHANGED nodes

\* Which steps change the observations: only an answer that is written, whoever gives it.
LEMMA NodesStep ==
  ASSUME TypeInv, [Next]_vars
  PROVE  NodesKept \/ \E s \in Segment, h \in Hash : Write(s, h)
<1>1. ASSUME NEW s \in Segment, NEW h \in Hash, Answer(s, h)
      PROVE  NodesKept \/ Write(s, h)
  BY <1>1 DEF Answer, Release, Fail, NodesKept
<1>2. ASSUME NEW s \in Segment, Settle(s)
      PROVE  NodesKept \/ \E h \in Hash : Write(s, h)
  <2>1. held[s] \in Hash
    BY <1>2 DEF Settle, TypeInv, RowKnown
  <2> QED BY <1>1, <1>2, <2>1 DEF Settle
<1>3. ASSUME NEW s \in Segment, NEW t \in strays[s], StraySettles(s, t)
      PROVE  NodesKept \/ \E h \in Hash : Write(s, h)
  <2>1. t.held \in Hash
    BY DEF TypeInv, TypeOK, Stray
  <2> QED BY <1>1, <1>3, <2>1 DEF StraySettles
<1> QED
  BY <1>2, <1>3
  DEF Next, WorkerNext, Judge, Upsert, SweepSelect, SweepEnqueue, SweepAborts,
      Claim, Read, Drop, Skip, Keep, Escape, Abandon, Reap, LinkOutcome, BrainCrash,
      nodeVars, vars, NodesKept

\* A segment never accumulates nodes (replace_prior_agentic_nodes).
THEOREM OneNodeAlways == Spec => []OneNode
<1>1. Init => OneNode
  <2> SUFFICES ASSUME Init, NEW s \in Segment PROVE Len(nodes[s]) <= 1
    BY DEF OneNode
  <2>1. nodes[s] = << >>
    BY DEF Init
  <2>2. Len(<< >>) = 0
    OBVIOUS
  <2> QED BY <2>1, <2>2
<1>2. TypeInv /\ OneNode /\ [Next]_vars => OneNode'
  <2> SUFFICES ASSUME TypeInv, OneNode, [Next]_vars PROVE OneNode'
    OBVIOUS
  <2>1. CASE NodesKept
    BY <2>1 DEF NodesKept, OneNode
  <2>2. ASSUME NEW s \in Segment, NEW h \in Hash, Write(s, h) PROVE OneNode'
    BY <2>2 DEF Write, ReplaceNode, OneNode, TypeInv, TypeOK
  <2> QED BY <2>1, <2>2, NodesStep
<1> QED
  BY <1>1, <1>2, TypeInvInit, TypeInvStep, PTL DEF Spec

-----------------------------------------------------------------------------
\* The watermark a worker has read moves only by its own last step: a stray does not run
\* between the read and the judgement.
MarkHeld == \A s \in Segment : stage[s] = "read" => heldMark[s] = mark[s]

LEMMA MarkHeldStep == TypeInv /\ MarkHeld /\ [Next]_vars => MarkHeld'
<1> SUFFICES ASSUME TypeInv, MarkHeld, [Next]_vars PROVE MarkHeld'
  OBVIOUS
<1>0. /\ mark \in [Segment -> Hash \cup {NoHash}] /\ stage \in [Segment -> Stage]
      /\ held \in [Segment -> Hash \cup {NoHash}]
      /\ heldMark \in [Segment -> Hash \cup {NoHash}]
  BY DEF TypeInv, TypeOK
<1> USE <1>0 DEF MarkHeld
<1>1. ASSUME NEW s \in Segment, Read(s) PROVE MarkHeld'
  BY <1>1 DEF Read, rowVars
<1>2. ASSUME NEW s \in Segment, Skip(s) PROVE MarkHeld'
  BY <1>2 DEF Skip, Leave
<1>3. ASSUME NEW s \in Segment, Drop(s) \/ Escape(s) \/ Abandon(s) PROVE MarkHeld'
  BY <1>3 DEF Drop, Escape, Abandon, Leave, rowVars
<1>4. ASSUME NEW s \in Segment, Claim(s) \/ Keep(s) PROVE MarkHeld'
  BY <1>4 DEF Claim, Keep, rowVars
<1>5. ASSUME NEW s \in Segment, NEW h, Answer(s, h), NEW t \in Segment, t # s
      PROVE  mark'[t] = mark[t]
  BY <1>5 DEF Answer, Release, Write, Fail
<1>6. ASSUME NEW s \in Segment, Settle(s) PROVE MarkHeld'
  BY <1>5, <1>6 DEF Settle, Leave
<1>7. ASSUME NEW s \in Segment, NEW t \in strays[s], StraySettles(s, t) PROVE MarkHeld'
  BY <1>5, <1>7 DEF StraySettles, InClaim, workerVars
<1>8. CASE BrainCrash
  BY <1>8 DEF BrainCrash
<1>9. CASE UNCHANGED <<stage, heldMark, mark>>
  BY <1>9
<1> QED
  BY <1>1, <1>2, <1>3, <1>4, <1>6, <1>7, <1>8, <1>9
  DEF Next, WorkerNext, Judge, Upsert, SweepSelect, SweepEnqueue, SweepAborts, Reap,
      LinkOutcome, workerVars, rowVars, vars

LEMMA MarkHeldInit == Init => MarkHeld
BY DEF Init, MarkHeld

(***************************************************************************)
(* DoneHasNode is not inductive: it compares a node with a watermark, and  *)
(* what a claim finds when it closes a row was left there by earlier       *)
(* answers.                                                                *)
(***************************************************************************)

\* A watermark that was not given up is the node's; and a done row has a watermark and a
\* node of some kind.
Shown(s) ==
  /\ mark[s] # NoHash /\ s \notin givenUp => nodes[s] = <<mark[s]>>
  /\ status[s] = "done" => mark[s] # NoHash /\ HasNode(s)

AllShown == \A s \in Segment : Shown(s)

\* An answer leaves its segment's watermark explained, and a row done with a node.
LEMMA AnswerShows ==
  ASSUME TypeInv, AllShown, NEW s \in Segment, NEW h \in Hash, Answer(s, h), linked' = linked
  PROVE  AllShown'
<1>1. /\ status \in [Segment -> Status] /\ mark \in [Segment -> Hash \cup {NoHash}]
      /\ nodes \in [Segment -> Seq(Hash)]
  BY DEF TypeInv, TypeOK
<1>2. CASE Release(s, h)
  BY <1>1, <1>2 DEF Release, AllShown, Shown, HasNode
<1>3. CASE Write(s, h)
  <2>1. <<h>> # <<>>
    OBVIOUS
  <2> QED BY <1>1, <1>3, <2>1, AgenticAssumption DEF Write, ReplaceNode, AllShown, Shown, HasNode
<1>4. CASE Fail(s, h)
  BY <1>1, <1>4, AgenticAssumption DEF Fail, AllShown, Shown, HasNode
<1> QED BY <1>2, <1>3, <1>4 DEF Answer

LEMMA ShownStep == TypeInv /\ MarkHeld /\ AllShown /\ [Next]_vars => AllShown'
<1> SUFFICES ASSUME TypeInv, MarkHeld, AllShown, [Next]_vars PROVE AllShown'
  OBVIOUS
<1>0. /\ status \in [Segment -> Status] /\ mark \in [Segment -> Hash \cup {NoHash}]
  BY DEF TypeInv, TypeOK
<1>1. ASSUME NEW s \in Segment, NEW h \in Hash, Upsert(s, h) PROVE AllShown'
  <2>1. CASE Requeue({s})
    BY <1>1, <2>1, RequeueEffect DEF Upsert, nodeVars, AllShown, Shown, HasNode
  <2>2. CASE UNCHANGED queueVars
    BY <1>1, <2>2 DEF Upsert, queueVars, nodeVars, AllShown, Shown, HasNode
  <2> QED BY <1>1, <2>1, <2>2 DEF Upsert
<1>2. CASE SweepEnqueue
  <2>1. candidates \in SUBSET Segment
    BY DEF TypeInv, TypeOK
  <2> QED BY <1>2, <2>1, RequeueEffect DEF SweepEnqueue, rowVars, nodeVars, AllShown, Shown, HasNode
<1>3. ASSUME NEW s \in Segment, Claim(s) \/ Reap(s) PROVE AllShown'
  BY <1>0, <1>3 DEF Claim, Reap, rowVars, nodeVars, AllShown, Shown, HasNode
<1>4. ASSUME NEW s \in Segment, Drop(s) PROVE AllShown'
  <2>1. mark[s] \in Hash /\ HasNode(s)
    BY <1>4 DEF Drop, AlreadyEnriched, MarkHeld, TypeInv, RowKnown
  <2> QED BY <1>0, <1>4, <2>1, AgenticAssumption DEF Drop, rowVars, nodeVars, AllShown, Shown, HasNode
<1>5. ASSUME NEW s \in Segment, Skip(s) PROVE AllShown'
  BY <1>0, <1>5 DEF Skip, AllShown, Shown, HasNode
<1>6. ASSUME NEW s \in Segment, Settle(s) PROVE AllShown'
  BY <1>6, AnswerShows DEF Settle, TypeInv, RowKnown
<1>7. ASSUME NEW s \in Segment, NEW t \in strays[s], StraySettles(s, t) PROVE AllShown'
  <2>1. t.held \in Hash
    BY DEF TypeInv, TypeOK, Stray
  <2> QED BY <1>7, <2>1, AnswerShows DEF StraySettles
<1>8. ASSUME NEW s \in Segment, LinkOutcome(s) PROVE AllShown'
  BY <1>8 DEF LinkOutcome, rowVars, queueVars, AllShown, Shown, HasNode
<1>9. CASE UNCHANGED <<mark, status, nodes, linked, givenUp>>
  BY <1>9 DEF AllShown, Shown, HasNode
<1> QED
  BY <1>1, <1>2, <1>3, <1>4, <1>5, <1>6, <1>7, <1>8, <1>9
  DEF Next, WorkerNext, Judge, SweepSelect, SweepAborts, Read, Keep, Escape, Abandon,
      BrainCrash, rowVars, queueVars, nodeVars, vars

\* A done row shows the observation its watermark names, unless that content was given up;
\* then it has some node (write_claude_knowledge_node, _agentic_segment_has_node).
THEOREM DoneHasNodeAlways == Spec => []DoneHasNode
<1>1. Init => AllShown
  BY DEF Init, AllShown, Shown
<1>2. AllShown => DoneHasNode
  BY DEF AllShown, Shown, DoneHasNode
<1> QED
  BY <1>1, <1>2, ShownStep, MarkHeldInit, MarkHeldStep, TypeInvInit, TypeInvStep, PTL DEF Spec

-----------------------------------------------------------------------------
\* The queue implements the abstract promise: each step of the daemon or the brain is
\* an edit, a publication or a settling of the present content, or changes none of it.
\* Who writes a node or moves a watermark writes the content that is current in that very
\* transaction, a stray as well (release_changed_agentic_batch and the guards on
\* content_hash of the skip and the terminal failure).
LEMMA PromiseInit == Init => Promise!Init
BY DEF Init, Promise!Init

\* A node or a watermark is written for the present content, or not at all.
LEMMA AnswerPromises ==
  ASSUME TypeInv, NEW s \in Segment, NEW h \in Hash, Answer(s, h), content' = content
  PROVE  Promise!Next \/ UNCHANGED <<content, nodes, mark>>
<1>1. CASE Release(s, h)
  BY <1>1 DEF Release
<1>2. CASE Write(s, h)
  <2>1. Promise!Publish(s)
    BY <1>2, AgenticAssumption DEF Write, Superseded, ReplaceNode, Promise!Publish
  <2> QED BY <2>1 DEF Promise!Next
<1>3. CASE Fail(s, h)
  <2>1. CASE Exhausted(s)
    <3>1. Promise!GiveUp(s)
      BY <1>3, <2>1, AgenticAssumption DEF Fail, Superseded, Promise!GiveUp
    <3> QED BY <3>1 DEF Promise!Next
  <2>2. CASE ~Exhausted(s)
    BY <1>3, <2>2 DEF Fail
  <2> QED BY <2>1, <2>2
<1> QED BY <1>1, <1>2, <1>3 DEF Answer

LEMMA PromiseStep == TypeInv /\ [Next]_vars => [Promise!Next]_(Promise!abstractVars)
<1> SUFFICES ASSUME TypeInv, [Next]_vars
             PROVE Promise!Next \/ UNCHANGED <<content, nodes, mark>>
  BY DEF Promise!abstractVars
<1>1. ASSUME NEW s \in Segment, NEW h \in Hash, Upsert(s, h) PROVE Promise!Edit(s, h)
  BY <1>1 DEF Upsert, nodeVars, Promise!Edit
<1>2. ASSUME NEW s \in Segment, Settle(s) PROVE Promise!Next \/ UNCHANGED <<content, nodes, mark>>
  <2>1. held[s] \in Hash
    BY <1>2 DEF Settle, TypeInv, RowKnown
  <2> QED BY <1>2, <2>1, AnswerPromises DEF Settle
<1>3. ASSUME NEW s \in Segment, NEW t \in strays[s], StraySettles(s, t)
      PROVE  Promise!Next \/ UNCHANGED <<content, nodes, mark>>
  <2>1. t.held \in Hash
    BY DEF TypeInv, TypeOK, Stray
  <2> QED BY <1>3, <2>1, AnswerPromises DEF StraySettles
<1>4. ASSUME NEW s \in Segment, Skip(s) PROVE Promise!GiveUp(s) \/ UNCHANGED <<content, nodes, mark>>
  <2>1. held[s] \in Hash
    BY <1>4 DEF Skip, TypeInv, RowKnown
  <2> QED BY <1>4, <2>1, AgenticAssumption DEF Skip, Promise!GiveUp
<1>5. \/ UNCHANGED <<content, nodes, mark>>
      \/ \E s \in Segment, h \in Hash : Upsert(s, h)
      \/ \E s \in Segment : Settle(s) \/ Skip(s) \/ \E t \in strays[s] : StraySettles(s, t)
  BY DEF Next, WorkerNext, Judge, SweepSelect, SweepEnqueue, SweepAborts, Claim, Read, Drop,
         Keep, Escape, Abandon, Reap, LinkOutcome, BrainCrash, rowVars, nodeVars, vars
<1> QED BY <1>1, <1>2, <1>3, <1>4, <1>5 DEF Promise!Next

\* The agentic queue implements Enrichment (release_changed_agentic_batch,
\* replace_prior_agentic_nodes).
THEOREM PromiseKept == Spec => KeepsPromise
<1> QED
  BY PromiseInit, PromiseStep, TypeInvInit, TypeInvStep, PTL
  DEF Spec, KeepsPromise, Promise!Spec

-----------------------------------------------------------------------------
\* What an upsert leaves without a queue row had none before, or was already handled.
LEMMA UpsertStrands ==
  ASSUME TypeInv, NEW s \in Segment, NEW h \in Hash, Upsert(s, h), NEW t \in Segment,
         Stranded(t)'
  PROVE  Stranded(t)
<1>1. /\ content'[s] = h /\ mark' = mark
      /\ \A u \in Segment : u # s => content'[u] = content[u]
  BY DEF Upsert, TypeInv, TypeOK
<1>2. /\ \/ status'[t] = status[t] /\ (t # s \/ ~Enqueues(s, h))
         \/ t = s /\ status[s] = "processing" /\ status'[s] = "processing"
         \/ t = s /\ status'[t] = "pending"
         \/ t # s /\ status'[t] = status[t]
  <2>1. CASE Enqueues(s, h)
    <3>1. Requeue({s})
      BY <2>1 DEF Upsert
    <3> QED BY <3>1 DEF Requeue, TypeInv, TypeOK
  <2>2. CASE ~Enqueues(s, h)
    BY <2>2 DEF Upsert, queueVars
  <2> QED BY <2>1, <2>2
<1>3. CASE t # s
  BY <1>1, <1>2, <1>3 DEF Stranded
<1>4. CASE t = s
  <2>1. /\ status'[s] = status[s] /\ ~Enqueues(s, h)
        /\ h # mark[s] /\ status[s] \notin {"pending", "processing"}
    BY <1>1, <1>2, <1>4 DEF Stranded
  <2> QED BY <2>1 DEF Enqueues, DecideEnqueue
<1> QED BY <1>3, <1>4

\* An answer about superseded content leaves the row queued if it was, any other settles
\* the present content or queues it again.
LEMMA AnswerStrands ==
  ASSUME TypeInv, NEW s \in Segment, NEW h \in Hash, Answer(s, h), content' = content,
         NEW t \in Segment, Stranded(t)'
  PROVE  Stranded(t)
<1>1. status \in [Segment -> Status] /\ mark \in [Segment -> Hash \cup {NoHash}]
  BY DEF TypeInv, TypeOK
<1>2. CASE Release(s, h)
  BY <1>1, <1>2 DEF Release, Stranded
<1>3. CASE Write(s, h)
  BY <1>1, <1>3 DEF Write, Superseded, Stranded
<1>4. CASE Fail(s, h)
  BY <1>1, <1>4 DEF Fail, Superseded, Stranded
<1> QED BY <1>2, <1>3, <1>4 DEF Answer

\* Content is stranded only by the reaper's last charge or by a late judgement
\* (decide_enqueue, release_changed_agentic_batch, mark_claude_queue_failed).
THEOREM StrandedOnlyByAlways == Spec => StrandedOnlyBy
<1> DEFINE Explained(t) == Stranded(t)' => Stranded(t) \/ ReapedForGood(t) \/ JudgedTooLate(t)
<1>1. ASSUME TypeInv, MarkHeld, [Next]_vars, NEW t \in Segment PROVE Explained(t)
  <2>0. status \in [Segment -> Status] /\ mark \in [Segment -> Hash \cup {NoHash}]
        /\ retry \in [Segment -> Nat]
    BY <1>1 DEF TypeInv, TypeOK
  <2>1. ASSUME NEW s \in Segment, NEW h \in Hash, Upsert(s, h) PROVE Explained(t)
    BY <1>1, <2>1, UpsertStrands
  <2>2. CASE SweepEnqueue
    <3>1. \/ status'[t] = status[t] \/ status'[t] = "pending"
      BY <2>2 DEF SweepEnqueue, Requeue
    <3> QED BY <2>2, <3>1 DEF SweepEnqueue, rowVars, Stranded
  <2>3. ASSUME UNCHANGED <<content, mark, queueVars>> PROVE Explained(t)
    BY <2>3 DEF queueVars, Stranded
  <2>4. ASSUME NEW s \in Segment, Claim(s) PROVE Explained(t)
    BY <2>0, <2>4 DEF Claim, rowVars, Stranded
  <2>5. ASSUME NEW s \in Segment, Drop(s) PROVE Explained(t)
    BY <1>1, <2>0, <2>5 DEF Drop, rowVars, AlreadyEnriched, MarkHeld, Stranded, JudgedTooLate
  <2>6. ASSUME NEW s \in Segment, Skip(s) PROVE Explained(t)
    BY <2>0, <2>6 DEF Skip, Stranded, JudgedTooLate
  <2>7. ASSUME NEW s \in Segment, Settle(s) PROVE Explained(t)
    BY <1>1, <2>7, AnswerStrands DEF Settle, TypeInv, RowKnown
  <2>8. ASSUME NEW s \in Segment, NEW u \in strays[s], StraySettles(s, u) PROVE Explained(t)
    <3>1. u.held \in Hash
      BY <1>1 DEF TypeInv, TypeOK, Stray
    <3> QED BY <1>1, <2>8, <3>1, AnswerStrands DEF StraySettles
  <2>9. ASSUME NEW s \in Segment, Reap(s) PROVE Explained(t)
    BY <2>0, <2>9, AgenticAssumption DEF Reap, rowVars, Exhausted, Stranded, ReapedForGood
  <2> QED
    BY <1>1, <2>1, <2>2, <2>3, <2>4, <2>5, <2>6, <2>7, <2>8, <2>9
    DEF Next, WorkerNext, Judge, SweepSelect, SweepAborts, Read, Keep, Escape, Abandon,
        LinkOutcome, BrainCrash, vars, rowVars, queueVars
<1> HIDE DEF Explained
<1>2. TypeInv /\ MarkHeld /\ [Next]_vars =>
        [\A s \in Segment :
           Stranded(s)' => Stranded(s) \/ ReapedForGood(s) \/ JudgedTooLate(s)]_vars
  BY <1>1 DEF Explained
<1> QED
  BY <1>2, MarkHeldInit, MarkHeldStep, TypeInvInit, TypeInvStep, PTL DEF Spec, StrandedOnlyBy
=============================================================================
