-------------------------- MODULE BrainServerProofs --------------------------
(***************************************************************************)
(* Theorems about BrainServer, for every set of rows and sources and every *)
(* value of the bounds.                                                    *)
(***************************************************************************)
EXTENDS BrainServer, TLAPS

RowTypes == status \in [Row -> Status] /\ retry \in [Row -> Nat] /\ nodes \in [Row -> Nat]

WorkTypes == /\ pc \in LoopPc
             /\ batch \subseteq Row /\ stray \in [Row -> Nat]
             /\ pc # "gather" => batch = {}

\* The variables of the requests, the other tasks and the bounds: most steps leave all
\* but one or two of them alone.
RestTypes ==
  /\ paused \in BOOLEAN /\ operator \in BOOLEAN
  /\ asking \in Nat /\ queries \in Nat
  /\ sweep \in Nat /\ embedding \in BOOLEAN /\ classifying \in BOOLEAN
  /\ asked \in Nat /\ pauses \in Nat /\ faults \in Nat /\ escapes \in Nat

LEMMA TypeParts == TypeOK <=> RowTypes /\ WorkTypes /\ RestTypes
BY DEF TypeOK, RowTypes, WorkTypes, RestTypes

LEMMA TypeInit == Init => TypeOK
<1> SUFFICES ASSUME Init PROVE RowTypes /\ WorkTypes /\ RestTypes
  BY TypeParts
<1>1. RowTypes /\ WorkTypes
  BY DEF Init, RowTypes, WorkTypes, Status, LoopPc
<1>2. paused \in BOOLEAN /\ operator \in BOOLEAN /\ embedding \in BOOLEAN
      /\ classifying \in BOOLEAN
  BY DEF Init
<1>3. /\ asking \in Nat /\ queries \in Nat /\ sweep \in Nat
      /\ asked \in Nat /\ pauses \in Nat /\ faults \in Nat /\ escapes \in Nat
  BY DEF Init
<1> QED BY <1>1, <1>2, <1>3 DEF RestTypes

\* What a claim does to the rows and to the round
LEMMA TakeTypes ==
  ASSUME TypeOK, NEW taken \in SUBSET Row, NEW lost \in SUBSET Row, Take(taken, lost)
  PROVE  /\ RowTypes'
         /\ batch' \subseteq Row /\ stray' \in [Row -> Nat]
         /\ batch' # {} => ~(taken \subseteq Ineligible)
         /\ UNCHANGED <<paused, operator, asking, queries, sweep, embedding, classifying,
                        asked, pauses, escapes>>
<1>1. status' \in [Row -> Status]
  BY DEF Take, TypeOK, Status
<1>2. UNCHANGED <<retry, nodes, stray>>
  BY DEF Take
<1>3. batch' = taken \ Ineligible
  BY DEF Take
<1>4. UNCHANGED <<paused, operator, asking, queries, sweep, embedding, classifying, asked,
                  pauses, escapes>>
  BY DEF Take, controlVars, queryVars, otherVars
<1> QED
  BY <1>1, <1>2, <1>3, <1>4 DEF RowTypes, TypeOK

LEMMA LoopTypes == TypeOK /\ LoopNext => TypeOK'
<1> SUFFICES ASSUME TypeOK, LoopNext PROVE TypeOK'
  OBVIOUS
<1>1. ASSUME NEW p \in LoopPc, MoveTo(p), faults' \in Nat, p # "gather", batch = {}
      PROVE TypeOK'
  BY <1>1
  DEF MoveTo, TypeOK, rowVars, workVars, controlVars, queryVars, otherVars
<1>2. CASE Poll
  BY <1>1, <1>2 DEF Poll, TypeOK, LoopPc
<1>3. CASE StartRound
  <2>1. (IF Paused THEN "top" ELSE "preflight") \in LoopPc \ {"gather"}
    BY DEF LoopPc
  <2> QED BY <1>1, <1>3, <2>1 DEF StartRound, TypeOK
<1>4. CASE PreflightRefuses
  BY <1>1, <1>4 DEF PreflightRefuses, TypeOK, LoopPc
<1>5. CASE GatherEnds
  BY <1>1, <1>5 DEF GatherEnds, TypeOK, LoopPc
<1>6. CASE BackoffEnds
  BY <1>1, <1>6 DEF BackoffEnds, TypeOK, LoopPc
<1>7. ASSUME NEW taken \in SUBSET Row, NEW lost \in SUBSET Row, Take(taken, lost),
             pc' \in {"top", "gather", "backoff"}, pc' # "gather" => taken \subseteq Ineligible,
             faults' \in Nat
      PROVE TypeOK'
  <2>1. /\ RowTypes' /\ batch' \subseteq Row /\ stray' \in [Row -> Nat]
        /\ batch' # {} => ~(taken \subseteq Ineligible)
        /\ UNCHANGED <<paused, operator, asking, queries, sweep, embedding, classifying,
                       asked, pauses, escapes>>
    BY <1>7, TakeTypes
  <2>2. RestTypes'
    BY <2>1, <1>7 DEF RestTypes, TypeOK
  <2>3. WorkTypes'
    BY <2>1, <1>7 DEF WorkTypes, LoopPc
  <2> QED BY <2>1, <2>2, <2>3 DEF TypeOK, RowTypes, WorkTypes, RestTypes
<1>8. faults \in Nat
  BY DEF TypeOK
<1>9. CASE ClaimNext
  <2>1. ASSUME NEW C \in SUBSET Row, Claims(C) PROVE TypeOK'
    <3>1. /\ Take(C, {}) /\ faults' \in Nat /\ pc' \in {"top", "gather", "backoff"}
          /\ pc' # "gather" => C \subseteq Ineligible
      BY <1>8, <2>1 DEF Claims
    <3>2. {} \in SUBSET Row
      OBVIOUS
    <3> QED BY <1>7, <3>1, <3>2
  <2>2. ASSUME NEW L \in SUBSET Row, ShellClaimRaises(L) PROVE TypeOK'
    <3>1. Take({}, L) /\ pc' = "backoff" /\ faults' \in Nat
      BY <1>8, <2>2 DEF ShellClaimRaises
    <3>2. {} \in SUBSET Row /\ {} \subseteq Ineligible
      OBVIOUS
    <3> QED BY <1>7, <3>1, <3>2
  <2>3. ASSUME NEW S \in SUBSET Source, NEW L \in SUBSET Row, NEW C \in SUBSET Row,
               OtherClaimsRaise(S, L, C)
        PROVE TypeOK'
    <3>1. /\ Take(C, L) /\ faults' \in Nat /\ pc' \in {"top", "gather", "backoff"}
          /\ pc' # "gather" => C \subseteq Ineligible
      BY <1>8, <2>3 DEF OtherClaimsRaise
    <3> QED BY <1>7, <3>1
  <2> QED BY <1>9, <2>1, <2>2, <2>3 DEF ClaimNext
<1> QED
  BY <1>2, <1>3, <1>4, <1>5, <1>6, <1>9 DEF LoopNext

\* A coroutine that leaves a row takes nothing up.
LEMMA LeavesTypes ==
  ASSUME TypeOK, NEW r \in Row, NEW w \in Worker, Leaves(r, w)
  PROVE  batch' \subseteq batch /\ stray' \in [Row -> Nat]
BY DEF Leaves, TypeOK

LEMMA ChargeTypes ==
  ASSUME TypeOK, NEW r \in Row, Charge(r)
  PROVE  status' \in [Row -> Status] /\ retry' \in [Row -> Nat]
BY DEF Charge, TypeOK, Status

LEMMA RowStepTypes ==
  ASSUME TypeOK, NEW r \in Row, RowNext(r)
  PROVE  TypeOK'
<1> USE DEF TypeOK, controlVars, queryVars, otherVars
<1>1. CASE Enqueue(r)
  BY <1>1 DEF Enqueue, workVars, Status
<1>2. CASE Escape(r)
  BY <1>2 DEF Escape, rowVars, LoopPc
<1>3. CASE Reap(r)
  BY <1>3, ChargeTypes DEF Reap, workVars
<1>4. ASSUME NEW w \in Worker, WriteNode(r, w) PROVE TypeOK'
  <2>1. batch' \subseteq batch /\ stray' \in [Row -> Nat]
    BY <1>4, LeavesTypes DEF WriteNode
  <2>2. nodes' \in [Row -> Nat] /\ status' \in [Row -> Status]
    BY <1>4 DEF WriteNode, Status
  <2> QED BY <1>4, <2>1, <2>2 DEF WriteNode
<1>5. ASSUME NEW w \in Worker, MarkFailed(r, w) PROVE TypeOK'
  <2>1. batch' \subseteq batch /\ stray' \in [Row -> Nat]
    BY <1>5, LeavesTypes DEF MarkFailed
  <2>2. status' \in [Row -> Status] /\ retry' \in [Row -> Nat]
    BY <1>5, ChargeTypes DEF MarkFailed
  <2> QED BY <1>5, <2>1, <2>2 DEF MarkFailed
<1> QED
  BY <1>1, <1>2, <1>3, <1>4, <1>5 DEF RowNext, Settle

LEMMA TypeStep == TypeOK /\ [Next]_vars => TypeOK'
<1> SUFFICES ASSUME TypeOK, [Next]_vars PROVE TypeOK'
  OBVIOUS
<1>1. CASE LoopNext
  BY <1>1, LoopTypes
<1>2. CASE ControlNext
  <2>1. UNCHANGED <<status, retry, nodes, pc, batch, stray, asking, queries, sweep, embedding,
                    classifying, asked, faults, escapes>>
    BY <1>2
    DEF ControlNext, Pause, Resume, OperatorPause, OperatorResume, Control, rowVars, workVars,
        queryVars, otherVars
  <2>2. \/ paused' = paused /\ operator' \in BOOLEAN
        \/ operator' = operator /\ paused' \in BOOLEAN
    BY <1>2
    DEF ControlNext, Pause, Resume, OperatorPause, OperatorResume, Control
  <2>3. paused' \in BOOLEAN /\ operator' \in BOOLEAN
    BY <2>2 DEF TypeOK
  <2>4. pauses' \in Nat
    <3>1. pauses' = pauses \/ pauses' = pauses + 1
      BY <1>2 DEF ControlNext, Pause, Resume, OperatorPause, OperatorResume
    <3> QED BY <3>1 DEF TypeOK
  <2> QED BY <2>1, <2>3, <2>4 DEF TypeOK
<1>3. CASE QueryNext
  BY <1>3
  DEF QueryNext, QueryArrives, BodyRead, QueryEnds, QueryOnly, TypeOK, rowVars, workVars,
      controlVars, otherVars
<1>4. CASE OtherNext
  <2>1. UNCHANGED <<status, retry, nodes, pc, batch, stray, paused, operator, asking, queries,
                    asked, pauses, faults, escapes>>
    BY <1>4
    DEF OtherNext, SweepTick, EmbedBegins, EmbedEnds, ClassifyBegins, ClassifyEnds, OtherOnly,
        rowVars, workVars, controlVars, queryVars
  <2>2. sweep' \in Nat
    BY <1>4, BrainAssumption
    DEF OtherNext, SweepTick, EmbedBegins, EmbedEnds, ClassifyBegins, ClassifyEnds, TypeOK
  <2>3. /\ embedding' = embedding \/ embedding' \in BOOLEAN
        /\ classifying' = classifying \/ classifying' \in BOOLEAN
    BY <1>4
    DEF OtherNext, SweepTick, EmbedBegins, EmbedEnds, ClassifyBegins, ClassifyEnds
  <2>4. embedding' \in BOOLEAN /\ classifying' \in BOOLEAN
    BY <2>3 DEF TypeOK
  <2> QED BY <2>1, <2>2, <2>4 DEF TypeOK
<1>5. ASSUME NEW r \in Row, RowNext(r) PROVE TypeOK'
  BY <1>5, RowStepTypes
<1>6. ASSUME NEW S \in SUBSET Row, StrayEscape(S) PROVE TypeOK'
  <2>1. stray' \in [Row -> Nat]
    BY <1>6 DEF StrayEscape, TypeOK
  <2> QED
    BY <1>6, <2>1 DEF StrayEscape, TypeOK, rowVars, controlVars, queryVars, otherVars
<1>7. CASE Crash
  <2>1. /\ UNCHANGED <<status, retry, nodes, operator, pauses, asked, escapes>>
        /\ pc' = "top" /\ batch' = {} /\ stray' = [r \in Row |-> 0]
        /\ asking' = 0 /\ queries' = 0 /\ sweep' = 0 /\ faults' = faults + 1
    BY <1>7 DEF Crash, rowVars
  <2>2. paused' \in BOOLEAN /\ embedding' \in BOOLEAN /\ classifying' \in BOOLEAN
    BY <1>7 DEF Crash
  <2>3. stray' \in [Row -> Nat] /\ faults' \in Nat
    BY <2>1 DEF TypeOK
  <2> QED BY <2>1, <2>2, <2>3 DEF TypeOK, LoopPc
<1>8. CASE UNCHANGED vars
  BY <1>8 DEF vars, rowVars, workVars, controlVars, queryVars, otherVars, TypeOK
<1> QED
  BY <1>1, <1>2, <1>3, <1>4, <1>5, <1>6, <1>7, <1>8 DEF Next

\* Every variable keeps its type, and the loop holds rows only in a gather.
THEOREM TypeCorrect == Spec => []TypeOK
BY TypeInit, TypeStep, PTL DEF Spec
-----------------------------------------------------------------------------
(***************************************************************************)
(* While no exception has left a batch, a row with a node is done and in   *)
(* nobody's hands, and there are no stray coroutines.                      *)
(***************************************************************************)

Fresh(r) ==
  /\ stray[r] = 0
  /\ nodes[r] > 0 => nodes[r] = 1 /\ status[r] = "done" /\ r \notin batch

Single == escapes = 0 => \A r \in Row : Fresh(r)

\* Who charges, reaps or skips a row does so to a row without a node.
LEMMA SingleStep == TypeOK /\ Single /\ [Next]_vars => Single'
<1> SUFFICES ASSUME TypeOK, Single, [Next]_vars, escapes' = 0, NEW t \in Row
             PROVE Fresh(t)'
  BY DEF Single
<1> USE DEF Fresh
<1>1. CASE UNCHANGED <<status, nodes, batch, stray, escapes>>
  BY <1>1 DEF Single
<1>2. ASSUME escapes' = escapes PROVE Fresh(t)
  BY <1>2 DEF Single
<1>3. ASSUME NEW taken \in SUBSET Row, NEW lost \in SUBSET Row, Take(taken, lost)
      PROVE Fresh(t)'
  <2>1. Fresh(t) /\ UNCHANGED <<nodes, stray>>
    BY <1>2, <1>3 DEF Take
  <2>2. t \in taken \cup lost => nodes[t] = 0
    BY <1>3, <2>1 DEF Take, Claimable, TypeOK
  <2>3. t \notin taken \cup lost => status'[t] = status[t] /\ t \notin batch'
    BY <1>3 DEF Take
  <2> QED BY <2>1, <2>2, <2>3
<1>4. ASSUME NEW r \in Row, RowNext(r) PROVE Fresh(t)'
  <2>1. CASE Enqueue(r)
    BY <1>2, <2>1 DEF Enqueue, TypeOK, workVars
  <2>2. CASE Escape(r)
    BY <2>2 DEF Escape, TypeOK
  <2>3. CASE Reap(r)
    BY <1>2, <2>3 DEF Reap, Charge, TypeOK, workVars
  <2>4. ASSUME NEW w \in Worker, WriteNode(r, w) \/ MarkFailed(r, w)
        PROVE r \in batch /\ batch' = batch \ {r} /\ stray' = stray /\ escapes' = escapes
    <3>1. escapes' = escapes
      BY <2>4 DEF WriteNode, MarkFailed
    <3>2. stray[r] = 0
      BY <3>1 DEF Single
    <3> QED BY <2>4, <3>1, <3>2 DEF WriteNode, MarkFailed, Leaves
  <2>5. ASSUME NEW w \in Worker, WriteNode(r, w) PROVE Fresh(t)'
    <3>1. Fresh(t) /\ Fresh(r)
      BY <2>4, <2>5 DEF Single
    <3>2. CASE t = r
      <4>1. nodes[r] = 0
        BY <2>4, <2>5, <3>1 DEF TypeOK
      <4>2. nodes'[r] \in {0, 1} /\ status'[r] = "done"
        BY <2>5, <4>1 DEF WriteNode, TypeOK
      <4> QED BY <2>4, <2>5, <3>1, <3>2, <4>2
    <3>3. CASE t # r
      BY <2>4, <2>5, <3>1, <3>3 DEF WriteNode, TypeOK
    <3> QED BY <3>2, <3>3
  <2>6. ASSUME NEW w \in Worker, MarkFailed(r, w) PROVE Fresh(t)'
    <3>1. Fresh(t)
      BY <2>4, <2>6 DEF Single
    <3> QED BY <2>4, <2>6, <3>1 DEF MarkFailed, Charge, TypeOK
  <2> QED BY <1>4, <2>1, <2>2, <2>3, <2>5, <2>6 DEF RowNext, Settle
<1>5. ASSUME NEW S \in SUBSET Row, StrayEscape(S) PROVE Fresh(t)'
  BY <1>5 DEF StrayEscape, TypeOK
<1>6. CASE Crash
  BY <1>2, <1>6 DEF Crash, rowVars, TypeOK
<1>7. CASE LoopNext
  <2>1. CASE ClaimNext
    BY <1>3, <2>1 DEF ClaimNext, Claims, ShellClaimRaises, OtherClaimsRaise
  <2>2. CASE ~ClaimNext
    BY <1>1, <1>7, <2>2
    DEF LoopNext, Poll, StartRound, PreflightRefuses, GatherEnds, BackoffEnds, MoveTo,
        rowVars, workVars
  <2> QED BY <2>1, <2>2
<1>8. CASE ControlNext \/ QueryNext \/ OtherNext \/ UNCHANGED vars
  BY <1>1, <1>8
  DEF ControlNext, Pause, Resume, OperatorPause, OperatorResume, Control, QueryNext,
      QueryArrives, BodyRead, QueryEnds, QueryOnly, OtherNext, SweepTick, EmbedBegins,
      EmbedEnds, ClassifyBegins, ClassifyEnds, OtherOnly, vars, rowVars, workVars
<1> QED
  BY <1>4, <1>5, <1>6, <1>7, <1>8 DEF Next

-----------------------------------------------------------------------------
(***************************************************************************)
(* OneNodePerRow counts with the nodes of a row those it may still get: one *)
(* from each stray coroutine, and one from the round or from the round that *)
(* claims it next. An exception adds one to the sum and nothing else does; *)
(* a row nobody has queued is in no hands.                                 *)
(***************************************************************************)

Due(r) == r \in batch \/ status[r] \in {"pending", "processing"}
Coming(r) == stray[r] + (IF Due(r) THEN 1 ELSE 0)

Bounded(r) ==
  /\ nodes[r] + Coming(r) <= 1 + escapes
  /\ status[r] = "none" => nodes[r] = 0 /\ stray[r] = 0 /\ r \notin batch

AllBounded == \A r \in Row : Bounded(r)

\* The sum in numbers
LEMMA ComingType ==
  ASSUME TypeOK, NEW r \in Row
  PROVE  /\ nodes[r] \in Nat /\ stray[r] \in Nat /\ escapes \in Nat
         /\ Due(r) => Coming(r) = stray[r] + 1
         /\ ~Due(r) => Coming(r) = stray[r]
BY DEF TypeOK, Coming

\* A claim takes rows that were due already.
LEMMA TakeBounded ==
  ASSUME TypeOK, AllBounded, NEW t \in Row, NEW taken \in SUBSET Row,
         NEW lost \in SUBSET Row, Take(taken, lost)
  PROVE  Bounded(t)'
<1> USE DEF Bounded
<1>1. UNCHANGED <<nodes, stray, escapes>> /\ batch = {}
  BY DEF Take, TypeOK
<1>2. Bounded(t) /\ nodes[t] \in Nat /\ stray[t] \in Nat /\ escapes \in Nat
  BY ComingType DEF AllBounded
<1>3. Due(t)' => Due(t)
  BY <1>1 DEF Take, Claimable, Due, TypeOK
<1>4. status'[t] = "none" => status[t] = "none" /\ t \notin batch'
  BY DEF Take, Claimable, TypeOK
<1>5. Coming(t)' <= Coming(t) /\ Coming(t)' \in Nat /\ Coming(t) \in Nat
  BY <1>1, <1>2, <1>3 DEF Coming
<1> QED
  BY <1>1, <1>2, <1>4, <1>5

\* A coroutine that is finished with a row makes its node or gives up the chance of it; a
\* stray one that fails puts a finished row back into the queue, in exchange for itself.
LEMMA SettleBounded ==
  ASSUME TypeOK, AllBounded, NEW t \in Row, NEW r \in Row, NEW w \in Worker, Settle(r, w)
  PROVE  Bounded(t)'
<1> USE DEF Bounded
<1>1. /\ Leaves(r, w) /\ escapes' = escapes
      /\ WriteNode(r, w) \/ MarkFailed(r, w)
  BY DEF Settle, WriteNode, MarkFailed
<1>2. /\ Bounded(t) /\ nodes[t] \in Nat /\ stray[t] \in Nat /\ escapes \in Nat
      /\ Due(t) => Coming(t) = stray[t] + 1
      /\ ~Due(t) => Coming(t) = stray[t]
  BY ComingType DEF AllBounded
<1>3. CASE t # r
  <2>1. UNCHANGED <<nodes[t], status[t], stray[t]>> /\ (t \in batch' <=> t \in batch)
    BY <1>1, <1>3 DEF Leaves, WriteNode, MarkFailed, Charge, TypeOK
  <2> QED BY <1>1, <1>2, <2>1 DEF Coming, Due
<1>4. CASE t = r
  <2>1. status[r] # "none"
    BY <1>1, <1>2, <1>4 DEF Leaves
  <2>2. CASE WriteNode(r, w)
    <3>1. /\ status'[r] = "done" /\ nodes'[r] \in {nodes[r], nodes[r] + 1}
      BY <2>2 DEF WriteNode, TypeOK
    <3>2. CASE r \in batch /\ batch' = batch \ {r} /\ stray' = stray
      <4>1. Coming(r)' = stray[r] /\ Due(r)
        BY <1>2, <1>4, <3>1, <3>2 DEF Coming, Due
      <4> QED BY <1>1, <1>2, <1>4, <3>1, <4>1
    <3>3. CASE stray[r] > 0 /\ stray' = [stray EXCEPT ![r] = @ - 1] /\ batch' = batch
      <4>1. stray'[r] = stray[r] - 1 /\ (Due(r)' => Due(r))
        BY <3>1, <3>3 DEF Due, TypeOK
      <4>2. Coming(r)' <= Coming(r) - 1 /\ Coming(r)' \in Nat
        BY <1>2, <1>4, <3>3, <4>1 DEF Coming
      <4> QED BY <1>1, <1>2, <1>4, <3>1, <4>2
    <3> QED BY <1>1, <3>2, <3>3 DEF Leaves
  <2>3. CASE MarkFailed(r, w)
    <3>1. nodes' = nodes /\ status'[r] \in {"failed", "pending"}
      BY <2>3 DEF MarkFailed, Charge, TypeOK
    <3>2. CASE r \in batch /\ batch' = batch \ {r} /\ stray' = stray
      <4>1. Coming(r)' <= stray[r] + 1 /\ Coming(r)' \in Nat /\ Due(r)
        BY <1>2, <1>4, <3>2 DEF Coming, Due
      <4> QED BY <1>1, <1>2, <1>4, <3>1, <4>1
    <3>3. CASE stray[r] > 0 /\ stray' = [stray EXCEPT ![r] = @ - 1] /\ batch' = batch
      <4>1. stray'[r] = stray[r] - 1
        BY <3>3 DEF TypeOK
      <4>2. Coming(r)' <= stray[r] /\ Coming(r)' \in Nat
        BY <1>2, <1>4, <3>3, <4>1 DEF Coming
      <4>3. Coming(r)' <= Coming(r)
        BY <1>2, <1>4, <4>2
      <4> QED BY <1>1, <1>2, <1>4, <3>1, <4>2, <4>3
    <3> QED BY <1>1, <3>2, <3>3 DEF Leaves
  <2> QED BY <1>1, <2>2, <2>3
<1> QED BY <1>3, <1>4

\* Of the exceptions that leave a batch, each may add one coroutine to a row.
LEMMA EscapeBounded ==
  ASSUME TypeOK, AllBounded, NEW t \in Row, NEW r \in Row, Escape(r)
  PROVE  Bounded(t)'
<1> USE DEF Bounded
<1>1. /\ escapes' = escapes + 1 /\ batch' = {} /\ UNCHANGED <<nodes, status>>
      /\ stray'[t] \in {stray[t], stray[t] + 1}
      /\ stray'[t] # stray[t] => t \in batch
  BY DEF Escape, rowVars, TypeOK
<1>2. /\ Bounded(t) /\ nodes[t] \in Nat /\ stray[t] \in Nat /\ escapes \in Nat
      /\ Due(t) => Coming(t) = stray[t] + 1
      /\ ~Due(t) => Coming(t) = stray[t]
  BY ComingType DEF AllBounded
<1>3. Due(t)' => Due(t)
  BY <1>1 DEF Due
<1>4. Coming(t)' <= Coming(t) + 1 /\ Coming(t)' \in Nat
  BY <1>1, <1>2, <1>3 DEF Coming
<1> QED BY <1>1, <1>2, <1>4

LEMMA BoundedStep == TypeOK /\ AllBounded /\ [Next]_vars => AllBounded'
<1> SUFFICES ASSUME TypeOK, AllBounded, [Next]_vars, NEW t \in Row PROVE Bounded(t)'
  BY DEF AllBounded
<1> USE DEF Bounded
<1>1. /\ Bounded(t) /\ nodes[t] \in Nat /\ stray[t] \in Nat /\ escapes \in Nat
      /\ Due(t) => Coming(t) = stray[t] + 1
      /\ ~Due(t) => Coming(t) = stray[t]
  BY ComingType DEF AllBounded
<1>2. CASE UNCHANGED <<status, nodes, batch, stray, escapes>>
  BY <1>1, <1>2 DEF Coming, Due
<1>3. ASSUME NEW r \in Row, Enqueue(r) PROVE Bounded(t)'
  <2>1. UNCHANGED <<nodes, stray, batch, escapes>> /\ status[r] = "none"
        /\ status' = [status EXCEPT ![r] = "pending"]
    BY <1>3 DEF Enqueue, workVars
  <2>2. CASE t = r
    <3>1. Coming(t)' = 1 /\ status'[t] # "none"
      BY <1>1, <2>1, <2>2 DEF Coming, Due, TypeOK
    <3> QED BY <1>1, <2>1, <2>2, <3>1
  <2>3. CASE t # r
    BY <1>1, <2>1, <2>3 DEF Coming, Due, TypeOK
  <2> QED BY <2>2, <2>3
<1>4. ASSUME NEW r \in Row, Reap(r) PROVE Bounded(t)'
  <2>1. /\ UNCHANGED <<nodes, stray, batch, escapes>>
        /\ Due(t)' => Due(t)
        /\ status'[t] = "none" => status[t] = "none"
    BY <1>4 DEF Reap, Charge, Due, workVars, TypeOK
  <2>2. Coming(t)' <= Coming(t) /\ Coming(t)' \in Nat
    BY <1>1, <2>1 DEF Coming
  <2> QED BY <1>1, <2>1, <2>2
<1>5. ASSUME NEW r \in Row, RowNext(r) PROVE Bounded(t)'
  BY <1>3, <1>4, <1>5, EscapeBounded, SettleBounded DEF RowNext
<1>6. ASSUME UNCHANGED <<status, nodes>>, escapes' >= escapes, escapes' \in Nat,
             batch' \subseteq batch, stray'[t] \in Nat, stray'[t] <= stray[t]
      PROVE Bounded(t)'
  <2>1. Coming(t)' <= Coming(t) /\ Coming(t)' \in Nat
    BY <1>1, <1>6 DEF Coming, Due
  <2> QED BY <1>1, <1>6, <2>1
<1>7. ASSUME NEW S \in SUBSET Row, StrayEscape(S) PROVE Bounded(t)'
  <2>1. stray'[t] \in Nat /\ stray'[t] <= stray[t]
    BY <1>1, <1>7 DEF StrayEscape
  <2> QED BY <1>1, <1>6, <1>7, <2>1 DEF StrayEscape, rowVars
<1>8. CASE Crash
  <2>1. stray'[t] = 0
    BY <1>8 DEF Crash
  <2> QED BY <1>1, <1>6, <1>8, <2>1 DEF Crash, rowVars
<1>9. CASE ClaimNext
  BY <1>9, TakeBounded DEF ClaimNext, Claims, ShellClaimRaises, OtherClaimsRaise
<1>10. CASE LoopNext /\ ~ClaimNext
  BY <1>2, <1>10
  DEF LoopNext, Poll, StartRound, PreflightRefuses, GatherEnds, BackoffEnds, MoveTo,
      rowVars, workVars
<1>11. CASE ControlNext \/ QueryNext \/ OtherNext \/ UNCHANGED vars
  BY <1>2, <1>11
  DEF ControlNext, Pause, Resume, OperatorPause, OperatorResume, Control, QueryNext,
      QueryArrives, BodyRead, QueryEnds, QueryOnly, OtherNext, SweepTick, EmbedBegins,
      EmbedEnds, ClassifyBegins, ClassifyEnds, OtherOnly, vars, rowVars, workVars
<1> QED
  BY <1>5, <1>7, <1>8, <1>9, <1>10, <1>11 DEF Next

\* A row gets one node, and one more at most for each exception that leaves a batch,
\* whatever the reaper, the restarts and the stray coroutines do while its worker is at
\* the model.
THEOREM OneNodeAlways == Spec => []OneNodePerRow
<1>1. Init => AllBounded
  BY DEF Init, AllBounded, Bounded, Coming, Due
<1>2. TypeOK /\ AllBounded => OneNodePerRow
  <2> SUFFICES ASSUME TypeOK, AllBounded, NEW r \in Row PROVE nodes[r] <= 1 + escapes
    BY DEF OneNodePerRow
  <2>1. nodes[r] \in Nat /\ escapes \in Nat /\ Coming(r) \in Nat
    BY ComingType
  <2> QED BY <2>1 DEF AllBounded, Bounded
<1> QED
  BY <1>1, <1>2, BoundedStep, TypeInit, TypeStep, PTL DEF Spec
-----------------------------------------------------------------------------
\* What each task does to the answer of control_pause while a pause is on
Holds == /\ paused /\ InFlightFinished /\ paused' => InFlightFinished'
         /\ operator /\ ~EnrichmentActive /\ operator' => ~EnrichmentActive'

LEMMA PauseStep == TypeOK /\ [Next]_vars => Holds
<1> SUFFICES ASSUME TypeOK, [Next]_vars PROVE Holds
  OBVIOUS
<1> USE DEF Holds, InFlightFinished, EnrichmentActive
<1>1. CASE UNCHANGED <<pc, queries, embedding, classifying>>
  BY <1>1
<1>2. CASE LoopNext
  <2>1. UNCHANGED <<queries, embedding, classifying>>
    BY <1>2
    DEF LoopNext, Poll, StartRound, PreflightRefuses, GatherEnds, BackoffEnds, MoveTo,
        ClaimNext, Claims, ShellClaimRaises, OtherClaimsRaise, Take, queryVars, otherVars
  <2>2. Paused /\ ~EnrichmentActive => pc' \notin {"preflight", "gather"}
    BY <1>2
    DEF LoopNext, Poll, StartRound, PreflightRefuses, GatherEnds, BackoffEnds, MoveTo,
        ClaimNext, Claims, ShellClaimRaises, OtherClaimsRaise, Take
  <2> QED BY <2>1, <2>2 DEF Paused
<1>3. CASE QueryNext
  <2>1. UNCHANGED <<pc, embedding, classifying>>
    BY <1>3 DEF QueryNext, QueryArrives, BodyRead, QueryEnds, QueryOnly, otherVars
  <2>2. paused /\ queries = 0 => queries' = 0
    BY <1>3 DEF QueryNext, QueryArrives, BodyRead, QueryEnds
  <2> QED BY <2>1, <2>2
<1>4. CASE OtherNext
  <2>1. UNCHANGED <<pc, queries>>
    BY <1>4
    DEF OtherNext, SweepTick, EmbedBegins, EmbedEnds, ClassifyBegins, ClassifyEnds, OtherOnly,
        queryVars
  <2>2. paused /\ ~embedding /\ ~classifying => ~embedding' /\ ~classifying'
    BY <1>4
    DEF OtherNext, SweepTick, EmbedBegins, EmbedEnds, ClassifyBegins, ClassifyEnds
  <2> QED BY <2>1, <2>2
<1>5. ASSUME NEW r \in Row, RowNext(r) PROVE Holds
  <2>1. UNCHANGED <<queries, embedding, classifying>> /\ (pc' = pc \/ pc' = "backoff")
    BY <1>5
    DEF RowNext, Settle, Enqueue, Escape, Reap, WriteNode, MarkFailed, queryVars, otherVars
  <2> QED BY <2>1
<1>6. CASE Crash
  BY <1>6 DEF Crash
<1>7. CASE ControlNext \/ (\E S \in SUBSET Row : StrayEscape(S)) \/ UNCHANGED vars
  BY <1>1, <1>7
  DEF ControlNext, Pause, Resume, OperatorPause, OperatorResume, Control, StrayEscape, vars,
      queryVars, otherVars
<1> QED
  BY <1>2, <1>3, <1>4, <1>5, <1>6, <1>7 DEF Next

\* A pause, once drained, holds: no task takes the inference server before a resume.
THEOREM PauseHoldsAlways == Spec => PauseHolds
<1>1. TypeOK /\ [Next]_vars => [Holds]_vars
  BY PauseStep
<1> QED
  BY <1>1, TypeInit, TypeStep, PTL DEF Spec, PauseHolds, Holds

\* What control_pause promises of the enrichment, while no exception leaves a batch: rows
\* are in work only while _enrichment_active is set.
THEOREM PauseDrainsAlways == Spec => []PauseDrains
<1>1. Init => Single
  BY DEF Init, Single, Fresh
<1>2. ASSUME TypeOK, Single, escapes = 0, InFlightFinished, NEW r \in Row
      PROVE  ~Held(r)
  <2>1. batch = {} /\ stray[r] = 0
    BY <1>2 DEF TypeOK, Single, Fresh, InFlightFinished, EnrichmentActive
  <2> QED
    BY <2>1 DEF Held
<1>3. TypeOK /\ Single => PauseDrains
  BY <1>2 DEF PauseDrains
<1> QED
  BY <1>1, <1>3, SingleStep, TypeInit, TypeStep, PTL DEF Spec
=============================================================================
