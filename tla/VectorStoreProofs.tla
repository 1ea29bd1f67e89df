--------------------------- MODULE VectorStoreProofs ---------------------------
(***************************************************************************)
(* Theorems about VectorStore, for every set of segments and models and    *)
(* every value of the bounds.                                              *)
(***************************************************************************)
EXTENDS VectorStore, TLAPS

NodeTypes == node \in [Id -> Text] /\ nodeOf \in [Segment -> Text] /\ texts \in Text

VecTypes == /\ vec \in [Id -> Text] /\ vecModel \in [Id -> Model \cup {NoModel}]
            /\ stored \in Model \cup {NoModel}

TaskTypes == /\ tasks \subseteq Task /\ todo \subseteq Row
             /\ ~up => tasks = {} /\ todo = {}
             /\ \A t, u \in tasks : t.reaper /\ u.reaper => t = u

ModelTypes == live \in Model /\ config \in Model

ScriptTypes ==
  script \in [running : BOOLEAN, inputs : [Id -> Text], old : Model \cup {NoModel},
              new : Model \cup {NoModel}]

BoundTypes == faults \in Nat /\ switches \in Nat

FlagTypes == up \in BOOLEAN /\ crossed \in BOOLEAN

LEMMA TypeParts ==
  TypeOK <=> /\ NodeTypes /\ VecTypes /\ TaskTypes /\ ModelTypes /\ ScriptTypes
             /\ BoundTypes /\ FlagTypes
BY DEF TypeOK, NodeTypes, VecTypes, TaskTypes, ModelTypes, ScriptTypes, BoundTypes, FlagTypes

LEMMA TypePartsNext ==
  /\ NodeTypes' /\ VecTypes' /\ TaskTypes' /\ ModelTypes' /\ ScriptTypes'
  /\ BoundTypes' /\ FlagTypes'
  => TypeOK'
BY DEF TypeOK, NodeTypes, VecTypes, TaskTypes, ModelTypes, ScriptTypes, BoundTypes, FlagTypes

LEMMA IdleType ==
  Idle \in [running : BOOLEAN, inputs : [Id -> Text], old : Model \cup {NoModel},
            new : Model \cup {NoModel}]
<1>1. 0 \in Text
  BY VectorAssumption DEF Text
<1> QED BY <1>1 DEF Idle

LEMMA TypeInit == Init => TypeOK
<1> SUFFICES ASSUME Init PROVE TypeOK
  OBVIOUS
<1>1. 0 \in Text
  BY VectorAssumption DEF Text
<1>2. NodeTypes /\ VecTypes
  BY <1>1 DEF Init, NodeTypes, VecTypes
<1>3. TaskTypes /\ ModelTypes /\ BoundTypes
  BY VectorAssumption DEF Init, TaskTypes, ModelTypes, BoundTypes
<1>4. ScriptTypes
  BY IdleType DEF Init, ScriptTypes
<1>5. FlagTypes
  BY DEF Init, FlagTypes
<1> QED BY <1>2, <1>3, <1>4, <1>5, TypeParts

\* A task that begins is nobody's second: the reaper's is its only one.
LEMMA BegunTypes ==
  ASSUME TaskTypes, NEW row \in Row, NEW reaper \in BOOLEAN, reaper => ~Reaping,
         up, tasks' = tasks \cup Begun(row, reaper), todo' \subseteq todo, up' = up
  PROVE  TaskTypes'
<1>1. \A t \in Begun(row, reaper) : t \in Task /\ (t.reaper <=> reaper)
  BY DEF Begun, Task
<1>2. \A t, u \in Begun(row, reaper) : t = u
  BY DEF Begun
<1>3. ASSUME NEW t \in tasks', NEW u \in tasks', t.reaper, u.reaper PROVE t = u
  BY <1>1, <1>2, <1>3 DEF TaskTypes, Reaping
<1> QED BY <1>1, <1>3 DEF TaskTypes

LEMMA WriteTypes ==
  ASSUME TypeOK, NEW s \in Segment, NEW i \in Id, Write(s, i)
  PROVE  TypeOK'
<1>1. texts + 1 \in Text /\ texts + 1 # 0 /\ i \in Text /\ 0 \in Text
  BY VectorAssumption DEF TypeOK, Write, Text, Id
<1>2. NodeTypes'
  BY <1>1 DEF TypeOK, Write, NodeTypes
<1>3. VecTypes'
  BY <1>1 DEF TypeOK, Write, VecTypes, WithoutVectors
<1>4. TaskTypes'
  <2>1. [id |-> i, text |-> texts + 1] \in Row
    BY <1>1 DEF Row
  <2>2. TaskTypes /\ up /\ up' = up /\ todo' \subseteq todo
        /\ tasks' = tasks \cup Begun([id |-> i, text |-> texts + 1], FALSE)
    BY TypeParts DEF Write
  <2> QED BY <2>1, <2>2, BegunTypes
<1>5. UNCHANGED <<live, scriptVars, up, faults, crossed>>
  BY DEF Write
<1> QED
  BY <1>2, <1>3, <1>4, <1>5, TypeParts, TypePartsNext
  DEF scriptVars, ModelTypes, ScriptTypes, BoundTypes, FlagTypes

LEMMA DeleteTypes ==
  ASSUME TypeOK, NEW s \in Segment, Delete(s)
  PROVE  TypeOK'
<1>1. 0 \in Text
  BY VectorAssumption DEF Text
<1>2. NodeTypes' /\ VecTypes'
  BY <1>1 DEF TypeOK, Delete, NodeTypes, VecTypes, WithoutVectors
<1>3. UNCHANGED <<brainVars, scriptVars, faults, crossed>>
  BY DEF Delete
<1> QED
  BY <1>2, <1>3, TypeParts, TypePartsNext
  DEF brainVars, scriptVars, TaskTypes, ModelTypes, ScriptTypes, BoundTypes, FlagTypes

LEMMA EmbedTypes ==
  ASSUME TypeOK, NEW t \in tasks, EmbedNext(t)
  PROVE  TypeOK'
<1> USE TypeParts
<1>1. UNCHANGED <<nodeVars, up, live, todo, scriptVars>>
  BY DEF EmbedNext, EmbedFails, EmbedChecks, EmbedStores
<1>2. NodeTypes' /\ ModelTypes' /\ ScriptTypes' /\ switches' \in Nat /\ up' \in BOOLEAN
  BY <1>1 DEF nodeVars, scriptVars, NodeTypes, ModelTypes, ScriptTypes, BoundTypes, FlagTypes
<1>3. faults' \in Nat
  BY DEF EmbedNext, EmbedFails, EmbedChecks, EmbedStores, BoundTypes
<1>4. VecTypes' /\ crossed' \in BOOLEAN
  <2>1. CASE EmbedFails(t) \/ EmbedChecks(t)
    BY <2>1 DEF EmbedFails, EmbedChecks, vecVars, VecTypes, FlagTypes
  <2>2. CASE EmbedStores(t)
    <3>1. t.row.id \in Id /\ t.row.text \in Text /\ live \in Model
      BY DEF TaskTypes, Task, Row, ModelTypes
    <3>2. VecTypes'
      BY <2>2, <3>1 DEF EmbedStores, vecVars, VecTypes
    <3>3. crossed' \in BOOLEAN
      BY <2>2 DEF EmbedStores, FlagTypes
    <3> QED BY <3>2, <3>3
  <2> QED BY <2>1, <2>2 DEF EmbedNext
<1>5. TaskTypes'
  <2>1. CASE tasks' = tasks \ {t}
    BY <2>1, <1>1 DEF TaskTypes
  <2>2. CASE EmbedChecks(t) /\ ~Drifted
    <3> DEFINE u == [t EXCEPT !.seen = stored]
    <3>1. t \in Task /\ stored \in Model \cup {NoModel}
      BY DEF TaskTypes, VecTypes
    <3>2. u \in Task /\ (u.reaper <=> t.reaper)
      BY <3>1 DEF Task
    <3>3. tasks' = (tasks \ {t}) \cup {u}
      BY <2>2 DEF EmbedChecks
    <3> HIDE DEF u
    <3>4. ASSUME NEW a \in tasks', NEW b \in tasks', a.reaper, b.reaper PROVE a = b
      BY <3>2, <3>3, <3>4 DEF TaskTypes
    <3>5. up
      BY DEF TaskTypes
    <3> QED BY <1>1, <3>2, <3>3, <3>4, <3>5 DEF TaskTypes
  <2> QED BY <2>1, <2>2 DEF EmbedNext, EmbedFails, EmbedChecks, EmbedStores
<1> QED BY <1>2, <1>3, <1>4, <1>5, TypePartsNext DEF BoundTypes, FlagTypes

LEMMA SweepTypes == TypeOK /\ SweepAny => TypeOK'
<1> SUFFICES ASSUME TypeOK, SweepAny PROVE TypeOK'
  OBVIOUS
<1>1. UNCHANGED <<nodeVars, vecVars, up, live, scriptVars, crossed, faults>>
  BY DEF SweepAny, SweepTick, SweepNext
<1>2. TaskTypes'
  <2>1. ASSUME NEW C \in SUBSET Missing, SweepTick(C) PROVE TaskTypes'
    BY <2>1, TypeParts DEF SweepTick, Missing, TaskTypes
  <2>2. ASSUME NEW r \in todo, SweepNext(r) PROVE TaskTypes'
    <3>1. r \in Row /\ up /\ TaskTypes
      BY TypeParts DEF TaskTypes
    <3> QED BY <2>2, <3>1, BegunTypes DEF SweepNext
  <2> QED BY <2>1, <2>2 DEF SweepAny
<1> QED
  BY <1>1, <1>2, TypeParts, TypePartsNext
  DEF nodeVars, vecVars, scriptVars, NodeTypes, VecTypes, ModelTypes, ScriptTypes, BoundTypes,
      FlagTypes

LEMMA RestartTypes == TypeOK /\ (Stop \/ Start) => TypeOK'
<1> SUFFICES ASSUME TypeOK, Stop \/ Start PROVE TypeOK'
  OBVIOUS
<1>1. UNCHANGED <<nodeVars, vecVars, scriptVars, crossed>> /\ up' \in BOOLEAN
  BY DEF Stop, Start
<1>2. TaskTypes'
  BY TypeParts DEF Stop, Start, TaskTypes
<1>3. ModelTypes' /\ faults' \in Nat
  BY TypeParts DEF Stop, Start, ModelTypes, BoundTypes, scriptVars
<1> QED
  BY <1>1, <1>2, <1>3, TypeParts, TypePartsNext
  DEF nodeVars, vecVars, scriptVars, NodeTypes, VecTypes, ScriptTypes, BoundTypes, FlagTypes

\* What a published corpus looks like
LEMMA PublishedTypes ==
  ASSUME TypeOK, ReembedPublishes
  PROVE  VecTypes'
<1>1. /\ script.inputs \in [Id -> Text] /\ script.new \in Model \cup {NoModel}
      /\ vec \in [Id -> Text] /\ vecModel \in [Id -> Model \cup {NoModel}]
  BY DEF TypeOK
<1> QED BY <1>1 DEF ReembedPublishes, VecTypes

LEMMA ScriptStepTypes == TypeOK /\ ScriptNext => TypeOK'
<1> SUFFICES ASSUME TypeOK, ScriptNext PROVE TypeOK'
  OBVIOUS
<1>1. UNCHANGED <<nodeVars, brainVars, crossed, faults>>
  BY DEF ScriptNext, ReembedBegins, ReembedPublishes, ReembedAborts, Configure, ScriptOnly
<1>2. VecTypes'
  BY PublishedTypes, TypeParts
  DEF ScriptNext, ReembedBegins, ReembedAborts, Configure, vecVars, VecTypes
<1>3. ScriptTypes'
  <2>1. CASE ReembedBegins
    BY <2>1, TypeParts DEF ReembedBegins, ScriptTypes, NodeTypes, VecTypes, ModelTypes
  <2>2. CASE ReembedPublishes \/ ReembedAborts
    BY <2>2, IdleType DEF ReembedPublishes, ReembedAborts, ScriptTypes
  <2>3. CASE \E m \in Model : Configure(m)
    BY <2>3, TypeParts DEF Configure, ScriptTypes
  <2> QED BY <2>1, <2>2, <2>3 DEF ScriptNext
<1>4. config' \in Model /\ switches' \in Nat
  BY TypeParts
  DEF ScriptNext, ReembedBegins, ReembedPublishes, ReembedAborts, Configure, ScriptOnly,
      ModelTypes, BoundTypes
<1> QED
  BY <1>1, <1>2, <1>3, <1>4, TypeParts, TypePartsNext
  DEF nodeVars, brainVars, NodeTypes, TaskTypes, ModelTypes, BoundTypes, FlagTypes

LEMMA TypeStep == TypeOK /\ [Next]_vars => TypeOK'
<1> SUFFICES ASSUME TypeOK, [Next]_vars PROVE TypeOK'
  OBVIOUS
<1>1. CASE \E s \in Segment : Delete(s) \/ \E i \in Id : Write(s, i)
  BY <1>1, DeleteTypes, WriteTypes
<1>2. CASE \E t \in tasks : EmbedNext(t)
  BY <1>2, EmbedTypes
<1>3. CASE SweepAny \/ Stop \/ Start \/ ScriptNext
  BY <1>3, SweepTypes, RestartTypes, ScriptStepTypes
<1>4. CASE UNCHANGED vars
  BY <1>4
  DEF vars, nodeVars, vecVars, brainVars, scriptVars, TypeOK
<1> QED BY <1>1, <1>2, <1>3, <1>4 DEF Next

\* Every reachable state of the nodes, their vectors and the tasks that embed them is of
\* its type, and the embedding reaper embeds one node at a time.
THEOREM TypeCorrect == Spec => []TypeOK
<1> QED BY TypeInit, TypeStep, PTL DEF Spec

-----------------------------------------------------------------------------
(* One embedding space. A new node's text is new: no vector is of it. A checked
   embedding saw either no model on record or its own, and as long as none is on record
   there are no vectors. *)

Old(x) == x <= texts

TextsOld == /\ \A i \in Id : Old(node[i]) /\ Old(vec[i]) /\ Old(script.inputs[i])
            /\ \A t \in tasks : Old(t.row.text)
            /\ \A r \in todo : Old(r.text)

SeenOwn == \A t \in tasks : t.seen \in {Unseen, NoModel, live}

Recorded == /\ stored = NoModel => \A i \in Id : vec[i] = 0
            /\ script.running => script.new \in Model

SpaceInv == TypeOK /\ TextsOld /\ SeenOwn /\ Recorded /\ OneSpace

\* The texts of an unfinished step's records are numbers.
LEMMA Numbers ==
  ASSUME TypeOK
  PROVE  /\ texts \in Nat
         /\ \A i \in Id : node[i] \in Nat /\ vec[i] \in Nat /\ script.inputs[i] \in Nat
         /\ \A t \in tasks : /\ t.row \in Row /\ t.row.id \in Id /\ t.row.text \in Nat \ {0}
                             /\ t.seen \in Model \cup {NoModel, Unseen}
         /\ \A r \in todo : r \in Row /\ r.text \in Nat
<1>1. Text \subseteq Nat
  BY VectorAssumption DEF Text
<1> QED BY <1>1 DEF TypeOK, Task, Row

LEMMA TextsOldStep == TypeOK /\ TextsOld /\ [Next]_vars => TextsOld'
<1> SUFFICES ASSUME TypeOK, TextsOld, [Next]_vars PROVE TextsOld'
  OBVIOUS
<1> USE Numbers DEF Old
<1>1. ASSUME NEW s \in Segment, NEW i \in Id, Write(s, i) PROVE TextsOld'
  <2>1. texts' = texts + 1 /\ todo' = todo /\ script' = script
    BY <1>1 DEF Write, scriptVars
  <2>2. ASSUME NEW j \in Id PROVE node'[j] <= texts' /\ vec'[j] <= texts'
    BY <1>1 DEF Write, WithoutVectors, TextsOld
  <2>3. ASSUME NEW t \in tasks' PROVE t.row.text <= texts'
    BY <1>1, <2>3 DEF Write, Begun, TextsOld
  <2> QED BY <2>1, <2>2, <2>3 DEF TextsOld
<1>2. ASSUME NEW s \in Segment, Delete(s) PROVE TextsOld'
  <2>1. ASSUME NEW j \in Id PROVE node'[j] <= texts /\ vec'[j] <= texts
    BY <1>2 DEF Delete, WithoutVectors, TextsOld, TypeOK
  <2> QED BY <1>2, <2>1 DEF Delete, TextsOld, brainVars, scriptVars
<1>3. ASSUME NEW t \in tasks, EmbedNext(t) PROVE TextsOld'
  <2>1. UNCHANGED <<node, texts, todo, script>>
    BY <1>3 DEF EmbedNext, EmbedFails, EmbedChecks, EmbedStores, nodeVars, scriptVars
  <2>2. ASSUME NEW j \in Id PROVE vec'[j] <= texts
    BY <1>3 DEF EmbedNext, EmbedFails, EmbedChecks, EmbedStores, TextsOld, vecVars, TypeOK
  <2>3. ASSUME NEW u \in tasks' PROVE u.row.text <= texts
    <3>1. CASE u \in tasks
      BY <3>1 DEF TextsOld
    <3>2. CASE u = [t EXCEPT !.seen = stored]
      <4>1. u.row = t.row
        BY <3>2 DEF TypeOK, Task
      <4> QED BY <4>1 DEF TextsOld
    <3> QED BY <1>3, <3>1, <3>2 DEF EmbedNext, EmbedFails, EmbedChecks, EmbedStores
  <2> QED BY <2>1, <2>2, <2>3 DEF TextsOld
<1>4. CASE SweepAny
  <2>1. UNCHANGED <<node, texts, vec, script>>
    BY <1>4 DEF SweepAny, SweepTick, SweepNext, nodeVars, vecVars, scriptVars
  <2>2. ASSUME NEW t \in tasks' PROVE t.row.text <= texts
    BY <1>4 DEF SweepAny, SweepTick, SweepNext, Begun, TextsOld
  <2>3. ASSUME NEW r \in todo' PROVE r.text <= texts
    BY <1>4 DEF SweepAny, SweepTick, SweepNext, Missing, TextsOld, Row
  <2> QED BY <2>1, <2>2, <2>3 DEF TextsOld
<1>5. CASE Stop \/ Start
  BY <1>5 DEF Stop, Start, TextsOld, nodeVars, vecVars, scriptVars
<1>6. CASE ScriptNext
  <2>1. UNCHANGED <<node, texts, tasks, todo>>
    BY <1>6
    DEF ScriptNext, ReembedBegins, ReembedPublishes, ReembedAborts, Configure, ScriptOnly,
        nodeVars, brainVars
  <2>2. ASSUME NEW j \in Id PROVE vec'[j] <= texts /\ script'.inputs[j] <= texts
    BY <1>6
    DEF ScriptNext, ReembedBegins, ReembedPublishes, ReembedAborts, Configure, TextsOld,
        vecVars, Idle
  <2> QED BY <2>1, <2>2 DEF TextsOld
<1>7. CASE UNCHANGED vars
  BY <1>7 DEF vars, nodeVars, vecVars, brainVars, scriptVars, TextsOld
<1> QED BY <1>1, <1>2, <1>3, <1>4, <1>5, <1>6, <1>7 DEF Next

LEMMA SeenOwnStep == TypeOK /\ SeenOwn /\ [Next]_vars => SeenOwn'
<1> SUFFICES ASSUME TypeOK, SeenOwn, [Next]_vars PROVE SeenOwn'
  OBVIOUS
<1>1. ASSUME NEW s \in Segment, NEW i \in Id, Write(s, i) PROVE SeenOwn'
  BY <1>1 DEF Write, Begun, SeenOwn
<1>2. ASSUME NEW s \in Segment, Delete(s) PROVE SeenOwn'
  BY <1>2 DEF Delete, SeenOwn, brainVars
<1>3. ASSUME NEW t \in tasks, EmbedNext(t) PROVE SeenOwn'
  <2>1. live' = live
    BY <1>3 DEF EmbedNext, EmbedFails, EmbedChecks, EmbedStores
  <2>2. CASE tasks' \subseteq tasks
    BY <2>1, <2>2 DEF SeenOwn
  <2>3. CASE EmbedChecks(t) /\ ~Drifted
    <3>1. [t EXCEPT !.seen = stored].seen = stored
      BY DEF TypeOK, Task
    <3> QED BY <2>1, <2>3, <3>1 DEF EmbedChecks, Drifted, SeenOwn
  <2> QED BY <1>3, <2>2, <2>3 DEF EmbedNext, EmbedFails, EmbedChecks, EmbedStores
<1>4. CASE SweepAny
  BY <1>4 DEF SweepAny, SweepTick, SweepNext, Begun, SeenOwn
<1>5. CASE Stop \/ Start
  BY <1>5 DEF Stop, Start, SeenOwn, TypeOK
<1>6. CASE ScriptNext
  BY <1>6
  DEF ScriptNext, ReembedBegins, ReembedPublishes, ReembedAborts, Configure, ScriptOnly,
      brainVars, SeenOwn
<1>7. CASE UNCHANGED vars
  BY <1>7 DEF vars, brainVars, SeenOwn
<1> QED BY <1>1, <1>2, <1>3, <1>4, <1>5, <1>6, <1>7 DEF Next

\* A store whose check still holds goes by the model on record, or finds none.
LEMMA StoreNotDrifted ==
  ASSUME TypeOK, SeenOwn, NEW t \in tasks, t.seen # Unseen, ~(Drifted /\ stored # t.seen)
  PROVE  stored \in {NoModel, live}
BY DEF SeenOwn, Drifted

LEMMA SpaceStep == SpaceInv /\ [Next]_vars => Recorded' /\ OneSpace'
<1> SUFFICES ASSUME SpaceInv, [Next]_vars PROVE Recorded' /\ OneSpace'
  OBVIOUS
<1>0. TypeOK /\ TextsOld /\ SeenOwn /\ Recorded /\ OneSpace
  BY DEF SpaceInv
<1> USE <1>0, Numbers
<1>1. ASSUME NEW s \in Segment, NEW i \in Id, Write(s, i) PROVE Recorded' /\ OneSpace'
  <2>1. UNCHANGED <<vecModel, stored, script, crossed>>
    BY <1>1 DEF Write, scriptVars
  <2>2. ASSUME NEW j \in Id, vec'[j] # 0
        PROVE  vec[j] # 0 /\ (node'[j] = vec'[j] => vec[j] = node[j])
    BY <1>1, <2>2 DEF Write, WithoutVectors, TextsOld, Old
  <2>3. Recorded'
    BY <2>1, <2>2 DEF Recorded
  <2>4. OneSpace'
    BY <2>1, <2>2 DEF OneSpace
  <2> QED BY <2>3, <2>4
<1>2. ASSUME NEW s \in Segment, Delete(s) PROVE Recorded' /\ OneSpace'
  <2>1. UNCHANGED <<vecModel, stored, script, crossed>>
    BY <1>2 DEF Delete, scriptVars
  <2>2. ASSUME NEW j \in Id, vec'[j] # 0
        PROVE  vec[j] # 0 /\ (node'[j] = vec'[j] => vec[j] = node[j])
    BY <1>2, <2>2 DEF Delete, WithoutVectors, TypeOK
  <2>3. Recorded'
    BY <2>1, <2>2 DEF Recorded
  <2>4. OneSpace'
    BY <2>1, <2>2 DEF OneSpace
  <2> QED BY <2>3, <2>4
<1>3. ASSUME NEW t \in tasks, EmbedNext(t) PROVE Recorded' /\ OneSpace'
  <2>1. UNCHANGED <<node, script, live>>
    BY <1>3 DEF EmbedNext, EmbedFails, EmbedChecks, EmbedStores, nodeVars, scriptVars
  <2>2. CASE UNCHANGED <<vec, vecModel, stored, crossed>>
    BY <2>1, <2>2 DEF Recorded, OneSpace
  <2>3. CASE /\ t.seen # Unseen
             /\ vec' = [vec EXCEPT ![t.row.id] = t.row.text]
             /\ vecModel' = [vecModel EXCEPT ![t.row.id] = live]
             /\ stored' = live
             /\ crossed' = (crossed \/ (Drifted /\ stored # t.seen))
    <3>1. live \in Model /\ live # NoModel
      BY VectorAssumption DEF TypeOK
    <3>2. Recorded'
      BY <2>1, <2>3, <3>1 DEF Recorded
    <3>3. ASSUME ~crossed', NEW j \in Id, vec'[j] # 0, vec'[j] = node'[j]
          PROVE  vecModel'[j] = stored'
      <4>1. stored \in {NoModel, live} /\ ~crossed
        BY <2>3, <3>3, StoreNotDrifted
      <4>2. CASE j = t.row.id
        BY <2>3, <4>2 DEF TypeOK
      <4>3. CASE j # t.row.id
        BY <2>1, <2>3, <3>3, <4>1, <4>3 DEF TypeOK, Recorded, OneSpace
      <4> QED BY <4>2, <4>3
    <3> QED BY <3>2, <3>3 DEF OneSpace
  <2> QED BY <1>3, <2>2, <2>3 DEF EmbedNext, EmbedFails, EmbedChecks, EmbedStores, vecVars
<1>4. CASE SweepAny \/ Stop \/ Start \/ UNCHANGED vars
  <2>1. UNCHANGED <<node, vecVars, script, crossed>>
    BY <1>4
    DEF SweepAny, SweepTick, SweepNext, Stop, Start, vars, nodeVars, vecVars, scriptVars
  <2> QED BY <2>1 DEF vecVars, Recorded, OneSpace
<1>5. CASE ScriptNext
  <2>1. UNCHANGED <<node, crossed>>
    BY <1>5
    DEF ScriptNext, ReembedBegins, ReembedPublishes, ReembedAborts, Configure, ScriptOnly,
        nodeVars
  <2>2. CASE ReembedPublishes
    <3>1. stored' \in Model /\ stored' # NoModel /\ ~script'.running
      BY <2>2, VectorAssumption DEF ReembedPublishes, Recorded, Idle
    <3>2. ASSUME NEW j \in Id, vec'[j] # 0, vec'[j] = node'[j]
          PROVE  vecModel'[j] = stored'
      BY <2>1, <2>2, <3>2 DEF ReembedPublishes, TypeOK
    <3> QED BY <3>1, <3>2 DEF Recorded, OneSpace
  <2>3. CASE ReembedBegins \/ ReembedAborts \/ \E m \in Model : Configure(m)
    <3>1. UNCHANGED vecVars
      BY <2>3 DEF ReembedBegins, ReembedAborts, Configure
    <3>2. script'.running => script'.new \in Model
      BY <2>3 DEF ReembedBegins, ReembedAborts, Configure, Idle, Recorded, TypeOK
    <3> QED BY <2>1, <3>1, <3>2 DEF vecVars, Recorded, OneSpace
  <2> QED BY <1>5, <2>2, <2>3 DEF ScriptNext
<1> QED BY <1>1, <1>2, <1>3, <1>4, <1>5 DEF Next

LEMMA SpaceInit == Init => SpaceInv
<1> SUFFICES ASSUME Init PROVE SpaceInv
  OBVIOUS
<1>1. TypeOK
  BY TypeInit
<1>2. TextsOld
  BY DEF Init, TextsOld, Old, Idle
<1>3. SeenOwn /\ Recorded /\ OneSpace
  BY DEF Init, SeenOwn, Recorded, OneSpace, Idle
<1> QED BY <1>1, <1>2, <1>3 DEF SpaceInv

LEMMA SpaceAlways == Spec => []SpaceInv
<1>1. SpaceInv /\ [Next]_vars => SpaceInv'
  BY TypeStep, TextsOldStep, SeenOwnStep, SpaceStep DEF SpaceInv
<1> QED BY <1>1, SpaceInit, PTL DEF Spec

\* Whatever is embedded, restarted, configured and re-embedded in whatever order, the
\* vectors of the nodes are of the model on record (check_embed_model_drift), unless a
\* commit fell between a store's check and its write.
THEOREM OneSpaceAlways == Spec => []OneSpace
<1>1. SpaceInv => OneSpace
  BY DEF SpaceInv
<1> QED BY <1>1, SpaceAlways, PTL

-----------------------------------------------------------------------------
(* Action properties *)

LEMMA WholeStep == SpaceInv /\ [Next]_vars => SwitchedWhole
<1> SUFFICES ASSUME SpaceInv, [Next]_vars, stored # NoModel, stored' # stored, ~crossed',
                    NEW i \in Id, node'[i] # 0
             PROVE  vec'[i] = node'[i] /\ vecModel'[i] = stored'
  BY DEF SwitchedWhole
<1>0. TypeOK /\ SeenOwn
  BY DEF SpaceInv
<1>1. ReembedPublishes \/ \E t \in tasks : EmbedStores(t)
  BY DEF Next, Write, Delete, EmbedNext, EmbedFails, EmbedChecks, SweepAny, SweepTick, SweepNext,
         Stop, Start, ScriptNext, ReembedBegins, ReembedAborts, Configure, vars, vecVars
<1>2. ASSUME NEW t \in tasks, EmbedStores(t) PROVE FALSE
  <2>1. /\ t.seen # Unseen /\ stored' = live
        /\ crossed' = (crossed \/ (Drifted /\ stored # t.seen))
    BY <1>2 DEF EmbedStores, vecVars
  <2>2. stored \in {NoModel, live}
    BY <1>0, <2>1, StoreNotDrifted
  <2> QED BY <2>1, <2>2
<1>3. CASE ReembedPublishes
  BY <1>0, <1>3 DEF ReembedPublishes, ScriptOnly, nodeVars, TypeOK
<1> QED BY <1>1, <1>2, <1>3

\* The corpus moves to another model as a whole: no node is without a vector, or has one
\* of an older text or model, when the model on record changes (re_embed_nodes).
THEOREM SwitchesWholeAlways == Spec => SwitchesWhole
<1> QED BY WholeStep, SpaceAlways, PTL DEF Spec, SwitchesWhole

LEMMA FollowStep == TypeOK /\ [Next]_vars => Followed
<1> SUFFICES ASSUME TypeOK, [Next]_vars, NEW i \in Id, Matches(i),
                    ~\E t \in tasks : t.row.id = i /\ t.row.text # node[i]
             PROVE  Matches(i)'
  BY DEF Followed
<1> USE Numbers
<1>1. ASSUME NEW s \in Segment, NEW j \in Id, Write(s, j) PROVE Matches(i)'
  <2>1. CASE i = nodeOf[s]
    BY <1>1, <2>1 DEF Write, WithoutVectors, Matches
  <2>2. CASE i # nodeOf[s] /\ i = j
    BY <1>1, <2>2 DEF Write, IsNextId, WithoutVectors, Matches, TypeOK, Id
  <2>3. CASE i # nodeOf[s] /\ i # j
    BY <1>1, <2>3 DEF Write, WithoutVectors, Matches
  <2> QED BY <2>1, <2>2, <2>3
<1>2. ASSUME NEW s \in Segment, Delete(s) PROVE Matches(i)'
  BY <1>2 DEF Delete, WithoutVectors, Matches, TypeOK
<1>3. ASSUME NEW t \in tasks, EmbedNext(t) PROVE Matches(i)'
  BY <1>3
  DEF EmbedNext, EmbedFails, EmbedChecks, EmbedStores, Matches, nodeVars, vecVars, TypeOK
<1>4. CASE SweepAny \/ Stop \/ Start \/ UNCHANGED vars
  BY <1>4
  DEF SweepAny, SweepTick, SweepNext, Stop, Start, vars, nodeVars, vecVars, Matches
<1>5. CASE ScriptNext
  BY <1>5
  DEF ScriptNext, ReembedBegins, ReembedPublishes, ReembedAborts, Configure, ScriptOnly,
      nodeVars, vecVars, Matches, TypeOK
<1> QED BY <1>1, <1>2, <1>3, <1>4, <1>5 DEF Next

\* A vector belongs to the node that has its id now, also when the id is given again,
\* until an embedding that was begun for an older text is stored over it.
THEOREM VectorsFollowAlways == Spec => VectorsFollow
<1> QED BY FollowStep, TypeInit, TypeStep, PTL DEF Spec, VectorsFollow

-----------------------------------------------------------------------------
(* Where a text may be filed. Whatever carries a text from an await or a SELECT to a
   store carries the id it was written under, and ids only go to newer texts. *)

Claims(i, x) ==
  \/ x \in {node[i], vec[i], script.inputs[i]}
  \/ \E t \in tasks : t.row.id = i /\ t.row.text = x
  \/ \E r \in todo : r.id = i /\ r.text = x

OneHome == \A i, j \in Id : \A x \in Text \ {0} : Claims(i, x) /\ Claims(j, x) => i = j

NodeNewest == \A i \in Id : \A x \in Text : node[i] # 0 /\ Claims(i, x) => x <= node[i]

HomeInv == SpaceInv /\ OneHome /\ NodeNewest

LEMMA ClaimOld == ASSUME TypeOK, TextsOld, NEW i \in Id, NEW x \in Text, Claims(i, x)
                  PROVE  x <= texts
BY DEF TextsOld, Old, Claims

LEMMA TextNat == Text \subseteq Nat /\ Id = Text \ {0}
BY VectorAssumption DEF Text, Id

\* A step makes no claim that was not made, but for the new text of a writer's node.
LEMMA ClaimStep ==
  ASSUME TypeOK, [Next]_vars, NEW i \in Id, NEW x \in Text \ {0}, Claims(i, x)'
  PROVE  \/ Claims(i, x)
         \/ x = texts + 1 /\ \E s \in Segment : Write(s, i)
<1> USE Numbers
<1>0. x # 0
  OBVIOUS
<1>1. ASSUME NEW s \in Segment, NEW j \in Id, Write(s, j)
      PROVE  Claims(i, x) \/ (x = texts + 1 /\ j = i)
  <2>1. CASE x = node'[i]
    BY <1>0, <1>1, <2>1 DEF Write, Claims
  <2>2. CASE x = vec'[i]
    BY <1>0, <1>1, <2>2 DEF Write, WithoutVectors, Claims
  <2>3. ASSUME NEW t \in tasks', t.row.id = i, t.row.text = x
        PROVE  Claims(i, x) \/ (x = texts + 1 /\ j = i)
    <3>1. CASE t \in tasks
      BY <2>3, <3>1 DEF Claims
    <3>2. CASE t.row = [id |-> j, text |-> texts + 1]
      BY <2>3, <3>2
    <3> QED BY <1>1, <3>1, <3>2 DEF Write, Begun
  <2>4. todo' = todo /\ script' = script
    BY <1>1 DEF Write, scriptVars
  <2> QED BY <2>1, <2>2, <2>3, <2>4 DEF Claims
<1>2. ASSUME NEW s \in Segment, Delete(s) PROVE Claims(i, x)
  <2>1. node'[i] \in {0, node[i]} /\ vec'[i] \in {0, vec[i]}
    BY <1>2 DEF Delete, WithoutVectors, TypeOK
  <2>2. tasks' = tasks /\ todo' = todo /\ script' = script
    BY <1>2 DEF Delete, brainVars, scriptVars
  <2> QED BY <1>0, <2>1, <2>2 DEF Claims
<1>3. ASSUME NEW t \in tasks, EmbedNext(t) PROVE Claims(i, x)
  <2>1. node' = node /\ todo' = todo /\ script' = script
    BY <1>3 DEF EmbedNext, EmbedFails, EmbedChecks, EmbedStores, nodeVars, scriptVars
  <2>2. vec'[i] = vec[i] \/ (vec'[i] = t.row.text /\ t.row.id = i)
    BY <1>3 DEF EmbedNext, EmbedFails, EmbedChecks, EmbedStores, vecVars, TypeOK
  <2>3. ASSUME NEW u \in tasks' PROVE \E v \in tasks : v.row = u.row
    <3>1. CASE u = [t EXCEPT !.seen = stored]
      BY <3>1 DEF TypeOK, Task
    <3> QED BY <1>3, <3>1 DEF EmbedNext, EmbedFails, EmbedChecks, EmbedStores
  <2> QED BY <2>1, <2>2, <2>3 DEF Claims
<1>4. CASE SweepAny
  <2>1. node' = node /\ vec' = vec /\ script' = script
    BY <1>4 DEF SweepAny, SweepTick, SweepNext, nodeVars, vecVars, scriptVars
  <2>2. ASSUME NEW t \in tasks' PROVE t \in tasks \/ t.row \in todo
    BY <1>4 DEF SweepAny, SweepTick, SweepNext, Begun
  <2>3. ASSUME NEW r \in todo' PROVE r \in todo \/ node[r.id] = r.text
    BY <1>4 DEF SweepAny, SweepTick, SweepNext, Missing
  <2> QED BY <2>1, <2>2, <2>3 DEF Claims
<1>5. CASE ScriptNext
  <2>1. node' = node /\ tasks' = tasks /\ todo' = todo
    BY <1>5 DEF ScriptNext, ReembedBegins, ReembedPublishes, ReembedAborts, Configure,
                ScriptOnly, nodeVars, brainVars
  <2>2. vec'[i] \in {vec[i], script.inputs[i]}
    BY <1>5 DEF ScriptNext, ReembedBegins, ReembedPublishes, ReembedAborts, Configure,
                ScriptOnly, vecVars
  <2>3. script'.inputs[i] \in {0, node[i], script.inputs[i]}
    BY <1>5 DEF ScriptNext, ReembedBegins, ReembedPublishes, ReembedAborts, Configure, Idle
  <2> QED BY <1>0, <2>1, <2>2, <2>3 DEF Claims
<1>6. CASE Stop \/ Start \/ UNCHANGED vars
  <2>1. /\ node' = node /\ vec' = vec /\ script' = script
        /\ tasks' \subseteq tasks /\ todo' \subseteq todo
    BY <1>6 DEF Stop, Start, vars, nodeVars, vecVars, brainVars, scriptVars
  <2> QED BY <2>1 DEF Claims
<1> QED BY <1>1, <1>2, <1>3, <1>4, <1>5, <1>6 DEF Next

\* A node keeps its text, goes, or is the one a writer puts there.
LEMMA NodeStep ==
  ASSUME TypeOK, [Next]_vars, NEW i \in Id
  PROVE  \/ node'[i] \in {0, node[i]}
         \/ node'[i] = texts + 1
<1>1. ASSUME NEW s \in Segment, NEW j \in Id, Write(s, j)
      PROVE  node'[i] \in {0, node[i]} \/ node'[i] = texts + 1
  BY <1>1 DEF Write
<1>2. ASSUME NEW s \in Segment, Delete(s) PROVE node'[i] \in {0, node[i]}
  BY <1>2 DEF Delete, TypeOK
<1>3. CASE ~\E s \in Segment : Delete(s) \/ \E j \in Id : Write(s, j)
  BY <1>3 DEF Next, EmbedNext, EmbedFails, EmbedChecks, EmbedStores, SweepAny, SweepTick,
              SweepNext, Stop, Start, ScriptNext, ReembedBegins, ReembedPublishes,
              ReembedAborts, Configure, ScriptOnly, vars, nodeVars
<1> QED BY <1>1, <1>2, <1>3

LEMMA HomeStep == HomeInv /\ [Next]_vars => OneHome' /\ NodeNewest'
<1> SUFFICES ASSUME HomeInv, [Next]_vars PROVE OneHome' /\ NodeNewest'
  OBVIOUS
<1>0. TypeOK /\ TextsOld /\ OneHome /\ NodeNewest /\ Text \subseteq Nat
  BY TextNat DEF HomeInv, SpaceInv
<1>1. OneHome'
  <2> SUFFICES ASSUME NEW i \in Id, NEW j \in Id, NEW x \in Text \ {0},
                      Claims(i, x)', Claims(j, x)'
               PROVE  i = j
    BY DEF OneHome
  <2>1. CASE Claims(i, x) /\ Claims(j, x)
    BY <1>0, <2>1 DEF OneHome
  <2>2. CASE x = texts + 1
    <3>1. ~(x <= texts) /\ x \in Text
      BY <1>0, <2>2, Numbers
    <3>2. ~Claims(i, x) /\ ~Claims(j, x)
      BY <1>0, <3>1, ClaimOld
    <3>3. \E s \in Segment : Write(s, i)
      BY <1>0, <3>2, ClaimStep
    <3>4. \E s \in Segment : Write(s, j)
      BY <1>0, <3>2, ClaimStep
    <3>5. PICK s \in Segment : Write(s, i)
      BY <3>3
    <3>6. node'[i] = x /\ node'[j] = x
      BY <2>2, <3>3, <3>4 DEF Write
    <3>7. j # i => node'[j] \in {0, node[j]}
      BY <3>5 DEF Write
    <3>8. x # node[j] /\ x # 0
      BY <3>2 DEF Claims
    <3> QED BY <3>6, <3>7, <3>8
  <2> QED BY <1>0, <2>1, <2>2, ClaimStep
<1>2. NodeNewest'
  <2> SUFFICES ASSUME NEW i \in Id, NEW x \in Text, node'[i] # 0, Claims(i, x)'
               PROVE  x <= node'[i]
    BY DEF NodeNewest
  <2>1. x \in Nat /\ texts \in Nat /\ node[i] \in Nat
    BY <1>0, Numbers
  <2>2. CASE x = 0
    <3>1. node'[i] \in Nat
      BY <1>0, <2>1, NodeStep
    <3> QED BY <2>2, <3>1
  <2>3. CASE x # 0 /\ x = texts + 1 /\ \E s \in Segment : Write(s, i)
    BY <2>1, <2>3 DEF Write
  <2>4. CASE x # 0 /\ Claims(i, x)
    <3>1. x <= texts
      BY <1>0, <2>4, ClaimOld
    <3>2. node'[i] = node[i] => x <= node'[i]
      BY <1>0, <2>4 DEF NodeNewest
    <3> QED BY <1>0, <2>1, <3>1, <3>2, NodeStep
  <2> QED BY <1>0, <2>2, <2>3, <2>4, ClaimStep
<1> QED BY <1>1, <1>2

\* A vector that is not its node's is the remainder of an older text that no node has any
\* more, however the embeddings, the reaper's batches, the deletes and the re-embed
\* script overlap (store_node_vectors).
THEOREM WrongMeansGoneAlways == Spec => []WrongMeansGone
<1>1. Init => OneHome /\ NodeNewest
  <2> SUFFICES ASSUME Init PROVE OneHome /\ NodeNewest
    OBVIOUS
  <2>1. ASSUME NEW i \in Id, NEW x PROVE node[i] = 0 /\ (Claims(i, x) => x = 0)
    BY DEF Init, Claims, Idle
  <2> QED BY <2>1 DEF OneHome, NodeNewest
<1>2. SpaceInv /\ SpaceInv' /\ OneHome /\ NodeNewest /\ [Next]_vars => OneHome' /\ NodeNewest'
  BY HomeStep DEF HomeInv
<1>3. SpaceInv /\ OneHome /\ NodeNewest => WrongMeansGone
  <2> SUFFICES ASSUME TypeOK, OneHome, NodeNewest, NEW i \in Id, vec[i] # 0, vec[i] # node[i]
               PROVE  /\ \A j \in Id : node[j] # vec[i]
                      /\ node[i] # 0 => vec[i] < node[i]
    BY DEF SpaceInv, WrongMeansGone
  <2>1. vec[i] \in Text \ {0} /\ vec[i] \in Nat /\ node[i] \in Nat
    BY Numbers DEF TypeOK
  <2>2. Claims(i, vec[i])
    BY DEF Claims
  <2>3. ASSUME NEW j \in Id, node[j] = vec[i] PROVE FALSE
    <3>1. Claims(j, vec[i])
      BY <2>3 DEF Claims
    <3> QED BY <2>1, <2>2, <2>3, <3>1 DEF OneHome
  <2>4. node[i] # 0 => vec[i] <= node[i]
    BY <2>1, <2>2 DEF NodeNewest
  <2> QED BY <2>1, <2>3, <2>4
<1> QED BY <1>1, <1>2, <1>3, SpaceAlways, PTL DEF Spec
=============================================================================
