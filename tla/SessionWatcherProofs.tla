------------------------- MODULE SessionWatcherProofs -------------------------
(***************************************************************************)
(* Theorems about SessionWatcher, for every finite set of transcripts and  *)
(* every value of the bounds.                                              *)
(***************************************************************************)
EXTENDS SessionWatcher, FiniteSetTheorems, SequenceTheorems, TLAPS

-----------------------------------------------------------------------------
(* Types *)

\* What process_file and load_offsets make of a file's state is a state.
LEMMA StateTypes ==
  ASSUME TypeOK, NEW f \in File
  PROVE  /\ Checked(f) \in FileState
         /\ Loaded(saved[f]) \in FileState /\ Loaded(NoRow) \in FileState
<1>1. states[f] \in FileState /\ saved[f] \in Row /\ disk[f] \in Info /\ NoRow \in Row
  BY DEF TypeOK, NoRow, Row
<1>2. ASSUME NEW s \in FileState, NEW i \in Nat, NEW n \in Nat
      PROVE [s EXCEPT !.inode = i, !.size = n] \in FileState
  BY DEF FileState
<1>3. Checked(f) \in FileState
  <2>1. disk[f].inode \in Nat /\ states[f].size \in Nat
    BY <1>1 DEF Info, FileState
  <2> QED BY <1>1, <1>2, <2>1 DEF Checked
<1>4. ASSUME NEW r \in Row PROVE Loaded(r) \in FileState
  BY DEF Loaded, FileState, Row
<1> QED BY <1>1, <1>3, <1>4

\* Any change of one of a file's state's flags is a state, and so are all files' states.
LEMMA FlagTypes ==
  ASSUME TypeOK, NEW f
  PROVE  /\ [states EXCEPT ![f].cooldown = TRUE] \in [File -> FileState]
         /\ [states EXCEPT ![f].cooldown = FALSE] \in [File -> FileState]
         /\ [states EXCEPT ![f].metaChanged = TRUE] \in [File -> FileState]
<1>1. states \in [File -> FileState]
  BY DEF TypeOK
<1>2. ASSUME NEW s \in FileState, NEW b \in BOOLEAN
      PROVE [s EXCEPT !.cooldown = b] \in FileState /\ [s EXCEPT !.metaChanged = b] \in FileState
  BY DEF FileState
<1> QED BY <1>1, <1>2

\* The discovered files are queued behind those that wait.
LEMMA QueueTypes ==
  ASSUME TypeOK, NEW s \in SetToSeqs(found \ ToSet(pending))
  PROVE  pending \o s \in Seq(File)
<1> DEFINE S == found \ ToSet(pending)
<1>1. S \subseteq File /\ IsFiniteSet(S)
  BY FS_Subset, WatcherAssumption DEF TypeOK
<1>2. Cardinality(S) \in Nat
  BY <1>1, FS_CardinalityType
<1>3. s \in [1..Cardinality(S) -> File]
  BY <1>1 DEF SetToSeqs
<1>4. s \in [1..Cardinality(S) -> File]
  BY <1>1, <1>3
<1>5. s \in Seq(File)
  <2>1. PICK n \in Nat : n = Cardinality(S)
    BY <1>2
  <2>2. s \in [1..n -> File]
    BY <2>1, <1>4
  <2>3. Seq(File) = UNION {[1..m -> File] : m \in Nat}
    BY SeqDef
  <2> HIDE DEF S
  <2> QED BY <2>2, <2>3, Zenon
<1> QED
  <2>1. pending \in Seq(File)
    BY DEF TypeOK
  <2> QED BY <1>5, <2>1, ConcatProperties

\* What a write may leave of a file.
LEMMA InfoTypes ==
  ASSUME NEW d \in Info, NEW i \in Nat, NEW n \in Nat, NEW v \in Nat
  PROVE  /\ [d EXCEPT !.inode = i, !.size = n, !.ver = v] \in Info
         /\ [d EXCEPT !.size = n, !.ver = v] \in Info
<1>1. [d EXCEPT !.size = n] \in Info /\ [d EXCEPT !.inode = i] \in Info
  BY DEF Info
<1>2. [d EXCEPT !.size = n, !.ver = v] \in Info
  BY DEF Info
<1> QED BY <1>2 DEF Info

\* Changes of the files and their notifications.
LEMMA FileTypes ==
  ASSUME TypeOK, NEW f \in File, FileNext(f)
  PROVE  TypeOK'
<1>0. /\ disk[f] \in Info
      /\ disk[f].inode + 1 \in Nat /\ disk[f].size + 1 \in Nat /\ disk[f].ver + 1 \in Nat
  <2>1. disk[f] \in Info
    BY DEF TypeOK
  <2> QED BY <2>1 DEF Info
<1>1. ASSUME NEW k \in {"text", "meta"}, Notify(f, k)
      PROVE notes' \in Seq(Note) /\ Len(notes') <= ChannelCap
  <2>1. CASE UNCHANGED notes
    BY <2>1 DEF TypeOK
  <2>2. CASE Len(notes) < ChannelCap /\ notes' = Append(notes, <<f, k>>)
    <3>1. notes \in Seq(Note) /\ <<f, k>> \in Note
      BY DEF TypeOK, Note
    <3>2. notes' \in Seq(Note) /\ Len(notes') = Len(notes) + 1
      BY <2>2, <3>1, AppendProperties
    <3>3. Len(notes) \in Nat
      BY <3>1, LenProperties
    <3> QED BY <2>2, <3>2, <3>3, WatcherAssumption
  <2> QED BY <1>1, <2>1, <2>2 DEF Notify
<1>2. ASSUME NEW d \in Info, ChangeFile(f, d)
      PROVE /\ disk' \in [File -> Info]
            /\ writes' \in [File -> Nat]
            /\ UNCHANGED <<up, states, found, loopVars, workers, dbVars, backfillVars, faults,
                           stops>>
  <2>1. disk \in [File -> Info] /\ writes \in [File -> Nat]
    BY DEF TypeOK
  <2>2. disk' = [disk EXCEPT ![f] = d] /\ writes' = [writes EXCEPT ![f] = @ + 1]
    BY <1>2 DEF ChangeFile
  <2>3. disk' \in [File -> Info]
    BY <2>1, <2>2
  <2>4. writes' \in [File -> Nat]
    BY <2>1, <2>2
  <2> QED BY <1>2, <2>3, <2>4 DEF ChangeFile
<1>3. ASSUME NEW n \in NewSize, NewFile(f, n) PROVE TypeOK'
  <2>1. [disk[f] EXCEPT !.inode = @ + 1, !.size = n, !.ver = @ + 1]
          \in Info
    BY <1>0, InfoTypes, WatcherAssumption, Zenon
  <2> QED
    BY <1>1, <1>2, <1>3, <2>1 DEF NewFile, TypeOK, loopVars, dbVars, backfillVars
<1>4. CASE AppendText(f)
  <2>1. [disk[f] EXCEPT !.size = @ + 1, !.ver = @ + 1]
          \in Info
    BY <1>0, InfoTypes, Zenon
  <2> QED
    BY <1>1, <1>2, <1>4, <2>1 DEF AppendText, TypeOK, loopVars, dbVars, backfillVars
<1>5. CASE Truncate(f)
  <2>1. [disk[f] EXCEPT !.size = 0, !.ver = @ + 1]
          \in Info
    BY <1>0, InfoTypes, Zenon
  <2> QED
    BY <1>1, <1>2, <1>5, <2>1 DEF Truncate, TypeOK, loopVars, dbVars, backfillVars
<1>6. CASE WriteMeta(f)
  <2>1. [disk[f] EXCEPT !.meta = @ + 1] \in Info
    BY <1>0 DEF Info
  <2> QED
    BY <1>1, <1>2, <1>6, <2>1 DEF WriteMeta, TypeOK, loopVars, dbVars, backfillVars
<1> QED
  BY <1>3, <1>4, <1>5, <1>6 DEF FileNext

\* The loop that queues files and calls process_file.
LEMMA LoopTypes ==
  ASSUME TypeOK, LoopNext
  PROVE  TypeOK'
<1> USE DEF diskVars, dbVars, backfillVars
<1>1. CASE TakeFound
  BY <1>1, QueueTypes DEF TakeFound, TypeOK
<1>2. CASE TakeNote
  <2>1. /\ Head(notes) \in Note
        /\ Tail(notes) \in Seq(Note) /\ Len(Tail(notes)) <= ChannelCap
    <3>1. notes \in Seq(Note) /\ notes # <<>> /\ Len(notes) <= ChannelCap
      BY <1>2 DEF TakeNote, TypeOK
    <3>2. Len(notes) \in Nat
      BY <3>1, LenProperties
    <3> QED BY <3>1, <3>2, HeadTailProperties, WatcherAssumption
  <2>2. Head(notes)[1] \in File
    BY <2>1 DEF Note
  <2>3. pending' \in Seq(File)
    BY <1>2, <2>2, AppendProperties DEF TakeNote, TypeOK
  <2>4. states' \in [File -> FileState]
    <3>1. states \in [File -> FileState]
      BY DEF TypeOK
    <3>2. states' = IF Head(notes)[2] = "meta"
                    THEN [states EXCEPT ![Head(notes)[1]].metaChanged = TRUE] ELSE states
      BY <1>2 DEF TakeNote
    <3> QED BY <2>2, <3>1, <3>2, FlagTypes
  <2> QED BY <1>2, <2>1, <2>3, <2>4 DEF TakeNote, TypeOK
<1>3. ASSUME ProcessNext PROVE TypeOK'
  <2>1. ASSUME pending # <<>> PROVE Head(pending) \in File /\ Tail(pending) \in Seq(File)
    BY <2>1, HeadTailProperties DEF TypeOK
  <2>2. CASE Postpone
    BY <2>1, <2>2 DEF Postpone, TypeOK
  <2>3. CASE Ignore
    <3>1. states' \in [File -> FileState]
      BY <2>3, StateTypes DEF Ignore, TypeOK
    <3>2. pending' \in Seq(File)
      BY <2>1, <2>3 DEF Ignore, Due
    <3> QED BY <2>3, <3>1, <3>2 DEF Ignore, TypeOK
  <2>4. ASSUME NEW f \in File, NEW seen \in 0..disk[f].meta, Spawn(f, seen) PROVE TypeOK'
    <3>1. disk[f] \in Info /\ seen \in Nat
      BY DEF TypeOK, Info
    <3>2. states' \in [File -> FileState]
      <4>1. [Checked(f) EXCEPT !.metaChanged = @ \/ disk[f].size <= Checked(f).size]
              \in FileState
        BY <3>1, StateTypes DEF FileState
      <4> QED BY <2>4, <4>1 DEF Spawn, TypeOK
    <3>3. call' \in [file : File \cup {NoFile}, size : Nat, seen : Nat]
      BY <2>4, <3>1 DEF Spawn, Info
    <3>4. workers' \subseteq Worker
      <4>1. [file |-> f, size |-> disk[f].size, inode |-> disk[f].inode, seen |-> seen,
             ver |-> 0, meta |-> 0, pc |-> "parse"] \in Worker
        BY <3>1 DEF Worker, Info
      <4> QED BY <2>4, <4>1 DEF Spawn, TypeOK
    <3>5. pending' \in Seq(File)
      BY <2>1, <2>4 DEF Spawn, Due
    <3> QED BY <2>4, <3>2, <3>3, <3>4, <3>5 DEF Spawn, TypeOK
  <2> QED BY <1>3, <2>2, <2>3, <2>4 DEF ProcessNext
<1>4. CASE Succeeded
  <2>1. states' \in [File -> FileState]
    <3>1. call.size \in Nat /\ call.seen \in Nat
      BY DEF TypeOK
    <3>2. ASSUME NEW s \in FileState
          PROVE [s EXCEPT !.size = call.size, !.seen = call.seen, !.metaChanged = FALSE] \in FileState
      BY <3>1 DEF FileState
    <3> QED BY <1>4, <3>2 DEF Succeeded, TypeOK
  <2> QED BY <1>4, <2>1 DEF Succeeded, TypeOK, NoCall
<1>5. CASE CoolDown
  <2>1. states' = [states EXCEPT ![call.file].cooldown = TRUE]
    BY <1>5 DEF CoolDown
  <2>2. states' \in [File -> FileState]
    BY <2>1, FlagTypes
  <2> QED BY <1>5, <2>2 DEF CoolDown, TypeOK, NoCall
<1> QED
  BY <1>1, <1>2, <1>3, <1>4, <1>5 DEF LoopNext, Failed, TimedOut

\* The blocking workers.
LEMMA WorkerTypes ==
  ASSUME TypeOK, NEW w \in workers, WorkerStep(w)
  PROVE  TypeOK'
<1> USE DEF diskVars, loopVars, dbVars, backfillVars
<1>0. w \in Worker
  BY DEF TypeOK
<1>1. /\ w.file \in File /\ disk[w.file].ver \in Nat /\ disk[w.file].meta \in Nat
      /\ w.size \in Nat /\ w.inode \in Nat /\ w.seen \in Nat /\ w.ver \in Nat /\ w.meta \in Nat
  BY <1>0 DEF TypeOK, Worker, Info
<1>2. CASE Parse(w)
  <2>1. TextOf(w.file) \in Nat
    BY <1>1 DEF TextOf
  <2>2. [w EXCEPT !.ver = TextOf(w.file), !.meta = disk[w.file].meta, !.pc = "insert"] \in Worker
    BY <1>0, <1>1, <2>1 DEF Worker
  <2> QED BY <1>2, <2>2 DEF Parse, TypeOK
<1>3. CASE Insert(w)
  <2>1. [w EXCEPT !.pc = "save"] \in Worker
    BY <1>0 DEF Worker
  <2>2. ingested' \in [File -> [ver : Nat, meta : Nat]]
    BY <1>1, <1>3 DEF Insert, Rows, TypeOK
  <2> QED BY <1>3, <2>1, <2>2 DEF Insert, TypeOK
<1>4. ASSUME NEW r \in {"ok", "failed"}, Return(w, r)
      PROVE  workers' \subseteq Worker /\ outcome' \in {"none", "ok", "failed"}
  BY <1>4 DEF Return, TypeOK
<1>5. CASE Save(w)
  <2>1. saved' \in [File -> Row]
    BY <1>1, <1>5 DEF Save, TypeOK, Row
  <2> QED BY <1>4, <1>5, <2>1 DEF Save, Return, TypeOK
<1>6. CASE SaveFails(w)
  BY <1>4, <1>6 DEF SaveFails, Return, TypeOK
<1>7. CASE IngestFails(w)
  BY <1>4, <1>7 DEF IngestFails, Return, TypeOK
<1> QED
  BY <1>2, <1>3, <1>5, <1>6, <1>7 DEF WorkerStep

\* A busy backfill works on a transcript it has marked.
BackfillBusy == backfill.pc # "none" => backfill.file \in backfilled

\* The backfill command.
LEMMA BackfillTypes ==
  ASSUME TypeOK, BackfillBusy, BackfillNext
  PROVE  TypeOK' /\ BackfillBusy'
<1> USE DEF diskVars, loopVars, dbVars
<1> DEFINE B == [file : File \cup {NoFile}, ver : Nat, meta : Nat, pc : {"none", "parse", "insert"}]
<1>1. ASSUME NEW f \in File, BackfillResets(f) PROVE TypeOK' /\ BackfillBusy'
  <2>1. [saved[f] EXCEPT !.size = 0] \in Row
    BY DEF TypeOK, Row
  <2>2. saved' \in [File -> Row]
    BY <1>1, <2>1 DEF BackfillResets, TypeOK
  <2>3. backfill' \in B
    BY <1>1 DEF BackfillResets, NoBackfill
  <2> QED BY <1>1, <2>2, <2>3 DEF BackfillResets, TypeOK, BackfillBusy
<1>2. CASE BackfillParses
  <2>1. ASSUME backfill.file \in File
        PROVE disk[backfill.file].meta \in Nat /\ TextOf(backfill.file) \in Nat
    BY <2>1 DEF TypeOK, TextOf, Info
  <2> QED BY <1>2, <2>1 DEF BackfillParses, TypeOK, BackfillBusy
<1>3. CASE BackfillInserts
  BY <1>3 DEF BackfillInserts, Rows, NoBackfill, TypeOK, BackfillBusy
<1>4. CASE BackfillFails
  BY <1>4 DEF BackfillFails, NoBackfill, TypeOK, BackfillBusy
<1> QED
  BY <1>1, <1>2, <1>3, <1>4 DEF BackfillNext

\* Every step keeps the types.
LEMMA TypeStep ==
  ASSUME TypeOK, BackfillBusy, [Next]_vars
  PROVE  TypeOK' /\ BackfillBusy'
<1> USE DEF diskVars, loopVars, dbVars, backfillVars
<1>1. ASSUME NEW f \in File, FileNext(f) PROVE TypeOK' /\ BackfillBusy'
  BY <1>1, FileTypes
     DEF FileNext, NewFile, AppendText, Truncate, WriteMeta, ChangeFile, BackfillBusy
<1>2. ASSUME NEW f \in File, CooldownEnds(f) PROVE TypeOK' /\ BackfillBusy'
  <2>1. states' \in [File -> FileState]
    BY <1>2, FlagTypes DEF CooldownEnds
  <2> QED BY <1>2, <2>1 DEF CooldownEnds, TypeOK, BackfillBusy
<1>3. CASE Discover
  BY <1>3 DEF Discover, Present, TypeOK, BackfillBusy
<1>4. CASE LoopNext
  BY <1>4, LoopTypes
     DEF LoopNext, TakeFound, TakeNote, ProcessNext, Postpone, Ignore, Spawn, Succeeded, Failed,
         TimedOut, CoolDown, BackfillBusy
<1>5. ASSUME NEW w \in workers, WorkerStep(w) PROVE TypeOK' /\ BackfillBusy'
  BY <1>5, WorkerTypes
     DEF WorkerStep, Parse, Insert, Save, SaveFails, IngestFails, Return, BackfillBusy
<1>6. CASE Stop
  <2>1. states' \in [File -> FileState]
    BY <1>6, StateTypes DEF Stop
  <2>2. <<>> \in Seq(Note) /\ <<>> \in Seq(File) /\ Len(<<>>) = 0
    BY EmptySeq
  <2>3. notes' \in Seq(Note) /\ Len(notes') <= ChannelCap /\ pending' \in Seq(File)
    BY <1>6, <2>2, WatcherAssumption DEF Stop
  <2>4. call' \in [file : File \cup {NoFile}, size : Nat, seen : Nat]
    BY <1>6 DEF Stop, NoCall
  <2>5. /\ up' \in BOOLEAN /\ outcome' = "none" /\ found' = {} /\ workers' = {} /\ stops' = stops + 1
        /\ UNCHANGED <<disk, saved, ingested, backfill, rewritten, backfilled, writes, faults>>
    BY <1>6 DEF Stop
  <2>6. up' \in BOOLEAN /\ found' \subseteq File /\ workers' \subseteq Worker /\ stops' \in Nat
        /\ outcome' \in {"none", "ok", "failed"}
    BY <2>5 DEF TypeOK
  <2>7. BackfillBusy'
    BY <2>5 DEF BackfillBusy
  <2>8. TypeOK'
    BY <2>1, <2>3, <2>4, <2>5, <2>6 DEF TypeOK
  <2> QED
    BY <2>7, <2>8
<1>7. CASE Start
  <2>1. states' \in [File -> FileState]
    BY <1>7, StateTypes DEF Start
  <2> QED BY <1>7, <2>1 DEF Start, TypeOK, BackfillBusy
<1>8. CASE BackfillNext
  BY <1>8, BackfillTypes
<1>9. CASE UNCHANGED vars
  BY <1>9 DEF vars, TypeOK, BackfillBusy
<1> QED
  BY <1>1, <1>2, <1>3, <1>4, <1>5, <1>6, <1>7, <1>8, <1>9 DEF Next

LEMMA TypeInit == Init => TypeOK /\ BackfillBusy
<1> SUFFICES ASSUME Init PROVE TypeOK /\ BackfillBusy
  OBVIOUS
<1>1. Loaded(NoRow) \in FileState /\ NoRow \in Row
  BY DEF Loaded, NoRow, FileState, Row
<1>2. disk \in [File -> Info] /\ ingested \in [File -> [ver : Nat, meta : Nat]]
  BY DEF Init, Info
<1>3. <<>> \in Seq(Note) /\ <<>> \in Seq(File) /\ Len(<<>>) = 0
  BY EmptySeq
<1>4. notes \in Seq(Note) /\ Len(notes) <= ChannelCap /\ pending \in Seq(File)
  BY <1>3, WatcherAssumption DEF Init
<1>6. call \in [file : File \cup {NoFile}, size : Nat, seen : Nat]
  BY DEF Init, NoCall
<1>7. /\ states \in [File -> FileState] /\ saved \in [File -> Row]
      /\ writes \in [File -> Nat]
  BY <1>1 DEF Init
<1>8. backfill \in [file : File \cup {NoFile}, ver : Nat, meta : Nat,
                    pc : {"none", "parse", "insert"}]
  BY DEF Init, NoBackfill
<1>9. TypeOK
  BY <1>2, <1>4, <1>6, <1>7, <1>8 DEF Init, TypeOK
<1>5. BackfillBusy
  BY DEF Init, NoBackfill, BackfillBusy
<1> QED BY <1>5, <1>9

\* Every reachable state of the watcher is well typed, and the notification channel
\* holds no more than its capacity (try_send in watch).
THEOREM TypeCorrect == Spec => []TypeOK
<1>1. Init => TypeOK /\ BackfillBusy
  BY TypeInit
<1>2. (TypeOK /\ BackfillBusy) /\ [Next]_vars => (TypeOK /\ BackfillBusy)'
  BY TypeStep
<1> QED
  BY <1>1, <1>2, PTL DEF Spec

-----------------------------------------------------------------------------
(* The invariant: what was looked up of a file is not ahead of it, so an    *)
(* append or a replacement uncovers it; a worker that may still write rows  *)
(* is alone on its file and has read no less than the rows hold.            *)

\* Nothing has rewritten f in place and no backfill has touched its rows.
Clean(f) == f \in Present \ (rewritten \cup backfilled) /\ disk[f].size > 0

Behind(f, r) ==
  /\ r.inode <= disk[f].inode
  /\ r.inode = disk[f].inode /\ f \notin rewritten => r.size <= disk[f].size

FileInv(f) ==
  /\ Behind(f, saved[f])
  /\ ingested[f].ver <= disk[f].ver /\ ingested[f].meta <= disk[f].meta
  /\ Clean(f) /\ Covers(f, saved[f]) => ingested[f].ver = disk[f].ver

WorkerInv(w) ==
  /\ Behind(w.file, w)
  /\ w.ver <= disk[w.file].ver /\ w.meta <= disk[w.file].meta
  /\ w.pc = "insert" /\ w.ver # 0 /\ w.file \notin backfilled =>
       ingested[w.file].ver <= w.ver /\ ingested[w.file].meta <= w.meta
  /\ Clean(w.file) /\ Covers(w.file, w) =>
       /\ w.pc = "insert" => w.ver = disk[w.file].ver
       /\ w.pc = "save" => ingested[w.file].ver = disk[w.file].ver

OneWorker == \A v, w \in workers : v.file = w.file => v = w

BackfillInv ==
  backfill.pc = "insert" =>
    /\ backfill.ver <= disk[backfill.file].ver
    /\ backfill.meta <= disk[backfill.file].meta

Rest ==
  /\ \A f \in File : FileInv(f)
  /\ \A w \in workers : WorkerInv(w)
  /\ OneWorker /\ BackfillInv

IInv == TypeOK /\ BackfillBusy /\ Rest

\* A write only adds to a file, replaces it by another inode, or rewrites it.
LEMMA WriteFacts ==
  ASSUME TypeOK, NEW f \in File, FileNext(f), NEW g \in File
  PROVE  /\ disk[g].ver <= disk'[g].ver /\ disk[g].meta <= disk'[g].meta
         /\ \A i, n \in Nat :
              /\ i <= disk[g].inode
              /\ i = disk[g].inode /\ g \notin rewritten => n <= disk[g].size
              => /\ i <= disk'[g].inode
                 /\ i = disk'[g].inode /\ g \notin rewritten' => n <= disk'[g].size
                 /\ /\ g \notin rewritten' /\ disk'[g].inode # 0 /\ disk'[g].size > 0
                    /\ i = disk'[g].inode /\ disk'[g].size <= n
                    => /\ g \notin rewritten /\ disk[g].inode # 0 /\ disk[g].size > 0
                       /\ i = disk[g].inode /\ disk[g].size <= n
                       /\ disk'[g].ver = disk[g].ver
<1>1. disk[g] \in Info /\ disk[f] \in Info
  BY DEF TypeOK
<1>2. /\ disk[g].inode \in Nat /\ disk[g].size \in Nat
      /\ disk[g].ver \in Nat /\ disk[g].meta \in Nat
  BY <1>1 DEF Info
<1>3. CASE g # f
  <2>1. disk'[g] = disk[g] /\ (g \in rewritten' <=> g \in rewritten)
    BY <1>3 DEF TypeOK, FileNext, NewFile, AppendText, Truncate, WriteMeta, ChangeFile
  <2> QED BY <1>2, <2>1
<1>4. CASE g = f
  <2>1. ASSUME NEW n \in NewSize, NewFile(f, n)
        PROVE disk'[f].inode = disk[f].inode + 1 /\ disk'[f].ver = disk[f].ver + 1
              /\ disk'[f].meta = disk[f].meta
    BY <1>1, <2>1 DEF TypeOK, NewFile, ChangeFile, Info
  <2>2. ASSUME AppendText(f)
        PROVE /\ disk'[f].inode = disk[f].inode /\ disk'[f].size = disk[f].size + 1
              /\ disk'[f].ver = disk[f].ver + 1 /\ disk'[f].meta = disk[f].meta
              /\ rewritten' = rewritten
    BY <1>1, <2>2 DEF TypeOK, AppendText, ChangeFile, Info
  <2>3. ASSUME Truncate(f)
        PROVE /\ disk'[f].inode = disk[f].inode /\ f \in rewritten'
              /\ disk'[f].ver = disk[f].ver + 1 /\ disk'[f].meta = disk[f].meta
    BY <1>1, <2>3 DEF TypeOK, Truncate, ChangeFile, Info
  <2>4. ASSUME WriteMeta(f)
        PROVE /\ disk'[f].inode = disk[f].inode /\ disk'[f].size = disk[f].size
              /\ disk'[f].ver = disk[f].ver /\ disk'[f].meta = disk[f].meta + 1
              /\ rewritten' = rewritten
    BY <1>1, <2>4 DEF TypeOK, WriteMeta, ChangeFile, Info
  <2> QED
    BY <1>2, <1>4, <2>1, <2>2, <2>3, <2>4 DEF FileNext
<1> QED
  BY <1>3, <1>4

LEMMA WriteStep ==
  ASSUME TypeOK, BackfillBusy, Rest, NEW f \in File, FileNext(f)
  PROVE  Rest'
<1>1. UNCHANGED <<workers, saved, ingested, backfill, backfilled>>
  BY DEF FileNext, NewFile, AppendText, Truncate, WriteMeta, ChangeFile, dbVars, backfillVars
<1>2. ASSUME NEW g \in File PROVE FileInv(g)'
  <2>1. FileInv(g)
    BY DEF Rest
  <2>2. /\ saved[g].inode \in Nat /\ saved[g].size \in Nat
        /\ ingested[g].ver \in Nat /\ ingested[g].meta \in Nat
    BY DEF TypeOK, Row
  <2>3. /\ disk[g].ver \in Nat /\ disk[g].meta \in Nat
        /\ disk'[g].ver \in Nat /\ disk'[g].meta \in Nat
    BY FileTypes DEF TypeOK, Info
  <2>4. Behind(g, saved[g])'
    BY <1>1, <2>1, <2>2, WriteFacts DEF FileInv, Behind
  <2>5. (ingested[g].ver <= disk[g].ver /\ ingested[g].meta <= disk[g].meta)'
    BY <1>1, <2>1, <2>2, <2>3, WriteFacts DEF FileInv
  <2>6. (Clean(g) /\ Covers(g, saved[g]) => ingested[g].ver = disk[g].ver)'
    BY <1>1, <2>1, <2>2, WriteFacts DEF FileInv, Behind, Clean, Covers, Present
  <2> QED BY <2>4, <2>5, <2>6 DEF FileInv
<1>3. ASSUME NEW w \in workers PROVE WorkerInv(w)'
  <2>1. WorkerInv(w)
    BY DEF Rest
  <2>2. /\ w.file \in File /\ w.inode \in Nat /\ w.size \in Nat /\ w.ver \in Nat /\ w.meta \in Nat
    BY DEF TypeOK, Worker
  <2>3. /\ disk[w.file].ver \in Nat /\ disk[w.file].meta \in Nat
        /\ disk'[w.file].ver \in Nat /\ disk'[w.file].meta \in Nat
    BY <2>2, FileTypes DEF TypeOK, Info
  <2>4. Behind(w.file, w)'
    BY <2>1, <2>2, WriteFacts DEF WorkerInv, Behind
  <2>5. (w.ver <= disk[w.file].ver /\ w.meta <= disk[w.file].meta)'
    BY <2>1, <2>2, <2>3, WriteFacts DEF WorkerInv
  <2>6. (w.pc = "insert" /\ w.ver # 0 /\ w.file \notin backfilled =>
           ingested[w.file].ver <= w.ver /\ ingested[w.file].meta <= w.meta)'
    BY <1>1, <2>1 DEF WorkerInv
  <2>7. (Clean(w.file) /\ Covers(w.file, w) =>
           /\ w.pc = "insert" => w.ver = disk[w.file].ver
           /\ w.pc = "save" => ingested[w.file].ver = disk[w.file].ver)'
    BY <1>1, <2>1, <2>2, WriteFacts DEF WorkerInv, Behind, Clean, Covers, Present
  <2> QED BY <2>4, <2>5, <2>6, <2>7 DEF WorkerInv
<1>4. BackfillInv'
  <2>1. ASSUME backfill.pc = "insert"
        PROVE /\ backfill.file \in File /\ backfill.ver \in Nat /\ backfill.meta \in Nat
              /\ disk[backfill.file] \in Info /\ disk'[backfill.file] \in Info
    BY <2>1, FileTypes DEF TypeOK, BackfillBusy
  <2> QED
    BY <1>1, <2>1, WriteFacts DEF BackfillInv, Rest, Info
<1> QED
  BY <1>1, <1>2, <1>3, <1>4 DEF Rest, OneWorker

\* Steps that leave the files, the rows and the workers alone.
LEMMA QuietStep ==
  ASSUME Rest,
         UNCHANGED <<disk, rewritten, workers, saved, ingested, backfill, backfilled>>
  PROVE  Rest'
BY DEF Rest, FileInv, WorkerInv, OneWorker, BackfillInv, Behind, Clean, Covers, Present

\* process_file starts a worker only on a file that has none.
LEMMA SpawnStep ==
  ASSUME TypeOK, Rest, NEW f \in File, NEW seen \in 0..disk[f].meta, Spawn(f, seen)
  PROVE  Rest'
<1> DEFINE n == [file |-> f, size |-> disk[f].size, inode |-> disk[f].inode, seen |-> seen,
                 ver |-> 0, meta |-> 0, pc |-> "parse"]
<1>1. /\ workers' = workers \cup {n}
      /\ UNCHANGED <<disk, rewritten, saved, ingested, backfill, backfilled>>
  BY DEF Spawn, diskVars, dbVars, backfillVars
<1>2. \A g \in File : FileInv(g)'
  BY <1>1 DEF Rest, FileInv, Behind, Clean, Covers, Present
<1>3. \A w \in workers : WorkerInv(w)'
  BY <1>1 DEF Rest, WorkerInv, Behind, Clean, Covers, Present
<1>4. WorkerInv(n)'
  <2>1. disk[f] \in Info
    BY DEF TypeOK
  <2> QED BY <1>1, <2>1 DEF WorkerInv, Behind, Info
<1>5. \A w \in workers : w.file # f
  BY DEF Spawn, Due, InFlight
<1>6. OneWorker'
  BY <1>1, <1>5 DEF Rest, OneWorker
<1>7. BackfillInv'
  BY <1>1 DEF Rest, BackfillInv
<1> QED
  BY <1>1, <1>2, <1>3, <1>4, <1>6, <1>7 DEF Rest

\* What a worker has read, while it is alone on its file.
LEMMA WorkerAlone ==
  ASSUME TypeOK, Rest, NEW w \in workers
  PROVE  /\ w \in Worker /\ WorkerInv(w) /\ FileInv(w.file)
         /\ \A v \in workers \ {w} : v \in Worker /\ WorkerInv(v) /\ v.file # w.file
         /\ OneWorker /\ BackfillInv
         /\ disk[w.file] \in Info
         /\ ingested[w.file].ver \in Nat /\ ingested[w.file].meta \in Nat
<1>1. w \in Worker
  BY DEF TypeOK
<1>2. w.file \in File
  BY <1>1 DEF Worker
<1>3. disk[w.file] \in Info /\ ingested[w.file] \in [ver : Nat, meta : Nat]
  BY <1>2 DEF TypeOK
<1> QED
  BY <1>1, <1>2, <1>3 DEF Rest, OneWorker, TypeOK

LEMMA ParseStep ==
  ASSUME TypeOK, Rest, NEW w \in workers, Parse(w)
  PROVE  Rest'
<1>0. PICK n : n = [w EXCEPT !.ver = TextOf(w.file), !.meta = disk[w.file].meta, !.pc = "insert"]
  OBVIOUS
<1>1. /\ workers' = (workers \ {w}) \cup {n}
      /\ UNCHANGED <<disk, rewritten, saved, ingested, backfill, backfilled>>
  BY <1>0 DEF Parse, diskVars, dbVars, backfillVars
<1>2. /\ n.file = w.file /\ n.size = w.size /\ n.inode = w.inode
      /\ n.ver = TextOf(w.file) /\ n.meta = disk[w.file].meta /\ n.pc = "insert"
  BY <1>0, WorkerAlone DEF Worker
<1>3. \A g \in File : FileInv(g)'
  BY <1>1 DEF Rest, FileInv, Behind, Clean, Covers, Present
<1>4. \A v \in workers \ {w} : WorkerInv(v)'
  BY <1>1 DEF Rest, WorkerInv, Behind, Clean, Covers, Present
<1>5. WorkerInv(n)'
  <2>1. Behind(w.file, n)'
    BY <1>1, <1>2, WorkerAlone DEF WorkerInv, Behind
  <2>2. n.ver <= disk[w.file].ver /\ n.meta <= disk[w.file].meta
        /\ (n.ver # 0 => n.ver = disk[w.file].ver)
        /\ (disk[w.file].size > 0 => n.ver = disk[w.file].ver)
    BY <1>2, WorkerAlone DEF TextOf, Info
  <2>3. ingested[w.file].ver <= disk[w.file].ver /\ ingested[w.file].meta <= disk[w.file].meta
    BY WorkerAlone DEF FileInv
  <2> QED
    BY <1>1, <1>2, <2>1, <2>2, <2>3 DEF WorkerInv, Clean
<1>6. OneWorker'
  BY <1>1, <1>2, WorkerAlone DEF OneWorker
<1>7. BackfillInv'
  BY <1>1, WorkerAlone DEF BackfillInv
<1> QED
  BY <1>1, <1>3, <1>4, <1>5, <1>6, <1>7 DEF Rest

LEMMA InsertStep ==
  ASSUME TypeOK, Rest, NEW w \in workers, Insert(w)
  PROVE  /\ Rest'
         /\ \A f \in File \ backfilled : /\ ingested'[f].ver >= ingested[f].ver
                                         /\ ingested'[f].meta >= ingested[f].meta
<1> DEFINE n == [w EXCEPT !.pc = "save"]
           f == w.file
<1>1. /\ workers' = (workers \ {w}) \cup {n} /\ w.pc = "insert"
      /\ UNCHANGED <<disk, rewritten, saved, backfill, backfilled>>
  BY DEF Insert, diskVars, backfillVars
<1>2. /\ f \in File /\ n.file = f /\ n.size = w.size /\ n.inode = w.inode
      /\ n.ver = w.ver /\ n.meta = w.meta /\ n.pc = "save"
  BY WorkerAlone DEF Worker
<1>3. \A g \in File \ {f} : ingested'[g] = ingested[g]
  BY DEF Insert, Rows, TypeOK
<1>4. /\ w.ver = 0 => ingested'[f] = ingested[f]
      /\ w.ver # 0 => ingested'[f].ver = w.ver /\ ingested'[f].meta = w.meta
  BY <1>2 DEF Insert, Rows, TypeOK
<1>5. /\ disk[f].ver \in Nat /\ disk[f].meta \in Nat /\ w.ver \in Nat /\ w.meta \in Nat
      /\ ingested[f].ver \in Nat /\ ingested[f].meta \in Nat
  BY WorkerAlone DEF Worker, Info
<1>6. WorkerInv(w) /\ FileInv(f)
  BY WorkerAlone
<1>7. /\ ingested'[f].ver <= disk[f].ver /\ ingested'[f].meta <= disk[f].meta
      /\ f \notin backfilled =>
           ingested'[f].ver >= ingested[f].ver /\ ingested'[f].meta >= ingested[f].meta
  BY <1>1, <1>4, <1>5, <1>6 DEF WorkerInv, FileInv
<1>8. Clean(f) /\ (Covers(f, saved[f]) \/ Covers(f, w)) => ingested'[f].ver = disk[f].ver
  BY <1>1, <1>4, <1>5, <1>6, <1>7 DEF WorkerInv, FileInv, Clean
<1> HIDE DEF n, f
<1>9. FileInv(f)'
  BY <1>1, <1>6, <1>7, <1>8 DEF FileInv, Behind, Clean, Covers, Present
<1>10. \A g \in File \ {f} : FileInv(g)'
  BY <1>1, <1>3 DEF Rest, FileInv, Behind, Clean, Covers, Present
<1>11. WorkerInv(n)'
  BY <1>1, <1>2, <1>6, <1>8 DEF WorkerInv, Behind, Clean, Covers, Present, f
<1>12. ASSUME NEW v \in workers \ {w} PROVE WorkerInv(v)'
  <2>1. WorkerInv(v) /\ v.file \in File \ {f}
    BY WorkerAlone DEF f, Worker
  <2> QED
    BY <1>1, <1>3, <2>1 DEF WorkerInv, Behind, Clean, Covers, Present
<1>13. OneWorker'
  BY <1>1, <1>2, WorkerAlone DEF OneWorker, f
<1>14. BackfillInv'
  BY <1>1, WorkerAlone DEF BackfillInv
<1>15. Rest'
  BY <1>1, <1>9, <1>10, <1>11, <1>12, <1>13, <1>14 DEF Rest
<1>16. \A g \in File \ {f} : g \notin backfilled =>
         ingested'[g].ver >= ingested[g].ver /\ ingested'[g].meta >= ingested[g].meta
  BY <1>3 DEF TypeOK
<1> QED
  BY <1>7, <1>15, <1>16

\* Whatever a worker returns, it leaves the rows alone.
LEMMA ReturnStep ==
  ASSUME TypeOK, Rest, NEW w \in workers, Save(w) \/ SaveFails(w) \/ IngestFails(w)
  PROVE  Rest'
<1> DEFINE f == w.file
<1>1. /\ workers' = workers \ {w}
      /\ UNCHANGED <<disk, rewritten, ingested, backfill, backfilled>>
  BY DEF Save, SaveFails, IngestFails, Return, diskVars, backfillVars
<1>2. \A v \in workers' : WorkerInv(v)'
  BY <1>1 DEF Rest, WorkerInv, Behind, Clean, Covers, Present
<1>3. OneWorker' /\ BackfillInv'
  BY <1>1 DEF Rest, OneWorker, BackfillInv
<1>4. CASE UNCHANGED saved
  <2>1. \A g \in File : FileInv(g)'
    BY <1>1, <1>4 DEF Rest, FileInv, Behind, Clean, Covers, Present
  <2> QED BY <1>2, <1>3, <2>1 DEF Rest
<1>5. CASE Save(w)
  <2>1. f \in File
    BY WorkerAlone DEF Worker
  <2>2. /\ w.pc = "save"
        /\ saved'[f].size = w.size /\ saved'[f].inode = w.inode
        /\ \A g \in File \ {f} : saved'[g] = saved[g]
    BY <1>5, <2>1 DEF Save, TypeOK
  <2>3. WorkerInv(w) /\ FileInv(f)
    BY WorkerAlone
  <2>4. FileInv(f)'
    BY <1>1, <2>2, <2>3 DEF FileInv, WorkerInv, Behind, Clean, Covers, Present
  <2>5. \A g \in File \ {f} : FileInv(g)'
    BY <1>1, <2>2 DEF Rest, FileInv, Behind, Clean, Covers, Present
  <2> QED BY <1>2, <1>3, <2>4, <2>5 DEF Rest
<1> QED
  BY <1>4, <1>5 DEF SaveFails, IngestFails

LEMMA BackfillStep ==
  ASSUME TypeOK, BackfillBusy, Rest, BackfillNext
  PROVE  /\ Rest'
         /\ \A f \in File \ backfilled' : ingested'[f] = ingested[f]
<1>1. UNCHANGED <<disk, rewritten, workers>> /\ backfilled \subseteq backfilled'
  BY DEF BackfillNext, BackfillResets, BackfillParses, BackfillInserts, BackfillFails,
         diskVars, backfillVars
<1>2. ASSUME NEW f \in File, BackfillResets(f)
      PROVE Rest' /\ \A g \in File \ backfilled' : ingested'[g] = ingested[g]
  <2>1. /\ backfilled' = backfilled \cup {f} /\ UNCHANGED ingested
        /\ backfill'.pc = "parse"
        /\ saved'[f].size \in {0, saved[f].size} /\ saved'[f].inode = saved[f].inode
        /\ \A g \in File \ {f} : saved'[g] = saved[g]
    <3>1. saved[f] \in Row /\ saved \in [File -> Row]
      BY DEF TypeOK
    <3>2. /\ backfilled' = backfilled \cup {f} /\ UNCHANGED ingested
          /\ backfill'.pc = "parse"
          /\ saved' = [saved EXCEPT ![f].size = 0] \/ saved' = saved
      BY <1>2 DEF BackfillResets, NoBackfill
    <3>3. CASE saved' = saved
      BY <3>2, <3>3
    <3>4. CASE saved' = [saved EXCEPT ![f].size = 0]
      BY <3>1, <3>2, <3>4 DEF Row
    <3> QED BY <3>2, <3>3, <3>4
  <2>2. disk[f].size \in Nat
    BY DEF TypeOK, Info
  <2>3. FileInv(f)'
    BY <1>1, <2>1, <2>2 DEF Rest, FileInv, Behind, Clean
  <2>4. \A g \in File \ {f} : FileInv(g)'
    BY <1>1, <2>1 DEF Rest, FileInv, Behind, Clean, Covers, Present
  <2>5. \A w \in workers : WorkerInv(w)'
    BY <1>1, <2>1 DEF Rest, WorkerInv, Behind, Clean, Covers, Present
  <2> QED
    BY <1>1, <2>1, <2>3, <2>4, <2>5 DEF Rest, OneWorker, BackfillInv
<1>3. CASE BackfillParses
  <2>1. backfill.file \in File /\ disk[backfill.file] \in Info
    BY <1>3 DEF BackfillParses, BackfillBusy, TypeOK
  <2>2. BackfillInv'
    <3>1. /\ backfill'.file = backfill.file /\ backfill'.ver = TextOf(backfill.file)
          /\ backfill'.meta = disk[backfill.file].meta
      BY <1>3 DEF BackfillParses, TypeOK
    <3>2. TextOf(backfill.file) <= disk[backfill.file].ver
      BY <2>1 DEF TextOf, Info
    <3> QED BY <1>1, <2>1, <3>1, <3>2 DEF BackfillInv, Info
  <2>3. UNCHANGED <<saved, ingested, backfilled>>
    BY <1>3 DEF BackfillParses, dbVars
  <2> QED
    BY <1>1, <2>2, <2>3
       DEF Rest, FileInv, WorkerInv, OneWorker, Behind, Clean, Covers, Present
<1>4. CASE BackfillInserts
  <2>1. PICK b : b = backfill.file
    OBVIOUS
  <2>2. b \in backfilled /\ b \in File /\ BackfillInv
    BY <1>4, <2>1 DEF BackfillInserts, BackfillBusy, TypeOK, Rest
  <2>3. /\ UNCHANGED <<saved, backfilled>> /\ backfill'.pc = "none"
        /\ \A g \in File \ {b} : ingested'[g] = ingested[g]
        /\ \/ ingested'[b] = ingested[b]
           \/ ingested'[b].ver = backfill.ver /\ ingested'[b].meta = backfill.meta
    BY <1>4, <2>1, <2>2 DEF BackfillInserts, Rows, NoBackfill, TypeOK
  <2>4. FileInv(b)'
    BY <1>1, <1>4, <2>1, <2>2, <2>3
       DEF Rest, FileInv, Behind, Clean, BackfillInv, BackfillInserts
  <2>5. \A g \in File \ {b} : FileInv(g)'
    BY <1>1, <2>3 DEF Rest, FileInv, Behind, Clean, Covers, Present
  <2>6. ASSUME NEW w \in workers PROVE WorkerInv(w)'
    <3>1. w.file \in File /\ WorkerInv(w)
      BY DEF TypeOK, Worker, Rest
    <3> QED
      BY <1>1, <2>2, <2>3, <3>1 DEF WorkerInv, Behind, Clean, Covers, Present
  <2> QED
    BY <1>1, <2>2, <2>3, <2>4, <2>5, <2>6 DEF Rest, OneWorker, BackfillInv
<1>5. CASE BackfillFails
  <2>1. UNCHANGED <<saved, ingested, backfilled>> /\ backfill'.pc = "none"
    BY <1>5 DEF BackfillFails, NoBackfill, dbVars
  <2> QED
    BY <1>1, <2>1
       DEF Rest, FileInv, WorkerInv, OneWorker, BackfillInv, Behind, Clean, Covers, Present
<1> QED
  BY <1>2, <1>3, <1>4, <1>5 DEF BackfillNext

\* Every step keeps the invariant, and takes no row back.
LEMMA InvStep ==
  ASSUME IInv, [Next]_vars
  PROVE  /\ IInv'
         /\ \A f \in File \ backfilled' : /\ ingested'[f].ver >= ingested[f].ver
                                          /\ ingested'[f].meta >= ingested[f].meta
<1> USE DEF IInv
<1>1. TypeOK' /\ BackfillBusy'
  BY TypeStep
<1>2. \A f \in File : ingested[f].ver \in Nat /\ ingested[f].meta \in Nat
  BY DEF TypeOK
<1> DEFINE Kept == \A f \in File \ backfilled' : /\ ingested'[f].ver >= ingested[f].ver
                                                 /\ ingested'[f].meta >= ingested[f].meta
<1>3. ASSUME UNCHANGED ingested PROVE Kept
  BY <1>2, <1>3
<1> USE DEF diskVars, dbVars, backfillVars
<1>4. ASSUME NEW f \in File, FileNext(f) PROVE Rest' /\ Kept
  <2>1. UNCHANGED ingested
    BY <1>4 DEF FileNext, NewFile, AppendText, Truncate, WriteMeta, ChangeFile
  <2> QED BY <1>3, <1>4, <2>1, WriteStep
<1>5. ASSUME UNCHANGED <<disk, rewritten, workers, saved, ingested, backfill, backfilled>>
      PROVE Rest' /\ Kept
  BY <1>3, <1>5, QuietStep
<1>6. ASSUME NEW f \in File, NEW seen \in 0..disk[f].meta, Spawn(f, seen)
      PROVE  Rest' /\ Kept
  BY <1>3, <1>6, SpawnStep DEF Spawn
<1>7. ASSUME LoopNext PROVE Rest' /\ Kept
  <2>1. TakeFound \/ TakeNote \/ Postpone \/ Ignore \/ Succeeded \/ CoolDown
        => UNCHANGED <<disk, rewritten, workers, saved, ingested, backfill, backfilled>>
    BY DEF TakeFound, TakeNote, Postpone, Ignore, Succeeded, CoolDown
  <2> QED
    BY <1>5, <1>6, <1>7, <2>1 DEF LoopNext, ProcessNext, Failed, TimedOut
<1>8. ASSUME NEW w \in workers, WorkerStep(w) PROVE Rest' /\ Kept
  <2>1. CASE Parse(w)
    BY <1>3, <2>1, ParseStep DEF Parse
  <2>2. CASE Insert(w)
    BY <2>2, InsertStep DEF Insert
  <2>3. CASE Save(w) \/ SaveFails(w) \/ IngestFails(w)
    BY <1>3, <2>3, ReturnStep DEF Save, SaveFails, IngestFails, Return
  <2> QED BY <1>8, <2>1, <2>2, <2>3 DEF WorkerStep
<1>9. ASSUME Stop PROVE Rest' /\ Kept
  <2>1. workers' = {} /\ UNCHANGED <<disk, rewritten, saved, ingested, backfill, backfilled>>
    BY <1>9 DEF Stop
  <2> QED
    BY <1>3, <2>1
       DEF Rest, FileInv, OneWorker, BackfillInv, Behind, Clean, Covers, Present
<1>10. ASSUME BackfillNext PROVE Rest' /\ Kept
  BY <1>2, <1>10, BackfillStep
<1>11. ASSUME Discover \/ Start \/ (\E f \in File : CooldownEnds(f)) \/ UNCHANGED vars
       PROVE  Rest' /\ Kept
  BY <1>5, <1>11 DEF Discover, Start, CooldownEnds, loopVars, vars
<1> QED
  BY <1>1, <1>4, <1>7, <1>8, <1>9, <1>10, <1>11 DEF Next

LEMMA InvInit == Init => IInv
<1> SUFFICES ASSUME Init PROVE IInv
  OBVIOUS
<1>1. TypeOK /\ BackfillBusy
  BY TypeInit
<1>2. workers = {} /\ backfill.pc = "none"
  BY DEF Init, NoBackfill
<1>3. ASSUME NEW f \in File PROVE FileInv(f)
  <2>1. /\ saved[f].inode = 0 /\ saved[f].size = 0 /\ disk[f].inode = 0 /\ disk[f].size = 0
        /\ ingested[f].ver = 0 /\ disk[f].ver = 0
        /\ ingested[f].meta = 0 /\ disk[f].meta = 0
    BY DEF Init, NoRow
  <2> QED BY <2>1 DEF FileInv, Behind, Clean
<1> QED
  BY <1>1, <1>2, <1>3 DEF IInv, Rest, OneWorker, BackfillInv

-----------------------------------------------------------------------------
(* What is remembered of a file, in memory, in the database, by a worker and *)
(* by the call that awaits it, is in the rows as far as it covers the file.  *)

\* What r remembers of f was looked up before now.
Past(f, r) ==
  /\ Behind(f, r)
  /\ r.inode = 0 => r.size = 0
  /\ r.seen <= disk[f].meta

Knows(f, r) == Past(f, r) /\ (Clean(f) => Truthful(f, r))

\* A file that is there has been written, and is not empty unless it was truncated.
Filled(f) ==
  IF disk[f].inode = 0 THEN disk[f].size = 0
  ELSE disk[f].ver > 0 /\ (f \notin rewritten => disk[f].size > 0)

WorkerKnows(w) ==
  /\ Past(w.file, w)
  /\ w.pc # "parse" => w.seen <= w.meta
  /\ w.pc = "save" /\ Clean(w.file) => Truthful(w.file, w)

\* What the file's state will hold once the awaited call succeeds.
Awaited == [size |-> call.size, inode |-> states[call.file].inode, seen |-> call.seen]

CallKnows ==
  IF call = NoCall THEN outcome = "none" ELSE
    /\ up /\ call.file \in File
    /\ Past(call.file, Awaited)
    /\ outcome = "none" =>
         \E w \in workers : /\ w.file = call.file /\ w.size = Awaited.size
                            /\ w.inode = Awaited.inode /\ w.seen = Awaited.seen
    /\ outcome # "none" => \A w \in workers : w.file # call.file
    /\ outcome = "ok" /\ Clean(call.file) => Truthful(call.file, Awaited)

Memory ==
  /\ \A f \in File : Filled(f) /\ Knows(f, saved[f]) /\ Knows(f, states[f])
  /\ \A w \in workers : WorkerKnows(w)
  /\ CallKnows

MInv == IInv /\ Memory

\* A write of any file leaves what was known of a file known.
LEMMA KnownWrite ==
  ASSUME TypeOK, TypeOK', NEW g \in File, FileNext(g), NEW f \in File, NEW r,
         r.size \in Nat, r.inode \in Nat, r.seen \in Nat, Past(f, r)
  PROVE  /\ Past(f, r)'
         /\ (Clean(f) => Truthful(f, r)) => (Clean(f) => Truthful(f, r))'
<1>1. UNCHANGED <<ingested, backfilled>>
  BY DEF FileNext, NewFile, AppendText, Truncate, WriteMeta, ChangeFile, dbVars, backfillVars
<1>2. disk[f].meta \in Nat /\ disk'[f].meta \in Nat /\ disk[f].meta <= disk'[f].meta
  BY WriteFacts DEF TypeOK, Info
<1>3. Past(f, r)'
  BY <1>1, <1>2, WriteFacts DEF Past, Behind
<1>4. ASSUME Clean(f)', Covers(f, r)'
      PROVE  Clean(f) /\ Covers(f, r) /\ disk'[f].ver = disk[f].ver
  BY <1>1, <1>4, WriteFacts DEF Past, Behind, Clean, Covers, Present
<1>5. disk'[f].meta <= r.seen => disk'[f].meta = disk[f].meta /\ disk[f].meta <= r.seen
  BY <1>2 DEF Past
<1> QED
  BY <1>1, <1>3, <1>4, <1>5 DEF Truthful

\* So does the insert of a worker: it is alone on its file and has read no less than
\* the rows hold.
LEMMA KnownInsert ==
  ASSUME IInv, NEW w \in workers, Insert(w), NEW f \in File, NEW r, Past(f, r)
  PROVE  /\ Past(f, r)'
         /\ (Clean(f) => Truthful(f, r)) => (Clean(f) => Truthful(f, r))'
<1>1. /\ UNCHANGED <<disk, rewritten, backfilled>> /\ w.pc = "insert"
      /\ w \in Worker /\ w.file \in File
      /\ ingested' = Rows(w.file, w)
  BY DEF Insert, diskVars, backfillVars, IInv, TypeOK, Worker
<1>2. Past(f, r)'
  BY <1>1 DEF Past, Behind
<1>3. CASE ingested'[f] = ingested[f]
  BY <1>1, <1>2, <1>3 DEF Truthful, Covers, Clean, Present
<1>4. CASE /\ f = w.file /\ w.ver # 0
           /\ ingested'[f].ver = w.ver /\ ingested'[f].meta = w.meta
  <2>1. WorkerInv(w)
    BY DEF IInv, Rest
  <2>2. /\ disk[f].ver \in Nat /\ disk[f].meta \in Nat /\ w.ver \in Nat /\ w.meta \in Nat
        /\ ingested[f].ver \in Nat /\ ingested[f].meta \in Nat
    BY <1>1 DEF Worker, IInv, TypeOK, Info
  <2>3. ASSUME Clean(f), Truthful(f, r), Covers(f, r)
        PROVE  /\ ingested'[f].ver = disk[f].ver
               /\ disk[f].meta <= r.seen => ingested'[f].meta = disk[f].meta
    BY <1>1, <1>4, <2>1, <2>2, <2>3 DEF WorkerInv, Truthful, Clean
  <2> QED
    BY <1>1, <1>2, <2>3 DEF Truthful, Covers, Clean, Present
<1>5. \/ ingested'[f] = ingested[f]
      \/ /\ f = w.file /\ w.ver # 0
         /\ ingested'[f].ver = w.ver /\ ingested'[f].meta = w.meta
  BY <1>1 DEF Rows, IInv, TypeOK
<1> QED
  BY <1>3, <1>4, <1>5

\* What process_file makes of a file's state is known, and a file that it would ignore is
\* covered by that state.
LEMMA CheckedKnown ==
  ASSUME TypeOK, NEW f \in File, Filled(f), Knows(f, states[f])
  PROVE  /\ Knows(f, Checked(f))
         /\ Checked(f).inode = disk[f].inode /\ Checked(f).seen = states[f].seen
         /\ Clean(f) /\ disk[f].size <= Checked(f).size => Covers(f, states[f])
<1> DEFINE s == states[f]
<1>1. s \in FileState /\ disk[f] \in Info
  BY DEF TypeOK
<1>2. /\ s.size \in Nat /\ s.inode \in Nat /\ s.seen \in Nat
      /\ disk[f].size \in Nat /\ disk[f].inode \in Nat /\ disk[f].meta \in Nat
  BY <1>1 DEF FileState, Info
<1>3. /\ Checked(f).inode = disk[f].inode /\ Checked(f).seen = s.seen
      /\ Checked(f).size =
           IF (s.inode # 0 /\ s.inode # disk[f].inode) \/ disk[f].size < s.size THEN 0 ELSE s.size
  BY <1>1 DEF Checked, FileState
<1>4. Clean(f) /\ disk[f].size <= Checked(f).size => Covers(f, s)
  BY <1>2, <1>3 DEF Clean, Covers, Knows, Past
<1>5. Past(f, Checked(f))
  BY <1>2, <1>3 DEF Knows, Past, Behind, Filled
<1>6. Clean(f) => Truthful(f, Checked(f))
  <2>1. SUFFICES ASSUME Clean(f), Covers(f, Checked(f)) PROVE Truthful(f, Checked(f))
    BY DEF Truthful
  <2>2. Covers(f, s)
    BY <1>4, <2>1 DEF Covers
  <2> QED
    BY <1>3, <2>1, <2>2 DEF Knows, Truthful
<1> QED
  BY <1>3, <1>4, <1>5, <1>6 DEF Knows

\* A transcript that process_file would ignore is in the rows with its meta.json.
LEMMA MemoryNothingMissed ==
  ASSUME MInv PROVE NothingMissed
<1> SUFFICES ASSUME NEW f \in Present \ (rewritten \cup backfilled), UpToDate(f)
             PROVE  ingested[f] = [ver |-> disk[f].ver, meta |-> disk[f].meta]
  BY DEF NothingMissed
<1>1. f \in File /\ TypeOK /\ Filled(f) /\ Knows(f, states[f])
  BY DEF MInv, IInv, Memory, Present
<1>2. Clean(f)
  BY <1>1 DEF Clean, Filled, Present
<1>3. Covers(f, states[f])
  BY <1>1, <1>2, CheckedKnown DEF UpToDate
<1>4. disk[f].meta <= states[f].seen
  BY <1>1 DEF UpToDate, MetaNewer, TypeOK, Info, FileState
<1>5. ingested[f].ver = disk[f].ver /\ ingested[f].meta = disk[f].meta
  BY <1>1, <1>2, <1>3, <1>4 DEF Knows, Truthful
<1>6. ingested[f] \in [ver : Nat, meta : Nat]
  BY <1>1 DEF TypeOK
<1> QED BY <1>5, <1>6

\* Steps in which neither the files and the rows nor what is remembered of them change.
LEMMA MemoryQuiet ==
  ASSUME MInv, TypeOK',
         UNCHANGED <<disk, rewritten, ingested, backfilled, saved, workers>>,
         \A f \in File : /\ states'[f].size = states[f].size
                         /\ states'[f].inode = states[f].inode
                         /\ states'[f].seen = states[f].seen,
         (call' = NoCall /\ outcome' = "none") \/ UNCHANGED <<up, call, outcome>>
  PROVE  Memory'
<1>1. ASSUME NEW f \in File PROVE (Filled(f) /\ Knows(f, saved[f]) /\ Knows(f, states[f]))'
  BY DEF MInv, Memory, Filled, Knows, Past, Behind, Truthful, Covers, Clean, Present
<1>2. ASSUME NEW w \in workers PROVE WorkerKnows(w)'
  BY DEF MInv, Memory, WorkerKnows, Past, Behind, Truthful, Covers, Clean, Present
<1>3. CallKnows'
  <2>1. CASE call' = NoCall /\ outcome' = "none"
    BY <2>1 DEF CallKnows
  <2>2. CASE UNCHANGED <<up, call, outcome>> /\ call # NoCall
    <3>1. call.file \in File /\ CallKnows
      BY <2>2 DEF MInv, Memory, CallKnows
    <3>2. Awaited' = Awaited
      BY <2>2, <3>1 DEF Awaited
    <3> QED
      BY <2>2, <3>1, <3>2 DEF CallKnows, Past, Behind, Truthful, Covers, Clean, Present
  <2>3. CASE UNCHANGED <<up, call, outcome>> /\ call = NoCall
    BY <2>3 DEF MInv, Memory, CallKnows
  <2> QED BY <2>1, <2>2, <2>3
<1> QED
  BY <1>1, <1>2, <1>3 DEF Memory

\* A write leaves a file that is there with some text, unless it truncates it.
LEMMA FilledWrite ==
  ASSUME TypeOK, NEW g \in File, FileNext(g), NEW f \in File, Filled(f)
  PROVE  Filled(f)'
<1>1. disk[f] \in Info /\ disk[g] \in Info
  BY DEF TypeOK
<1>2. /\ disk[f].inode \in Nat /\ disk[f].size \in Nat /\ disk[f].ver \in Nat
  BY <1>1 DEF Info
<1>3. CASE f # g
  <2>1. disk'[f] = disk[f] /\ (f \in rewritten' <=> f \in rewritten)
    BY <1>3 DEF TypeOK, FileNext, NewFile, AppendText, Truncate, WriteMeta, ChangeFile
  <2> QED BY <2>1 DEF Filled
<1>4. CASE f = g
  <2>1. ASSUME NEW n \in NewSize, NewFile(f, n) PROVE Filled(f)'
    <3>1. /\ disk'[f].inode = disk[f].inode + 1 /\ disk'[f].ver = disk[f].ver + 1
          /\ disk'[f].size = n
      BY <1>1, <2>1 DEF TypeOK, NewFile, ChangeFile, Info
    <3> QED BY <1>2, <3>1, WatcherAssumption DEF Filled
  <2>2. ASSUME AppendText(f) PROVE Filled(f)'
    <3>1. /\ disk'[f].inode = disk[f].inode /\ disk'[f].ver = disk[f].ver + 1
          /\ disk'[f].size = disk[f].size + 1 /\ disk[f].inode # 0
      BY <1>1, <2>2 DEF TypeOK, AppendText, ChangeFile, Info, Present
    <3> QED BY <1>2, <3>1 DEF Filled
  <2>3. ASSUME Truncate(f) PROVE Filled(f)'
    <3>1. /\ disk'[f].inode = disk[f].inode /\ disk'[f].ver = disk[f].ver + 1
          /\ disk[f].inode # 0 /\ f \in rewritten'
      BY <1>1, <2>3 DEF TypeOK, Truncate, ChangeFile, Info, Present
    <3> QED BY <1>2, <3>1 DEF Filled
  <2>4. ASSUME WriteMeta(f) PROVE Filled(f)'
    <3>1. /\ disk'[f].inode = disk[f].inode /\ disk'[f].ver = disk[f].ver
          /\ disk'[f].size = disk[f].size /\ rewritten' = rewritten
      BY <1>1, <2>4 DEF TypeOK, WriteMeta, ChangeFile, Info
    <3> QED BY <3>1 DEF Filled
  <2> QED
    BY <1>4, <2>1, <2>2, <2>3, <2>4 DEF FileNext
<1> QED
  BY <1>3, <1>4

\* The types of what is remembered.
LEMMA LookTypes ==
  ASSUME TypeOK
  PROVE  /\ \A f \in File : /\ saved[f].size \in Nat /\ saved[f].inode \in Nat
                            /\ saved[f].seen \in Nat
                            /\ states[f].size \in Nat /\ states[f].inode \in Nat
                            /\ states[f].seen \in Nat
         /\ \A w \in workers : w.file \in File /\ w.size \in Nat /\ w.inode \in Nat
                               /\ w.seen \in Nat /\ w.ver \in Nat /\ w.meta \in Nat
         /\ call.file \in File =>
              Awaited.size \in Nat /\ Awaited.inode \in Nat /\ Awaited.seen \in Nat
<1>1. \A f \in File : saved[f] \in Row /\ states[f] \in FileState
  BY DEF TypeOK
<1>2. call.size \in Nat /\ call.seen \in Nat
  BY DEF TypeOK
<1>3. \A w \in workers : w \in Worker
  BY DEF TypeOK
<1> QED
  BY <1>1, <1>2, <1>3 DEF Row, FileState, Worker, Awaited

LEMMA MemoryWrite ==
  ASSUME MInv, TypeOK', NEW g \in File, FileNext(g)
  PROVE  Memory'
<1>1. UNCHANGED <<up, workers, saved, states, call, outcome, ingested, backfilled>>
  BY DEF FileNext, NewFile, AppendText, Truncate, WriteMeta, ChangeFile, dbVars, backfillVars,
         loopVars
<1>2. TypeOK
  BY DEF MInv, IInv
<1>3. ASSUME NEW f \in File PROVE (Filled(f) /\ Knows(f, saved[f]) /\ Knows(f, states[f]))'
  <2>1. PICK r, q : r = saved[f] /\ q = states[f]
    OBVIOUS
  <2>2. Filled(f) /\ Knows(f, r) /\ Knows(f, q)
    BY <2>1 DEF MInv, Memory
  <2>3. Knows(f, r)' /\ Knows(f, q)'
    BY <1>2, <2>1, <2>2, LookTypes, KnownWrite DEF Knows
  <2>4. Filled(f)'
    BY <1>2, <2>2, FilledWrite
  <2>5. saved'[f] = r /\ states'[f] = q
    BY <1>1, <2>1
  <2> QED BY <2>3, <2>4, <2>5
<1>4. ASSUME NEW w \in workers PROVE WorkerKnows(w)'
  <2>1. WorkerKnows(w)
    BY DEF MInv, Memory
  <2>2. Past(w.file, w)' /\ ((Clean(w.file) => Truthful(w.file, w)) =>
                             (Clean(w.file) => Truthful(w.file, w))')
    BY <1>2, <2>1, LookTypes, KnownWrite DEF WorkerKnows
  <2> QED BY <2>1, <2>2 DEF WorkerKnows
<1>5. CallKnows'
  <2>1. CASE call = NoCall
    BY <1>1, <2>1 DEF MInv, Memory, CallKnows
  <2>2. CASE call # NoCall
    <3>1. PICK f, r : f = call.file /\ r = Awaited
      OBVIOUS
    <3>2. f \in File /\ CallKnows /\ Past(f, r)
      BY <2>2, <3>1 DEF MInv, Memory, CallKnows
    <3>3. Past(f, r)' /\ ((Clean(f) => Truthful(f, r)) => (Clean(f) => Truthful(f, r))')
      BY <1>2, <3>1, <3>2, LookTypes, KnownWrite
    <3>4. call'.file = f /\ Awaited' = r
      BY <1>1, <3>1 DEF Awaited
    <3> QED BY <1>1, <2>2, <3>1, <3>2, <3>3, <3>4 DEF CallKnows
  <2> QED BY <2>1, <2>2
<1> QED
  BY <1>1, <1>3, <1>4, <1>5 DEF Memory

\* process_file looks at a file and ignores it, or starts a worker with what it has seen.
LEMMA MemoryIgnore ==
  ASSUME MInv, TypeOK', Ignore
  PROVE  Memory'
<1>1. PICK g \in File : Due(g) /\ states' = [states EXCEPT ![g] = Checked(g)]
  BY DEF Ignore
<1>2. /\ UNCHANGED <<disk, rewritten, ingested, backfilled, saved, workers, call, outcome>>
      /\ call = NoCall
  BY <1>1 DEF Ignore, diskVars, dbVars, backfillVars, Due, Idle
<1>3. ASSUME NEW f \in File PROVE (Filled(f) /\ Knows(f, saved[f]) /\ Knows(f, states[f]))'
  <2>1. Filled(f) /\ Knows(f, saved[f]) /\ Knows(f, states[f]) /\ TypeOK
    BY DEF MInv, Memory, IInv
  <2>2. Knows(f, states'[f])
    <3>1. states'[f] = IF f = g THEN Checked(f) ELSE states[f]
      BY <1>1, <2>1 DEF TypeOK
    <3> QED BY <2>1, <3>1, CheckedKnown
  <2> QED
    BY <1>2, <2>1, <2>2 DEF Filled, Knows, Past, Behind, Truthful, Covers, Clean, Present
<1>4. ASSUME NEW w \in workers PROVE WorkerKnows(w)'
  BY <1>2 DEF MInv, Memory, WorkerKnows, Past, Behind, Truthful, Covers, Clean, Present
<1> QED
  BY <1>2, <1>3, <1>4 DEF MInv, Memory, CallKnows

LEMMA MemorySpawn ==
  ASSUME MInv, TypeOK', NEW g \in File, NEW seen \in 0..disk[g].meta, Spawn(g, seen)
  PROVE  Memory'
<1> DEFINE n == [file |-> g, size |-> disk[g].size, inode |-> disk[g].inode, seen |-> seen,
                 ver |-> 0, meta |-> 0, pc |-> "parse"]
           c == [Checked(g) EXCEPT !.metaChanged = @ \/ disk[g].size <= Checked(g).size]
<1>1. /\ UNCHANGED <<disk, rewritten, ingested, backfilled, saved, outcome, up>>
      /\ states' = [states EXCEPT ![g] = c]
      /\ call' = [file |-> g, size |-> disk[g].size, seen |-> seen]
      /\ workers' = workers \cup {n}
  BY DEF Spawn, diskVars, dbVars, backfillVars
<1>2. TypeOK /\ Filled(g) /\ Knows(g, states[g]) /\ disk[g] \in Info
  BY DEF MInv, IInv, Memory, TypeOK
<1>3. /\ states'[g].size = Checked(g).size /\ states'[g].inode = disk[g].inode
      /\ states'[g].seen = Checked(g).seen
      /\ \A f \in File \ {g} : states'[f] = states[f]
  <2>1. Checked(g) \in FileState
    BY <1>2, StateTypes
  <2>2. c.size = Checked(g).size /\ c.inode = Checked(g).inode /\ c.seen = Checked(g).seen
    BY <2>1 DEF FileState
  <2>3. states'[g] = c /\ \A f \in File \ {g} : states'[f] = states[f]
    BY <1>1, <1>2 DEF TypeOK
  <2> QED BY <1>2, <2>2, <2>3, CheckedKnown
<1>4. Knows(g, Checked(g))
  BY <1>2, CheckedKnown
<1>5. ASSUME NEW f \in File PROVE (Filled(f) /\ Knows(f, saved[f]) /\ Knows(f, states[f]))'
  <2>1. Filled(f) /\ Knows(f, saved[f]) /\ Knows(f, states[f])
    BY DEF MInv, Memory
  <2>2. Knows(f, states'[f])
    BY <1>2, <1>3, <1>4, <2>1, CheckedKnown DEF Knows, Past, Behind, Truthful, Covers
  <2> QED
    BY <1>1, <2>1, <2>2 DEF Filled, Knows, Past, Behind, Truthful, Covers, Clean, Present
<1>6. ASSUME NEW w \in workers PROVE WorkerKnows(w)'
  BY <1>1 DEF MInv, Memory, WorkerKnows, Past, Behind, Truthful, Covers, Clean, Present
<1>7. /\ disk[g].size \in Nat /\ disk[g].inode \in Nat /\ disk[g].meta \in Nat
      /\ seen \in Nat /\ seen <= disk[g].meta
  BY <1>2 DEF Info
<1>8. WorkerKnows(n)'
  BY <1>1, <1>2, <1>7 DEF WorkerKnows, Past, Behind, Filled
<1>9. outcome = "none" /\ up /\ g # NoFile
  BY WatcherAssumption DEF Spawn, Due, Idle, MInv, Memory, CallKnows
<1>10. CallKnows'
  <2>1. Awaited' = [size |-> disk[g].size, inode |-> disk[g].inode, seen |-> seen]
    BY <1>1, <1>3 DEF Awaited
  <2>2. Past(g, Awaited)'
    BY <1>1, <1>2, <1>7, <2>1 DEF Past, Behind, Filled
  <2>3. call' # NoCall
    BY <1>1, <1>9 DEF NoCall
  <2>4. n \in workers' /\ call'.file = g /\ outcome' = "none" /\ up'
    BY <1>1, <1>9
  <2> QED BY <2>1, <2>2, <2>3, <2>4 DEF CallKnows
<1> QED
  BY <1>1, <1>5, <1>6, <1>8, <1>10 DEF Memory

\* The workers. A step of one leaves what the others hold; the awaited one stays until it
\* returns.
LEMMA MemoryParse ==
  ASSUME MInv, NEW w \in workers, Parse(w)
  PROVE  Memory'
<1>1. PICK n : n = [w EXCEPT !.ver = TextOf(w.file), !.meta = disk[w.file].meta, !.pc = "insert"]
  OBVIOUS
<1>2. /\ workers' = (workers \ {w}) \cup {n}
      /\ UNCHANGED <<disk, rewritten, ingested, backfilled, saved, states, call, outcome, up>>
  BY <1>1 DEF Parse, diskVars, dbVars, backfillVars, loopVars
<1>3. /\ n.file = w.file /\ n.size = w.size /\ n.inode = w.inode /\ n.seen = w.seen
      /\ n.meta = disk[w.file].meta /\ n.pc = "insert"
  BY <1>1 DEF MInv, IInv, TypeOK, Worker
<1>4. ASSUME NEW f \in File PROVE (Filled(f) /\ Knows(f, saved[f]) /\ Knows(f, states[f]))'
  BY <1>2 DEF MInv, Memory, Filled, Knows, Past, Behind, Truthful, Covers, Clean, Present
<1>5. ASSUME NEW v \in workers \ {w} PROVE WorkerKnows(v)'
  BY <1>2 DEF MInv, Memory, WorkerKnows, Past, Behind, Truthful, Covers, Clean, Present
<1>6. WorkerKnows(n)'
  BY <1>2, <1>3 DEF MInv, Memory, WorkerKnows, Past, Behind
<1>7. CallKnows'
  <2>1. Awaited' = Awaited
    BY <1>2 DEF Awaited
  <2> QED
    BY <1>2, <1>3, <2>1
       DEF MInv, Memory, CallKnows, Past, Behind, Truthful, Covers, Clean, Present
<1> QED
  BY <1>2, <1>4, <1>5, <1>6, <1>7 DEF Memory

LEMMA MemoryInsert ==
  ASSUME MInv, TypeOK', NEW w \in workers, Insert(w)
  PROVE  Memory'
<1>1. PICK n : n = [w EXCEPT !.pc = "save"]
  OBVIOUS
<1>2. /\ workers' = (workers \ {w}) \cup {n} /\ w.pc = "insert"
      /\ UNCHANGED <<disk, rewritten, backfilled, saved, states, call, outcome, up>>
      /\ ingested' = Rows(w.file, w)
  BY <1>1 DEF Insert, diskVars, backfillVars, loopVars
<1>3. IInv /\ TypeOK /\ w \in Worker
  BY DEF MInv, IInv, TypeOK
<1>4. /\ n.file = w.file /\ n.size = w.size /\ n.inode = w.inode /\ n.seen = w.seen
      /\ n.meta = w.meta /\ n.pc = "save" /\ w.file \in File
  BY <1>1, <1>3 DEF Worker
<1>5. ASSUME NEW f \in File PROVE (Filled(f) /\ Knows(f, saved[f]) /\ Knows(f, states[f]))'
  <2>1. PICK r, q : r = saved[f] /\ q = states[f]
    OBVIOUS
  <2>2. Filled(f) /\ Knows(f, r) /\ Knows(f, q)
    BY <2>1 DEF MInv, Memory
  <2>3. Knows(f, r)' /\ Knows(f, q)'
    BY <1>3, <2>2, KnownInsert DEF Knows
  <2>4. saved'[f] = r /\ states'[f] = q /\ Filled(f)'
    BY <1>2, <2>1, <2>2 DEF Filled
  <2> QED BY <2>3, <2>4
<1>6. ASSUME NEW v \in workers \ {w} PROVE WorkerKnows(v)'
  <2>1. WorkerKnows(v) /\ v.file \in File
    BY <1>3, LookTypes DEF MInv, Memory
  <2>2. Past(v.file, v)' /\ ((Clean(v.file) => Truthful(v.file, v)) =>
                             (Clean(v.file) => Truthful(v.file, v))')
    BY <1>3, <2>1, KnownInsert DEF WorkerKnows
  <2> QED BY <2>1, <2>2 DEF WorkerKnows
<1>7. WorkerKnows(n)'
  <2> DEFINE f == w.file
  <2>1. WorkerKnows(w) /\ WorkerInv(w) /\ Filled(f)
    BY <1>4 DEF MInv, IInv, Rest, Memory
  <2>2. /\ w.ver \in Nat /\ w.meta \in Nat /\ w.seen \in Nat /\ disk[f].meta \in Nat
        /\ disk[f].ver \in Nat
    BY <1>3, <1>4, LookTypes DEF TypeOK, Info
  <2>3. ASSUME Clean(f), Covers(f, w)
        PROVE  /\ ingested'[f].ver = disk[f].ver
               /\ disk[f].meta <= w.seen => ingested'[f].meta = disk[f].meta
    <3>1. w.ver = disk[f].ver /\ w.ver # 0
      BY <1>2, <2>1, <2>2, <2>3 DEF WorkerInv, Filled, Clean, Present
    <3>2. ingested'[f].ver = w.ver /\ ingested'[f].meta = w.meta
      BY <1>2, <1>3, <1>4, <3>1 DEF Rows, TypeOK
    <3>3. disk[f].meta <= w.seen => w.meta = disk[f].meta
      BY <1>2, <2>1, <2>2 DEF WorkerInv, WorkerKnows
    <3> QED BY <3>1, <3>2, <3>3
  <2>4. Clean(f)' /\ Covers(f, n)' => Clean(f) /\ Covers(f, w)
    BY <1>2, <1>4 DEF Clean, Covers, Present
  <2>5. Clean(f)' => Truthful(f, n)'
    BY <1>2, <1>4, <2>3, <2>4 DEF Truthful
  <2>6. Past(f, n)'
    BY <1>2, <1>4, <2>1 DEF WorkerKnows, Past, Behind
  <2> QED
    BY <1>2, <1>4, <2>1, <2>5, <2>6 DEF WorkerKnows
<1>8. CallKnows'
  <2>1. CASE call = NoCall
    BY <1>2, <2>1 DEF MInv, Memory, CallKnows
  <2>2. CASE call # NoCall
    <3>1. PICK f, r : f = call.file /\ r = Awaited
      OBVIOUS
    <3>2. f \in File /\ CallKnows /\ Past(f, r)
      BY <2>2, <3>1 DEF MInv, Memory, CallKnows
    <3>3. Past(f, r)' /\ ((Clean(f) => Truthful(f, r)) => (Clean(f) => Truthful(f, r))')
      BY <1>3, <3>2, KnownInsert
    <3>4. call'.file = f /\ Awaited' = r /\ (Clean(f)' => Clean(f))
      BY <1>2, <3>1 DEF Awaited, Clean, Present
    <3>5. outcome = "none" =>
            \E v \in workers' : /\ v.file = f /\ v.size = r.size
                                /\ v.inode = r.inode /\ v.seen = r.seen
      BY <1>2, <1>4, <2>2, <3>1, <3>2 DEF CallKnows
    <3>6. outcome # "none" => \A v \in workers' : v.file # f
      BY <1>2, <1>4, <2>2, <3>1, <3>2 DEF CallKnows
    <3>7. /\ outcome' = outcome /\ call' # NoCall /\ up'
          /\ outcome = "ok" /\ Clean(f) => Truthful(f, r)
      BY <1>2, <2>2, <3>1, <3>2 DEF CallKnows
    <3>8. /\ f \in File /\ Past(f, r)'
          /\ outcome' = "ok" /\ Clean(f)' => Truthful(f, r)'
      BY <3>2, <3>3, <3>4, <3>7
    <3> QED BY <3>4, <3>5, <3>6, <3>7, <3>8 DEF CallKnows
  <2> QED BY <2>1, <2>2
<1> QED
  BY <1>2, <1>5, <1>6, <1>7, <1>8 DEF Memory

LEMMA MemoryReturn ==
  ASSUME MInv, NEW w \in workers, Save(w) \/ SaveFails(w) \/ IngestFails(w)
  PROVE  Memory'
<1>1. /\ workers' = workers \ {w}
      /\ UNCHANGED <<disk, rewritten, ingested, backfilled, states, call, up>>
  BY DEF Save, SaveFails, IngestFails, Return, diskVars, backfillVars
<1>2. TypeOK /\ w \in Worker /\ w.file \in File /\ WorkerKnows(w)
  BY DEF MInv, IInv, Memory, TypeOK, Worker
<1>3. ASSUME NEW f \in File PROVE (Filled(f) /\ Knows(f, saved[f]) /\ Knows(f, states[f]))'
  <2>1. Filled(f) /\ Knows(f, saved[f]) /\ Knows(f, states[f])
    BY DEF MInv, Memory
  <2>2. CASE saved'[f] = saved[f]
    BY <1>1, <2>1, <2>2 DEF Filled, Knows, Past, Behind, Truthful, Covers, Clean, Present
  <2>3. CASE /\ f = w.file /\ w.pc = "save"
             /\ saved'[f] = [size |-> w.size, inode |-> w.inode, seen |-> w.seen]
    BY <1>1, <1>2, <2>1, <2>3
       DEF WorkerKnows, Filled, Knows, Past, Behind, Truthful, Covers, Clean, Present
  <2> QED
    BY <1>2, <2>2, <2>3 DEF Save, SaveFails, IngestFails, TypeOK
<1>4. ASSUME NEW v \in workers' PROVE WorkerKnows(v)'
  BY <1>1, <1>4 DEF MInv, Memory, WorkerKnows, Past, Behind, Truthful, Covers, Clean, Present
<1>5. CallKnows'
  <2>1. CASE call = NoCall
    <3>1. call.file # w.file
      BY <1>2, <2>1, WatcherAssumption DEF NoCall
    <3>2. outcome' = outcome
      BY <3>1 DEF Save, SaveFails, IngestFails, Return
    <3> QED BY <1>1, <2>1, <3>2 DEF MInv, Memory, CallKnows
  <2>2. CASE call # NoCall
    <3>1. CallKnows /\ call.file \in File /\ Awaited' = Awaited /\ call' = call
      BY <1>1, <2>2 DEF MInv, Memory, CallKnows, Awaited
    <3>2. CASE call.file # w.file
      <4>1. outcome' = outcome
        BY <3>2 DEF Save, SaveFails, IngestFails, Return
      <4> QED
        BY <1>1, <2>2, <3>1, <3>2, <4>1
           DEF CallKnows, Past, Behind, Truthful, Covers, Clean, Present
    <3>3. CASE call.file = w.file
      <4>1. outcome' = "failed" \/ (outcome' = "ok" /\ w.pc = "save")
        BY <3>3 DEF Save, SaveFails, IngestFails, Return
      <4>2. Past(call.file, Awaited)'
        BY <1>1, <2>2, <3>1 DEF CallKnows, Past, Behind
      <4>3. ASSUME outcome = "none"
            PROVE  w.size = Awaited.size /\ w.inode = Awaited.inode /\ w.seen = Awaited.seen
        BY <2>2, <3>1, <3>3, <4>3 DEF CallKnows, MInv, IInv, Rest, OneWorker
      <4>4. outcome = "none"
        BY <2>2, <3>1, <3>3 DEF CallKnows
      <4>5. \A v \in workers' : v.file # call.file
        BY <1>1, <3>3 DEF MInv, IInv, Rest, OneWorker
      <4> QED
        BY <1>1, <1>2, <2>2, <3>1, <3>3, <4>1, <4>2, <4>3, <4>4, <4>5
           DEF CallKnows, WorkerKnows, Truthful, Covers, Clean, Present
    <3> QED BY <3>2, <3>3
  <2> QED BY <2>1, <2>2
<1> QED
  BY <1>1, <1>3, <1>4, <1>5 DEF Memory

\* The call that succeeds remembers what its worker was started with.
LEMMA MemorySucceeded ==
  ASSUME MInv, Succeeded
  PROVE  Memory'
<1> DEFINE g == call.file
<1>1. /\ UNCHANGED <<disk, rewritten, ingested, backfilled, saved, workers>>
      /\ call # NoCall /\ outcome = "ok" /\ call' = NoCall /\ outcome' = "none"
      /\ states' = [states EXCEPT ![g] = [@ EXCEPT !.size = call.size, !.seen = call.seen,
                                                   !.metaChanged = FALSE]]
  BY DEF Succeeded, diskVars, dbVars, backfillVars
<1>2. /\ TypeOK /\ g \in File
      /\ Past(g, Awaited) /\ (Clean(g) => Truthful(g, Awaited))
  BY <1>1 DEF MInv, IInv, Memory, CallKnows
<1>3. /\ states'[g].size = Awaited.size /\ states'[g].inode = Awaited.inode
      /\ states'[g].seen = Awaited.seen
      /\ \A f \in File \ {g} : states'[f] = states[f]
  BY <1>1, <1>2 DEF TypeOK, FileState, Awaited
<1>4. ASSUME NEW f \in File PROVE (Filled(f) /\ Knows(f, saved[f]) /\ Knows(f, states[f]))'
  <2>1. Filled(f) /\ Knows(f, saved[f]) /\ Knows(f, states[f])
    BY DEF MInv, Memory
  <2>2. Knows(f, states'[f])
    BY <1>2, <1>3, <2>1 DEF Knows, Past, Behind, Truthful, Covers
  <2> QED
    BY <1>1, <2>1, <2>2 DEF Filled, Knows, Past, Behind, Truthful, Covers, Clean, Present
<1>5. ASSUME NEW w \in workers PROVE WorkerKnows(w)'
  BY <1>1 DEF MInv, Memory, WorkerKnows, Past, Behind, Truthful, Covers, Clean, Present
<1> QED
  BY <1>1, <1>4, <1>5 DEF Memory, CallKnows

\* A record of nothing covers no file that is there.
LEMMA NothingKnown ==
  ASSUME TypeOK, NEW f \in File, NEW r, r.size = 0, r.inode = 0, r.seen = 0
  PROVE  Knows(f, r)
<1>1. disk[f].inode \in Nat /\ disk[f].size \in Nat /\ disk[f].meta \in Nat
  BY DEF TypeOK, Info
<1> QED
  BY <1>1 DEF Knows, Past, Behind, Truthful, Covers, Clean, Present

\* A stopped watcher remembers nothing, a started one what the database holds, if it can
\* read it.
LEMMA MemoryRestart ==
  ASSUME MInv, Stop \/ Start
  PROVE  Memory'
<1>1. /\ UNCHANGED <<disk, rewritten, ingested, backfilled, saved>>
      /\ workers' \subseteq workers
      /\ (call' = NoCall /\ outcome' = "none") \/ UNCHANGED <<call, outcome, workers>>
  BY DEF Stop, Start, diskVars, dbVars, backfillVars, loopVars
<1>2. ASSUME NEW f \in File PROVE (Filled(f) /\ Knows(f, saved[f]) /\ Knows(f, states[f]))'
  <2>1. Filled(f) /\ Knows(f, saved[f]) /\ TypeOK
    BY DEF MInv, IInv, Memory
  <2>2. \/ states'[f] = Loaded(saved[f]) \/ states'[f] = Loaded(NoRow)
    BY DEF Stop, Start
  <2>3. Knows(f, states'[f])
    BY <2>1, <2>2, NothingKnown
       DEF Loaded, NoRow, Knows, Past, Behind, Truthful, Covers
  <2> QED
    BY <1>1, <2>1, <2>3 DEF Filled, Knows, Past, Behind, Truthful, Covers, Clean, Present
<1>3. ASSUME NEW w \in workers' PROVE WorkerKnows(w)'
  BY <1>1, <1>3 DEF MInv, Memory, WorkerKnows, Past, Behind, Truthful, Covers, Clean, Present
<1>4. CallKnows'
  <2>1. CASE Stop
    BY <2>1 DEF Stop, CallKnows
  <2>2. CASE Start /\ call = NoCall
    BY <2>2 DEF Start, loopVars, MInv, Memory, CallKnows
  <2>3. CASE Start /\ call # NoCall
    <3>1. up
      BY <2>3 DEF MInv, Memory, CallKnows
    <3> QED BY <2>3, <3>1 DEF Start
  <2> QED BY <2>1, <2>2, <2>3
<1> QED
  BY <1>2, <1>3, <1>4 DEF Memory

\* The backfill command: what it resets it has marked, and it changes no other rows.
LEMMA MemoryBackfill ==
  ASSUME MInv, BackfillNext
  PROVE  Memory'
<1>1. /\ UNCHANGED <<disk, rewritten, workers, states, call, outcome, up>>
      /\ backfilled \subseteq backfilled'
      /\ \A f \in File \ backfilled' : ingested'[f] = ingested[f]
  <2>1. UNCHANGED <<disk, rewritten, workers, states, call, outcome, up>>
        /\ backfilled \subseteq backfilled'
    BY DEF BackfillNext, BackfillResets, BackfillParses, BackfillInserts, BackfillFails,
           diskVars, loopVars
  <2> QED
    BY <2>1, BackfillStep DEF MInv, IInv
<1>2. \A f \in File : Clean(f)' => Clean(f) /\ ingested'[f] = ingested[f]
  BY <1>1 DEF Clean, Present
<1>3. ASSUME NEW f \in File
      PROVE  \/ saved'[f] = saved[f]
             \/ /\ f \in backfilled' /\ saved'[f].size = 0
                /\ saved'[f].inode = saved[f].inode /\ saved'[f].seen = saved[f].seen
  <2>1. saved[f] \in Row /\ saved \in [File -> Row]
    BY DEF MInv, IInv, TypeOK
  <2>2. CASE saved' = saved
    BY <2>2
  <2>3. ASSUME NEW g \in File, saved' = [saved EXCEPT ![g].size = 0], g \in backfilled'
        PROVE  \/ saved'[f] = saved[f]
               \/ /\ f \in backfilled' /\ saved'[f].size = 0
                  /\ saved'[f].inode = saved[f].inode /\ saved'[f].seen = saved[f].seen
    BY <2>1, <2>3 DEF Row
  <2> QED
    BY <2>2, <2>3
       DEF BackfillNext, BackfillResets, BackfillParses, BackfillInserts, BackfillFails, dbVars
<1>4. ASSUME NEW f \in File PROVE (Filled(f) /\ Knows(f, saved[f]) /\ Knows(f, states[f]))'
  <2>1. Filled(f) /\ Knows(f, saved[f]) /\ Knows(f, states[f]) /\ disk[f].size \in Nat
    BY DEF MInv, IInv, Memory, TypeOK, Info
  <2>2. (Filled(f) /\ Knows(f, states[f]))'
    BY <1>1, <1>2, <2>1 DEF Filled, Knows, Past, Behind, Truthful, Covers
  <2>3. CASE saved'[f] = saved[f]
    BY <1>1, <1>2, <2>1, <2>2, <2>3 DEF Knows, Past, Behind, Truthful, Covers
  <2>4. CASE /\ f \in backfilled' /\ saved'[f].size = 0
             /\ saved'[f].inode = saved[f].inode /\ saved'[f].seen = saved[f].seen
    BY <1>1, <2>1, <2>2, <2>4 DEF Knows, Past, Behind, Clean
  <2> QED BY <1>3, <2>2, <2>3, <2>4
<1>5. ASSUME NEW w \in workers PROVE WorkerKnows(w)'
  <2>1. WorkerKnows(w) /\ w.file \in File
    BY LookTypes DEF MInv, IInv, Memory
  <2> QED
    BY <1>1, <1>2, <2>1 DEF WorkerKnows, Past, Behind, Truthful, Covers
<1>6. CallKnows'
  <2>1. Awaited' = Awaited
    BY <1>1 DEF Awaited
  <2> QED
    BY <1>1, <1>2, <2>1 DEF MInv, Memory, CallKnows, Past, Behind, Truthful, Covers
<1> QED
  BY <1>1, <1>4, <1>5, <1>6 DEF Memory

\* Every step keeps what is known.
LEMMA MemoryStep ==
  ASSUME MInv, [Next]_vars
  PROVE  MInv'
<1>1. IInv' /\ TypeOK'
  BY InvStep DEF MInv, IInv
<1>2. ASSUME NEW f \in File, FileNext(f) PROVE Memory'
  BY <1>1, <1>2, MemoryWrite
<1>3. ASSUME Discover \/ TakeFound \/ TakeNote \/ Postpone \/ CoolDown
             \/ (\E f \in File : CooldownEnds(f)) \/ UNCHANGED vars
      PROVE  Memory'
  <2>1. UNCHANGED <<disk, rewritten, ingested, backfilled, saved, workers>>
    BY <1>3 DEF Discover, TakeFound, TakeNote, Postpone, CoolDown, CooldownEnds, vars, diskVars,
                dbVars, backfillVars
  <2>2. (call' = NoCall /\ outcome' = "none") \/ UNCHANGED <<up, call, outcome>>
    BY <1>3 DEF Discover, TakeFound, TakeNote, Postpone, CoolDown, CooldownEnds, vars, loopVars
  <2>3. \A f \in File : states[f] \in FileState
    BY DEF MInv, IInv, TypeOK
  <2>4. \/ states' = states
        \/ \E f : states' = [states EXCEPT ![f].cooldown = TRUE]
        \/ \E f : states' = [states EXCEPT ![f].cooldown = FALSE]
        \/ \E f : states' = [states EXCEPT ![f].metaChanged = TRUE]
    BY <1>3 DEF Discover, TakeFound, TakeNote, Postpone, CoolDown, CooldownEnds, vars
  <2>5. ASSUME NEW f \in File
        PROVE  /\ states'[f].size = states[f].size /\ states'[f].inode = states[f].inode
               /\ states'[f].seen = states[f].seen
    <3>1. states \in [File -> FileState]
      BY DEF MInv, IInv, TypeOK
    <3> QED BY <2>3, <2>4, <3>1 DEF FileState
  <2> QED BY <1>1, <2>1, <2>2, <2>5, MemoryQuiet
<1>4. ASSUME LoopNext PROVE Memory'
  BY <1>1, <1>3, <1>4, MemoryIgnore, MemorySpawn, MemorySucceeded
     DEF LoopNext, ProcessNext, Failed, TimedOut
<1>5. ASSUME NEW w \in workers, WorkerStep(w) PROVE Memory'
  BY <1>1, <1>5, MemoryParse, MemoryInsert, MemoryReturn DEF WorkerStep
<1>6. ASSUME Stop \/ Start PROVE Memory'
  BY <1>6, MemoryRestart
<1>7. ASSUME BackfillNext PROVE Memory'
  BY <1>7, MemoryBackfill
<1> QED
  BY <1>1, <1>2, <1>3, <1>4, <1>5, <1>6, <1>7 DEF Next, MInv

LEMMA MemoryInit == Init => MInv
<1> SUFFICES ASSUME Init PROVE MInv
  OBVIOUS
<1>1. IInv /\ TypeOK
  BY InvInit DEF IInv
<1>2. ASSUME NEW f \in File PROVE Filled(f) /\ Knows(f, saved[f]) /\ Knows(f, states[f])
  <2>1. disk[f].inode = 0 /\ disk[f].size = 0
    BY DEF Init
  <2>2. Knows(f, saved[f]) /\ Knows(f, states[f])
    BY <1>1, NothingKnown DEF Init, Loaded, NoRow
  <2> QED BY <2>1, <2>2 DEF Filled
<1> QED
  BY <1>1, <1>2 DEF Init, MInv, Memory, CallKnows

\* The offset a restarted watcher loads never covers a text or a meta.json that is not
\* ingested (process_file, save_offset).
THEOREM SavedIsIngestedAlways == Spec => []SavedIsIngested
<1>1. MInv /\ [Next]_vars => MInv'
  BY MemoryStep
<1>2. MInv => SavedIsIngested
  <2> SUFFICES ASSUME MInv, NEW f \in Present \ (rewritten \cup backfilled)
               PROVE  Truthful(f, saved[f])
    BY DEF SavedIsIngested
  <2>1. f \in File /\ Filled(f) /\ Knows(f, saved[f])
    BY DEF MInv, Memory, Present
  <2>2. Clean(f)
    BY <2>1 DEF Clean, Filled, Present
  <2> QED BY <2>1, <2>2 DEF Knows
<1> QED
  BY <1>1, <1>2, MemoryInit, PTL DEF Spec

\* What process_file would ignore is ingested: no order of writes, timeouts, late workers,
\* failures and restarts leaves a text or a meta.json behind for good (process_file).
THEOREM NothingMissedAlways == Spec => []NothingMissed
<1>1. MInv /\ [Next]_vars => MInv'
  BY MemoryStep
<1>2. MInv => NothingMissed
  BY MemoryNothingMissed
<1> QED
  BY <1>1, <1>2, MemoryInit, PTL DEF Spec


\* No worker, however late it finishes, takes the rows of a transcript back to an older
\* text or meta.json (process_file's in-flight check, try_insert_segments).
THEOREM NoOlderTextAlways == Spec => NoOlderText
<1>1. IInv /\ [Next]_vars => IInv'
  BY InvStep
<1>2. IInv /\ [Next]_vars =>
        [\A f \in File \ backfilled' : /\ ingested'[f].ver >= ingested[f].ver
                                       /\ ingested'[f].meta >= ingested[f].meta]_vars
  BY InvStep
<1> QED
  BY <1>1, <1>2, InvInit, PTL DEF Spec, NoOlderText
=============================================================================
