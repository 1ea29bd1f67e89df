----------------------------- MODULE CaptureProofs -----------------------------
(***************************************************************************)
(* Theorems about Capture, for every set of envelopes and sessions, every  *)
(* batch size and every number of crashes.                                 *)
(***************************************************************************)
EXTENDS Capture, SequenceTheorems, TLAPS

-----------------------------------------------------------------------------
(* Lemmas about the data: buffers, fallback files, rows *)

\* Appending to a buffer adds one element.
LEMMA ElemsAppend ==
  ASSUME NEW S, NEW s \in Seq(S), NEW e \in S
  PROVE  Elems(Append(s, e)) = Elems(s) \cup {e}
BY AppendProperties DEF Elems

\* A non-empty batch is its head and its tail.
LEMMA ElemsHeadTail ==
  ASSUME NEW S, NEW s \in Seq(S), s # << >>
  PROVE  /\ Head(s) \in S /\ Tail(s) \in Seq(S)
         /\ Elems(s) = {Head(s)} \cup Elems(Tail(s))
<1>1. /\ Head(s) \in S /\ Head(s) = s[1] /\ Tail(s) \in Seq(S) /\ Len(Tail(s)) = Len(s) - 1
      /\ \A i \in 1..Len(Tail(s)) : Tail(s)[i] = s[i + 1]
  BY HeadTailProperties
<1>2. Len(s) \in Nat \ {0}
  BY EmptySeq
<1>3. ASSUME NEW i \in 1..Len(s), i # 1 PROVE i - 1 \in 1..Len(Tail(s)) /\ s[i] = Tail(s)[i - 1]
  BY <1>1, <1>2, <1>3
<1>4. \A i \in 1..Len(Tail(s)) : i + 1 \in 1..Len(s) /\ Tail(s)[i] = s[i + 1]
  BY <1>1, <1>2
<1> QED
  BY <1>1, <1>2, <1>3, <1>4 DEF Elems

\* Cutting a buffer in two loses nothing.
LEMMA ElemsSplit ==
  ASSUME NEW S, NEW s \in Seq(S), NEW n \in 0..Len(s)
  PROVE  /\ SubSeq(s, 1, n) \in Seq(S) /\ SubSeq(s, n + 1, Len(s)) \in Seq(S)
         /\ Len(SubSeq(s, n + 1, Len(s))) = Len(s) - n
         /\ Elems(s) = Elems(SubSeq(s, 1, n)) \cup Elems(SubSeq(s, n + 1, Len(s)))
<1> DEFINE a == SubSeq(s, 1, n)
           b == SubSeq(s, n + 1, Len(s))
<1>1. Len(s) \in Nat /\ n \in Nat /\ n <= Len(s)
  BY LenProperties
<1>2. a \in Seq(S) /\ Len(a) = n /\ \A i \in 1..n : a[i] = s[i]
  BY <1>1, SubSeqProperties
<1>3. b \in Seq(S) /\ Len(b) = Len(s) - n /\ \A i \in 1..(Len(s) - n) : b[i] = s[n + i]
  BY <1>1, SubSeqProperties
<1> HIDE DEF a, b
<1>4. ASSUME NEW i \in 1..Len(s), i > n PROVE i - n \in 1..Len(b) /\ s[i] = b[i - n]
  BY <1>1, <1>3, <1>4
<1>5. \A i \in 1..Len(b) : n + i \in 1..Len(s) /\ b[i] = s[n + i]
  BY <1>1, <1>3
<1>6. ASSUME NEW i \in 1..Len(s) PROVE s[i] \in Elems(a) \cup Elems(b)
  <2>1. CASE i <= n
    <3>1. i \in 1..Len(a) /\ s[i] = a[i]
      BY <1>1, <1>2, <2>1
    <3> QED BY <3>1 DEF Elems
  <2>2. CASE i > n
    BY <1>4, <2>2 DEF Elems
  <2> QED BY <1>1, <2>1, <2>2
<1>7. ASSUME NEW i \in 1..Len(a) PROVE a[i] \in Elems(s)
  <2>1. i \in 1..Len(s) /\ a[i] = s[i]
    BY <1>1, <1>2
  <2> QED BY <2>1 DEF Elems
<1>8. ASSUME NEW i \in 1..Len(b) PROVE b[i] \in Elems(s)
  BY <1>5 DEF Elems
<1>9. Elems(s) = Elems(a) \cup Elems(b)
  BY <1>6, <1>7, <1>8 DEF Elems
<1> QED
  BY <1>2, <1>3, <1>9 DEF a, b

\* Writing the JSON of an envelope adds it to the file and loses nothing.
LEMMA AppendEffect ==
  ASSUME NEW f \in File, NEW e \in Event
  PROVE  /\ AppendJson(f, e) \in File
         /\ Contents(AppendJson(f, e)) = Contents(f) \cup {e}
BY DEF File, AppendJson, Contents

\* Ending the line keeps every envelope of the file, on whatever kind of line.
LEMMA EndLineEffect ==
  ASSUME NEW f \in File
  PROVE  /\ EndLine(f) \in File
         /\ Contents(EndLine(f)) = Contents(f)
         /\ EndLine(f).tail = {} /\ ~EndLine(f).glued
         /\ Contents(f) \subseteq Event
BY DEF File, EndLine, Contents

\* A new file holds nothing.
LEMMA EmptyFileEffect == EmptyFile \in File /\ Contents(EmptyFile) = {}
BY DEF File, EmptyFile, Contents

\* An insert leaves at most one row behind, and never takes one away.
LEMMA InsertRowEffect ==
  ASSUME rows \in [Event -> Nat], queue \in [Event -> Nat], NEW e \in Event, InsertRow(e)
  PROVE  /\ rows' \in [Event -> Nat] /\ queue' \in [Event -> Nat]
         /\ rows'[e] > 0
         /\ Stored \subseteq Stored'
         /\ OneRowOneJob => OneRowOneJob'
BY DEF InsertRow, Stored, OneRowOneJob
-----------------------------------------------------------------------------
(* Type correctness *)

\* An envelope whose insert failed is the head of the batch until it is in the file.
TypeInv ==
  /\ TypeOK
  /\ flushPc \in {"fallback", "newline"} => batch # << >>

\* payload_source names one of the two sources.
LEMMA SourceType == \A e : SourceOf(e) \in Source
BY DEF SourceOf, Source

\* Senders, connections and the two sides of an append keep the types.
LEMMA SenderTypes ==
  ASSUME TypeInv, NEW e \in Event, SenderNext(e) \/ Accept(e) \/ Ingest(e)
  PROVE  TypeInv'
<1> USE DEF TypeInv, TypeOK, memVars, dbVars, archiveVars, histVars, senderVars, replayVars
<1>1. CASE SendAccepted(e)
  <2>1. sends' \in [Event -> Nat] /\ backlog' \subseteq Event
    BY <1>1 DEF SendAccepted
  <2>2. UNCHANGED <<client, conns, phase, flusher, buffer, batch, flushPc, okSrc, errSrc,
                    sessions, replay, files, aborted, rows, queue, failing, active,
                    recovering, done, partial, accepted, unsaved, torn, stops>>
    BY <1>1 DEF SendAccepted
  <2>3. /\ client' \in [Event -> {"idle", "fallback", "newline"}] /\ conns' \subseteq Event
        /\ buffer' \in Seq(Event) /\ Len(buffer') <= BatchSize * CapFactor
        /\ batch' \in Seq(Event)
    BY <2>2
  <2>4. /\ phase' \in {"down", "recovering", "up", "signalled", "draining", "joined", "final"}
        /\ flusher' \in {"running", "done"}
        /\ flushPc' \in {"idle", "insert", "fallback", "newline"}
        /\ flushPc' \in {"fallback", "newline"} => batch' # << >>
    BY <2>2
  <2>5. /\ okSrc' \subseteq Source /\ errSrc' \subseteq Source /\ failing' \subseteq Source
        /\ sessions' \subseteq Session
        /\ replay' \in [file : File, todo : SUBSET Event, err : BOOLEAN]
        /\ rows' \in [Event -> Nat] /\ queue' \in [Event -> Nat]
    BY <2>2
  <2> QED BY <2>1, <2>2, <2>3, <2>4, <2>5
<1>2. CASE SendFails(e)
  <2>1. sends' \in [Event -> Nat]
    BY <1>2 DEF SendFails
  <2>2. client' \in [Event -> {"idle", "fallback", "newline"}]
    BY <1>2 DEF SendFails
  <2>3. UNCHANGED <<backlog, conns, phase, flusher, buffer, batch, flushPc, okSrc, errSrc,
                    sessions, replay, files, aborted, rows, queue, failing, active,
                    recovering, done, partial, accepted, unsaved, torn, stops>>
    BY <1>2 DEF SendFails
  <2> QED BY <2>1, <2>2, <2>3, SMTT(30)
<1>3. CASE ClientAppends(e)
  <2>1. active' \in File
    BY <1>3, AppendEffect DEF ClientAppends
  <2>2. client' = [client EXCEPT ![e] = "newline"]
    BY <1>3 DEF ClientAppends
  <2>3. client' \in [Event -> {"idle", "fallback", "newline"}]
    BY <2>2
  <2>4. UNCHANGED <<sends, backlog, conns, phase, flusher, memVars, sessions, replayVars,
                    dbVars, archiveVars, histVars>>
    BY <1>3 DEF ClientAppends
  <2> QED BY <2>1, <2>3, <2>4
<1>4. CASE ClientTerminatesLine(e)
  <2>1. active' \in File
    BY <1>4, EndLineEffect DEF ClientTerminatesLine
  <2>2. client' = [client EXCEPT ![e] = "idle"]
    BY <1>4 DEF ClientTerminatesLine
  <2>3. client' \in [Event -> {"idle", "fallback", "newline"}]
    BY <2>2
  <2>4. UNCHANGED <<sends, backlog, conns, phase, flusher, memVars, sessions, replayVars,
                    dbVars, archiveVars, histVars>>
    BY <1>4 DEF ClientTerminatesLine
  <2> QED BY <2>1, <2>3, <2>4
<1>5. CASE ClientGivesUp(e)
  BY <1>5 DEF ClientGivesUp
<1>6. CASE Accept(e)
  BY <1>6 DEF Accept
<1>7. CASE Ingest(e)
  <2>1. BufferCap \in Nat /\ BufferCap = BatchSize * CapFactor
    BY CaptureAssumption DEF BufferCap
  <2>2. Append(buffer, e) \in Seq(Event) /\ Len(Append(buffer, e)) = Len(buffer) + 1
    BY AppendProperties
  <2>3. CASE Len(buffer) >= BufferCap
    <3>1. buffer' = buffer /\ accepted' = accepted
      BY <1>7, <2>3 DEF Ingest
    <3> QED
      BY <1>7, <3>1 DEF Ingest
  <2>4. CASE ~(Len(buffer) >= BufferCap)
    <3>1. buffer' = Append(buffer, e) /\ accepted' = accepted \cup {e}
      BY <1>7, <2>4 DEF Ingest
    <3>2. Len(Append(buffer, e)) <= BufferCap
      BY <2>1, <2>2, <2>4, LenProperties
    <3>3. Len(buffer') <= BatchSize * CapFactor
      BY <3>1, <3>2, <2>1
    <3> QED
      BY <1>7, <2>2, <3>1, <3>3 DEF Ingest
  <2> QED
    BY <2>3, <2>4
<1> QED
  BY <1>1, <1>2, <1>3, <1>4, <1>5, <1>6, <1>7 DEF SenderNext

\* Each step of a flush keeps the types.
LEMMA FlushTypes ==
  ASSUME TypeInv, FlushNext
  PROVE  TypeInv'
<1> USE DEF TypeInv, TypeOK, memVars, dbVars, archiveVars, histVars, senderVars, replayVars
<1>1. CASE FlushBegin
  <2> DEFINE n == IF Len(buffer) < BatchSize THEN Len(buffer) ELSE BatchSize
  <2>1. n \in 0..Len(buffer) /\ Len(buffer) \in Nat /\ BatchSize * CapFactor \in Nat
    BY CaptureAssumption
  <2>2. batch' = SubSeq(buffer, 1, n) /\ buffer' = SubSeq(buffer, n + 1, Len(buffer))
    BY <1>1 DEF FlushBegin
  <2>3. batch' \in Seq(Event) /\ buffer' \in Seq(Event) /\ Len(buffer') = Len(buffer) - n
    <3>1. buffer \in Seq(Event)
      OBVIOUS
    <3> HIDE DEF n, TypeInv, TypeOK
    <3> QED BY <2>1, <2>2, <3>1, ElemsSplit
  <2>4. Len(buffer') <= BatchSize * CapFactor
    BY <2>1, <2>3
  <2>5. /\ flushPc' = "insert"
        /\ UNCHANGED <<senderVars, backlog, conns, phase, flusher, okSrc, errSrc, sessions,
                       replayVars, dbVars, active, archiveVars, histVars>>
    BY <1>1 DEF FlushBegin
  <2> HIDE DEF n
  <2> QED
    BY <2>3, <2>4, <2>5
<1>2. batch # << >> => Head(batch) \in Event /\ Tail(batch) \in Seq(Event)
  BY ElemsHeadTail
<1>3. CASE FlushInsert
  <2>1. rows' \in [Event -> Nat] /\ queue' \in [Event -> Nat]
    BY <1>2, <1>3, InsertRowEffect DEF FlushInsert
  <2>2. sessions' \subseteq Session
    BY <1>2, <1>3, CaptureAssumption DEF FlushInsert, CacheSession
  <2>3. okSrc' \subseteq Source
    BY <1>3, SourceType DEF FlushInsert
  <2> QED
    BY <1>2, <1>3, <2>1, <2>2, <2>3 DEF FlushInsert
<1>4. CASE FlushInsertFails
  <2>1. sessions' \subseteq Session
    BY <1>2, <1>4, CaptureAssumption DEF FlushInsertFails, CacheSession
  <2> QED
    BY <1>4, <2>1, SourceType DEF FlushInsertFails
<1>5. CASE FlushSessionFails
  BY <1>5 DEF FlushSessionFails
<1>6. CASE FlushAppends
  BY <1>2, <1>6, AppendEffect DEF FlushAppends
<1>7. CASE FlushTerminatesLine
  BY <1>2, <1>7, EndLineEffect DEF FlushTerminatesLine
<1>8. CASE FlushAppendFails
  BY <1>2, <1>8 DEF FlushAppendFails
<1>9. CASE FlushEnd
  BY <1>9 DEF FlushEnd
<1> QED
  BY <1>1, <1>3, <1>4, <1>5, <1>6, <1>7, <1>8, <1>9 DEF FlushNext

\* Shutdown, crash and start keep the types.
LEMMA LifecycleTypes ==
  ASSUME TypeInv, LifecycleNext
  PROVE  TypeInv'
<1> USE DEF TypeInv, TypeOK, memVars, dbVars, archiveVars, histVars, senderVars, replayVars
<1>1. CASE Shutdown
  BY <1>1 DEF Shutdown
<1>2. CASE StopAccepting
  BY <1>2 DEF StopAccepting
<1>3. CASE FlusherExits
  BY <1>3 DEF FlusherExits
<1>4. CASE JoinConnections
  BY <1>4 DEF JoinConnections
<1>5. CASE JoinFlusher
  BY <1>5 DEF JoinFlusher
<1>6. CASE Exit
  BY <1>6 DEF Exit
<1>7. CASE Crash
  <2>1. NoReplay \in [file : File, todo : SUBSET Event, err : BOOLEAN]
    BY DEF NoReplay, EmptyFile, File
  <2>2. buffer' \in Seq(Event) /\ batch' \in Seq(Event) /\ Len(buffer') = 0
    BY <1>7, EmptySeq DEF Crash
  <2>3. 0 <= BatchSize * CapFactor
    BY CaptureAssumption
  <2>4. Len(buffer') <= BatchSize * CapFactor
    BY <2>2, <2>3
  <2> QED
    BY <1>7, <2>1, <2>2, <2>4 DEF Crash
<1>8. CASE Start
  BY <1>8, EndLineEffect, EmptyFileEffect DEF Start
<1>9. CASE StartUnrecovered
  BY <1>9 DEF StartUnrecovered
<1> QED
  BY <1>1, <1>2, <1>3, <1>4, <1>5, <1>6, <1>7, <1>8, <1>9 DEF LifecycleNext

\* Each step of recover_fallback_files keeps the types.
LEMMA RecoveryTypes ==
  ASSUME TypeInv, RecoveryNext
  PROVE  TypeInv'
<1> USE DEF TypeInv, TypeOK, memVars, dbVars, archiveVars, histVars, senderVars, replayVars
<1>0. NoReplay \in [file : File, todo : SUBSET Event, err : BOOLEAN]
  BY DEF NoReplay, EmptyFile, File
<1>1. ASSUME NEW f \in files, OpenFile(f) PROVE TypeInv'
  BY <1>1 DEF OpenFile, File
<1>2. ASSUME NEW e \in Event, ReplayLine(e) PROVE TypeInv'
  <2>1. rows' \in [Event -> Nat] /\ queue' \in [Event -> Nat]
    BY <1>2, InsertRowEffect DEF ReplayLine
  <2>2. sessions' \subseteq Session
    BY <1>2, CaptureAssumption DEF ReplayLine, CacheSession
  <2> QED
    BY <1>2, <2>1, <2>2 DEF ReplayLine
<1>3. ASSUME NEW e \in Event, ReplayLineFails(e) PROVE TypeInv'
  <2>1. sessions' \subseteq Session
    BY <1>3, CaptureAssumption DEF ReplayLineFails, CacheSession
  <2> QED
    BY <1>3, <2>1 DEF ReplayLineFails
<1>4. CASE ArchiveFile
  <2>1. Contents(replay.file) \subseteq Event
    BY EndLineEffect
  <2> QED
    BY <1>0, <1>4, <2>1 DEF ArchiveFile
<1>5. CASE RecoveryAborts
  BY <1>0, <1>5 DEF RecoveryAborts
<1>6. CASE RecoveryEnds
  BY <1>6 DEF RecoveryEnds
<1> QED
  BY <1>1, <1>2, <1>3, <1>4, <1>5, <1>6 DEF RecoveryNext

\* Every step of the system preserves the invariant.
LEMMA TypeInvStep == TypeInv /\ [Next]_vars => TypeInv'
<1>1. ASSUME TypeInv, UNCHANGED vars PROVE TypeInv'
  BY <1>1 DEF vars, replayVars, TypeInv, TypeOK
<1> QED
  BY <1>1, SenderTypes, FlushTypes, LifecycleTypes, RecoveryTypes DEF Next

\* The invariant holds before the first start.
LEMMA TypeInvInit == Init => TypeInv
<1> SUFFICES ASSUME Init PROVE TypeInv
  OBVIOUS
<1>1. buffer \in Seq(Event) /\ batch \in Seq(Event) /\ Len(buffer) = 0
  BY EmptySeq DEF Init
<1>2. 0 <= BatchSize * CapFactor
  BY CaptureAssumption
<1>3. Len(buffer) <= BatchSize * CapFactor
  BY <1>1, <1>2
<1>4. /\ replay \in [file : File, todo : SUBSET Event, err : BOOLEAN]
      /\ active \in File
  BY DEF Init, NoReplay, EmptyFile, File
<1> QED
  BY <1>1, <1>3, <1>4 DEF Init, TypeInv, TypeOK

\* Every variable keeps its type, and the event buffer never grows past its cap
\* (handle_request drops the event instead).
THEOREM TypeCorrect == Spec => []TypeOK
<1>1. TypeInv => TypeOK
  BY DEF TypeInv
<1> QED
  BY <1>1, TypeInvInit, TypeInvStep, PTL DEF Spec
-----------------------------------------------------------------------------
(* Rows and jobs *)

\* SQLite changes through InsertRow alone, in a flush or in a replay.
LEMMA RowsStep ==
  ASSUME TypeInv, [Next]_vars
  PROVE  UNCHANGED <<rows, queue>> \/ \E e \in Event : InsertRow(e)
<1> USE DEF memVars, dbVars, archiveVars, histVars, senderVars, replayVars
<1>1. CASE FlushInsert
  BY <1>1, ElemsHeadTail DEF FlushInsert, TypeInv, TypeOK
<1>2. ASSUME NEW e \in Event, ReplayLine(e) PROVE InsertRow(e)
  BY <1>2 DEF ReplayLine
<1>3. ASSUME NEW e \in Event, SenderNext(e) \/ Accept(e) \/ Ingest(e)
      PROVE UNCHANGED <<rows, queue>>
  BY <1>3 DEF SenderNext, SendAccepted, SendFails, ClientAppends, ClientTerminatesLine,
              ClientGivesUp, Accept, Ingest
<1>4. CASE FlushNext /\ ~FlushInsert
  BY <1>4 DEF FlushNext, FlushBegin, FlushInsertFails, FlushSessionFails, FlushAppends,
              FlushTerminatesLine, FlushAppendFails, FlushEnd
<1>5. CASE LifecycleNext
  BY <1>5 DEF LifecycleNext, Shutdown, StopAccepting, FlusherExits, JoinConnections,
              JoinFlusher, Exit, Crash, Start, StartUnrecovered
<1>6. CASE \E f \in files : OpenFile(f)
  BY <1>6 DEF OpenFile
<1>7. ASSUME NEW e \in Event, ReplayLineFails(e) PROVE UNCHANGED <<rows, queue>>
  BY <1>7 DEF ReplayLineFails
<1>8. CASE ArchiveFile \/ RecoveryAborts \/ RecoveryEnds
  BY <1>8 DEF ArchiveFile, RecoveryAborts, RecoveryEnds
<1>9. CASE UNCHANGED vars
  BY <1>9 DEF vars
<1> QED
  BY <1>1, <1>2, <1>3, <1>4, <1>5, <1>6, <1>7, <1>8, <1>9 DEF Next, RecoveryNext

\* What is stored stays stored.
LEMMA StoredKept ==
  ASSUME TypeInv, [Next]_vars
  PROVE  Stored \subseteq Stored'
<1>1. CASE UNCHANGED <<rows, queue>>
  BY <1>1 DEF Stored
<1>2. ASSUME NEW e \in Event, InsertRow(e) PROVE Stored \subseteq Stored'
  BY <1>2, InsertRowEffect DEF TypeInv, TypeOK
<1> QED BY <1>1, <1>2, RowsStep

\* An envelope that is sent twice, retried after a crash or replayed from a file that
\* was already replayed is stored once, with one enrichment job unless it is a probe.
THEOREM OneRowOneJobAlways == Spec => []OneRowOneJob
<1>1. Init => OneRowOneJob
  BY DEF Init, OneRowOneJob
<1>2. TypeInv /\ OneRowOneJob /\ [Next]_vars => OneRowOneJob'
  <2> SUFFICES ASSUME TypeInv, OneRowOneJob, [Next]_vars PROVE OneRowOneJob'
    OBVIOUS
  <2>1. CASE UNCHANGED <<rows, queue>>
    BY <2>1 DEF OneRowOneJob
  <2>2. ASSUME NEW e \in Event, InsertRow(e) PROVE OneRowOneJob'
    BY <2>2, InsertRowEffect DEF TypeInv, TypeOK
  <2> QED BY <2>1, <2>2, RowsStep
<1> QED
  BY <1>1, <1>2, TypeInvInit, TypeInvStep, PTL DEF Spec

-----------------------------------------------------------------------------
(* The fallback directory *)

\* A claimed file has no torn last line any more, and what a replay that met no error
\* has passed is stored.
ReplayInv ==
  /\ \A f \in recovering \cup files : f.tail = {}
  /\ replay.file.tail = {}
  /\ ~replay.err => /\ replay.file.junk = {}
                    /\ replay.file.lines \subseteq replay.todo \cup Stored

\* Only recovery and the start touch the claimed files and the archives.
LEMMA ReplayStep ==
  ASSUME [Next]_vars
  PROVE  \/ UNCHANGED <<recovering, replay, files, done>>
         \/ Start \/ Crash \/ RecoveryNext
<1> USE DEF memVars, dbVars, archiveVars, histVars, senderVars, replayVars
<1>1. ASSUME NEW e \in Event, SenderNext(e) \/ Accept(e) \/ Ingest(e)
      PROVE UNCHANGED <<recovering, replay, files, done>>
  BY <1>1 DEF SenderNext, SendAccepted, SendFails, ClientAppends, ClientTerminatesLine,
              ClientGivesUp, Accept, Ingest
<1>2. CASE FlushNext
  BY <1>2 DEF FlushNext, FlushBegin, FlushInsert, FlushInsertFails, FlushSessionFails,
              FlushAppends, FlushTerminatesLine, FlushAppendFails, FlushEnd
<1>3. CASE LifecycleNext
  BY <1>3 DEF LifecycleNext, Shutdown, StopAccepting, FlusherExits, JoinConnections,
              JoinFlusher, Exit, StartUnrecovered
<1>4. CASE UNCHANGED vars
  BY <1>4 DEF vars
<1> QED
  BY <1>1, <1>2, <1>3, <1>4 DEF Next

\* What neither the lifecycle nor a recovery does leaves recovery alone.
LEMMA ReplayUntouched ==
  ASSUME [Next]_vars, ~LifecycleNext, ~RecoveryNext
  PROVE  UNCHANGED <<recovering, replay, files, phase, aborted>>
<1> USE DEF memVars, dbVars, archiveVars, histVars, senderVars, replayVars
<1>1. ASSUME NEW e \in Event, SenderNext(e) \/ Accept(e) \/ Ingest(e)
      PROVE UNCHANGED <<recovering, replay, files, phase, aborted>>
  BY <1>1 DEF SenderNext, SendAccepted, SendFails, ClientAppends, ClientTerminatesLine,
              ClientGivesUp, Accept, Ingest
<1>2. CASE FlushNext
  BY <1>2 DEF FlushNext, FlushBegin, FlushInsert, FlushInsertFails, FlushSessionFails,
              FlushAppends, FlushTerminatesLine, FlushAppendFails, FlushEnd
<1>3. CASE UNCHANGED vars
  BY <1>3 DEF vars
<1> QED
  BY <1>1, <1>2, <1>3 DEF Next

\* Every step of the system preserves ReplayInv.
LEMMA ReplayInvStep ==
  ASSUME TypeInv, ReplayInv, [Next]_vars
  PROVE  ReplayInv'
<1> USE DEF ReplayInv
<1>0. NoReplay.file.tail = {} /\ NoReplay.file.junk = {} /\ NoReplay.file.lines = {}
  BY DEF NoReplay, EmptyFile
<1>1. CASE UNCHANGED <<recovering, replay, files, done>>
  BY <1>1, StoredKept
<1>2. CASE Start
  BY <1>2, EndLineEffect, StoredKept DEF Start, TypeInv, TypeOK
<1>3. CASE Crash
  BY <1>0, <1>3 DEF Crash, archiveVars
<1>4. ASSUME NEW f \in files, OpenFile(f) PROVE ReplayInv'
  BY <1>4, StoredKept DEF OpenFile, archiveVars
<1>5. ASSUME NEW e \in Event, ReplayLine(e) PROVE ReplayInv'
  <2>1. rows'[e] > 0
    BY <1>5, InsertRowEffect DEF ReplayLine, TypeInv, TypeOK
  <2>2. e \in Stored'
    BY <2>1 DEF Stored
  <2>3. /\ replay'.file = replay.file /\ replay'.todo = replay.todo \ {e}
        /\ replay'.err = replay.err
        /\ recovering' = recovering /\ files' = files
    BY <1>5 DEF ReplayLine, archiveVars, TypeInv, TypeOK
  <2> QED
    BY <2>2, <2>3, StoredKept
<1>6. ASSUME NEW e \in Event, ReplayLineFails(e) PROVE ReplayInv'
  BY <1>6 DEF ReplayLineFails, archiveVars, TypeInv, TypeOK
<1>7. CASE ArchiveFile
  BY <1>0, <1>7 DEF ArchiveFile
<1>8. CASE RecoveryAborts
  BY <1>0, <1>8 DEF RecoveryAborts, archiveVars
<1>9. CASE RecoveryEnds
  BY <1>9, StoredKept DEF RecoveryEnds, archiveVars, replayVars
<1> QED
  BY <1>1, <1>2, <1>3, <1>4, <1>5, <1>6, <1>7, <1>8, <1>9, ReplayStep DEF RecoveryNext

\* Before the first start there is nothing to replay.
LEMMA ReplayInvInit == Init => ReplayInv
BY DEF Init, ReplayInv, NoReplay, EmptyFile

\* The file whose replay ended without an error is in SQLite, all of it.
LEMMA ReplayedIsStored ==
  ASSUME ReplayInv, replay.todo = {}, ~replay.err
  PROVE  Contents(replay.file) \subseteq Stored
BY DEF ReplayInv, Contents

\* recover_fallback_files archives a file as .done only when all of it is stored.
THEOREM DoneMeansStoredAlways == Spec => []DoneMeansStored
<1>1. Init => DoneMeansStored
  BY DEF Init, DoneMeansStored
<1>2. TypeInv /\ ReplayInv /\ DoneMeansStored /\ [Next]_vars => DoneMeansStored'
  <2> SUFFICES ASSUME TypeInv, ReplayInv, DoneMeansStored, [Next]_vars
               PROVE DoneMeansStored'
    OBVIOUS
  <2>1. CASE UNCHANGED done
    BY <2>1, StoredKept DEF DoneMeansStored
  <2>2. CASE ArchiveFile
    <3>1. done' \subseteq done \cup Stored
      BY <2>2, ReplayedIsStored DEF ArchiveFile
    <3> QED BY <3>1, StoredKept DEF DoneMeansStored
  <2>3. UNCHANGED done \/ ArchiveFile
    BY ReplayStep
    DEF Start, Crash, RecoveryNext, OpenFile, ReplayLine, ReplayLineFails, RecoveryAborts,
        RecoveryEnds, archiveVars
  <2> QED BY <2>1, <2>2, <2>3
<1>3. TypeInv /\ ReplayInv /\ [Next]_vars => ReplayInv'
  BY ReplayInvStep
<1> QED
  BY <1>1, <1>2, <1>3, ReplayInvInit, TypeInvInit, TypeInvStep, PTL DEF Spec
\* Every step that changes a file of the fallback directory.
LEMMA DirectoryStep ==
  ASSUME TypeInv, [Next]_vars
  PROVE  \/ UNCHANGED <<active, recovering, partial>>
         \/ /\ UNCHANGED <<recovering, partial>>
            /\ \/ \E e \in Event : active' = AppendJson(active, e)
               \/ active' = EndLine(active)
         \/ Start
         \/ ArchiveFile
<1> USE DEF memVars, dbVars, archiveVars, histVars, senderVars, replayVars
<1>1. ASSUME NEW e \in Event, SenderNext(e) \/ Accept(e) \/ Ingest(e)
      PROVE  /\ UNCHANGED <<recovering, partial>>
             /\ active' = active \/ active' = AppendJson(active, e) \/ active' = EndLine(active)
  BY <1>1 DEF SenderNext, SendAccepted, SendFails, ClientAppends, ClientTerminatesLine,
              ClientGivesUp, Accept, Ingest
<1>2. CASE FlushAppends
  BY <1>2, ElemsHeadTail DEF FlushAppends, TypeInv, TypeOK
<1>3. CASE FlushTerminatesLine
  BY <1>3 DEF FlushTerminatesLine
<1>4. CASE FlushNext /\ ~FlushAppends /\ ~FlushTerminatesLine
  BY <1>4 DEF FlushNext, FlushBegin, FlushInsert, FlushInsertFails, FlushSessionFails,
              FlushAppendFails, FlushEnd
<1>5. CASE LifecycleNext
  BY <1>5 DEF LifecycleNext, Shutdown, StopAccepting, FlusherExits, JoinConnections,
              JoinFlusher, Exit, Crash, StartUnrecovered
<1>6. CASE \E f \in files : OpenFile(f)
  BY <1>6 DEF OpenFile
<1>7. CASE \E e \in Event : ReplayLine(e) \/ ReplayLineFails(e)
  BY <1>7 DEF ReplayLine, ReplayLineFails
<1>8. CASE ArchiveFile \/ RecoveryAborts \/ RecoveryEnds
  BY <1>8 DEF RecoveryAborts, RecoveryEnds
<1>9. CASE UNCHANGED vars
  BY <1>9 DEF vars
<1> QED
  BY <1>1, <1>2, <1>3, <1>4, <1>5, <1>6, <1>7, <1>8, <1>9 DEF Next, RecoveryNext

\* No step loses a durable envelope.
LEMMA DurableStep ==
  ASSUME TypeInv, ReplayInv, [Next]_vars
  PROVE  Durable \subseteq Durable'
<1>1. CASE UNCHANGED <<active, recovering, partial>>
  BY <1>1, StoredKept DEF Durable, Kept, Claims
<1>2. ASSUME NEW e \in Event, UNCHANGED <<recovering, partial>>, active' = AppendJson(active, e)
      PROVE Durable \subseteq Durable'
  <2>1. Contents(active) \subseteq Contents(active')
    BY <1>2, AppendEffect DEF TypeInv, TypeOK
  <2>2. Claims' = Claims
    BY <1>2 DEF Claims
  <2> QED BY <1>2, <2>1, <2>2, StoredKept DEF Durable, Kept
<1>3. CASE UNCHANGED <<recovering, partial>> /\ active' = EndLine(active)
  <2>1. Contents(active) \subseteq Contents(active')
    BY <1>3, EndLineEffect DEF TypeInv, TypeOK
  <2>2. Claims' = Claims
    BY <1>3 DEF Claims
  <2> QED BY <1>3, <2>1, <2>2, StoredKept DEF Durable, Kept
<1>4. CASE Start
  <2>1. Contents(EndLine(active)) = Contents(active)
    BY EndLineEffect DEF TypeInv, TypeOK
  <2>2. Contents(active) \subseteq Claims' /\ Claims \subseteq Claims'
    BY <1>4, <2>1 DEF Start, Claims
  <2> QED
    BY <1>4, <2>2, StoredKept DEF Start, Durable, Kept
<1>5. CASE ArchiveFile
  <2>1. Contents(replay.file) \subseteq Stored \/ Contents(replay.file) \subseteq partial'
    BY <1>5, ReplayedIsStored DEF ArchiveFile
  <2>2. Claims \subseteq Claims' \cup Contents(replay.file)
    BY <1>5 DEF ArchiveFile, Claims
  <2>3. active' = active /\ partial \subseteq partial'
    BY <1>5 DEF ArchiveFile
  <2> QED
    BY <2>1, <2>2, <2>3, StoredKept DEF Durable, Kept
<1> QED
  BY <1>1, <1>2, <1>3, <1>4, <1>5, DirectoryStep

\* Neither a crash, nor a recovery, nor the archiving of a replayed file ever loses an
\* envelope that was in SQLite or in a fallback file.
THEOREM DurableKeptAlways == Spec => DurableKept
<1>1. TypeInv /\ ReplayInv /\ [Next]_vars => [Durable \subseteq Durable']_vars
  BY DurableStep
<1>2. TypeInv /\ ReplayInv /\ [Next]_vars => ReplayInv'
  BY ReplayInvStep
<1> QED
  BY <1>1, <1>2, ReplayInvInit, TypeInvInit, TypeInvStep, PTL DEF Spec, DurableKept

-----------------------------------------------------------------------------
(* The buffer *)

\* Between flushes nothing is in flight; between the two writes of an append the
\* envelope is in the file already.
FlushInv ==
  /\ flushPc = "idle" => batch = << >>
  /\ flushPc = "newline" => Head(batch) \in Durable

\* The inductive invariant behind AcceptedSafe.
AcceptedInv == AcceptedSafe /\ FlushInv

\* Each step of a flush moves an envelope from memory to SQLite or to the file.
LEMMA AcceptedFlush ==
  ASSUME TypeInv, ReplayInv, AcceptedInv, FlushNext
  PROVE  AcceptedInv'
<1> USE DEF memVars, dbVars, archiveVars, histVars, senderVars, replayVars, TypeInv, TypeOK
<1>0. Durable \subseteq Durable'
  BY DurableStep DEF Next
<1>1. buffer \in Seq(Event) /\ batch \in Seq(Event)
  OBVIOUS
<1>2. batch # << >> => Head(batch) \in Event /\ Elems(batch) = {Head(batch)} \cup Elems(Tail(batch))
  BY <1>1, ElemsHeadTail
<1>3. phase' = phase /\ accepted' = accepted /\ unsaved \subseteq unsaved'
  BY DEF FlushNext, FlushBegin, FlushInsert, FlushInsertFails, FlushSessionFails, FlushAppends,
         FlushTerminatesLine, FlushAppendFails, FlushEnd
<1>4. ASSUME InMemory \subseteq InMemory' \cup Durable' \cup unsaved' PROVE AcceptedSafe'
  BY <1>0, <1>3, <1>4 DEF AcceptedInv, AcceptedSafe, Held
<1>5. CASE FlushBegin
  <2> DEFINE n == IF Len(buffer) < BatchSize THEN Len(buffer) ELSE BatchSize
  <2>1. n \in 0..Len(buffer)
    BY CaptureAssumption, LenProperties
  <2>2. batch' = SubSeq(buffer, 1, n) /\ buffer' = SubSeq(buffer, n + 1, Len(buffer))
    BY <1>5 DEF FlushBegin
  <2>3. Elems(buffer) = Elems(batch') \cup Elems(buffer')
    BY <2>1, <2>2, ElemsSplit
  <2>4. batch = << >> /\ flushPc' = "insert"
    BY <1>5 DEF FlushBegin, AcceptedInv, FlushInv
  <2>5. Elems(batch) = {}
    BY <2>4, EmptySeq DEF Elems
  <2> QED
    BY <1>4, <2>3, <2>4, <2>5 DEF InMemory, AcceptedInv, FlushInv
<1>6. CASE FlushInsert
  <2>1. rows'[Head(batch)] > 0
    BY <1>2, <1>6, InsertRowEffect DEF FlushInsert
  <2>2. Head(batch) \in Durable'
    BY <1>2, <1>6, <2>1 DEF FlushInsert, Durable, Stored
  <2>3. batch' = Tail(batch) /\ buffer' = buffer /\ flushPc' = "insert"
    BY <1>6 DEF FlushInsert
  <2> QED
    BY <1>2, <1>4, <1>6, <2>2, <2>3 DEF FlushInsert, InMemory, AcceptedInv, FlushInv
<1>7. CASE FlushInsertFails \/ FlushSessionFails
  <2>1. UNCHANGED <<buffer, batch>> /\ flushPc' = "fallback"
    BY <1>7 DEF FlushInsertFails, FlushSessionFails
  <2> QED
    BY <1>4, <2>1 DEF InMemory, AcceptedInv, FlushInv
<1>8. CASE FlushAppends
  <2>1. UNCHANGED <<buffer, batch>> /\ flushPc' = "newline" /\ batch # << >>
    BY <1>8 DEF FlushAppends
  <2>2. Head(batch) \in Contents(active')
    BY <1>2, <1>8, <2>1, AppendEffect DEF FlushAppends
  <2> QED
    BY <1>4, <2>1, <2>2 DEF InMemory, AcceptedInv, FlushInv, Durable, Kept
<1>9. CASE FlushTerminatesLine
  <2>1. batch' = Tail(batch) /\ buffer' = buffer /\ flushPc' = "insert" /\ batch # << >>
    BY <1>9 DEF FlushTerminatesLine
  <2>2. Head(batch) \in Durable'
    BY <1>0, <1>9 DEF FlushTerminatesLine, AcceptedInv, FlushInv
  <2> QED
    BY <1>2, <1>4, <2>1, <2>2 DEF InMemory, AcceptedInv, FlushInv
<1>10. CASE FlushAppendFails
  <2>1. batch' = Tail(batch) /\ buffer' = buffer /\ flushPc' = "insert" /\ batch # << >>
        /\ Head(batch) \in unsaved'
    BY <1>10 DEF FlushAppendFails
  <2> QED
    BY <1>2, <1>4, <2>1 DEF InMemory, AcceptedInv, FlushInv
<1>11. CASE FlushEnd
  <2>1. UNCHANGED <<buffer, batch>> /\ flushPc' = "idle" /\ batch = << >>
    BY <1>11 DEF FlushEnd
  <2> QED
    BY <1>4, <2>1 DEF InMemory, AcceptedInv, FlushInv
<1> QED
  BY <1>5, <1>6, <1>7, <1>8, <1>9, <1>10, <1>11 DEF FlushNext
\* The daemon's other steps: only an exit, a crash and a start change what counts as
\* accepted, only an ingest adds to it.
LEMMA AcceptedOther ==
  ASSUME TypeInv, ReplayInv, AcceptedInv, [Next]_vars, ~FlushNext
  PROVE  AcceptedInv'
<1> USE DEF memVars, dbVars, archiveVars, histVars, senderVars, replayVars, TypeInv, TypeOK
<1>0. Durable \subseteq Durable'
  BY DurableStep
<1>1. ASSUME UNCHANGED <<buffer, batch, flushPc, accepted, unsaved>>,
             phase' = "down" => phase = "down"
      PROVE AcceptedInv'
  BY <1>0, <1>1 DEF AcceptedInv, AcceptedSafe, Held, FlushInv, InMemory
<1>2. ASSUME NEW e \in Event, SenderNext(e) \/ Accept(e)
      PROVE AcceptedInv'
  <2>1. UNCHANGED <<buffer, batch, flushPc, accepted, unsaved, phase>>
    BY <1>2 DEF SenderNext, SendAccepted, SendFails, ClientAppends, ClientTerminatesLine,
                ClientGivesUp, Accept
  <2> QED BY <1>1, <2>1
<1>3. ASSUME NEW e \in Event, Ingest(e) PROVE AcceptedInv'
  <2>1. CASE Len(buffer) >= BufferCap
    <3>1. UNCHANGED <<buffer, batch, flushPc, accepted, unsaved, phase>>
      BY <1>3, <2>1 DEF Ingest
    <3> QED BY <1>1, <3>1
  <2>2. CASE ~(Len(buffer) >= BufferCap)
    <3>1. buffer' = Append(buffer, e) /\ accepted' = accepted \cup {e}
          /\ UNCHANGED <<batch, flushPc, unsaved, phase>> /\ phase # "down"
      BY <1>3, <2>2 DEF Ingest
    <3>2. Elems(buffer') = Elems(buffer) \cup {e}
      BY <3>1, ElemsAppend
    <3> QED
      BY <1>0, <3>1, <3>2 DEF AcceptedInv, AcceptedSafe, Held, FlushInv, InMemory
  <2> QED BY <2>1, <2>2
<1>4. CASE Shutdown \/ StopAccepting \/ FlusherExits \/ JoinConnections \/ JoinFlusher
  <2>1. UNCHANGED <<buffer, batch, flushPc, accepted, unsaved>> /\ phase' # "down"
    BY <1>4 DEF Shutdown, StopAccepting, FlusherExits, JoinConnections, JoinFlusher
  <2> QED BY <1>1, <2>1
<1>5. CASE Exit
  <2>1. Elems(buffer) = {} /\ Elems(batch) = {}
    BY <1>5, EmptySeq DEF Exit, AcceptedInv, FlushInv, Elems
  <2>2. accepted \subseteq Durable \cup unsaved
    BY <2>1 DEF AcceptedInv, AcceptedSafe, Held, InMemory
  <2>3. UNCHANGED <<buffer, batch, flushPc, accepted, unsaved>>
    BY <1>5 DEF Exit
  <2> QED
    BY <1>0, <2>2, <2>3 DEF AcceptedInv, AcceptedSafe, Held, FlushInv
<1>6. CASE Crash
  BY <1>6 DEF Crash, AcceptedInv, AcceptedSafe, Held, FlushInv
<1>7. CASE Start \/ StartUnrecovered
  <2>1. accepted' = {} /\ UNCHANGED <<buffer, batch, flushPc>>
    BY <1>7 DEF Start, StartUnrecovered
  <2> QED
    BY <1>0, <2>1 DEF AcceptedInv, AcceptedSafe, Held, FlushInv
<1>8. CASE RecoveryNext
  <2>1. UNCHANGED <<buffer, batch, flushPc, accepted, unsaved>> /\ phase' # "down"
    BY <1>8 DEF RecoveryNext, OpenFile, ReplayLine, ReplayLineFails, ArchiveFile,
                RecoveryAborts, RecoveryEnds
  <2> QED BY <1>1, <2>1
<1>9. CASE UNCHANGED vars
  BY <1>1, <1>9 DEF vars
<1> QED
  BY <1>2, <1>3, <1>4, <1>5, <1>6, <1>7, <1>8, <1>9 DEF Next, LifecycleNext

\* An envelope the daemon took into its buffer is in memory, durable or reported as
\* unsaved; a clean exit leaves none in memory (flush_events, the final drain).
THEOREM AcceptedSafeAlways == Spec => []AcceptedSafe
<1>1. Init => AcceptedInv
  BY DEF Init, AcceptedInv, AcceptedSafe, FlushInv
<1>2. TypeInv /\ ReplayInv /\ AcceptedInv /\ [Next]_vars => AcceptedInv'
  BY AcceptedFlush, AcceptedOther
<1>3. TypeInv /\ ReplayInv /\ [Next]_vars => ReplayInv'
  BY ReplayInvStep
<1>4. AcceptedInv => AcceptedSafe
  BY DEF AcceptedInv
<1> QED
  BY <1>1, <1>2, <1>3, <1>4, ReplayInvInit, TypeInvInit, TypeInvStep, PTL DEF Spec

-----------------------------------------------------------------------------
(* The append lock *)

\* As long as nobody died inside an append, an unterminated line has its writer, who
\* holds the lock.
LinesInv ==
  ~torn => /\ \A f \in {active} \cup recovering : f.junk = {} /\ ~f.glued
           /\ AppendLockFree => active.tail = {}

\* Every step of the system preserves LinesInv.
LEMMA LinesInvStep ==
  ASSUME TypeInv, LinesInv, [Next]_vars
  PROVE  LinesInv'
<1> USE DEF memVars, dbVars, archiveVars, histVars, senderVars, replayVars
<1>1. ASSUME NEW e \in Event, ClientAppends(e) PROVE LinesInv'
  <2>1. client'[e] = "newline"
    BY <1>1 DEF ClientAppends, TypeInv, TypeOK
  <2>2. ~AppendLockFree'
    BY <2>1 DEF AppendLockFree
  <2>3. active \in File
    BY DEF TypeInv, TypeOK
  <2>4. /\ AppendLockFree /\ active' = AppendJson(active, e)
        /\ UNCHANGED <<recovering, torn>>
    BY <1>1 DEF ClientAppends
  <2>5. active.tail = {} => active'.junk = active.junk /\ ~active'.glued
    BY <2>3, <2>4 DEF AppendJson, File
  <2> QED
    BY <2>2, <2>4, <2>5 DEF LinesInv
<1>2. ASSUME NEW e \in Event, ClientTerminatesLine(e) PROVE LinesInv'
  <2>1. active' = EndLine(active) /\ UNCHANGED <<recovering, torn>>
    BY <1>2 DEF ClientTerminatesLine
  <2> QED
    BY <2>1 DEF LinesInv, EndLine
<1>3. ASSUME NEW e \in Event, ClientGivesUp(e) PROVE LinesInv'
  <2>1. CASE client[e] = "newline"
    BY <1>3, <2>1 DEF ClientGivesUp, LinesInv
  <2>2. CASE client[e] # "newline"
    <3>1. AppendLockFree' => AppendLockFree
      BY <1>3, <2>2 DEF ClientGivesUp, AppendLockFree, TypeInv, TypeOK
    <3> QED
      BY <1>3, <2>2, <3>1 DEF ClientGivesUp, LinesInv
  <2> QED BY <2>1, <2>2
<1>4. ASSUME NEW e \in Event, SendAccepted(e) \/ Accept(e) \/ Ingest(e) PROVE LinesInv'
  <2>1. UNCHANGED <<client, flushPc, active, recovering, torn>>
    BY <1>4 DEF SendAccepted, Accept, Ingest
  <2> QED BY <2>1 DEF LinesInv, AppendLockFree
<1>5. ASSUME NEW e \in Event, SendFails(e) PROVE LinesInv'
  <2>1. AppendLockFree' => AppendLockFree
    BY <1>5 DEF SendFails, AppendLockFree, TypeInv, TypeOK
  <2> QED
    BY <1>5, <2>1 DEF SendFails, LinesInv
<1>6. CASE FlushAppends
  <2>1. ~AppendLockFree'
    BY <1>6 DEF FlushAppends, AppendLockFree
  <2>2. active \in File
    BY DEF TypeInv, TypeOK
  <2>3. /\ AppendLockFree /\ active' = AppendJson(active, Head(batch))
        /\ UNCHANGED <<recovering, torn>>
    BY <1>6 DEF FlushAppends
  <2>4. active.tail = {} => active'.junk = active.junk /\ ~active'.glued
    BY <2>2, <2>3 DEF AppendJson, File
  <2> QED
    BY <2>1, <2>3, <2>4 DEF LinesInv
<1>7. CASE FlushTerminatesLine
  <2>1. active' = EndLine(active) /\ UNCHANGED <<recovering, torn>>
    BY <1>7 DEF FlushTerminatesLine
  <2> QED
    BY <2>1 DEF LinesInv, EndLine
<1>8. CASE FlushNext /\ ~FlushAppends /\ ~FlushTerminatesLine
  <2>1. CASE FlushAppendFails /\ flushPc = "newline"
    BY <2>1 DEF FlushAppendFails, LinesInv
  <2>2. CASE ~(FlushAppendFails /\ flushPc = "newline")
    <3>1. UNCHANGED <<client, active, recovering>> /\ flushPc # "newline"
      BY <1>8, <2>2 DEF FlushNext, FlushBegin, FlushInsert, FlushInsertFails,
                        FlushSessionFails, FlushAppendFails, FlushEnd
    <3>2. torn => torn'
      BY <1>8, <2>2 DEF FlushNext, FlushBegin, FlushInsert, FlushInsertFails,
                        FlushSessionFails, FlushAppendFails, FlushEnd
    <3> QED BY <3>1, <3>2 DEF LinesInv, AppendLockFree
  <2> QED BY <2>1, <2>2
<1>9. CASE Start
  <2>1. active' = EmptyFile /\ torn' = torn /\ recovering' \subseteq recovering \cup {EndLine(active)}
    BY <1>9 DEF Start
  <2>2. ~torn => EndLine(active).junk = {} /\ ~EndLine(active).glued
    BY DEF LinesInv, EndLine, TypeInv, TypeOK, File
  <2> QED
    BY <2>1, <2>2 DEF LinesInv, EmptyFile
<1>10. CASE Crash
  <2>1. CASE flushPc = "newline"
    BY <1>10, <2>1 DEF Crash, LinesInv
  <2>2. CASE flushPc # "newline"
    BY <1>10, <2>2 DEF Crash, LinesInv, AppendLockFree
  <2> QED BY <2>1, <2>2
<1>11. CASE LifecycleNext /\ ~Start /\ ~Crash
  <2>1. UNCHANGED <<client, flushPc, active, recovering, torn>>
    BY <1>11 DEF LifecycleNext, Shutdown, StopAccepting, FlusherExits, JoinConnections,
                 JoinFlusher, Exit, StartUnrecovered
  <2> QED BY <2>1 DEF LinesInv, AppendLockFree
<1>12. CASE RecoveryNext
  <2>1. UNCHANGED <<client, flushPc, active, torn>> /\ recovering' \subseteq recovering
    BY <1>12 DEF RecoveryNext, OpenFile, ReplayLine, ReplayLineFails, ArchiveFile,
                 RecoveryAborts, RecoveryEnds
  <2> QED BY <2>1 DEF LinesInv, AppendLockFree
<1>13. CASE UNCHANGED vars
  BY <1>13 DEF vars, LinesInv, AppendLockFree
<1> QED
  BY <1>1, <1>2, <1>3, <1>4, <1>5, <1>6, <1>7, <1>8, <1>9, <1>10, <1>11, <1>12, <1>13
  DEF Next, SenderNext

\* Two appenders never interleave inside a line of the fallback file (lock_fallback,
\* write_fallback_jsonl).
THEOREM LinesIntactAlways == Spec => []LinesIntact
<1>1. Init => LinesInv
  BY DEF Init, LinesInv, EmptyFile
<1>2. TypeInv /\ LinesInv /\ [Next]_vars => LinesInv'
  BY LinesInvStep
<1>3. LinesInv => LinesIntact
  BY DEF LinesInv, LinesIntact
<1> QED
  BY <1>1, <1>2, <1>3, TypeInvInit, TypeInvStep, PTL DEF Spec


-----------------------------------------------------------------------------
(***************************************************************************)
(* The capture path keeps the promise of Delivery. Three more facts carry  *)
(* the steps: a file that is being replayed is a claimed one, a process    *)
(* that has ended has left nothing in its buffer, and (FlushInv, above) an *)
(* envelope between the two writes of its append is durable.               *)
(***************************************************************************)

ReplayOpen ==
  /\ replay # NoReplay => /\ replay.file \in recovering \ files
                          /\ replay.todo \subseteq Contents(replay.file)
  /\ files \subseteq recovering
  /\ phase # "recovering" => replay = NoReplay /\ files = {}

DownEmpty == phase = "down" => buffer = << >> /\ batch = << >>

\* A file leaves the claimed ones only when its replay has ended.
LEMMA ReplayOpenStep ==
  ASSUME TypeInv, ReplayOpen, [Next]_vars
  PROVE  ReplayOpen'
<1> USE DEF ReplayOpen
<1>1. CASE ~LifecycleNext /\ ~RecoveryNext
  <2>1. UNCHANGED <<recovering, replay, files, phase>>
    BY <1>1, ReplayUntouched
  <2> QED BY <2>1
<1>2. CASE Start
  BY <1>2 DEF Start
<1>3. CASE Crash
  BY <1>3 DEF Crash
<1>4. CASE LifecycleNext /\ ~Start /\ ~Crash
  <2>1. UNCHANGED <<recovering, replay, files>> /\ phase # "recovering"
    BY <1>4 DEF LifecycleNext, Shutdown, StopAccepting, FlusherExits, JoinConnections,
                JoinFlusher, Exit, StartUnrecovered, archiveVars, replayVars
  <2> QED BY <2>1
<1>5. ASSUME NEW f \in files, OpenFile(f) PROVE ReplayOpen'
  BY <1>5 DEF OpenFile, archiveVars, Contents
<1>6. ASSUME NEW e \in replay.todo,
             UNCHANGED <<recovering, files, phase>>, phase = "recovering",
             replay' \in {[replay EXCEPT !.todo = @ \ {e}],
                          [replay EXCEPT !.todo = @ \ {e}, !.err = TRUE]}
      PROVE ReplayOpen'
  <2>1. replay # NoReplay
    BY <1>6 DEF NoReplay
  <2>2. replay \in [file : File, todo : SUBSET Event, err : BOOLEAN]
    BY DEF TypeInv, TypeOK
  <2>3. replay'.file = replay.file /\ replay'.todo \subseteq replay.todo
    <3>1. CASE replay' = [replay EXCEPT !.todo = @ \ {e}]
      BY <2>2, <3>1
    <3>2. CASE replay' = [replay EXCEPT !.todo = @ \ {e}, !.err = TRUE]
      BY <2>2, <3>2
    <3> QED BY <1>6, <3>1, <3>2
  <2>4. replay.todo \subseteq Contents(replay.file) /\ replay.file \in recovering \ files
    BY <2>1
  <2>5. replay'.todo \subseteq Contents(replay'.file)
    BY <2>3, <2>4
  <2> QED BY <1>6, <2>3, <2>4, <2>5
<1>7. ASSUME NEW e \in Event, ReplayLine(e) \/ ReplayLineFails(e) PROVE ReplayOpen'
  BY <1>6, <1>7 DEF ReplayLine, ReplayLineFails, archiveVars
<1>8. CASE ArchiveFile
  BY <1>8 DEF ArchiveFile
<1>9. CASE RecoveryAborts \/ RecoveryEnds
  BY <1>9 DEF RecoveryAborts, RecoveryEnds, archiveVars, replayVars
<1> QED
  BY <1>1, <1>2, <1>3, <1>4, <1>5, <1>7, <1>8, <1>9 DEF RecoveryNext

LEMMA ReplayOpenInit == Init => ReplayOpen
BY DEF Init, ReplayOpen

(***************************************************************************)
(* That a recovery without an error leaves nothing behind: while it runs,  *)
(* each claimed file is still on its list or the one it is replaying.      *)
(***************************************************************************)
AllListed ==
  /\ \A f \in recovering : f # EmptyFile
  /\ phase = "recovering" => recovering \subseteq files \cup {replay.file}
  /\ RecoveryComplete

LEMMA AllListedStep ==
  ASSUME TypeInv, ReplayOpen, AllListed, [Next]_vars
  PROVE  AllListed'
<1> USE DEF AllListed, RecoveryComplete, Running
<1>1. CASE ~LifecycleNext /\ ~RecoveryNext
  <2>1. UNCHANGED <<recovering, replay, files, phase, aborted>>
    BY <1>1, ReplayUntouched
  <2> QED BY <2>1
<1>2. CASE Start
  <2>1. Contents(active) # {} => EndLine(active) # EmptyFile
    BY EndLineEffect, EmptyFileEffect DEF TypeInv, TypeOK
  <2> QED BY <1>2, <2>1 DEF Start
<1>3. CASE Crash
  BY <1>3 DEF Crash, archiveVars
<1>4. CASE LifecycleNext /\ ~Start /\ ~Crash
  <2>1. /\ UNCHANGED recovering
        /\ phase' # "recovering"
        /\ \/ UNCHANGED aborted /\ phase \in {"up", "signalled", "draining", "joined", "final"}
           \/ aborted'
    BY <1>4 DEF LifecycleNext, Shutdown, StopAccepting, FlusherExits, JoinConnections,
                JoinFlusher, Exit, StartUnrecovered, archiveVars, replayVars
  <2> QED BY <2>1
<1>5. ASSUME NEW f \in files, OpenFile(f) PROVE AllListed'
  <2>1. replay.file = EmptyFile /\ replay'.file = f /\ files' = files \ {f}
    BY <1>5 DEF OpenFile, NoReplay
  <2> QED BY <1>5, <2>1 DEF OpenFile, archiveVars
<1>6. ASSUME NEW e \in Event, ReplayLine(e) \/ ReplayLineFails(e) PROVE AllListed'
  <2>1. replay'.file = replay.file
    BY <1>6 DEF ReplayLine, ReplayLineFails, TypeInv, TypeOK
  <2> QED BY <1>6, <2>1 DEF ReplayLine, ReplayLineFails, archiveVars
<1>7. CASE ArchiveFile
  BY <1>7 DEF ArchiveFile
<1>8. CASE RecoveryAborts
  BY <1>8 DEF RecoveryAborts, archiveVars
<1>9. CASE RecoveryEnds
  <2>1. replay.file = EmptyFile /\ files = {}
    BY <1>9 DEF RecoveryEnds, NoReplay
  <2> QED BY <1>9, <2>1 DEF RecoveryEnds, archiveVars, replayVars
<1> QED
  BY <1>1, <1>2, <1>3, <1>4, <1>5, <1>6, <1>7, <1>8, <1>9 DEF RecoveryNext

\* Once the daemon serves, a recovery that met no error has left no fallback file behind,
\* also none of those an interrupted or aborted recovery had claimed
\* (recover_fallback_files).
THEOREM RecoveryCompleteAlways == Spec => []RecoveryComplete
<1>1. Init => AllListed
  BY DEF Init, AllListed, RecoveryComplete
<1>2. AllListed => RecoveryComplete
  BY DEF AllListed
<1> QED
  BY <1>1, <1>2, AllListedStep, ReplayOpenInit, ReplayOpenStep, TypeInvInit, TypeInvStep, PTL
  DEF Spec
-----------------------------------------------------------------------------
\* Only a running process takes an envelope or flushes one, and it exits with nothing left.
LEMMA DownEmptyStep ==
  ASSUME TypeInv, DownEmpty, FlushInv, [Next]_vars
  PROVE  DownEmpty'
<1> USE DEF DownEmpty, memVars, dbVars, archiveVars, histVars, senderVars, replayVars
<1>1. ASSUME NEW e \in Event, SenderNext(e) \/ Accept(e) \/ Ingest(e) PROVE DownEmpty'
  BY <1>1 DEF SenderNext, SendAccepted, SendFails, ClientAppends, ClientTerminatesLine,
              ClientGivesUp, Accept, Ingest
<1>2. CASE FlushNext
  <2>1. phase' = phase
    BY <1>2 DEF FlushNext, FlushBegin, FlushInsert, FlushInsertFails, FlushSessionFails,
                FlushAppends, FlushTerminatesLine, FlushAppendFails, FlushEnd
  <2>2. buffer # << >> \/ batch # << >> \/ UNCHANGED <<buffer, batch>>
    BY <1>2 DEF FlushNext, FlushBegin, FlushInsert, FlushInsertFails, FlushSessionFails,
                FlushAppends, FlushTerminatesLine, FlushAppendFails, FlushEnd, TypeInv
  <2> QED BY <2>1, <2>2
<1>3. CASE LifecycleNext
  BY <1>3 DEF LifecycleNext, Shutdown, StopAccepting, FlusherExits, JoinConnections,
              JoinFlusher, Exit, Crash, Start, StartUnrecovered, FlushInv
<1>4. CASE RecoveryNext
  BY <1>4 DEF RecoveryNext, OpenFile, ReplayLine, ReplayLineFails, ArchiveFile,
              RecoveryAborts, RecoveryEnds
<1>5. CASE UNCHANGED vars
  BY <1>5 DEF vars
<1> QED
  BY <1>1, <1>2, <1>3, <1>4, <1>5 DEF Next

\* What the refinement rests on
PromiseInv == TypeInv /\ ReplayInv /\ AcceptedInv /\ OneRowOneJob /\ ReplayOpen /\ DownEmpty

LEMMA SameHeld ==
  ASSUME UNCHANGED <<buffer, batch>>, phase' = "down" <=> phase = "down"
  PROVE  Held' = Held
BY DEF Held, InMemory

LEMMA SameKept ==
  ASSUME TypeInv, UNCHANGED <<recovering, partial>>,
         active' = active \/ active' = EndLine(active)
  PROVE  Kept' = Kept
BY EndLineEffect DEF Kept, Claims, TypeInv, TypeOK

\* An envelope that leaves the batch leaves memory, unless it was taken twice.
LEMMA HeadLeaves ==
  ASSUME PromiseInv, batch # << >>, batch' = Tail(batch), UNCHANGED <<buffer, phase>>
  PROVE  /\ Head(batch) \in Event /\ Head(batch) \in Held
         /\ Held' \in {Held, Held \ {Head(batch)}}
<1>1. batch \in Seq(Event)
  BY DEF PromiseInv, TypeInv, TypeOK
<1>2. Head(batch) \in Event /\ Elems(batch) = {Head(batch)} \cup Elems(Tail(batch))
  BY <1>1, ElemsHeadTail
<1>3. phase # "down" /\ phase' # "down"
  BY DEF PromiseInv, DownEmpty
<1>4. Held = InMemory /\ Held' = InMemory'
  BY <1>3 DEF Held
<1>5. InMemory = {Head(batch)} \cup InMemory'
  BY <1>2 DEF InMemory
<1> QED
  BY <1>2, <1>4, <1>5

\* An insert stores an envelope that has been taken or kept, or finds it stored.
LEMMA InsertStores ==
  ASSUME PromiseInv, NEW e \in Event, InsertRow(e), e \in Held \cup Kept, Kept' = Kept,
         Held' \in {Held, Held \ {e}}, UNCHANGED <<unsaved, stops>>
  PROVE  [Promise!Next]_(Promise!abstractVars)
<1> USE DEF PromiseInv, TypeInv, TypeOK
<1>1. CASE rows[e] > 0
  <2>1. UNCHANGED <<rows, queue>>
    BY <1>1 DEF InsertRow
  <2>2. CASE Held' = Held
    BY <2>1, <2>2 DEF Promise!abstractVars
  <2>3. CASE Held' = Held \ {e}
    BY <1>1, <2>1, <2>3 DEF Promise!Next, Promise!Release, Promise!Durable
  <2> QED BY <2>2, <2>3
<1>2. CASE ~(rows[e] > 0)
  <2>1. rows[e] = 0 /\ queue[e] = 0
    BY <1>2 DEF OneRowOneJob
  <2>2. rows' = [rows EXCEPT ![e] = 1] /\ queue' = [queue EXCEPT ![e] = IF e \in Probe THEN 0 ELSE 1]
    BY <1>2, <2>1 DEF InsertRow
  <2> QED
    BY <2>1, <2>2 DEF Promise!Next, Promise!Store
<1> QED BY <1>1, <1>2

\* Senders and connections keep envelopes in the file and hand them to the daemon.
LEMMA PromiseSender ==
  ASSUME PromiseInv, NEW e \in Event, SenderNext(e) \/ Accept(e) \/ Ingest(e)
  PROVE  [Promise!Next]_(Promise!abstractVars)
<1> USE DEF memVars, dbVars, archiveVars, histVars, senderVars, replayVars, PromiseInv
<1>1. UNCHANGED <<batch, phase, recovering, partial, rows, queue, unsaved, stops>>
  BY DEF SenderNext, SendAccepted, SendFails, ClientAppends, ClientTerminatesLine,
         ClientGivesUp, Accept, Ingest
<1>2. CASE ClientAppends(e)
  <2>1. Held' = Held
    BY <1>1, <1>2, SameHeld DEF ClientAppends
  <2>2. Kept' = Kept \cup {e}
    BY <1>1, <1>2, AppendEffect DEF ClientAppends, Kept, Claims, TypeInv, TypeOK
  <2> QED BY <1>1, <2>1, <2>2 DEF Promise!Next, Promise!Keep
<1>3. CASE Ingest(e) /\ buffer' # buffer
  <2>1. Kept' = Kept
    BY <1>1, <1>3, SameKept DEF Ingest
  <2>2. buffer' = Append(buffer, e) /\ phase # "down" /\ buffer \in Seq(Event)
    BY <1>3 DEF Ingest, TypeInv, TypeOK
  <2>3. Held' = Held \cup {e}
    BY <1>1, <2>2, ElemsAppend DEF Held, InMemory
  <2> QED BY <1>1, <2>1, <2>3 DEF Promise!Next, Promise!Take
<1>4. CASE ~ClientAppends(e) /\ ~(Ingest(e) /\ buffer' # buffer)
  <2>1. buffer' = buffer /\ (active' = active \/ active' = EndLine(active))
    BY <1>4 DEF SenderNext, SendAccepted, SendFails, ClientTerminatesLine,
                ClientGivesUp, Accept, Ingest
  <2> QED BY <1>1, <2>1, SameHeld, SameKept DEF Promise!abstractVars
<1> QED BY <1>2, <1>3, <1>4

\* A flush lets go of an envelope only when it is stored, on a line of the file, or
\* reported.
LEMMA PromiseFlush ==
  ASSUME PromiseInv, FlushNext
  PROVE  [Promise!Next]_(Promise!abstractVars)
<1> USE DEF memVars, dbVars, archiveVars, histVars, senderVars, replayVars, PromiseInv
<1>1. UNCHANGED <<phase, recovering, partial, stops>>
  BY DEF FlushNext, FlushBegin, FlushInsert, FlushInsertFails, FlushSessionFails, FlushAppends,
         FlushTerminatesLine, FlushAppendFails, FlushEnd
<1>2. CASE FlushBegin
  <2> DEFINE n == IF Len(buffer) < BatchSize THEN Len(buffer) ELSE BatchSize
  <2>1. buffer \in Seq(Event) /\ n \in 0..Len(buffer)
    BY CaptureAssumption, LenProperties DEF TypeInv, TypeOK
  <2>2. batch' = SubSeq(buffer, 1, n) /\ buffer' = SubSeq(buffer, n + 1, Len(buffer))
    BY <1>2 DEF FlushBegin
  <2>3. Elems(buffer) = Elems(batch') \cup Elems(buffer')
    BY <2>1, <2>2, ElemsSplit
  <2>4. Elems(batch) = {}
    BY <1>2, EmptySeq DEF FlushBegin, AcceptedInv, FlushInv, Elems
  <2>5. Held' = Held
    BY <1>1, <2>3, <2>4 DEF Held, InMemory
  <2>6. Kept' = Kept /\ UNCHANGED <<rows, queue, unsaved>>
    BY <1>1, <1>2, SameKept DEF FlushBegin
  <2> QED BY <1>1, <2>5, <2>6 DEF Promise!abstractVars
<1>3. CASE FlushInsert
  <2>1. /\ InsertRow(Head(batch))
        /\ batch # << >> /\ batch' = Tail(batch) /\ UNCHANGED <<buffer, active, unsaved>>
    BY <1>3 DEF FlushInsert
  <2>2. /\ Head(batch) \in Event /\ Head(batch) \in Held
        /\ Held' \in {Held, Held \ {Head(batch)}}
    BY <1>1, <2>1, HeadLeaves
  <2>3. Kept' = Kept
    BY <1>1, <2>1, SameKept
  <2> QED BY <1>1, <2>1, <2>2, <2>3, InsertStores
<1>4. CASE FlushAppends
  <2>1. batch # << >> /\ batch \in Seq(Event)
    BY <1>4 DEF FlushAppends, TypeInv, TypeOK
  <2>2. Head(batch) \in Event
    BY <2>1, ElemsHeadTail
  <2>3. Kept' = Kept \cup {Head(batch)}
    BY <1>1, <1>4, <2>2, AppendEffect DEF FlushAppends, Kept, Claims, TypeInv, TypeOK
  <2>4. Held' = Held /\ UNCHANGED <<rows, queue, unsaved>>
    BY <1>1, <1>4, SameHeld DEF FlushAppends
  <2> QED BY <1>1, <2>2, <2>3, <2>4 DEF Promise!Next, Promise!Keep
<1>5. CASE FlushTerminatesLine
  <2>1. batch # << >> /\ batch' = Tail(batch) /\ UNCHANGED <<buffer, rows, queue, unsaved>>
    BY <1>5 DEF FlushTerminatesLine, TypeInv
  <2>2. /\ Head(batch) \in Event
        /\ Held' \in {Held, Held \ {Head(batch)}}
    BY <1>1, <2>1, HeadLeaves
  <2>3. Kept' = Kept
    BY <1>1, <1>5, SameKept DEF FlushTerminatesLine
  <2>4. Promise!Durable(Head(batch))
    BY <1>5 DEF FlushTerminatesLine, AcceptedInv, FlushInv, Durable, Stored, Promise!Durable
  <2> QED
    BY <1>1, <2>1, <2>2, <2>3, <2>4 DEF Promise!Next, Promise!Release, Promise!abstractVars
<1>6. CASE FlushAppendFails
  <2>1. /\ batch # << >> /\ batch' = Tail(batch) /\ UNCHANGED <<buffer, active, rows, queue>>
        /\ unsaved' = unsaved \cup {Head(batch)}
    BY <1>6 DEF FlushAppendFails, TypeInv
  <2>2. /\ Head(batch) \in Event /\ Head(batch) \in Held
        /\ Held' \in {Held, Held \ {Head(batch)}}
    BY <1>1, <2>1, HeadLeaves
  <2>3. Kept' = Kept
    BY <1>1, <2>1, SameKept
  <2> QED BY <1>1, <2>1, <2>2, <2>3 DEF Promise!Next, Promise!ReportLost
<1>7. CASE FlushInsertFails \/ FlushSessionFails \/ FlushEnd
  <2>1. UNCHANGED <<buffer, batch, active, rows, queue, unsaved>>
    BY <1>7 DEF FlushInsertFails, FlushSessionFails, FlushEnd
  <2> QED BY <1>1, <2>1, SameHeld, SameKept DEF Promise!abstractVars
<1> QED
  BY <1>2, <1>3, <1>4, <1>5, <1>6, <1>7 DEF FlushNext

\* Only a kill forgets what is in memory: a shutdown ends with an empty buffer, and a
\* start renames the fallback file with all that is in it.
LEMMA PromiseLifecycle ==
  ASSUME PromiseInv, LifecycleNext
  PROVE  [Promise!Next]_(Promise!abstractVars)
<1> USE DEF memVars, dbVars, archiveVars, histVars, senderVars, replayVars, PromiseInv
<1>0. Elems(<< >>) = {}
  BY EmptySeq DEF Elems
<1>1. CASE Shutdown
  <2>1. /\ UNCHANGED <<buffer, batch, active, recovering, partial, rows, queue, unsaved>>
        /\ stops' = stops + 1 /\ phase # "down" /\ phase' # "down"
    BY <1>1 DEF Shutdown
  <2> QED BY <2>1, SameHeld, SameKept DEF Promise!Next, Promise!AskToStop
<1>2. CASE StopAccepting \/ FlusherExits \/ JoinConnections \/ JoinFlusher
  <2>1. /\ UNCHANGED <<buffer, batch, active, recovering, partial, rows, queue, unsaved, stops>>
        /\ phase # "down" /\ phase' # "down"
    BY <1>2 DEF StopAccepting, FlusherExits, JoinConnections, JoinFlusher
  <2> QED BY <2>1, SameHeld, SameKept DEF Promise!abstractVars
<1>3. CASE Exit
  <2>1. /\ UNCHANGED <<buffer, batch, active, recovering, partial, rows, queue, unsaved, stops>>
        /\ phase' = "down" /\ buffer = << >> /\ batch = << >>
    BY <1>3 DEF Exit, AcceptedInv, FlushInv
  <2>2. Held = {} /\ Held' = {}
    BY <1>0, <2>1 DEF Held, InMemory
  <2> QED BY <2>1, <2>2, SameKept DEF Promise!abstractVars
<1>4. CASE Crash
  <2>1. /\ UNCHANGED <<active, recovering, partial, rows, queue, unsaved>>
        /\ stops' = stops + 1 /\ phase' = "down"
    BY <1>4 DEF Crash
  <2>2. Held' = {}
    BY <2>1 DEF Held
  <2> QED BY <2>1, <2>2, SameKept DEF Promise!Next, Promise!Kill
<1>5. CASE Start \/ StartUnrecovered
  <2>1. /\ UNCHANGED <<buffer, batch, partial, rows, queue, unsaved, stops>>
        /\ phase = "down"
    BY <1>5 DEF Start, StartUnrecovered
  <2>2. Held = {} /\ Held' = {}
    BY <1>0, <2>1 DEF Held, InMemory, DownEmpty
  <2>3. Kept' = Kept
    <3>1. CASE Start
      <4>1. Contents(active) = Contents(EndLine(active))
        BY EndLineEffect DEF TypeInv, TypeOK
      <4>2. Claims' = Claims \cup Contents(active) /\ Contents(active') = {}
        BY <3>1, <4>1, EmptyFileEffect DEF Start, Claims
      <4> QED BY <2>1, <4>2 DEF Kept
    <3>2. CASE StartUnrecovered
      BY <3>2, SameKept DEF StartUnrecovered
    <3> QED BY <1>5, <3>1, <3>2
  <2> QED BY <2>1, <2>2, <2>3 DEF Promise!abstractVars
<1> QED
  BY <1>1, <1>2, <1>3, <1>4, <1>5 DEF LifecycleNext

\* A replay stores what is in a claimed file, and gives the file up as .done only when
\* all of it is stored.
LEMMA PromiseRecovery ==
  ASSUME PromiseInv, RecoveryNext
  PROVE  [Promise!Next]_(Promise!abstractVars)
<1> USE DEF memVars, dbVars, archiveVars, histVars, senderVars, replayVars, PromiseInv
<1>1. /\ UNCHANGED <<buffer, batch, active, unsaved, stops>>
      /\ phase # "down" /\ phase' # "down"
  BY DEF RecoveryNext, OpenFile, ReplayLine, ReplayLineFails, ArchiveFile, RecoveryAborts,
         RecoveryEnds
<1>2. Held' = Held
  BY <1>1, SameHeld
<1>3. ASSUME NEW e \in Event, ReplayLine(e) PROVE [Promise!Next]_(Promise!abstractVars)
  <2>1. e \in replay.todo /\ InsertRow(e) /\ UNCHANGED <<recovering, partial>>
    BY <1>3 DEF ReplayLine
  <2>2. replay # NoReplay
    BY <2>1 DEF NoReplay
  <2>3. e \in Kept
    BY <2>1, <2>2 DEF ReplayOpen, Kept, Claims
  <2>4. Kept' = Kept
    BY <1>1, <2>1, SameKept
  <2> QED BY <1>1, <1>2, <2>1, <2>3, <2>4, InsertStores
<1>4. CASE ArchiveFile
  <2>1. /\ replay.file \in recovering /\ recovering' = recovering \ {replay.file}
        /\ UNCHANGED <<rows, queue>> /\ replay.todo = {}
        /\ partial' = IF replay.err THEN partial \cup Contents(replay.file) ELSE partial
    BY <1>4 DEF ArchiveFile, ReplayOpen
  <2>2. /\ Claims' \subseteq Claims /\ Contents(replay.file) \subseteq Claims
        /\ Claims \subseteq Claims' \cup Contents(replay.file)
    BY <2>1 DEF Claims
  <2>3. Kept' \subseteq Kept /\ Kept \ Kept' \subseteq Stored
    BY <1>1, <2>1, <2>2, ReplayedIsStored DEF Kept
  <2>4. Kept \subseteq Event
    <3>1. active \in File /\ recovering \subseteq File /\ partial \subseteq Event
      BY DEF TypeInv, TypeOK
    <3>2. \A f \in File : Contents(f) \subseteq Event
      BY EndLineEffect
    <3> QED BY <3>1, <3>2 DEF Kept, Claims
  <2> DEFINE S == Kept \ Kept'
  <2>5. S \in SUBSET Event /\ Kept' = Kept \ S /\ \A e \in S : rows[e] > 0
    BY <2>3, <2>4 DEF Stored
  <2>6. Promise!Archive(S)
    BY <1>1, <1>2, <2>1, <2>5 DEF Promise!Archive
  <2> QED BY <2>5, <2>6 DEF Promise!Next
<1>5. ASSUME UNCHANGED <<rows, queue, recovering, partial>>
      PROVE [Promise!Next]_(Promise!abstractVars)
  BY <1>1, <1>2, <1>5, SameKept DEF Promise!abstractVars
<1>6. CASE \E f \in files : OpenFile(f)
  BY <1>5, <1>6 DEF OpenFile
<1>7. ASSUME NEW e \in Event, ReplayLineFails(e) PROVE [Promise!Next]_(Promise!abstractVars)
  BY <1>5, <1>7 DEF ReplayLineFails
<1>8. CASE RecoveryAborts \/ RecoveryEnds
  BY <1>5, <1>8 DEF RecoveryAborts, RecoveryEnds
<1> QED
  BY <1>3, <1>4, <1>6, <1>7, <1>8 DEF RecoveryNext

\* What Delivery promises, the capture path does: no interleaving of senders, flushes,
\* failures, shutdowns, crashes and recoveries loses, duplicates or invents an envelope
\* other than by a kill or a failure that is reported.
THEOREM DeliversAlways == Spec => Delivers
<1>1. Init => Promise!Init /\ PromiseInv
  <2> SUFFICES ASSUME Init PROVE Promise!Init /\ PromiseInv
    OBVIOUS
  <2>1. PromiseInv
    <3>1. AcceptedInv /\ OneRowOneJob /\ ReplayOpen /\ DownEmpty
      BY DEF Init, AcceptedInv, AcceptedSafe, FlushInv, OneRowOneJob, ReplayOpen, DownEmpty
    <3> QED BY <3>1, TypeInvInit, ReplayInvInit DEF PromiseInv
  <2>2. Held = {}
    BY DEF Init, Held
  <2>3. Kept = {}
    BY EmptyFileEffect DEF Init, Kept, Claims
  <2> QED BY <2>1, <2>2, <2>3 DEF Init, Promise!Init
<1>2. PromiseInv /\ [Next]_vars => [Promise!Next]_(Promise!abstractVars)
  <2> SUFFICES ASSUME PromiseInv, [Next]_vars PROVE [Promise!Next]_(Promise!abstractVars)
    OBVIOUS
  <2>1. CASE UNCHANGED vars
    BY <2>1 DEF vars, Promise!abstractVars, Held, InMemory, Kept, Claims
  <2> QED
    BY <2>1, PromiseSender, PromiseFlush, PromiseLifecycle, PromiseRecovery DEF Next
<1>3. PromiseInv /\ [Next]_vars => PromiseInv'
  <2> SUFFICES ASSUME PromiseInv, [Next]_vars PROVE PromiseInv'
    OBVIOUS
  <2> USE DEF PromiseInv
  <2>1. TypeInv' /\ ReplayInv' /\ ReplayOpen'
    BY TypeInvStep, ReplayInvStep, ReplayOpenStep
  <2>2. AcceptedInv'
    BY AcceptedFlush, AcceptedOther
  <2>3. OneRowOneJob'
    <3>1. CASE UNCHANGED <<rows, queue>>
      BY <3>1 DEF OneRowOneJob
    <3> QED BY <3>1, RowsStep, InsertRowEffect DEF TypeInv, TypeOK
  <2>4. DownEmpty'
    BY DownEmptyStep DEF AcceptedInv
  <2> QED BY <2>1, <2>2, <2>3, <2>4
<1> QED
  BY <1>1, <1>2, <1>3, PTL DEF Spec, Delivers, Promise!Spec
=============================================================================
