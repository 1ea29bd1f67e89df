---------------------------- MODULE SessionWatcher ----------------------------
(***************************************************************************)
(* The watcher of Claude session transcripts. Claude Code appends to       *)
(* transcripts, sometimes truncates or replaces them, and rewrites their   *)
(* meta.json. The watcher remembers per file what it has ingested, in      *)
(* memory and in agentic_session_offsets; notifications may be dropped, a  *)
(* walk of the directory every 30 s finds what they missed. One loop       *)
(* processes one file at a time, each in a blocking worker that the loop   *)
(* gives up on after a timeout and that goes on nevertheless. The backfill *)
(* command ingests the same files from a process of its own.               *)
(***************************************************************************)
EXTENDS Naturals, FiniteSets, SequencesExt

CONSTANTS
  File,          \* transcripts
  NoFile,
  NewSize,       \* sizes a new file may arrive with
  Stuck,         \* transcripts whose parser may hang for ever
  ChannelCap,    \* 256 in the source: capacity of the notification channel
  MaxWrites,     \* bound: changes of each file
  MaxFaults,     \* bound: failed ingests
  MaxStops,      \* bound: crashes and stops of the watcher
  MaxBackfills   \* bound: files ingested by the backfill command

ASSUME WatcherAssumption ==
  /\ IsFiniteSet(File) /\ NoFile \notin File
  /\ NewSize \subseteq Nat \ {0} /\ Stuck \subseteq File
  /\ ChannelCap \in Nat
  /\ MaxWrites \in [File -> Nat] /\ MaxFaults \in Nat /\ MaxStops \in Nat /\ MaxBackfills \in Nat

VARIABLES
  (* the file system *)
  disk,        \* disk[f]: inode (0: no such file), size, versions of the text and of meta.json
  (* the watcher's memory *)
  up,          \* the process runs
  states,      \* states[f]: its FileState
  notes,       \* the notification channel
  found,       \* the discovery channel: what the last walk found, until it is taken
  pending,     \* pending_reconciliation
  call,        \* the call of process_file that awaits its worker
  outcome,     \* what that worker returned
  workers,     \* the blocking workers
  (* SQLite *)
  saved,       \* agentic_session_offsets
  ingested,    \* ingested[f]: which text and which meta.json agentic_sessions holds
  (* the backfill command *)
  backfill,
  (* history, and the counters of the bounds *)
  rewritten,   \* files truncated since they were created
  backfilled,  \* files the backfill command has touched
  writes, faults, stops

diskVars == <<disk, rewritten, writes>>
loopVars == <<pending, call, outcome>>
dbVars == <<saved, ingested>>
backfillVars == <<backfill, backfilled>>
vars == <<disk, up, states, notes, found, pending, call, outcome, workers, saved, ingested,
          backfill, rewritten, backfilled, writes, faults, stops>>

\* byte_offset is left out: it equals the size but in a row the backfill has reset,
\* where it makes no difference. `seen` is last_ingest_ms: the number of meta.json
\* writes before that moment.
Row == [size : Nat, inode : Nat, seen : Nat]
NoRow == [size |-> 0, inode |-> 0, seen |-> 0]

FileState == [size : Nat, inode : Nat, seen : Nat, cooldown : BOOLEAN, metaChanged : BOOLEAN]
Loaded(row) == [size |-> row.size, inode |-> row.inode, seen |-> row.seen,
                cooldown |-> FALSE, metaChanged |-> FALSE]

Info == [inode : Nat, size : Nat, ver : Nat, meta : Nat]
Note == File \X {"text", "meta"}
Worker == [file : File, size : Nat, inode : Nat, seen : Nat, ver : Nat, meta : Nat,
           pc : {"parse", "insert", "save"}]

NoCall == [file |-> NoFile, size |-> 0, seen |-> 0]
NoBackfill == [file |-> NoFile, ver |-> 0, meta |-> 0, pc |-> "none"]

Present == {f \in File : disk[f].inode # 0}

-----------------------------------------------------------------------------
(* The file system and its notifications *)

\* (variant for the mutation checks: an unbounded channel)
NotifyUnbounded(f, kind) ==
  notes' \in {notes, IF up THEN Append(notes, <<f, kind>>) ELSE notes}

\* try_send: dropped when the channel is full; the system may also lose or coalesce it.
Notify(f, kind) ==
  \/ UNCHANGED notes
  \/ up /\ Len(notes) < ChannelCap /\ notes' = Append(notes, <<f, kind>>)

ChangeFile(f, d) ==
  /\ writes[f] < MaxWrites[f]
  /\ disk' = [disk EXCEPT ![f] = d]
  /\ writes' = [writes EXCEPT ![f] = @ + 1]
  /\ UNCHANGED <<up, states, found, loopVars, workers, dbVars, backfillVars, faults, stops>>

\* Created, or replaced by a rename.
NewFile(f, n) ==
  /\ ChangeFile(f, [disk[f] EXCEPT !.inode = @ + 1, !.size = n, !.ver = @ + 1])
  /\ rewritten' = rewritten \ {f}
  /\ Notify(f, "text")

AppendText(f) ==
  /\ f \in Present
  /\ ChangeFile(f, [disk[f] EXCEPT !.size = @ + 1, !.ver = @ + 1])
  /\ Notify(f, "text")
  /\ UNCHANGED rewritten

Truncate(f) ==
  /\ f \in Present /\ disk[f].size > 0
  /\ ChangeFile(f, [disk[f] EXCEPT !.size = 0, !.ver = @ + 1])
  /\ rewritten' = rewritten \cup {f}
  /\ Notify(f, "text")

WriteMeta(f) ==
  /\ f \in Present
  /\ ChangeFile(f, [disk[f] EXCEPT !.meta = @ + 1])
  /\ Notify(f, "meta")
  /\ UNCHANGED rewritten

-----------------------------------------------------------------------------
(* maintain and ingest_events: what feeds the queue *)

\* The walk of the projects directory; the watch channel keeps the latest list.
Discover ==
  /\ up
  /\ found' = Present
  /\ UNCHANGED <<diskVars, up, states, notes, loopVars, workers, dbVars, backfillVars,
                 faults, stops>>

\* ingest_events selects only while no call of process_file is awaited.
Idle == up /\ call = NoCall

TakeFound ==
  /\ Idle /\ found # {}
  /\ \E s \in SetToSeqs(found \ ToSet(pending)) : pending' = pending \o s
  /\ found' = {}
  /\ UNCHANGED <<diskVars, up, states, notes, call, outcome, workers, dbVars, backfillVars,
                 faults, stops>>

\* queue_event_path
TakeNote ==
  /\ Idle /\ notes # <<>>
  /\ LET f == Head(notes)[1] IN
     /\ states' = IF Head(notes)[2] = "meta"
                  THEN [states EXCEPT ![f].metaChanged = TRUE] ELSE states
     /\ pending' = IF f \in ToSet(pending) THEN pending ELSE Append(pending, f)
  /\ notes' = Tail(notes)
  /\ UNCHANGED <<diskVars, up, found, call, outcome, workers, dbVars, backfillVars,
                 faults, stops>>

-----------------------------------------------------------------------------
(* process_file, up to its await *)

\* (variant for the mutation checks: a retry does not wait for the worker that timed out)
NeverInFlight(f) == FALSE

InFlight(f) == \E w \in workers : w.file = f

\* A worker that timed out must finish before another one starts, and a cooldown must
\* have passed.
Postpone ==
  /\ Idle /\ pending # <<>>
  /\ InFlight(Head(pending)) \/ states[Head(pending)].cooldown
  /\ pending' = Tail(pending)
  /\ UNCHANGED <<diskVars, up, states, notes, found, call, outcome, workers, dbVars,
                 backfillVars, faults, stops>>

\* (variant for the mutation checks: a file that was replaced is told by its size only)
CheckedBySize(f) ==
  LET s == states[f]
  IN  [s EXCEPT !.inode = disk[f].inode, !.size = IF disk[f].size < s.size THEN 0 ELSE @]

\* What process_file remembers after it has looked at the file's inode and size.
Checked(f) ==
  LET s == states[f]
      replaced == s.inode # 0 /\ s.inode # disk[f].inode
      truncated == disk[f].size < s.size
  IN  [s EXCEPT !.inode = disk[f].inode, !.size = IF replaced \/ truncated THEN 0 ELSE @]

MetaNewer(f) == disk[f].meta > states[f].seen

UpToDate(f) ==
  /\ disk[f].size <= Checked(f).size
  /\ ~states[f].metaChanged /\ ~MetaNewer(f)

Due(f) == /\ Idle /\ pending # <<>> /\ f = Head(pending)
          /\ ~InFlight(f) /\ ~states[f].cooldown

Ignore ==
  /\ \E f \in File : Due(f) /\ UpToDate(f) /\ states' = [states EXCEPT ![f] = Checked(f)]
  /\ pending' = Tail(pending)
  /\ UNCHANGED <<diskVars, up, notes, found, call, outcome, workers, dbVars, backfillVars,
                 faults, stops>>

\* The worker starts with the size that was looked up and with the present time, which
\* may be the millisecond of the last meta.json write.
Spawn(f, seen) ==
  /\ Due(f) /\ ~UpToDate(f)
  /\ seen + 1 >= disk[f].meta
  /\ states' = [states EXCEPT ![f] =
                  [Checked(f) EXCEPT !.metaChanged = @ \/ disk[f].size <= Checked(f).size]]
  /\ call' = [file |-> f, size |-> disk[f].size, seen |-> seen]
  /\ workers' = workers \cup
       {[file |-> f, size |-> disk[f].size, inode |-> disk[f].inode, seen |-> seen,
         ver |-> 0, meta |-> 0, pc |-> "parse"]}
  /\ pending' = Tail(pending)
  /\ UNCHANGED <<diskVars, up, notes, found, outcome, dbVars, backfillVars, faults, stops>>

ProcessNext ==
  \/ Postpone \/ Ignore
  \/ \E f \in File : \E seen \in 0..disk[f].meta : Spawn(f, seen)

-----------------------------------------------------------------------------
(* The blocking worker: parse, one transaction of upserts, one statement for the offset *)

\* The text that was read has segments unless it was empty.
Rows(f, r) == IF r.ver = 0 THEN ingested
              ELSE [ingested EXCEPT ![f] = [ver |-> r.ver, meta |-> r.meta]]

TextOf(f) == IF disk[f].size = 0 THEN 0 ELSE disk[f].ver

Parse(w) ==
  /\ w.pc = "parse"
  /\ workers' = (workers \ {w}) \cup
       {[w EXCEPT !.ver = TextOf(w.file), !.meta = disk[w.file].meta, !.pc = "insert"]}
  /\ UNCHANGED <<diskVars, up, states, notes, found, loopVars, dbVars, backfillVars,
                 faults, stops>>

Insert(w) ==
  /\ w.pc = "insert"
  /\ ingested' = Rows(w.file, w)
  /\ workers' = (workers \ {w}) \cup {[w EXCEPT !.pc = "save"]}
  /\ UNCHANGED <<diskVars, up, states, notes, found, loopVars, saved, backfillVars,
                 faults, stops>>

\* Only a call that still awaits the worker sees what it returns.
Return(w, result) ==
  /\ workers' = workers \ {w}
  /\ outcome' = IF call.file = w.file THEN result ELSE outcome
  /\ UNCHANGED <<diskVars, up, states, notes, found, pending, call, ingested, backfillVars,
                 stops>>

\* (variant for the mutation checks: the size is looked up when the offset is saved)
SavePresentSize(w) ==
  /\ w.pc = "save"
  /\ saved' = [saved EXCEPT ![w.file] =
                 [size |-> disk[w.file].size, inode |-> w.inode, seen |-> w.seen]]
  /\ Return(w, "ok")
  /\ UNCHANGED faults

Save(w) ==
  /\ w.pc = "save"
  /\ saved' = [saved EXCEPT ![w.file] = [size |-> w.size, inode |-> w.inode, seen |-> w.seen]]
  /\ Return(w, "ok")
  /\ UNCHANGED faults

\* save_offset fails: logged only.
SaveFails(w) ==
  /\ w.pc = "save"
  /\ Return(w, "ok")
  /\ UNCHANGED <<saved, faults>>

\* The database cannot be opened, the file cannot be read, the transaction stays busy,
\* or the worker panics: no offset is saved.
IngestFails(w) ==
  /\ w.pc \in {"parse", "insert"} /\ faults < MaxFaults
  /\ faults' = faults + 1
  /\ Return(w, "failed")
  /\ UNCHANGED saved

WorkerStep(w) == Parse(w) \/ Insert(w) \/ Save(w) \/ SaveFails(w) \/ IngestFails(w)

-----------------------------------------------------------------------------
(* process_file, after its await *)

\* (variant for the mutation checks: last_ingest_ms is the end of the ingest)
SucceededStampedLate ==
  /\ call # NoCall /\ outcome = "ok"
  /\ states' = [states EXCEPT ![call.file] =
                  [@ EXCEPT !.size = call.size, !.seen = disk[call.file].meta,
                            !.metaChanged = FALSE]]
  /\ call' = NoCall /\ outcome' = "none"
  /\ UNCHANGED <<diskVars, up, notes, found, pending, workers, dbVars, backfillVars,
                 faults, stops>>

Succeeded ==
  /\ call # NoCall /\ outcome = "ok"
  /\ states' = [states EXCEPT ![call.file] =
                  [@ EXCEPT !.size = call.size, !.seen = call.seen, !.metaChanged = FALSE]]
  /\ call' = NoCall /\ outcome' = "none"
  /\ UNCHANGED <<diskVars, up, notes, found, pending, workers, dbVars, backfillVars,
                 faults, stops>>

\* The worker failed, or PER_FILE_TIMEOUT has passed.
CoolDown ==
  /\ call # NoCall
  /\ states' = [states EXCEPT ![call.file].cooldown = TRUE]
  /\ call' = NoCall /\ outcome' = "none"
  /\ UNCHANGED <<diskVars, up, notes, found, pending, workers, dbVars, backfillVars,
                 faults, stops>>

\* (variant for the mutation checks: the offset advances although there were errors)
FailedAdvancing ==
  /\ call # NoCall /\ outcome = "failed"
  /\ states' = [states EXCEPT ![call.file].size = call.size]
  /\ call' = NoCall /\ outcome' = "none"
  /\ UNCHANGED <<diskVars, up, notes, found, pending, workers, dbVars, backfillVars,
                 faults, stops>>

Failed == outcome = "failed" /\ CoolDown

\* (variant for the mutation checks: the await has no timeout)
NeverTimedOut == FALSE

TimedOut == outcome = "none" /\ CoolDown

CooldownEnds(f) ==
  /\ states[f].cooldown
  /\ states' = [states EXCEPT ![f].cooldown = FALSE]
  /\ UNCHANGED <<diskVars, up, notes, found, loopVars, workers, dbVars, backfillVars,
                 faults, stops>>

-----------------------------------------------------------------------------
(* The process *)

\* Killed, or stopped: teardown waits a second for the workers, then they die with it.
Stop ==
  /\ up /\ stops < MaxStops
  /\ up' = FALSE /\ stops' = stops + 1
  /\ states' = [f \in File |-> Loaded(NoRow)]
  /\ notes' = <<>> /\ found' = {} /\ pending' = <<>>
  /\ call' = NoCall /\ outcome' = "none" /\ workers' = {}
  /\ UNCHANGED <<diskVars, dbVars, backfillVars, faults>>

\* load_offsets; if it fails, the watcher starts with no memory.
Start ==
  /\ ~up
  /\ up' = TRUE
  /\ states' \in {[f \in File |-> Loaded(saved[f])], [f \in File |-> Loaded(NoRow)]}
  /\ UNCHANGED <<diskVars, notes, found, loopVars, workers, dbVars, backfillVars, faults, stops>>

-----------------------------------------------------------------------------
(* The backfill command *)

\* reset_offset; if it fails, the command goes on.
BackfillResets(f) ==
  /\ backfill = NoBackfill /\ f \in Present /\ Cardinality(backfilled) < MaxBackfills
  /\ saved' \in {saved, [saved EXCEPT ![f].size = 0]}
  /\ backfill' = [NoBackfill EXCEPT !.file = f, !.pc = "parse"]
  /\ backfilled' = backfilled \cup {f}
  /\ UNCHANGED <<diskVars, up, states, notes, found, loopVars, workers, ingested, faults, stops>>

BackfillParses ==
  /\ backfill.pc = "parse"
  /\ backfill' = [backfill EXCEPT !.ver = TextOf(backfill.file),
                                  !.meta = disk[backfill.file].meta, !.pc = "insert"]
  /\ UNCHANGED <<diskVars, up, states, notes, found, loopVars, workers, dbVars, backfilled,
                 faults, stops>>

BackfillInserts ==
  /\ backfill.pc = "insert"
  /\ ingested' = Rows(backfill.file, backfill)
  /\ backfill' = NoBackfill
  /\ UNCHANGED <<diskVars, up, states, notes, found, loopVars, workers, saved, backfilled,
                 faults, stops>>

\* Killed, or the file or the database gives an error.
BackfillFails ==
  /\ backfill # NoBackfill
  /\ backfill' = NoBackfill
  /\ UNCHANGED <<diskVars, up, states, notes, found, loopVars, workers, dbVars, backfilled,
                 faults, stops>>

-----------------------------------------------------------------------------
Init ==
  /\ disk = [f \in File |-> [inode |-> 0, size |-> 0, ver |-> 0, meta |-> 0]]
  /\ up = FALSE /\ states = [f \in File |-> Loaded(NoRow)]
  /\ notes = <<>> /\ found = {} /\ pending = <<>>
  /\ call = NoCall /\ outcome = "none" /\ workers = {}
  /\ saved = [f \in File |-> NoRow]
  /\ ingested = [f \in File |-> [ver |-> 0, meta |-> 0]]
  /\ backfill = NoBackfill /\ rewritten = {} /\ backfilled = {}
  /\ writes = [f \in File |-> 0] /\ faults = 0 /\ stops = 0

FileNext(f) == (\E n \in NewSize : NewFile(f, n)) \/ AppendText(f) \/ Truncate(f) \/ WriteMeta(f)

LoopNext == TakeFound \/ TakeNote \/ ProcessNext \/ Succeeded \/ Failed \/ TimedOut

BackfillNext ==
  \/ \E f \in File : BackfillResets(f)
  \/ BackfillParses \/ BackfillInserts \/ BackfillFails

Next ==
  \/ \E f \in File : FileNext(f) \/ CooldownEnds(f)
  \/ Discover \/ LoopNext
  \/ \E w \in workers : WorkerStep(w)
  \/ Stop \/ Start
  \/ BackfillNext

Spec == Init /\ [][Next]_vars

-----------------------------------------------------------------------------
(* Properties *)

\* Every variable holds a value of its type; the notification channel
\* stays within its capacity.
TypeOK ==
  /\ disk \in [File -> Info]
  /\ up \in BOOLEAN /\ states \in [File -> FileState]
  /\ notes \in Seq(Note) /\ Len(notes) <= ChannelCap
  /\ found \subseteq File /\ pending \in Seq(File)
  /\ call \in [file : File \cup {NoFile}, size : Nat, seen : Nat]
  /\ outcome \in {"none", "ok", "failed"}
  /\ workers \subseteq Worker
  /\ saved \in [File -> Row] /\ ingested \in [File -> [ver : Nat, meta : Nat]]
  /\ backfill \in [file : File \cup {NoFile}, ver : Nat, meta : Nat,
                   pc : {"none", "parse", "insert"}]
  /\ rewritten \subseteq File /\ backfilled \subseteq File
  /\ writes \in [File -> Nat] /\ faults \in Nat /\ stops \in Nat

\* A size and inode that agree with the file: its text would not be read again.
Covers(f, r) == r.inode = disk[f].inode /\ disk[f].size <= r.size

\* What r remembers of f, in memory or in the database, is in the rows: the text if r
\* covers it, and meta.json unless r is older.
Truthful(f, r) ==
  Covers(f, r) => /\ ingested[f].ver = disk[f].ver
                  /\ disk[f].meta <= r.seen => ingested[f].meta = disk[f].meta

\* The offset a restarted watcher loads never covers a text or a meta.json that is not
\* ingested, whatever was written while the file was parsed, however late the worker
\* finished and wherever the process was killed (process_file, save_offset).
SavedIsIngested ==
  \A f \in Present \ (rewritten \cup backfilled) : Truthful(f, saved[f])

\* A transcript that process_file would ignore, were it to look now, is ingested with its
\* meta.json: nothing that was written before, during or after a worker, a timeout, a
\* failure or a restart is passed over ("No new complete content").
NothingMissed ==
  \A f \in Present \ (rewritten \cup backfilled) :
    UpToDate(f) => ingested[f] = [ver |-> disk[f].ver, meta |-> disk[f].meta]

\* The rows of a transcript never go back to what an earlier parse has read: "a
\* timed-out blocking task must finish before another parser can start".
NoOlderText ==
  [][\A f \in File \ backfilled' : /\ ingested'[f].ver >= ingested[f].ver
                                   /\ ingested'[f].meta >= ingested[f].meta]_vars

-----------------------------------------------------------------------------
(* Liveness *)

\* launchd restarts the watcher, tokio schedules its tasks and timers, select! chooses
\* among ready branches at random, and the parser of a file that is not stuck ends.
\* Nothing is asked of the notifications.
Fairness ==
  /\ WF_vars(Start) /\ WF_vars(Discover) /\ SF_vars(TakeFound)
  /\ WF_vars(ProcessNext) /\ WF_vars(Succeeded \/ Failed \/ TimedOut)
  /\ \A f \in File : WF_vars(CooldownEnds(f))
  /\ \A f \in File \ Stuck : WF_vars(\E w \in workers : w.file = f /\ WorkerStep(w))
  /\ WF_vars(BackfillParses) /\ WF_vars(BackfillInserts)

FairSpec == Spec /\ Fairness

\* A text is eventually ingested, with no notification and beside a parser that hangs
\* on another file. Two exceptions: a file rewritten in place to just the size the
\* watcher remembers looks unchanged, and the backfill command may overwrite rows.
EventuallyIngested ==
  \A f \in File \ Stuck :
    ingested[f].ver # disk[f].ver
      ~> \/ ingested[f].ver = disk[f].ver \/ disk[f].size = 0
         \/ f \in rewritten /\ disk[f].size = states[f].size
         \/ f \in backfilled

\* The latest meta.json is eventually in the rows, also when it is written during an
\* ingest or while the watcher is down, with the same exceptions: a rewritten text
\* that is passed over leaves its meta.json unread.
MetaIngested ==
  \A f \in File \ Stuck :
    ingested[f].meta # disk[f].meta
      ~> \/ ingested[f].meta = disk[f].meta \/ disk[f].size = 0
         \/ f \in rewritten /\ disk[f].size = states[f].size /\ ingested[f].ver # disk[f].ver
         \/ f \in backfilled
=============================================================================
