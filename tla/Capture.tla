------------------------------- MODULE Capture -------------------------------
(***************************************************************************)
(* The capture path of hippo-daemon: short-lived senders (the shell hook's *)
(* `hippo send-event`, the Firefox native-messaging host) hand envelopes   *)
(* to the daemon over a Unix socket, the daemon buffers them, a flush task *)
(* moves batches into SQLite, and whatever cannot be delivered or inserted *)
(* is appended to a fallback JSONL file that the next start replays.       *)
(*                                                                         *)
(* Senders, connection tasks, the flush task and the process lifecycle     *)
(* interleave freely; a crash of the daemon or of a sender may fall        *)
(* between any two steps.                                                  *)
(***************************************************************************)
EXTENDS Naturals, Sequences, FiniteSets

CONSTANTS
  Event,       \* envelope ids
  ShellEvent,  \* those whose payload is a shell event; the others are browser visits
  Probe,       \* those that carry a probe_tag
  Session,     \* terminal sessions of shell events
  SessionOf,   \* the session of each shell event
  BatchSize,   \* config.daemon.flush_batch_size
  CapFactor,   \* 4 in the source: the buffer holds CapFactor batches
  MaxSends,    \* bound: how often one envelope id is sent (URL/bucket collisions)
  MaxStops     \* bound: crashes and shutdowns of the daemon

ASSUME CaptureAssumption ==
  /\ ShellEvent \subseteq Event
  /\ Probe \subseteq Event
  /\ SessionOf \in [ShellEvent -> Session]
  /\ BatchSize \in Nat \ {0}
  /\ CapFactor \in Nat \ {0}
  /\ MaxSends \in Nat
  /\ MaxStops \in Nat

\* source_kind_of; its third kind, "claude-tool", is a shell event with a tool name
\* and takes the same path.
Source == {"shell", "browser"}
SourceOf(e) == IF e \in ShellEvent THEN "shell" ELSE "browser"

\* Only a browser envelope id can recur: make_envelope_id hashes the URL and a
\* time bucket, a shell envelope draws a fresh UUID.
SendLimit(e) == IF e \in ShellEvent THEN 1 ELSE MaxSends

VARIABLES
  (* senders *)
  client,      \* client[e]: where the process sending e is in its fallback path
  sends,       \* sends[e]: how often e was sent
  (* sockets *)
  backlog,     \* frames on connections the accept loop has not taken yet
  conns,       \* frames on accepted connections, not handled yet
  (* the daemon's memory *)
  phase,       \* lifecycle of the process
  flusher,     \* the flush task: "running" or "done"
  buffer,      \* DaemonState.event_buffer
  batch,       \* what the running flush has drained and not processed yet
  flushPc,     \* where the running flush is
  okSrc,       \* keys of source_latest_ts
  errSrc,      \* keys of source_errors
  sessions,    \* keys of DaemonState.session_map
  replay,      \* the fallback file recovery is replaying
  files,       \* the claimed files it has not opened yet: a list fixed before its loop
  (* SQLite *)
  rows,        \* rows[e]: rows with envelope_id e
  queue,       \* queue[e]: enrichment queue rows for e
  failing,     \* sources with source_health.consecutive_failures > 0
  (* the fallback directory *)
  active,      \* the .jsonl that appends go to
  recovering,  \* .recovering files
  done,        \* envelopes in .done files
  partial,     \* envelopes in .partial files
  (* history, read by properties only *)
  accepted,    \* envelopes the running daemon pushed to its buffer
  unsaved,     \* envelopes whose fallback append failed with an I/O error
  torn,        \* some append ended between its two writes
  aborted,     \* an error ended the recovery of this start early
  stops        \* crashes and shutdowns so far

senderVars == <<client, sends>>
memVars == <<buffer, batch, flushPc, okSrc, errSrc>>
dbVars == <<rows, queue, failing>>
archiveVars == <<recovering, done, partial>>
replayVars == <<replay, files, aborted>>
histVars == <<accepted, unsaved, torn, stops>>
vars == <<client, sends, backlog, conns, phase, flusher, buffer, batch,
          flushPc, okSrc, errSrc, sessions, replayVars, rows, queue, failing,
          active, recovering, done, partial, accepted, unsaved, torn, stops>>

Elems(s) == {s[i] : i \in 1..Len(s)}

(***************************************************************************)
(* A fallback file: envelopes on complete lines that parse, envelopes on   *)
(* lines that do not, and the unterminated last line, which is glued when  *)
(* a second envelope was appended to it.                                   *)
(***************************************************************************)
File == [lines : SUBSET Event, junk : SUBSET Event, tail : SUBSET Event, glued : BOOLEAN]
EmptyFile == [lines |-> {}, junk |-> {}, tail |-> {}, glued |-> FALSE]
Contents(f) == f.lines \cup f.junk \cup f.tail

AppendJson(f, e) == [f EXCEPT !.tail = @ \cup {e}, !.glued = f.tail # {}]

\* The newline that ends a line; content.lines() also ends an unterminated one.
EndLine(f) ==
  [lines |-> IF f.glued THEN f.lines ELSE f.lines \cup f.tail,
   junk  |-> IF f.glued THEN f.junk \cup f.tail ELSE f.junk,
   tail  |-> {},
   glued |-> FALSE]

NoReplay == [file |-> EmptyFile, todo |-> {}, err |-> FALSE]

Running == phase \in {"up", "signalled", "draining", "joined", "final"}

\* (variant for the mutation checks: appenders do not lock)
NoAppendLock == TRUE

\* The append lock: held from the open of the file to the end of the second write.
AppendLockFree ==
  /\ flushPc # "newline"
  /\ \A e \in Event : client[e] # "newline"

-----------------------------------------------------------------------------
(* Senders *)

SendAccepted(e) ==
  /\ client[e] = "idle" /\ sends[e] < SendLimit(e)
  /\ phase \in {"up", "signalled"}
  /\ e \notin backlog \cup conns
  /\ backlog' = backlog \cup {e}
  /\ sends' = [sends EXCEPT ![e] = @ + 1]
  /\ UNCHANGED <<client, conns, phase, flusher, memVars, sessions, replayVars, dbVars,
                 active, archiveVars, histVars>>

\* No listener, the connect timed out, or the write failed (it has no timeout).
SendFails(e) ==
  /\ client[e] = "idle" /\ sends[e] < SendLimit(e)
  /\ client' = [client EXCEPT ![e] = "fallback"]
  /\ sends' = [sends EXCEPT ![e] = @ + 1]
  /\ UNCHANGED <<backlog, conns, phase, flusher, memVars, sessions, replayVars, dbVars,
                 active, archiveVars, histVars>>

\* write_fallback_jsonl, first write: the JSON ...
ClientAppends(e) ==
  /\ client[e] = "fallback"
  /\ AppendLockFree
  /\ active' = AppendJson(active, e)
  /\ client' = [client EXCEPT ![e] = "newline"]
  /\ UNCHANGED <<sends, backlog, conns, phase, flusher, memVars, sessions, replayVars,
                 dbVars, archiveVars, histVars>>

\* ... second write: the newline; the lock is released.
ClientTerminatesLine(e) ==
  /\ client[e] = "newline"
  /\ active' = EndLine(active)
  /\ client' = [client EXCEPT ![e] = "idle"]
  /\ UNCHANGED <<sends, backlog, conns, phase, flusher, memVars, sessions, replayVars,
                 dbVars, archiveVars, histVars>>

\* The append fails (disk full, permissions), or the sender is killed before or
\* inside it: the event is reported or lost, and the lock is released.
ClientGivesUp(e) ==
  /\ client[e] # "idle"
  /\ client' = [client EXCEPT ![e] = "idle"]
  /\ torn' = (torn \/ client[e] = "newline")
  /\ UNCHANGED <<sends, backlog, conns, phase, flusher, memVars, sessions, replayVars,
                 dbVars, active, archiveVars, accepted, unsaved, stops>>

-----------------------------------------------------------------------------
(* Connections *)

Accept(e) ==
  /\ phase \in {"up", "signalled"}
  /\ e \in backlog
  /\ backlog' = backlog \ {e}
  /\ conns' = conns \cup {e}
  /\ UNCHANGED <<senderVars, phase, flusher, memVars, sessions, replayVars, dbVars,
                 active, archiveVars, histVars>>

\* (variant for the mutation checks: off by one)
BufferCapPlusOne == BatchSize * CapFactor + 1

BufferCap == BatchSize * CapFactor

\* handle_request(IngestEvent): a full buffer drops the event (and counts it).
Ingest(e) ==
  /\ phase \in {"up", "signalled", "draining"}
  /\ e \in conns
  /\ conns' = conns \ {e}
  /\ IF Len(buffer) >= BufferCap
     THEN UNCHANGED <<buffer, accepted>>
     ELSE /\ buffer' = Append(buffer, e)
          /\ accepted' = accepted \cup {e}
  /\ UNCHANGED <<senderVars, backlog, phase, flusher, batch, flushPc, okSrc, errSrc,
                 sessions, replayVars, dbVars, active, archiveVars, unsaved, torn, stops>>

-----------------------------------------------------------------------------
(* flush_events *)

\* (variant for the mutation checks: no final drain after the flush task ended)
FlushBeginNoFinalDrain ==
  /\ flushPc = "idle"
  /\ buffer # <<>>
  /\ Running /\ flusher = "running"
  /\ LET n == IF Len(buffer) < BatchSize THEN Len(buffer) ELSE BatchSize
     IN  /\ batch' = SubSeq(buffer, 1, n)
         /\ buffer' = SubSeq(buffer, n + 1, Len(buffer))
  /\ flushPc' = "insert"
  /\ UNCHANGED <<senderVars, backlog, conns, phase, flusher, okSrc, errSrc, sessions,
                 replayVars, dbVars, active, archiveVars, histVars>>

\* The flush task flushes until it has seen the shutdown signal and an empty
\* buffer; the process flushes once more after it has joined the task.
FlushBegin ==
  /\ flushPc = "idle"
  /\ buffer # <<>>
  /\ \/ Running /\ flusher = "running"
     \/ phase = "final"
  /\ LET n == IF Len(buffer) < BatchSize THEN Len(buffer) ELSE BatchSize
     IN  /\ batch' = SubSeq(buffer, 1, n)
         /\ buffer' = SubSeq(buffer, n + 1, Len(buffer))
  /\ flushPc' = "insert"
  /\ UNCHANGED <<senderVars, backlog, conns, phase, flusher, okSrc, errSrc, sessions,
                 replayVars, dbVars, active, archiveVars, histVars>>

\* (variant for the mutation checks: a plain INSERT)
InsertAlways(e) ==
  /\ rows' = [rows EXCEPT ![e] = @ + 1]
  /\ queue' = [queue EXCEPT ![e] = IF e \in Probe THEN @ ELSE @ + 1]

\* INSERT OR IGNORE on the unique envelope_id; a new non-probe row gets its
\* queue row in the same transaction.
InsertRow(e) ==
  IF rows[e] > 0 THEN UNCHANGED <<rows, queue>>
  ELSE /\ rows' = [rows EXCEPT ![e] = @ + 1]
       /\ queue' = [queue EXCEPT ![e] = IF e \in Probe THEN @ ELSE @ + 1]

\* get_or_create_session succeeds: the session is cached. A browser event has none.
CacheSession(e) ==
  sessions' = IF e \in ShellEvent THEN sessions \cup {SessionOf[e]} ELSE sessions

SessionCached(e) == e \in ShellEvent => SessionOf[e] \in sessions

\* A payload of another kind, which neither kind of sender sends, would be skipped with a
\* warning.
FlushInsert ==
  /\ flushPc = "insert" /\ batch # <<>>
  /\ LET e == Head(batch) IN
     /\ CacheSession(e)
     /\ InsertRow(e)
     /\ okSrc' = IF rows[e] > 0 THEN okSrc ELSE okSrc \cup {SourceOf(e)}
  /\ batch' = Tail(batch)
  /\ UNCHANGED <<senderVars, backlog, conns, phase, flusher, buffer, flushPc, errSrc,
                 replayVars, failing, active, archiveVars, histVars>>

\* The insert fails (busy, I/O): the source is marked, the event goes to fallback.
FlushInsertFails ==
  /\ flushPc = "insert" /\ batch # <<>>
  /\ CacheSession(Head(batch))
  /\ errSrc' = errSrc \cup {SourceOf(Head(batch))}
  /\ flushPc' = "fallback"
  /\ UNCHANGED <<senderVars, backlog, conns, phase, flusher, buffer, batch, okSrc,
                 replayVars, dbVars, active, archiveVars, histVars>>

\* The session cannot be created: fallback as well, but the source is not marked.
FlushSessionFails ==
  /\ flushPc = "insert" /\ batch # <<>>
  /\ ~SessionCached(Head(batch))
  /\ flushPc' = "fallback"
  /\ UNCHANGED <<senderVars, backlog, conns, phase, flusher, buffer, batch, okSrc,
                 errSrc, sessions, replayVars, dbVars, active, archiveVars, histVars>>

FlushAppends ==
  /\ flushPc = "fallback"
  /\ AppendLockFree
  /\ active' = AppendJson(active, Head(batch))
  /\ flushPc' = "newline"
  /\ UNCHANGED <<senderVars, backlog, conns, phase, flusher, buffer, batch, okSrc,
                 errSrc, sessions, replayVars, dbVars, archiveVars, histVars>>

FlushTerminatesLine ==
  /\ flushPc = "newline"
  /\ active' = EndLine(active)
  /\ batch' = Tail(batch)
  /\ flushPc' = "insert"
  /\ UNCHANGED <<senderVars, backlog, conns, phase, flusher, buffer, okSrc, errSrc,
                 sessions, replayVars, dbVars, archiveVars, histVars>>

\* The append fails too, before or between its two writes: the code logs it and
\* goes on to the next event.
FlushAppendFails ==
  /\ flushPc \in {"fallback", "newline"}
  /\ unsaved' = unsaved \cup {Head(batch)}
  /\ batch' = Tail(batch)
  /\ flushPc' = "insert"
  /\ torn' = (torn \/ flushPc = "newline")
  /\ UNCHANGED <<senderVars, backlog, conns, phase, flusher, buffer, okSrc, errSrc,
                 sessions, replayVars, dbVars, active, archiveVars, accepted, stops>>

\* source_health: the success update of each source with a new row, then the
\* error update of each source with a failed insert.
FlushEnd ==
  /\ flushPc = "insert" /\ batch = <<>>
  /\ failing' = (failing \ okSrc) \cup errSrc
  /\ okSrc' = {} /\ errSrc' = {}
  /\ flushPc' = "idle"
  /\ UNCHANGED <<senderVars, backlog, conns, phase, flusher, buffer, batch, sessions,
                 replayVars, rows, queue, active, archiveVars, histVars>>

-----------------------------------------------------------------------------
(* Shutdown *)

\* A Shutdown request: its connection task sends the signal.
Shutdown ==
  /\ phase = "up" /\ stops < MaxStops
  /\ phase' = "signalled"
  /\ stops' = stops + 1
  /\ UNCHANGED <<senderVars, backlog, conns, flusher, memVars, sessions, replayVars,
                 dbVars, active, archiveVars, accepted, unsaved, torn>>

\* The accept loop breaks and the listener is dropped, with whatever is in its backlog.
StopAccepting ==
  /\ phase = "signalled"
  /\ phase' = "draining"
  /\ backlog' = {}
  /\ UNCHANGED <<senderVars, conns, flusher, memVars, sessions, replayVars, dbVars,
                 active, archiveVars, histVars>>

\* (variant for the mutation checks: the signal is missed by a flush in progress)
FlusherExitsOnlyAtSignal ==
  /\ phase = "signalled"
  /\ flusher = "running" /\ flushPc = "idle" /\ buffer = <<>>
  /\ flusher' = "done"
  /\ UNCHANGED <<senderVars, backlog, conns, phase, memVars, sessions, replayVars,
                 dbVars, active, archiveVars, histVars>>

\* The flush task saw the signal and a flush that drained nothing.
FlusherExits ==
  /\ phase \in {"signalled", "draining", "joined"}
  /\ flusher = "running" /\ flushPc = "idle" /\ buffer = <<>>
  /\ flusher' = "done"
  /\ UNCHANGED <<senderVars, backlog, conns, phase, memVars, sessions, replayVars,
                 dbVars, active, archiveVars, histVars>>

\* All connection tasks ended, or SHUTDOWN_DRAIN_TIMEOUT passed and the rest is aborted.
JoinConnections ==
  /\ phase = "draining"
  /\ phase' = "joined"
  /\ conns' = {}
  /\ UNCHANGED <<senderVars, backlog, flusher, memVars, sessions, replayVars, dbVars,
                 active, archiveVars, histVars>>

JoinFlusher ==
  /\ phase = "joined" /\ flusher = "done"
  /\ phase' = "final"
  /\ UNCHANGED <<senderVars, backlog, conns, flusher, memVars, sessions, replayVars,
                 dbVars, active, archiveVars, histVars>>

\* (variant for the mutation checks: exit without looking at the buffer)
ExitUndrained ==
  /\ phase = "final" /\ flushPc = "idle"
  /\ phase' = "down"
  /\ sessions' = {}
  /\ UNCHANGED <<senderVars, backlog, conns, flusher, memVars, replayVars, dbVars,
                 active, archiveVars, histVars>>

\* The final drain flushed nothing: the process exits.
Exit ==
  /\ phase = "final" /\ flushPc = "idle" /\ buffer = <<>>
  /\ phase' = "down"
  /\ sessions' = {}
  /\ UNCHANGED <<senderVars, backlog, conns, flusher, memVars, replayVars, dbVars,
                 active, archiveVars, histVars>>

\* The process is killed, or leaves run_with_mode by a `?` of its accept loop.
Crash ==
  /\ phase # "down" /\ stops < MaxStops
  /\ phase' = "down"
  /\ stops' = stops + 1
  /\ backlog' = {} /\ conns' = {}
  /\ buffer' = <<>> /\ batch' = <<>> /\ flushPc' = "idle"
  /\ okSrc' = {} /\ errSrc' = {} /\ sessions' = {}
  /\ replay' = NoReplay /\ files' = {}
  /\ torn' = (torn \/ flushPc = "newline")
  /\ accepted' = {}
  /\ UNCHANGED <<senderVars, flusher, dbVars, active, archiveVars, aborted, unsaved>>

-----------------------------------------------------------------------------
(* Start: recover_fallback_files, then serve *)

\* (variant for the mutation checks: an interrupted recovery is not resumed)
StartWithNewFile ==
  /\ phase = "down"
  /\ AppendLockFree
  /\ phase' = "recovering"
  /\ recovering' = IF Contents(active) = {} THEN recovering
                   ELSE recovering \cup {EndLine(active)}
  /\ files' = recovering' \ recovering
  /\ aborted' = FALSE
  /\ active' = EmptyFile
  /\ flusher' = "running"
  /\ accepted' = {}
  /\ UNCHANGED <<senderVars, backlog, conns, memVars, sessions, replay, dbVars,
                 done, partial, unsaved, torn, stops>>

\* Under the append lock, the .jsonl file is renamed to .recovering; it and what an
\* interrupted recovery left are the list this recovery walks. Files with the same
\* envelopes on them count as one.
Start ==
  /\ phase = "down"
  /\ AppendLockFree
  /\ phase' = "recovering"
  /\ recovering' = IF Contents(active) = {} THEN recovering
                   ELSE recovering \cup {EndLine(active)}
  /\ files' = recovering'
  /\ aborted' = FALSE
  /\ active' = EmptyFile
  /\ flusher' = "running"
  /\ accepted' = {}
  /\ UNCHANGED <<senderVars, backlog, conns, memVars, sessions, replay, dbVars,
                 done, partial, unsaved, torn, stops>>

\* The claim itself fails (a lock or rename error): the daemon serves without
\* having recovered anything.
StartUnrecovered ==
  /\ phase = "down"
  /\ phase' = "up"
  /\ aborted' = TRUE
  /\ flusher' = "running"
  /\ accepted' = {}
  /\ UNCHANGED <<senderVars, backlog, conns, memVars, sessions, replay, files, dbVars,
                 active, archiveVars, unsaved, torn, stops>>

\* (variant for the mutation checks: unparsable lines are skipped silently)
OpenFileSkippingJunk(f) ==
  /\ phase = "recovering" /\ replay = NoReplay
  /\ f \in files
  /\ files' = files \ {f}
  /\ replay' = [file |-> f, todo |-> f.lines, err |-> FALSE]
  /\ UNCHANGED <<senderVars, backlog, conns, phase, flusher, memVars, sessions,
                 aborted, dbVars, active, archiveVars, histVars>>

\* The next file of the list is read (the code sorts the list by name, here it comes in
\* any order); a line that does not parse is an error.
OpenFile(f) ==
  /\ phase = "recovering" /\ replay = NoReplay
  /\ f \in files
  /\ files' = files \ {f}
  /\ replay' = [file |-> f, todo |-> f.lines, err |-> f.junk # {}]
  /\ UNCHANGED <<senderVars, backlog, conns, phase, flusher, memVars, sessions,
                 aborted, dbVars, active, archiveVars, histVars>>

ReplayLine(e) ==
  /\ phase = "recovering"
  /\ e \in replay.todo
  /\ CacheSession(e)
  /\ InsertRow(e)
  /\ replay' = [replay EXCEPT !.todo = @ \ {e}]
  /\ UNCHANGED <<senderVars, backlog, conns, phase, flusher, memVars, files, aborted,
                 failing, active, archiveVars, histVars>>

ReplayLineFails(e) ==
  /\ phase = "recovering"
  /\ e \in replay.todo
  /\ CacheSession(e)
  /\ replay' = [replay EXCEPT !.todo = @ \ {e}, !.err = TRUE]
  /\ UNCHANGED <<senderVars, backlog, conns, phase, flusher, memVars, files, aborted,
                 dbVars, active, archiveVars, histVars>>

\* The rename that archives the file.
ArchiveFile ==
  /\ phase = "recovering"
  /\ replay # NoReplay /\ replay.todo = {}
  /\ recovering' = recovering \ {replay.file}
  /\ IF replay.err
     THEN /\ partial' = partial \cup Contents(replay.file)
          /\ UNCHANGED done
     ELSE /\ done' = done \cup Contents(replay.file)
          /\ UNCHANGED partial
  /\ replay' = NoReplay
  /\ UNCHANGED <<senderVars, backlog, conns, phase, flusher, memVars, sessions, files,
                 aborted, dbVars, active, histVars>>

\* A `?` inside recovery (a session that cannot be created, a file that cannot be read
\* or renamed) ends it early; this file and the rest of the list stay .recovering for
\* the next start, where the same file may end it again. The daemon only warns, and
\* goes on to serve.
RecoveryAborts ==
  /\ phase = "recovering"
  /\ replay # NoReplay \/ files # {}
  /\ replay' = NoReplay /\ files' = {}
  /\ aborted' = TRUE
  /\ phase' = "up"
  /\ UNCHANGED <<senderVars, backlog, conns, flusher, memVars, sessions, dbVars,
                 active, archiveVars, histVars>>

\* The list is exhausted.
RecoveryEnds ==
  /\ phase = "recovering"
  /\ replay = NoReplay /\ files = {}
  /\ phase' = "up"
  /\ UNCHANGED <<senderVars, backlog, conns, flusher, memVars, sessions, replayVars,
                 dbVars, active, archiveVars, histVars>>

-----------------------------------------------------------------------------
Init ==
  /\ client = [e \in Event |-> "idle"] /\ sends = [e \in Event |-> 0]
  /\ backlog = {} /\ conns = {}
  /\ phase = "down" /\ flusher = "done"
  /\ buffer = <<>> /\ batch = <<>> /\ flushPc = "idle"
  /\ okSrc = {} /\ errSrc = {} /\ sessions = {} /\ replay = NoReplay
  /\ files = {} /\ aborted = FALSE
  /\ rows = [e \in Event |-> 0] /\ queue = [e \in Event |-> 0] /\ failing = {}
  /\ active = EmptyFile /\ recovering = {} /\ done = {} /\ partial = {}
  /\ accepted = {} /\ unsaved = {} /\ torn = FALSE /\ stops = 0

SenderNext(e) ==
  \/ SendAccepted(e) \/ SendFails(e)
  \/ ClientAppends(e) \/ ClientTerminatesLine(e) \/ ClientGivesUp(e)

FlushNext ==
  \/ FlushBegin \/ FlushInsert \/ FlushInsertFails \/ FlushSessionFails
  \/ FlushAppends \/ FlushTerminatesLine \/ FlushAppendFails \/ FlushEnd

LifecycleNext ==
  \/ Shutdown \/ StopAccepting \/ FlusherExits \/ JoinConnections \/ JoinFlusher
  \/ Exit \/ Crash \/ Start \/ StartUnrecovered

RecoveryNext ==
  \/ \E f \in files : OpenFile(f)
  \/ \E e \in Event : ReplayLine(e) \/ ReplayLineFails(e)
  \/ ArchiveFile \/ RecoveryAborts \/ RecoveryEnds

Next ==
  \/ \E e \in Event : SenderNext(e) \/ Accept(e) \/ Ingest(e)
  \/ FlushNext
  \/ LifecycleNext
  \/ RecoveryNext

Spec == Init /\ [][Next]_vars

-----------------------------------------------------------------------------
(* Properties *)

\* Every variable holds a value of its type, and the buffer stays within its cap.
TypeOK ==
  /\ client \in [Event -> {"idle", "fallback", "newline"}]
  /\ sends \in [Event -> Nat]
  /\ backlog \subseteq Event /\ conns \subseteq Event
  /\ phase \in {"down", "recovering", "up", "signalled", "draining", "joined", "final"}
  /\ flusher \in {"running", "done"}
  /\ buffer \in Seq(Event) /\ Len(buffer) <= BatchSize * CapFactor
  /\ batch \in Seq(Event)
  /\ flushPc \in {"idle", "insert", "fallback", "newline"}
  /\ okSrc \subseteq Source /\ errSrc \subseteq Source /\ failing \subseteq Source
  /\ sessions \subseteq Session
  /\ replay \in [file : File, todo : SUBSET Event, err : BOOLEAN]
  /\ rows \in [Event -> Nat] /\ queue \in [Event -> Nat]
  /\ active \in File /\ recovering \subseteq File /\ files \subseteq File
  /\ aborted \in BOOLEAN
  /\ done \subseteq Event /\ partial \subseteq Event
  /\ accepted \subseteq Event /\ unsaved \subseteq Event
  /\ torn \in BOOLEAN /\ stops \in Nat

Stored == {e \in Event : rows[e] > 0}
InMemory == Elems(buffer) \cup Elems(batch)

\* What the daemon has in memory; the memory of a process that has ended is gone.
Held == IF phase = "down" THEN {} ELSE InMemory

Claims == UNION {Contents(f) : f \in recovering}

\* What a later start or an operator can still find: .done files do not count,
\* nobody reads them again.
Kept == Contents(active) \cup Claims \cup partial
Durable == Stored \cup Kept

\* An envelope the daemon took into its buffer is in memory or durable until the
\* process crashes, and durable once it has exited cleanly; the only exception is
\* a failed insert whose fallback append fails as well (flush_events logs it).
AcceptedSafe == accepted \subseteq Held \cup Durable \cup unsaved

\* Whatever happens (crash, restart, recovery, archiving), an envelope that was once
\* in SQLite or on a complete or torn fallback line never disappears from there
\* unless it is in SQLite (recover_fallback_files archives to .done only then).
DurableKept == [][Durable \subseteq Durable']_vars

\* Retries, collisions and replays never store an envelope twice, and exactly the
\* stored non-probe envelopes have an enrichment job (insert_event_at,
\* insert_browser_event).
OneRowOneJob ==
  \A e \in Event : /\ rows[e] <= 1
                   /\ queue[e] = IF e \in Probe THEN 0 ELSE rows[e]

\* The promise the capture path keeps as a whole, step by step: a flush, a failure, a
\* shutdown, a crash, a start or the archiving of a replayed file only ever does to an
\* envelope what Delivery allows (flush_events, recover_fallback_files,
\* insert_event_at). A clean exit in particular forgets nothing.
Promise ==
  INSTANCE Delivery WITH Envelope <- Event, Jobless <- Probe, held <- Held,
                         kept <- Kept, stored <- rows, jobs <- queue, reported <- unsaved

Delivers == Promise!Spec

\* Concurrent appenders (senders and the daemon) never run two envelopes into one
\* unparsable line, unless one of them died or failed inside an append
\* (write_fallback_jsonl).
LinesIntact ==
  ~torn => \A f \in {active} \cup recovering : f.junk = {} /\ ~f.glued

\* A file is archived as .done only when each of its envelopes is in SQLite, also
\* when an earlier recovery of the same file was interrupted.
DoneMeansStored == done \subseteq Stored

\* Once the daemon serves, a recovery that met no error has left no fallback file
\* behind: neither the one this start claimed nor one that an interrupted or aborted
\* recovery of an earlier start had claimed (recover_fallback_files resumes those).
RecoveryComplete == Running /\ ~aborted => recovering = {}

-----------------------------------------------------------------------------
(* Liveness *)

\* The tokio tasks are scheduled; a sender that holds
\* the append lock finishes or dies. Failures and crashes are never forced.
Fairness ==
  /\ WF_vars(FlushNext)
  /\ \A e \in Event : WF_vars(Accept(e)) /\ WF_vars(Ingest(e))
  /\ \A e \in Event : WF_vars(ClientTerminatesLine(e) \/ ClientGivesUp(e))
  /\ WF_vars(StopAccepting) /\ WF_vars(FlusherExits) /\ WF_vars(JoinConnections)
  /\ WF_vars(JoinFlusher) /\ WF_vars(Exit)

FairSpec == Spec /\ Fairness

\* A buffered envelope is eventually processed by a flush (or the process ends).
BufferSettles == \A e \in Event : e \in InMemory ~> e \notin InMemory

\* A shutdown always completes: no task waits for another one for ever.
ShutdownCompletes == phase = "signalled" ~> phase = "down"
=============================================================================
