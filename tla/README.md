# Hippo in TLA+

A specification of the parts of hippo where processes race, crash and retry: the
capture path of the daemon (`hippo-daemon`, Rust), the watcher that ingests session
transcripts, the watchdog, the poller of CI outcomes, and the brain (`hippo_brain`,
Python): its enrichment queues, its scheduling and its vector store. TLC checks small
instances; TLAPS proves the safety properties for every value of the constants.

## 1. Inventory

Paths: D = `src/crates/hippo-daemon/src`, C = `src/crates/hippo-core/src`,
B = `src/brain/src/hippo_brain`.

| component | state | operations | hard behaviour | correct when |
|---|---|---|---|---|
| senders: `hippo send-event` from the shell hook, Firefox native-messaging host (D/commands.rs, D/native_messaging.rs) | none; one process per event or per browser | connect, write a frame, else append to the fallback file | killed in between; many at once | an event is delivered, on a fallback line, or reported |
| daemon (D/daemon.rs) | event buffer, session map, source counters, shutdown signal | ingest, flush, shutdown, serve | accept loop, connection tasks and flush task interleave; crash | accepted events reach SQLite or the fallback file; shutdown completes |
| fallback files (C/storage.rs 2670-2830) | `.jsonl`, `.recovering`, `.done`, `.partial` | append, claim, replay, archive | appends from several processes, interrupted replays | nothing lost, nothing twice |
| agentic upsert (D/claude_session.rs, D/codex_session.rs, Cursor and Pi copies) | `agentic_sessions`, `agentic_enrichment_queue` | upsert and enqueue on a reparse | row being enriched meanwhile | changed content is enriched, unchanged content is not |
| settling sweep (D/watch_claude_sessions.rs 420-612) | - | select, enqueue | select and enqueue are two steps | re-queues what fell behind |
| agentic worker (B/claude_sessions.py, B/server.py) | claim with lock and worker id | claim, read, drop, skip, ask the model, write or fail | content changes, claim is reaped, crash | one node per segment, describing the current content |
| reaper (B/watchdog.py) | - | release stale locks | the owner may still run | stuck rows are retried, bad ones end |
| session watcher (D/watch_claude_sessions.rs) | per-file size, inode, offset, in-flight task | notify, stat, parse, save the offset | parse outlives its timeout; files truncated; notifications dropped | every line of a transcript is ingested |
| backfill command (D/backfill.rs) | - | reset the offset, parse, upsert | a process beside the watcher | old transcripts are ingested again |
| brain scheduling (B/server.py, B/enrichment_sources.py) | loop position, claimed rows, `_paused`, operator pause, queries, sweep and classification flags | preflight, claim, gather, back off; pause, resume, query; sweep, classify | flags read before an await, exceptions that leave a gather | no inference while a bench owns the server; every row settles |
| shell, browser, workflow, memory queues (B/enrichment.py and others) | one queue table each | claim, complete, charge, reap | completion by row id alone | one node per row |
| embeddings (B/embeddings.py, B/vector_store.py, `scripts/hippo-re-embed.py`) | `knowledge_vectors`, `embed_model_meta` | embed, sweep, delete with the node, switch the model | ids given again, nodes replaced under an embedding, another process switching the model | one embedding space; each node has its own vector |
| watchdog (D/watchdog.rs, D/shell_health.rs) | `capture_alarms`, `source_health` | assert, rate-limit, raise, resolve; ack | one short process per minute that may die | alarms neither repeated, resolved early, nor missing |
| CI poller and hooks (D/gh_poll.rs, D/gh_api.rs, hooks) | `workflow_*`, `sha_watchlist` | list, store, drill down, queue; register, tell, ack | every statement commits by itself between awaits | runs are enriched with their details and true outcome; failures are told |
| pollers of OpenCode, Cursor, Pi | offsets or cursors | poll, upsert | deferral of busy sessions | nothing skipped |
| auto-memory, retrieval, RAG, MCP, lessons, backup, installer, telemetry, benchmarks | various | various | mostly sequential or pure data | - |

How they interact:

```
shell hook ─┐  unix socket   ┌────────── daemon ───────────┐
            ├───────────────▶│ conns ─▶ buffer ─▶ flush     │──▶ SQLite rows + queue rows
native host ┘                │              └─ failed ─┐    │             │
     └── no daemon ──▶ fallback .jsonl ◀───────────────┘    │        source_health
                         └─ at start: .recovering ─ replay ─┘             │
transcripts ─▶ watcher ─▶ agentic_sessions, queue ◀─ settling sweep       ▼
GitHub ─▶ gh-poll ─▶ workflow_runs, queue      probes, checks ─▶ watchdog ─▶ alarms
             │                  ▲ claim
   sha_watchlist ─▶ hooks       │
                          brain loop ─▶ model ─▶ knowledge node ─▶ embedding ─▶ vector
                          ▲ pause, query, reaper (timer)              ▲ reaper, re-embed script
```

The processes share no memory and send no messages besides the socket: they share
SQLite and a few files. What one process does between two transactions of another is
the heart of `AgenticQueue`, `SessionWatcher`, `Workflows` and `VectorStore`; what one
asyncio task does between two awaits of another is the heart of `BrainServer`; one
advisory lock between senders and daemon is the heart of `Capture`. `PROJECT.json`
lists the hazards at their lines.

## 2. Modules

| module | models | runs |
|---|---|---|
| `Capture`, `CaptureProofs`, `MCCapture` | senders, daemon, fallback files, recovery | capture |
| `Delivery` | the abstract promise that `Capture` implements | capture (`Delivers`) |
| `AgenticQueue`, `AgenticQueueProofs`, `MCAgenticQueue` | upsert, sweep, worker, reaper | agentic |
| `Enrichment` | the abstract promise that `AgenticQueue` implements | agentic (`KeepsPromise`) |
| `SessionWatcher`, `SessionWatcherProofs`, `MCSessionWatcher` | file watcher, blocking workers, backfill | watcher, watcher_stuck |
| `BrainServer`, `BrainServerProofs`, `MCBrainServer` | the brain's asyncio tasks and its id-keyed queues | brain, brain_pause |
| `VectorStore`, `VectorStoreProofs`, `MCVectorStore` | nodes, vectors, drift guard, reaper, re-embed script | vectors, vectors_healed |
| `Watchdog`, `WatchdogProofs`, `MCWatchdog` | runs of the watchdog, alarms, the shell's checks | watchdog |
| `MCWatchdogIdle` | the same with the length of an outage as history | watchdog_idle |
| `Workflows`, `WorkflowsProofs`, `MCWorkflows` | CI poller, its queue, the watchlist, the hooks | workflows, workflows_settle |

The modules meet at the database tables and are not composed further: a product of two
of them multiplies independent interleavings, and where two components do touch the
same rows (poller, brain and hooks; upsert, sweep, worker and reaper) they are in one
module. What a module takes from a neighbour is a free choice of its actions, so that
whatever the neighbour does is covered.

## 3. Capture and Delivery

One action per critical section or system call, so that everything tokio or the
operating system may interleave does interleave.

| state | code |
|---|---|
| `client`, `sends` | the sending process: idle, about to fall back, between the two writes of `writeln!` |
| `backlog`, `conns` | connections not accepted yet; accepted ones whose frame is not handled yet |
| `phase` | `run_with_mode`: recovering, up, signalled, draining (joining connections), joined, final drain, down |
| `buffer`, `batch`, `flushPc` | `event_buffer`; the vector a flush has drained; where the flush is |
| `okSrc`, `errSrc`, `failing` | `source_latest_ts`, `source_errors`, `consecutive_failures > 0` |
| `sessions` | `session_map` |
| `rows`, `queue` | `events` / `browser_events` and their enrichment queue |
| `active`, `recovering`, `done`, `partial` | the `.jsonl` file and what recovery renames it to |
| `files`, `aborted` | the rest of the list recovery fixed at its start; whether a `?` ended it |
| `replay` | the file `recover_fallback_files` is in, lines left, error count > 0 |
| `accepted`, `unsaved`, `torn`, `stops` | history: read by properties (and the bound) only |

A fallback file keeps apart complete lines, unparsable lines and the unterminated last
line, because `writeln!` on a `File` is two writes and a process may die in between. A
second envelope written after an unterminated one makes the line unparsable (`glued`).
The advisory lock (`lock_fallback`) is not a variable: it is held exactly between the
two writes, so `AppendLockFree` reads it off the writers' positions, and a process that
dies releases it.

Recovery walks a list that is fixed under the append lock before the loop (`Start`): the
`.jsonl` file it has just renamed and every `.recovering` file that an interrupted or
aborted recovery of an earlier start left. `RecoveryComplete` says that a recovery without
an error takes them all; a `?` (`RecoveryAborts`) leaves the rest to the next start, and
the daemon warns and serves. That the loop ends is no property: it is a `for`.

Abstractions: one `.jsonl` file at a time (the date in its name only splits it); files
with the same envelopes count as one; a write happens or not (no half-written JSON);
the drop counter, the heartbeat, rolling counters and log lines are left out; payloads of
other kinds than the two senders' are not sent (flush_events skips them with a warning); a
fatal accept error counts as a crash; the list's order is free; JSON, SQL and redaction are values.

`Delivery` is the promise without buffers, batches, files and replays: the daemon holds
envelopes, files keep some, and the daemon lets go of one only if it is stored or kept, or
reports that it could do neither; only a kill forgets more. An envelope is stored once, with its one
job, and a file is given up only for what is stored. The mapping is `held <- Held` (buffer
and batch), `kept <- Kept` (in the fallback file, a claimed one or a `.partial` one; a
`.done` file nobody reads again), `stored <- rows`, `jobs <- queue`, `reported <- unsaved`. `Delivers` states that
`Capture` implements it, which says in one property that nothing durable is lost, no row is
doubled and no file is archived too early.

## 4. AgenticQueue and Enrichment

One action per SQLite transaction or autocommitted statement. Segments do not interact,
so the worker's position `stage` is kept per segment and the worker's steps on several
segments overlap freely, which covers its batches and its concurrent groups.

| state | code |
|---|---|
| `content`, `mark` | `content_hash`, `last_enriched_content_hash` |
| `status`, `retry` | the queue row (`"none"`: no row) |
| `nodes` | contents of the observation nodes linked to the segment |
| `linked` | segments linked to the node of a CI outcome (`enrich_one_async`) |
| `stage`, `held`, `heldMark` | the round's worker: claimed, read (with which hash and watermark), at the model |
| `strays` | coroutines of earlier rounds that still await the model, and what they had read |
| `givenUp` | history: the watermark came from a skip or a last failure, not from a node |
| `candidates` | what the sweep's SELECT returned and its transaction has not yet enqueued |

Abstractions: a segment is its content hash; the Cursor and Pi upserts are ports of the
Codex one, for which `harness = "codex"` stands; OpenCode is not covered; the sweep's limit
and file checks become a free choice of subset.

Two coroutines may be at one segment. The loop claims nothing before its round is over, but
an exception that leaves the gather ends the round without ending its coroutines
(`Escape`); the row may then be reaped or its stale lock taken over by the next round's
`Claim`, and both answer. The answer asks for neither status nor lock, only whether the
content is still what was read (`Superseded`), so it is one operator, `Answer`, for the
worker (`Settle`) and the strays (`StraySettles`). The claim with its read and judgement
is synchronous: while it runs (`InClaim`) neither strays nor the reaper nor the workflow
enrichment do, which share its event loop (server.py:2167-2182); the daemon does.

How far a retry count may pass its maximum is therefore not one: each coroutine that lost
its row may charge it once more (`TypeOK`, `Budget`). And a claim whose content equals the
watermark is closed if the segment has a link to a node of any type: `HasNode` counts CI
outcomes. `DoneHasNode` says what a done row is worth then: it shows the observation of its
watermark's content, or that content had been given up before and some node is linked.

`Enrichment` is the promise, with none of the machinery: a text changes, its observation
is replaced by one about the text *of that moment*, or it is settled without one. The
mapping is `text <- content`, `published <- nodes`, `settled <- mark`; the queue row, the
claim, the sweep and the reaper are invisible in it, so each of their steps must be a
stutter, and an answer about superseded content must not show, whoever gives it and
whatever became of the row meanwhile. `KeepsPromise` states it: TLC checks it and `PromiseKept` proves it. What the promise
does not say is that content gets enriched at all: `Stranded` is content that nobody has
handled and that waits in no queue, and `StrandedOnlyBy` names the two steps it comes from.

## 5. SessionWatcher

One action per read or write of shared state: a change of a file, a queued path, the part
of `process_file` before its await and the part after it, each step of the blocking
worker. The worker is a process of its own, because `PER_FILE_TIMEOUT` bounds the wait
and not the worker.

| state | code |
|---|---|
| `disk` | inode and size of the transcript; versions of its text and of its `meta.json` |
| `states` | `HashMap<PathBuf, FileState>`; `seen` is `last_ingest_ms`, `cooldown` is "`cooldown_until` lies ahead" |
| `notes`, `found`, `pending` | the mpsc channel of events, the watch channel of discoveries, `pending_reconciliation` |
| `call`, `outcome` | the locals of the `process_file` call that awaits its worker; what the worker returned |
| `workers` | the `spawn_blocking` tasks; `in_flight` of a file is a worker of that file |
| `saved` | `agentic_session_offsets` |
| `ingested` | which version of text and `meta.json` the rows of the transcript were made from |
| `backfill` | the file `run_backfill` is in |
| `rewritten`, `backfilled`, `writes`, `faults`, `stops` | history (read by properties) and bounds |

Abstractions: time is the order of events, so `last_ingest_ms` is the number of
`meta.json` writes before that moment, less one when the last of them fell in the same
millisecond (`sibling_meta_newer` compares with `>=`); inode and device are one number
that a replacement changes; a worker reads text and `meta.json` in one step (the code
reads `meta.json` last, so it reads nothing older); `byte_offset` is left out because it
differs from the size only in a row the backfill has reset, where it makes no difference;
an offset row that the backfill does not find stays absent. Transcripts are not deleted.

Two exceptions are written into the properties: a file that was truncated and regrown to
exactly the remembered size looks unchanged to `process_file`, and the backfill command,
which is another process, may overwrite newer rows. `SavedIsIngested` is about the offset
in the database and `NothingMissed` about the watcher's memory: what it would ignore is
ingested. The liveness properties except a truncated file only in the state where its size
is the remembered one.

## 6. BrainServer

Asyncio tasks interleave at their awaits only: an action is what runs from one await to
the next, which is why the loop's test of the pause and its claim are separate actions
(the preflight is awaited between them).

| state | code |
|---|---|
| `status`, `retry` | the rows of the shell, browser and workflow queues |
| `nodes` | how many nodes were made for a row |
| `pc` | `_enrichment_loop`: at its top, waiting for the interval and the queries, awaiting the preflight (the claims follow it with no await), at the gather, in its backoff |
| `batch`, `stray` | rows whose coroutine the gather awaits; coroutines that go on after the gather has raised |
| `paused`, `operator` | `_paused`; `enrichment-state.json` |
| `asking`, `queries` | query handlers that await their request's body; `_query_inflight` |
| `sweep`, `embedding`, `classifying` | the embedding reaper's remaining nodes, `_embed_reaper_active`, `_classification_active` |

`EnrichmentActive` and `InFlightFinished` are computed from these as `control_pause`
computes them. A claim that raises is two actions, because `claim_all_sources` catches
the error of every source but the shell; several others may raise in one round. `Escape` is an exception that leaves a batch:
`asyncio.gather` raises at once, the `finally` resets the flags, and the other
coroutines become `stray`. Rows are completed by id alone, so a `Settle` ignores whether
the row is still the worker's. A shell chunk is one transaction over its rows; here they
settle one by one, in which every order of whole chunks is contained. Time is abstracted: a wait may end and a lock become
stale at any moment.

## 7. VectorStore

| state | code |
|---|---|
| `node`, `nodeOf`, `texts` | `knowledge_nodes` by id; the segment's node; texts written so far |
| `vec`, `vecModel`, `stored` | `knowledge_vectors` by rowid: embedded text and by which model; `embed_model_meta` |
| `up`, `live`, `tasks`, `todo` | the brain, the model it was started with, embeddings being awaited or stored, what the reaper has still to embed |
| `script`, `config` | the re-embed script's snapshot and models; `config.toml` |
| `crossed` | history: a store went by a drift check another process had made stale |

An embedding is three steps, since nothing is held between them: begin, look at the
model on record, store. Ids are those of `INTEGER PRIMARY KEY` without `AUTOINCREMENT`:
the next id is one above the largest, so a deleted last id is given again. The script is
two steps (its embeddings are awaited outside its transaction); its commit compares its
snapshot with the table, as `re_embed_nodes` does. Texts are numbers; the vector of a
text by a model is the pair of both. Search is left out.

## 8. Watchdog

One action per statement that commits: a run reads its rows (`Start`), deals with its
violations in order (`Skip`, `Raise`, `RaiseBusy`), and resolves (`Resolve`), or dies
(`Abort`). Beside it alarms are acknowledged, commands and probes run, the pipe breaks
and heals, a bench mutes checks.

| state | code |
|---|---|
| `pipe` | whether what is sent reaches the database (not in the code: the world) |
| `event`, `probe`, `probeOk` | ages of `last_event_ts` and `probe_last_run_ts`, and `probe_ok`, of the shell |
| `broken`, `bench` | pairs whose check finds a violation; `pause.lock` |
| `alarms` | open rows of `capture_alarms`: pair, age, clean ticks |
| `running`, `seen`, `todo` | the process, its violations and what is left of them |
| `last` | history: the violations of the last run that came to its end |

I-1 and I-8 of the shell are translated with their thresholds (staleness, idle window,
probe staleness, backstop), because they look at the same three fields and an outage can
look like idleness to both; all other checks are a pair that is broken or not. The query
for recent activity may fail, which counts as activity (`failsOpen`, a fault). `event` is
the age of `last_event_ts` and of the newest event alike: one flush writes both
(daemon.rs:473), and `write_rolling_counts` sets the first to the second
(daemon.rs:613-617). One unit
of time passes between two runs at least; ages stop at the largest threshold.

`OutageAlarmed` is about the shell's invariants and not the shell's own alarms, because the
rate limit is the invariant's: when an alarm of I-8 is acknowledged between the shell's turn
(skipped) and another source's turn in the same run, the other source's alarm is the one
that is raised, and TLC shows that this can go on. `MCWatchdogIdle` adds how long nothing can
have arrived, to tell the alarms that were raised in an outage from older ones.

## 9. Workflows

One action per committed statement or await of `run_once`: list, store a run, follow its
SHA's watchlist row, look whether it was enriched, list its jobs, delete the old annotations and ask for new ones, insert them, queue the run. A
request may be refused and the pass may die anywhere.

| state | code |
|---|---|
| `github` | each run's attempt and state at GitHub |
| `stored`, `enriched`, `details`, `queue` | `workflow_runs`, `workflow_jobs` with `workflow_annotations` per attempt, `workflow_enrichment_queue` |
| `watch` | `sha_watchlist`: there, terminal and with which status, notified, expired |
| `pc`, `page`, `drill` | `run_once`: position, what is left of the list, the run and attempt it drills into |
| `held`, `reading` | runs the brain has claimed; the conclusion it read |
| `outcome`, `node` | the `outcome` column of the node made for a run; the run whose node a run is linked to |
| `telling` | sessions that were shown a notice and have not acknowledged it |

A run is enriched by a node of its own (`WriteNode`), whose `outcome` is the raw conclusion
that was read, or, if the model's answer is word for word that of an older node, by a link
to that one (`ReuseNode`): `find_identical_node` compares content, embed_text and type, not
the conclusion. So `OutcomeTrue` speaks of the run a node was made for: every link leads to
a node made for an enriched run, and it tells the true conclusion of that run if it was
run once. Runs of the past (`Past`) were enriched before, so that there is a node to reuse.

Abstractions: one repository, at most one job per attempt (GitHub may list none, or a job
without `check_run_url`: `ListNothing`), log excerpts left out, the retry budget a free
choice (`BrainServer` counts it). Registrations are of the SHAs in `Pushed` only.

## 10. Runs, bounds and fairness

| run | question | bounds |
|---|---|---|
| capture | is an accepted event always somewhere, are lines intact, is `Delivery` implemented over interrupted recoveries, do they leave nothing behind, do buffers and shutdowns end | 1 shell probe and 1 browser id, 2 sends each, batch 1, buffer 2, 2 stops |
| agentic | upsert, sweep, worker, late coroutines, reaper interleaved; is any content left behind, and by what; the refinement | 1 segment, 3 contents (1 ineligible), 4 edits, 2 retries, 3 faults |
| watcher | offsets, the watcher's memory and rows under every interleaving, all notifications lost | 1 transcript, sizes 1 and 2, 3 writes, channel 0, 1 fault, 1 stop |
| watcher_stuck | does a hung parser block other files | 2 transcripts, one stuck, channel 1, 1 backfill |
| brain | what becomes of rows over exceptions, crashes and the reaper | 2 rows of 2 sources, 2 retries, claims of 1, 1 fault, 2 escapes, 1 pause |
| brain_pause | do pauses hold and complete | 1 row, 1 ineligible row, 2 queries, sweeps of 2, 2 pauses, 1 fault |
| vectors | one space, own vectors, whole switches, all embedded | 2 segments, 2 texts, 2 models, 1 fault, 2 switches |
| vectors_healed | (violated) the docstring's healing | as vectors |
| watchdog | spacing, resolution, outages | 3 pairs of 2 invariants, thresholds 0, 1, 1, backstop 3, rate limit 2, 1 fault |
| watchdog_idle | (violated) the comment on the carve-out | the same pairs, backstop 5, rate limit 4, no fault |
| workflows | details, outcome, settling, notices | 1 run of 2 attempts after 1 enriched run, lists of 1, 2 registrations, 1 fault |
| workflows_settle | (violated) the documented wait | 2 runs of 1 SHA, 1 registration, no fault |

Why they are enough. Properties of `Capture` are about one envelope, or two on one line;
the second send makes an id recur and the second stop interrupts the same recovery twice;
with batch 1 two buffered envelopes are flushed by two flushes. Properties of
`AgenticQueue` are about one segment, and no action relates two but the sweep's batch, whose
members it treats alike; four edits put new content before, during and after a claim and
take it back; three faults make two strays beside a worker. Three writes replace, rewrite or
extend a transcript before, during and after a worker that timed out; a second transcript
matters only for the order in which the loop gets to them (`watcher_stuck`). Two rows of
different sources are what an escape needs: one raises, the other is left behind. Two
texts and two segments replace a node, give its id to another segment and overtake an
embedding; two switches change the model and run the script. The watchdog's thresholds
keep the order of the code's: I-1 may fire before the idle window ends, the backstop is
above all; ages beyond it change no check. One run with two attempts meets every
position of a pass, and the enriched one before it is what its answer may equal and what a
list of one run loses; what two runs of a SHA do to one another is in `workflows_settle`
and in the theorems, which hold for any number of runs.
The safety properties are proved without these bounds. All bounds are named constants
(`MaxSends`, `MaxStops`, `MaxEdits`, `MaxFaults`, `MaxWrites`, `MaxBackfills`,
`MaxAsked`, `MaxPauses`, `MaxEscapes`, `MaxTexts`, `MaxSwitches`, `MaxAttempts`,
`MaxWatches`) and the proofs use no more of them than their type. Deadlock is not checked
in `Capture` (the daemon may be stopped for good, and sends are bounded) nor in
`VectorStore` (writes are bounded).

Fairness:

* `Capture`: weak, of the flush task, the accept and connection tasks and the shutdown
  sequence (tokio schedules ready tasks; the join has a timeout), and of a sender between
  its two writes (it goes on or dies). None of a restart or of recovery. A flush may fail
  every time.
* `AgenticQueue`: weak, of the worker's steps (its loop polls; a model call has a timeout)
  and of the sweep's transaction; strong, of "the sweep selects s", which assumes that the
  transcript exists, has settled, and that the sweep's window reaches it. None of the
  reaper, of strays and of links: a stale claim is taken over by the next `Claim`.
* `SessionWatcher`: weak, of a restart, the discovery timer, `process_file` and its return
  (the timeout), the end of a cooldown, the workers except those of `Stuck` files, and the
  backfill; strong, of taking a discovery, because `tokio::select!` chooses at random
  among its ready branches. None of notifications.
* `BrainServer`: weak, of the loop's steps, of each worker, of the reaper on a row nobody
  holds, of the end of queries, embeddings and classifications (all have timeouts);
  strong, of a round claiming a given row: the claim takes the oldest rows first.
* `VectorStore`: weak, of a restart and of the steps of embeddings; strong, of a sweep that
  takes a given node, old enough by then. None of the script.
* `Watchdog`: weak, of runs (launchd, every minute) and the aging of the lock file.
* `Workflows`: weak, of the poller's, the brain's and the reaper's steps. None of the
  hooks, of reruns and of GitHub.

Crashes, faults, edits, pauses and acknowledgements are never forced.

## 11. Proofs

Each `...Proofs` module assumes only the types of its constants (the named `ASSUME` of
the module it extends; `CaptureAssumption`, `WatcherAssumption` and so on).

* `CaptureProofs`: `OneRowOneJob` is inductive with types: only `InsertRow` writes rows.
  `DoneMeansStored` is not; it needs `ReplayInv`: an envelope of the file being replayed
  that is no longer to do is stored or has set the error flag, and a claimed file has no
  unterminated last line. `DurableKept` follows: the only step that forgets a file is its
  archiving. `AcceptedSafe` needs `FlushInv` (between flushes the batch is empty; when a
  flush is about to terminate a fallback line, its head is already there). `LinesIntact`
  needs `LinesInv`: an unterminated line belongs to the one holder of the lock.
  `RecoveryComplete` needs `AllListed`: while a recovery runs, every claimed file is on its
  list or is the one being replayed.
  `DeliversAlways`, the refinement of `Delivery`, uses these in `PromiseInv`, with two more
  facts: a file being replayed is still among the claimed ones and holds what is left to do
  (`ReplayOpen`), and a daemon that is down holds nothing (`DownEmpty`). One lemma for each kind of step (`PromiseSender`,
  `PromiseFlush`, `PromiseLifecycle`, `PromiseRecovery`) names the step of `Delivery` it
  maps to.
* `AgenticQueueProofs`: types need `Budget`, which counts: a row's charges, its strays and
  its worker together are at most the budget and one for each fault, and a row that is
  queued or claimed has budget left; and `RowKnown`. `OneNode`. `DoneHasNode` needs `Shown`
  (a watermark that was not given up is the node's content; a done row has a watermark and
  some node), with `MarkHeld`: the watermark a worker has read is still the row's when it
  decides, since strays wait for the claim's end. `PromiseKept` maps every step to a step
  of `Enrichment` or a stutter: it holds because `Write`, `Skip` and `Fail` compare the hash
  they hold in their own transaction, whoever calls them.
  `StrandedOnlyBy` goes over the steps that edit, close or release a row, with `MarkHeld` too.
* `SessionWatcherProofs`: `NoOlderText` follows from `Behind` (an inode and size that were
  looked up are not ahead of the file, which is why the size must be taken before the
  parse) and `OneWorker`, `WorkerInv` (a file's worker is alone and has read no less than
  its rows hold: what the in-flight check is for). `SavedIsIngested` and `NothingMissed`
  need `Memory` on top: the saved offset, the watcher's entry and the call that awaits a
  worker each know of the file only what is ingested, or what the worker has brought when
  its call takes it.
* `BrainServerProofs`: `OneNodePerRow` counts. `Bounded` adds to a row's nodes those it
  may still get: one from each stray coroutine, and one from the round that holds it or
  will claim it. The sum is at most one more than the exceptions that left a batch: each of
  them adds one and nothing else does. `Single` is the case without such an exception.
  `PauseHoldsAlways` by cases of the step: every way to the inference server passes a test
  of the flag after the last await before it, or `pc` and the counters it would need are
  not there. `PauseDrainsAlways` from types (rows are in work only during a gather) and
  `Single`.
* `VectorStoreProofs`: `OneSpace` needs `TextsOld` (whatever is stored, awaited or in the
  script's snapshot was written before, so the next text is new to all), `SeenOwn` (a check
  that was passed saw the brain's own model or none) and `Recorded` (without a model on
  record there are no vectors). `SwitchesWhole` from the same invariant; `VectorsFollow`
  from types. `WrongMeansGone` needs `OneHome` and `NodeNewest`: whatever carries a text to
  a store carries it under one id, and an id only goes to newer texts.
* `WatchdogProofs`: `Spaced` holds because the rate limit reads all open rows of the
  invariant; `ResolvesEarned` needs `TicksClean`: an alarm with one clean tick is of a pair
  the last complete run did not see. `OutageNeverExcused` is the safety part of
  `OutageAlarmed`: every run of an outage brings the probe's age nearer to the backstop,
  from which on I-8 is violated in each; it needs the order of the thresholds.
* `WorkflowsProofs`: `QueuedHasDetails` from `Drilled` (how far the drill-down of the
  position `pc` has come) and `HoldsQueued`. `OutcomeTrue` follows the conclusion from
  GitHub to the list, the row and the reader: `Truth` says that each holds GitHub's final
  state of a first attempt or none, with `PageOnce` (a list names a run once) and `Began`;
  and it follows the links: `Once` (a run's queue row is done, and its flag set, exactly when
  it is linked, a held run is not, and a node made for a run is the one it is linked to) and
  `LinkMade` (links lead to nodes that were made). `NoticeTrue` does the same for failures,
  of any attempt (`PageFailed`, `Noticed`). `EnrichedOnce` needs `Once` only.

Stated by theorems without a run that lists them: `OneRowOneJob`, `DurableKept` and
`DoneMeansStored` (the capture run checks `Delivers`, which says the same), `OneNode`
(`KeepsPromise` has it), `EnrichedOnce`, `WrongMeansGone` and `OutageNeverExcused`. TLC
finds none of them violated when they are added to the configuration of their module (for
`WrongMeansGone`, also with three texts and one switch).

Only model-checked: everything under fairness (TLAPS does not reach it here:
`BufferSettles`, `ShutdownCompletes`, `EventuallyHandled`,
`EventuallyIngested`, `MetaIngested`, `PauseCompletes`, `RowsSettle`,
`EventuallyEmbedded`, `OutageAlarmed`, `RunsSettle`, `FailureFollowed`), and the absence
of deadlock in the runs that check it.

## 12. Where code and documents differ

Shown by a run:

* **vectors_healed**: `_embed_reaper_tick`'s docstring says any node that failed to embed
  is healed. An embedding that a replacement overtook stores the old text's vector under
  the id the new node was given; the anti-join then sees a vector and never heals it.
* **watchdog_idle**: `shell_health.rs` says a genuine break still alarms instead of being
  swallowed by the idle carve-out. If commands and probe stop together, I-1 is raised and,
  once the last command is older than the idle window, resolved as idleness while the
  outage lasts. (I-8 still
  reports it later: `OutageAlarmed` passes.)
* **workflows_settle**: `docs/schema.md` says the watchlist waits for a SHA's runs to
  settle. The first run that succeeds deletes the row for all of them.

Read in the code, in the models unless the item says otherwise, but without a run of their
own:

* A crash in a flush loses the drained batch and the buffer (daemon.rs:281);
  docs/lifecycle.md:199 says the buffer goes to the fallback file.
* A fallback file that cannot be read ends the recovery of this and of every later start
  (storage.rs:2761), so the files after it in the list stay `.recovering`; the daemon only
  warns (daemon.rs:792). `RecoveryAborts` has it, and `RecoveryComplete` excuses it.
* flush_events drops an envelope of another payload kind with a warning (daemon.rs:458-460),
  while recovery counts it as an error and keeps its file (storage.rs:2808). No sender sends
  one, so it is not in the model.
* A failed session creation sends the event to the fallback file without counting its
  source as failing (daemon.rs:343; docs/capture/architecture.md:69).
* A segment edited between the worker's read and its skip is skipped with content nobody
  judged (claude_sessions.py:661, against the comment at 675). `EventuallyHandled` excludes it.
* `_drop_already_enriched_claude_segments` says of a matching watermark that "the node already
  exists" (claude_sessions.py:619), and `_agentic_segment_has_node` that it "requires the link
  to actually exist" (line 599); any link does, a CI outcome's included
  (workflow_enrichment.py:177-181, 235-239). A content that was given up, then edited and put
  back while its row waited, is closed as done on such a link without an observation of it.
  `DoneHasNode` has this exception (`givenUp`) and no other.
* A coroutine that lost its row to the reaper still charges it by session id
  (claude_sessions.py:1005-1021), so the count passes `max_retries` by up to one for each.
* A row the reaper failed is re-queued by the sweep with a fresh budget (B/watchdog.py:110,
  against the docstring at 95).
* The watcher does not notice a backfill's reset while it runs (backfill.rs:235 and :9).
* After an exception has left a batch, `control_pause` may answer in_flight_finished while
  other coroutines await the model: `PauseDrains` says `escapes = 0`. Each such exception
  may also cost a row a second node, and no more (`OneNodePerRow`).
* An exception after a node was committed would be charged to its row as a failure
  (server.py:1651-1704). Between the commit and the end of the `try` nothing raises on the
  values the tables hold, so no model has it.
* A pause or a query that begins during the preflight does not stop the round from
  claiming (docs/brain-watchdog.md:44); it is then counted as in flight, so `PauseHolds`.
* The alarm rate limit is per invariant and resolution per invariant and source, so a second
  source of an invariant is not alarmed while the first one's alarm is young. And "one alarm
  per invariant per hour" (docs/capture/architecture.md:38) does not count rows that were
  acknowledged or resolved. A run that dies before `auto_resolve_alarms` resets no ticks.
* A run whose answer is word for word another's is linked to that one's node, whatever its
  conclusion was (workflow_enrichment.py:166-192): the comment that the `outcome` column
  "intentionally holds the raw GitHub conclusion" (line 196) is true of the run the node was
  made for.
* `list_jobs` reads one page (gh_api.rs:168): a run's later jobs are not stored. The model has
  at most one job per attempt.
* `gh-pending-notifications --ack` marks by SHA: an entry that was registered again between
  the hook's reading and its marking is marked as told (`Ack`).
* A run that is run again after it was queued may be answered with the conclusion NULL, and
  the later attempt is drilled into only if the poller saw the run anew: `OutcomeTrue` is
  about first attempts.
* The annotations of a job are deleted and inserted in separate commits, so the brain may
  read none; a refused request leaves none (gh_poll.rs:209-225): `QueuedHasDetails` has both.
* A refused list ends the pass for later repositories and the cleanup; a notice vanishes
  with its entry's expiry; registering a SHA again keeps `notified`.
* workflow_enrichment.py:163 and docs/capture/anti-patterns.md:163 say a run's node has a
  uuid5; the code uses uuid4 (line 194).

## 13. Not modelled

See the `not_modelled` and `partly` rows of `PROJECT.json`. Most of the repository's
code is not about state that processes share: the parsing of transcripts and shell text,
redaction, prompts, SQL text, migrations, retrieval and ranking, RAG and the MCP server,
evaluation and benchmarks, the command line, the installer and telemetry are sequential
transformations of data, for which a state machine would only restate the code. That is
why the models cover a small share of the lines. Left out although they have state:

* the OpenCode poller's deferral and cursor, Cursor's and Pi's (ports of the Codex upsert,
  which is modelled);
* auto-memory: revisions and reconciliation of files; it needs a model of its own;
* the schema handshake, the takeover of a stale socket and the migrations: one-shot steps
  at a start;
* pruning of closed alarms, backup rotation, payload retention;
* lessons and their clustering, classification's contents, trust scores.
