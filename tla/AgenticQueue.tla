----------------------------- MODULE AgenticQueue -----------------------------
(***************************************************************************)
(* The enrichment queue of agentic session segments. The daemon re-parses  *)
(* a transcript, upserts its segments and re-queues the changed ones; its  *)
(* settling sweep re-queues what fell behind; the brain claims rows, asks  *)
(* the model and writes one knowledge node per segment, compare-and-set on *)
(* the content hash it read; its reaper releases stale claims on a timer   *)
(* of its own, whether or not the worker still runs.                       *)
(*                                                                         *)
(* Daemon and brain share nothing but the SQLite database: one action is   *)
(* one transaction (or one autocommitted statement). Segments do not       *)
(* interact, so the worker's per-segment steps overlap freely. When an     *)
(* exception leaves the gather of a round, the coroutines of that round go *)
(* on as strays: they answer for segments that the next rounds may have    *)
(* claimed again, and nothing they write looks at who holds the row.       *)
(***************************************************************************)
EXTENDS Naturals, Sequences

CONSTANTS
  Segment,     \* rows of agentic_sessions
  Hash,        \* content hashes of a segment
  NoHash,      \* no row yet, or a NULL last_enriched_content_hash
  Ineligible,  \* hashes is_enrichment_eligible rejects
  MaxRetries,  \* max_retries of a queue row
  MaxEdits,    \* bound: content changes
  MaxFaults    \* bound: crashes, abandoned claims, strays and premature reaps

ASSUME AgenticAssumption ==
  /\ NoHash \notin Hash
  /\ Ineligible \subseteq Hash
  /\ MaxRetries \in Nat \ {0}
  /\ MaxEdits \in Nat
  /\ MaxFaults \in Nat

VARIABLES
  (* agentic_sessions *)
  harness,     \* the tool that wrote the transcript
  content,     \* content_hash
  mark,        \* last_enriched_content_hash
  (* agentic_enrichment_queue *)
  status,
  retry,       \* retry_count
  (* knowledge_nodes *)
  nodes,       \* the observation nodes linked to the segment: the content of each
  linked,      \* the segments a CI outcome node is linked to (workflow enrichment)
  (* the brain's worker *)
  stage,       \* how far it got with the segment it claimed
  held,        \* the content_hash it read after the claim
  heldMark,    \* the watermark it read with it
  strays,      \* the coroutines of abandoned rounds that still wait for the model
  (* the daemon's sweep *)
  candidates,  \* what the sweep's SELECT returned and its transaction has not enqueued
  (* what is remembered for the properties *)
  givenUp,     \* the segments whose watermark is of a failed or skipped content
  (* bounds *)
  edits,
  faults

queueVars == <<status, retry>>
rowVars == <<harness, content, mark>>
nodeVars == <<nodes, linked, givenUp>>
workerVars == <<stage, held, heldMark>>
vars == <<rowVars, queueVars, nodeVars, workerVars, strays, candidates, edits, faults>>

Harness == {"claude-code", "codex"}
Status == {"none", "pending", "processing", "done", "failed", "skipped"}
Stage == {"none", "claimed", "read", "model"}
\* A stray knows the content_hash it read; born tells it from its like.
Stray == [held : Hash, born : Nat]

\* (variant for the mutation checks: the retry budget is not renewed)
RequeueKeepingRetries(S) ==
  /\ status' = [s \in Segment |-> IF s \in S /\ status[s] # "processing" THEN "pending" ELSE status[s]]
  /\ UNCHANGED retry

\* INSERT ... ON CONFLICT DO UPDATE ... WHERE status != 'processing'
Requeue(S) ==
  /\ status' = [s \in Segment |-> IF s \in S /\ status[s] # "processing" THEN "pending" ELSE status[s]]
  /\ retry' = [s \in Segment |-> IF s \in S /\ status[s] # "processing" THEN 0 ELSE retry[s]]

-----------------------------------------------------------------------------
(* The daemon *)

\* (variant for the mutation checks: a done row is final)
DecideEnqueueUnlessDone(s, h) ==
  \/ content[s] = NoHash
  \/ status[s] \notin {"processing", "done"} /\ mark[s] # h

\* decide_enqueue
DecideEnqueue(s, h) ==
  \/ content[s] = NoHash
  \/ status[s] # "processing" /\ mark[s] # h

\* Only the Claude path leaves unchanged pending rows alone. (Its gate on empty
\* segments never closes: extract_segments emits none.)
Enqueues(s, h) ==
  /\ DecideEnqueue(s, h)
  /\ ~(harness[s] = "claude-code" /\ content[s] = h /\ status[s] = "pending")

\* A reparse of the transcript: the row is upserted and perhaps enqueued, in one
\* IMMEDIATE transaction.
Upsert(s, h) ==
  /\ content[s] # h => edits < MaxEdits
  /\ content' = [content EXCEPT ![s] = h]
  /\ edits' = IF content[s] = h THEN edits ELSE edits + 1
  /\ IF Enqueues(s, h) THEN Requeue({s}) ELSE UNCHANGED queueVars
  /\ UNCHANGED <<harness, mark, nodeVars, workerVars, strays, candidates, faults>>

\* (variant for the mutation checks: failed rows are left alone)
SweepableDoneOnly ==
  {s \in Segment : /\ harness[s] = "claude-code"
                   /\ content[s] # NoHash /\ content[s] # mark[s]
                   /\ status[s] \in {"none", "done"}}

Sweepable ==
  {s \in Segment : /\ harness[s] = "claude-code"
                   /\ content[s] # NoHash /\ content[s] # mark[s]
                   /\ status[s] \in {"none", "done", "failed"}}

\* run_settling_sweep: the SELECT, outside of any transaction. Which of the
\* sweepable rows come back depends on the limit and on the files' age.
SweepSelect(C) ==
  /\ candidates = {} /\ C # {}
  /\ C \subseteq Sweepable
  /\ candidates' = C
  /\ UNCHANGED <<rowVars, queueVars, nodeVars, workerVars, strays, edits, faults>>

\* run_settling_sweep: the transaction.
SweepEnqueue ==
  /\ candidates # {}
  /\ Requeue(candidates)
  /\ candidates' = {}
  /\ UNCHANGED <<rowVars, nodeVars, workerVars, strays, edits, faults>>

\* The transaction fails, or the daemon dies before it.
SweepAborts ==
  /\ candidates # {} /\ faults < MaxFaults
  /\ candidates' = {}
  /\ faults' = faults + 1
  /\ UNCHANGED <<rowVars, queueVars, nodeVars, workerVars, strays, edits>>

-----------------------------------------------------------------------------
(* The brain's worker: claim_pending_claude_segments *)

\* The claim, the read and the judgement are one call that never yields to the event
\* loop: of the brain nothing else runs meanwhile, but the daemon does.
InClaim(s) == stage[s] \in {"claimed", "read"}

\* A pending row, or one whose lock has become stale. One loop claims, and not before
\* its round is over, but a stray of an earlier round may still be at the segment.
Claim(s) ==
  /\ stage[s] = "none"
  /\ status[s] \in {"pending", "processing"}
  /\ status' = [status EXCEPT ![s] = "processing"]
  /\ stage' = [stage EXCEPT ![s] = "claimed"]
  /\ UNCHANGED <<rowVars, retry, nodeVars, held, heldMark, strays, candidates, edits, faults>>

\* The segment is read after the claim has been committed.
Read(s) ==
  /\ stage[s] = "claimed"
  /\ held' = [held EXCEPT ![s] = content[s]]
  /\ heldMark' = [heldMark EXCEPT ![s] = mark[s]]
  /\ stage' = [stage EXCEPT ![s] = "read"]
  /\ UNCHANGED <<rowVars, queueVars, nodeVars, strays, candidates, edits, faults>>

\* The worker is done with the segment, and what it read is gone.
Leave(s) ==
  /\ stage' = [stage EXCEPT ![s] = "none"]
  /\ held' = [held EXCEPT ![s] = NoHash]
  /\ heldMark' = [heldMark EXCEPT ![s] = NoHash]

\* _agentic_segment_has_node: a link to a node of any type counts.
HasNode(s) == nodes[s] # <<>> \/ s \in linked

AlreadyEnriched(s) == held[s] = heldMark[s] /\ HasNode(s)

\* (variant for the mutation checks: the watermark alone counts as proof)
DropWithoutNodeCheck(s) ==
  /\ stage[s] = "read" /\ held[s] = heldMark[s]
  /\ status' = [status EXCEPT ![s] = "done"]
  /\ Leave(s)
  /\ UNCHANGED <<rowVars, retry, nodeVars, strays, candidates, edits, faults>>

\* _drop_already_enriched_claude_segments
Drop(s) ==
  /\ stage[s] = "read" /\ AlreadyEnriched(s)
  /\ status' = [status EXCEPT ![s] = "done"]
  /\ Leave(s)
  /\ UNCHANGED <<rowVars, retry, nodeVars, strays, candidates, edits, faults>>

\* _skip_ineligible_claude_segments: the row is skipped whatever the content is
\* now, the watermark advances only if it is still what was judged.
Skip(s) ==
  /\ stage[s] = "read" /\ ~AlreadyEnriched(s) /\ held[s] \in Ineligible
  /\ status' = [status EXCEPT ![s] = "skipped"]
  /\ IF content[s] = held[s]
       THEN mark' = [mark EXCEPT ![s] = held[s]] /\ givenUp' = givenUp \cup {s}
       ELSE UNCHANGED <<mark, givenUp>>
  /\ Leave(s)
  /\ UNCHANGED <<harness, content, retry, nodes, linked, strays, candidates,
                 edits, faults>>

\* The segment goes to the model.
Keep(s) ==
  /\ stage[s] = "read" /\ ~AlreadyEnriched(s) /\ held[s] \notin Ineligible
  /\ stage' = [stage EXCEPT ![s] = "model"]
  /\ UNCHANGED <<rowVars, queueVars, nodeVars, held, heldMark, strays, candidates, edits, faults>>

-----------------------------------------------------------------------------
(* The model's answer about the content h, in one transaction. Whether the row is *)
(* still locked, and by whom, is not asked.                                       *)

\* (variant for the mutation checks: no compare-and-set)
NeverSuperseded(s, h) == FALSE

Superseded(s, h) == content[s] # h

\* release_changed_agentic_batch: the result is discarded and the row released,
\* if it is still claimed.
Release(s, h) ==
  /\ Superseded(s, h)
  /\ status' = [status EXCEPT ![s] = IF @ = "processing" THEN "pending" ELSE @]
  /\ UNCHANGED <<mark, retry, nodes, givenUp>>

\* replace_prior_agentic_nodes and the INSERT of the new node; a CI outcome's link stays.
ReplaceNode(s, h) == nodes' = [nodes EXCEPT ![s] = <<h>>]

\* write_claude_knowledge_node
Write(s, h) ==
  /\ ~Superseded(s, h)
  /\ ReplaceNode(s, h)
  /\ status' = [status EXCEPT ![s] = "done"]
  /\ mark' = [mark EXCEPT ![s] = h]
  /\ givenUp' = givenUp \ {s}
  /\ UNCHANGED retry

Exhausted(s) == retry[s] + 1 >= MaxRetries

\* mark_claude_queue_failed
Fail(s, h) ==
  /\ ~Superseded(s, h)
  /\ retry' = [retry EXCEPT ![s] = @ + 1]
  /\ IF Exhausted(s)
       THEN /\ status' = [status EXCEPT ![s] = "failed"]
            /\ mark' = [mark EXCEPT ![s] = h]
            /\ givenUp' = givenUp \cup {s}
       ELSE /\ status' = [status EXCEPT ![s] = "pending"]
            /\ UNCHANGED <<mark, givenUp>>
  /\ UNCHANGED nodes

Answer(s, h) == Release(s, h) \/ Write(s, h) \/ Fail(s, h)

-----------------------------------------------------------------------------
(* Who gives the answer, and what ends without one *)

\* The worker's own round.
Settle(s) ==
  /\ stage[s] = "model"
  /\ Answer(s, held[s])
  /\ Leave(s)
  /\ UNCHANGED <<harness, content, linked, strays, candidates, edits, faults>>

\* An exception of another source leaves the gather: the coroutine at the segment is
\* neither awaited nor cancelled.
Escape(s) ==
  /\ stage[s] = "model" /\ faults < MaxFaults
  /\ strays' = [strays EXCEPT ![s] = @ \cup {[held |-> held[s], born |-> faults]}]
  /\ Leave(s)
  /\ faults' = faults + 1
  /\ UNCHANGED <<rowVars, queueVars, nodeVars, candidates, edits>>

\* A stray's answer comes at any await of the brain.
StraySettles(s, t) ==
  /\ ~InClaim(s)
  /\ Answer(s, t.held)
  /\ strays' = [strays EXCEPT ![s] = @ \ {t}]
  /\ UNCHANGED <<harness, content, linked, workerVars, candidates, edits, faults>>

\* An exception leaves the claim or the worker's batch (a busy database in the error
\* path): the row stays 'processing'.
Abandon(s) ==
  /\ stage[s] # "none" /\ faults < MaxFaults
  /\ Leave(s)
  /\ faults' = faults + 1
  /\ UNCHANGED <<rowVars, queueVars, nodeVars, strays, candidates, edits>>

BrainCrash ==
  /\ \E s \in Segment : stage[s] # "none" \/ strays[s] # {}
  /\ faults < MaxFaults
  /\ stage' = [s \in Segment |-> "none"]
  /\ held' = [s \in Segment |-> NoHash] /\ heldMark' = [s \in Segment |-> NoHash]
  /\ strays' = [s \in Segment |-> {}]
  /\ faults' = faults + 1
  /\ UNCHANGED <<rowVars, queueVars, nodeVars, candidates, edits>>

\* reap_stale_locks, on the reaper's own timer. A reap while the worker is still at
\* the segment is counted as a fault: the lock timeout was too short for it.
Reap(s) ==
  /\ status[s] = "processing" /\ ~InClaim(s)
  /\ stage[s] # "none" => faults < MaxFaults
  /\ faults' = IF stage[s] # "none" THEN faults + 1 ELSE faults
  /\ retry' = [retry EXCEPT ![s] = @ + 1]
  /\ status' = [status EXCEPT ![s] = IF Exhausted(s) THEN "failed" ELSE "pending"]
  /\ UNCHANGED <<rowVars, nodeVars, workerVars, strays, candidates, edits>>

\* enrich_one links the outcome of a CI run to the segments around its time.
LinkOutcome(s) ==
  /\ content[s] # NoHash /\ ~InClaim(s)
  /\ linked' = linked \cup {s}
  /\ UNCHANGED <<rowVars, queueVars, nodes, givenUp, workerVars, strays, candidates, edits,
                 faults>>

-----------------------------------------------------------------------------
Init ==
  /\ harness \in [Segment -> Harness]
  /\ content = [s \in Segment |-> NoHash] /\ mark = [s \in Segment |-> NoHash]
  /\ status = [s \in Segment |-> "none"] /\ retry = [s \in Segment |-> 0]
  /\ nodes = [s \in Segment |-> <<>>] /\ linked = {} /\ givenUp = {}
  /\ stage = [s \in Segment |-> "none"] /\ strays = [s \in Segment |-> {}]
  /\ held = [s \in Segment |-> NoHash] /\ heldMark = [s \in Segment |-> NoHash]
  /\ candidates = {} /\ edits = 0 /\ faults = 0

Judge(s) == Drop(s) \/ Skip(s) \/ Keep(s)

WorkerNext(s) ==
  \/ Claim(s) \/ Read(s) \/ Judge(s) \/ Settle(s)
  \/ Escape(s) \/ Abandon(s)
  \/ \E t \in strays[s] : StraySettles(s, t)

Next ==
  \/ \E s \in Segment, h \in Hash : Upsert(s, h)
  \/ \E C \in SUBSET Segment : SweepSelect(C)
  \/ SweepEnqueue \/ SweepAborts
  \/ \E s \in Segment : WorkerNext(s) \/ Reap(s) \/ LinkOutcome(s)
  \/ BrainCrash

Spec == Init /\ [][Next]_vars

-----------------------------------------------------------------------------
(* Properties *)

\* Every variable holds a value of its type. The last attempt of a row may be charged by
\* its worker, by the reaper and by each stray that still answers for it
\* (mark_claude_queue_failed asks for neither status nor lock), so the count passes its
\* maximum, but by no more than one for each coroutine that lost its row.
TypeOK ==
  /\ harness \in [Segment -> Harness]
  /\ content \in [Segment -> Hash \cup {NoHash}]
  /\ mark \in [Segment -> Hash \cup {NoHash}]
  /\ status \in [Segment -> Status]
  /\ retry \in [Segment -> Nat]
  /\ \A s \in Segment : retry[s] <= MaxRetries + faults
  /\ nodes \in [Segment -> Seq(Hash)]
  /\ linked \subseteq Segment /\ givenUp \subseteq Segment
  /\ stage \in [Segment -> Stage]
  /\ held \in [Segment -> Hash \cup {NoHash}]
  /\ heldMark \in [Segment -> Hash \cup {NoHash}]
  /\ strays \in [Segment -> SUBSET Stray]
  /\ candidates \subseteq Segment
  /\ edits \in Nat /\ faults \in Nat

\* A segment never accumulates nodes, however often it is re-queued by the watcher,
\* the sweep or the reaper while a worker still holds it (replace_prior_agentic_nodes).
OneNode == \A s \in Segment : Len(nodes[s]) <= 1

\* The promise the daemon and the brain keep together: seen from outside, the content
\* of a segment changes at any time, and its one node and its watermark only ever
\* become what the content is at that moment: an answer to superseded content is
\* neither published nor remembered as handled (release_changed_agentic_batch, the
\* guards on content_hash).
Promise ==
  INSTANCE Enrichment WITH Item <- Segment, Text <- Hash, NoText <- NoHash,
                           text <- content, published <- nodes, settled <- mark

KeepsPromise == Promise!Spec

\* A row that is done shows the observation of the content its watermark names. The one
\* exception is a content that was given up before and came back while its row waited: the
\* claim then closes the row on any linked node, an observation of another content or a CI
\* outcome, but never on none (_drop_already_enriched_claude_segments,
\* _agentic_segment_has_node).
DoneHasNode ==
  \A s \in Segment :
    status[s] = "done" => \/ nodes[s] = <<mark[s]>>
                          \/ s \in givenUp /\ HasNode(s)

\* Content that nobody has handled and that waits in no queue.
Stranded(s) ==
  /\ content[s] \notin {NoHash, mark[s]}
  /\ status[s] \notin {"pending", "processing"}

\* The reaper charges the last attempt of a row.
ReapedForGood(s) ==
  status[s] = "processing" /\ status'[s] = "failed" /\ retry'[s] >= MaxRetries

\* The worker closes a row for what it read, which is no longer the content.
JudgedTooLate(s) ==
  stage[s] = "read" /\ held[s] # content[s] /\ status'[s] \in {"done", "skipped"}

\* Content is stranded in two ways only: the reaper gives up on its row, or it changed
\* after the worker read what it then found enriched or ineligible. Not by an edit during
\* a claim, which queues nothing, nor by an answer, a failure or a release that comes after
\* one (decide_enqueue: "Watermark advancement must never strand changed content"). Of
\* these rows the sweep finds the Claude ones that were not skipped.
StrandedOnlyBy ==
  [][\A s \in Segment :
       Stranded(s)' => Stranded(s) \/ ReapedForGood(s) \/ JudgedTooLate(s)]_vars

-----------------------------------------------------------------------------
(* Liveness *)

\* The brain's polling loop and its reaper run, a model call ends (it has a timeout
\* and three attempts), and the watcher's heartbeat sweeps every settled file.
Fairness ==
  /\ \A s \in Segment : /\ WF_vars(Claim(s)) /\ WF_vars(Read(s))
                        /\ WF_vars(Judge(s)) /\ WF_vars(Settle(s))
                        /\ SF_vars(\E C \in SUBSET Segment : s \in C /\ SweepSelect(C))
  /\ WF_vars(SweepEnqueue)

FairSpec == Spec /\ Fairness

\* Once edits and faults have ended, each Claude segment's content is enriched, found
\* ineligible or given up on: no content, however it raced with a claim, a reap or a
\* crash, is left behind (decide_enqueue rule 4, run_settling_sweep). The one way out
\* is a skip: it closes the row although the content may have changed since it was read.
EventuallyHandled ==
  \A s \in Segment :
    harness[s] = "claude-code" /\ content[s] # mark[s]
      ~> content[s] = mark[s] \/ status[s] = "skipped"
=============================================================================
