----------------------------- MODULE BrainServer -----------------------------
(***************************************************************************)
(* The brain's asyncio tasks: the enrichment loop with its preflight, its  *)
(* claims and its gather over the sources, the stale-lock reaper, the      *)
(* embedding reaper, the classification loop, and the requests that query, *)
(* pause and resume. The tasks interleave at their awaits only: an action  *)
(* is what runs from one await to the next.                                *)
(*                                                                         *)
(* A row is a shell, browser or workflow row of an enrichment queue: their *)
(* workers complete a row by its id alone. (Agentic rows have a module of  *)
(* their own, AgenticQueue.) Time is abstracted: a poll interval may end   *)
(* and a lock become stale at any moment, so the events that only shorten  *)
(* a wait (_resume_event, _query_arrived) leave no trace.                  *)
(***************************************************************************)
EXTENDS Naturals, FiniteSets

CONSTANTS
  Row,
  Source,      \* the registry ENRICHMENT_SOURCES
  SourceOf,    \* the queue a row belongs to
  Shell,       \* the source whose claim errors propagate
  Ineligible,  \* rows is_enrichment_eligible rejects
  MaxRetries,  \* max_retries of a queue row
  MaxClaim,    \* max_claim_batch, per source
  MaxSweep,    \* embed_reaper_batch_size
  MaxAsked,    \* bound: queries that arrive
  MaxPauses,   \* bound: pauses of either kind
  MaxFaults,   \* bound: refused preflights, rounds in which claims raise, crashes
  MaxEscapes   \* bound: exceptions that leave a batch

ASSUME BrainAssumption ==
  /\ SourceOf \in [Row -> Source]
  /\ Shell \in Source
  /\ Ineligible \subseteq Row
  /\ MaxRetries \in Nat \ {0}
  /\ MaxClaim \in Nat /\ MaxSweep \in Nat
  /\ MaxAsked \in Nat /\ MaxPauses \in Nat /\ MaxFaults \in Nat /\ MaxEscapes \in Nat

VARIABLES
  (* the queues and knowledge_nodes *)
  status,
  retry,        \* retry_count
  nodes,        \* how many nodes were made for the row
  (* _enrichment_loop *)
  pc,
  batch,        \* rows the coroutines of the gather have still to finish
  stray,        \* how many coroutines left behind by a failed gather hold the row
  (* control *)
  paused,       \* _paused, in memory
  operator,     \* enrichment-state.json
  asking,       \* query requests whose body is still arriving
  queries,      \* _query_inflight
  (* the other inference *)
  sweep,        \* nodes the embedding reaper's tick has still to embed
  embedding,    \* _embed_reaper_active
  classifying,  \* _classification_active
  (* bounds *)
  asked, pauses, faults, escapes

rowVars == <<status, retry, nodes>>
workVars == <<batch, stray>>
controlVars == <<paused, operator, pauses>>
queryVars == <<asking, queries, asked>>
otherVars == <<sweep, embedding, classifying>>
vars == <<rowVars, pc, workVars, controlVars, queryVars, otherVars, faults, escapes>>

Status == {"none", "pending", "processing", "done", "failed", "skipped"}
LoopPc == {"top", "wait", "preflight", "gather", "backoff"}
Worker == {"round", "stray"}

Paused == paused \/ operator                          \* _enrichment_paused
\* (variant for the mutation checks: the flag is down again before the gather)
EnrichmentActiveInPreflight == pc = "preflight"

EnrichmentActive == pc \in {"preflight", "gather"}    \* _enrichment_active

\* What control_pause reports of the work in flight
InFlightFinished ==
  queries = 0 /\ ~EnrichmentActive /\ ~classifying /\ ~embedding

\* The daemon queues an event.
Enqueue(r) ==
  /\ status[r] = "none"
  /\ status' = [status EXCEPT ![r] = "pending"]
  /\ UNCHANGED <<retry, nodes, pc, workVars, controlVars, queryVars, otherVars, faults, escapes>>

-----------------------------------------------------------------------------
(* _enrichment_loop *)

MoveTo(p) ==
  /\ pc' = p
  /\ UNCHANGED <<rowVars, workVars, controlVars, queryVars, otherVars, escapes>>

Poll == pc = "top" /\ ~Paused /\ MoveTo("wait") /\ UNCHANGED faults

\* (variant for the mutation checks: the pause is not tested again after the waits)
StartRoundUnchecked == pc = "wait" /\ queries = 0 /\ MoveTo("preflight") /\ UNCHANGED faults

\* The interval is over and the queries have drained; nothing is awaited between the
\* second test of the pause and _enrichment_active.
StartRound ==
  /\ pc = "wait" /\ queries = 0
  /\ MoveTo(IF Paused THEN "top" ELSE "preflight")
  /\ UNCHANGED faults

\* preflight_inference: no backend, or no chat model loaded
PreflightRefuses ==
  /\ pc = "preflight" /\ faults < MaxFaults
  /\ faults' = faults + 1
  /\ MoveTo("top")

Claimable == {r \in Row : status[r] \in {"pending", "processing"}}

RowsOf(src) == {r \in Row : SourceOf[r] = src}

\* The rows claim_all_sources takes, and those it marks but loses to an exception
Take(taken, lost) ==
  /\ pc = "preflight"
  /\ taken \cup lost \subseteq Claimable
  /\ \A src \in Source : Cardinality(RowsOf(src) \cap (taken \cup lost)) <= MaxClaim
  /\ status' = [r \in Row |-> CASE r \in lost \cup (taken \ Ineligible) -> "processing"
                                [] r \in taken \cap Ineligible -> "skipped"
                                [] OTHER -> status[r]]
  /\ batch' = taken \ Ineligible
  /\ UNCHANGED <<retry, nodes, stray, controlVars, queryVars, otherVars, escapes>>

\* Which pending rows are old enough to be taken is left open.
Claims(C) ==
  /\ Take(C, {})
  /\ pc' = IF C \subseteq Ineligible THEN "top" ELSE "gather"
  /\ UNCHANGED faults

\* The shell claim raises after it has marked L: the loop backs off.
ShellClaimRaises(L) ==
  /\ L \subseteq RowsOf(Shell) /\ faults < MaxFaults
  /\ Take({}, L)
  /\ pc' = "backoff"
  /\ faults' = faults + 1

\* The claims of other sources S raise: the round goes on without them.
OtherClaimsRaise(S, L, C) ==
  /\ S # {} /\ Shell \notin S
  /\ \A r \in L : SourceOf[r] \in S
  /\ \A r \in C : SourceOf[r] \notin S
  /\ faults < MaxFaults
  /\ Take(C, L)
  /\ pc' = IF C \subseteq Ineligible THEN "top" ELSE "gather"
  /\ faults' = faults + 1

GatherEnds == pc = "gather" /\ batch = {} /\ MoveTo("top") /\ UNCHANGED faults

\* (variant for the mutation checks: the exception ends the loop)
BackoffNeverEnds == pc = "backoff" /\ MoveTo("backoff") /\ UNCHANGED faults

BackoffEnds == pc = "backoff" /\ MoveTo("top") /\ UNCHANGED faults

-----------------------------------------------------------------------------
(* The sources' coroutines: while one has rows left it awaits the model *)

\* A coroutine of the round, or a stray one, is finished with the row.
Leaves(r, w) ==
  \/ /\ w = "round" /\ r \in batch
     /\ batch' = batch \ {r}
     /\ UNCHANGED stray
  \/ /\ w = "stray" /\ stray[r] > 0
     /\ stray' = [stray EXCEPT ![r] = @ - 1]
     /\ UNCHANGED batch

\* (variant for the mutation checks: the queue row is not completed with the node)
WriteNodeOnly(r, w) ==
  /\ Leaves(r, w)
  /\ nodes' = [nodes EXCEPT ![r] = @ + 1]
  /\ UNCHANGED <<status, retry, pc, controlVars, queryVars, otherVars, faults, escapes>>

\* write_knowledge_node and its siblings: by the row's id, whatever its status. The
\* browser and the workflow writer link an identical node instead of making one. (A shell
\* chunk is one transaction over its rows: they settle together, here also one by one.)
WriteNode(r, w) ==
  /\ Leaves(r, w)
  /\ \/ nodes' = [nodes EXCEPT ![r] = @ + 1]
     \/ SourceOf[r] # Shell /\ UNCHANGED nodes
  /\ status' = [status EXCEPT ![r] = "done"]
  /\ UNCHANGED <<retry, pc, controlVars, queryVars, otherVars, faults, escapes>>

\* retry_count + 1 >= max_retries
Charge(r) ==
  /\ retry' = [retry EXCEPT ![r] = @ + 1]
  /\ status' = [status EXCEPT ![r] = IF retry[r] + 1 >= MaxRetries THEN "failed" ELSE "pending"]

\* mark_queue_failed and its siblings: by the row's id, whatever its status
MarkFailed(r, w) ==
  /\ Leaves(r, w)
  /\ Charge(r)
  /\ UNCHANGED <<nodes, pc, controlVars, queryVars, otherVars, faults, escapes>>

\* (variant for the mutation checks: the loop gives up its batch only in part)
EscapeKeepingBatch(r) ==
  /\ r \in batch /\ escapes < MaxEscapes
  /\ batch' = batch \ RowsOf(SourceOf[r])
  /\ pc' = "backoff"
  /\ escapes' = escapes + 1
  /\ UNCHANGED <<rowVars, stray, controlVars, queryVars, otherVars, faults>>

\* The error path of a batch raises (a busy database): its coroutine ends, and so does
\* the gather, while the coroutines of the other sources go on.
Escape(r) ==
  /\ r \in batch /\ escapes < MaxEscapes
  /\ stray' = [x \in Row |-> IF x \in batch \ RowsOf(SourceOf[r]) THEN stray[x] + 1 ELSE stray[x]]
  /\ batch' = {}
  /\ pc' = "backoff"
  /\ escapes' = escapes + 1
  /\ UNCHANGED <<rowVars, controlVars, queryVars, otherVars, faults>>

\* The same in a stray coroutine: nobody notices.
StrayEscape(S) ==
  /\ escapes < MaxEscapes
  /\ S # {} /\ \A r \in S : stray[r] > 0
  /\ \E src \in Source : S \subseteq RowsOf(src)
  /\ stray' = [r \in Row |-> IF r \in S THEN stray[r] - 1 ELSE stray[r]]
  /\ escapes' = escapes + 1
  /\ UNCHANGED <<rowVars, pc, batch, controlVars, queryVars, otherVars, faults>>

Held(r) == r \in batch \/ stray[r] > 0

\* reap_stale_locks, on the timer of _reaper_loop, paused or not
Reap(r) ==
  /\ status[r] = "processing"
  /\ Charge(r)
  /\ UNCHANGED <<nodes, pc, workVars, controlVars, queryVars, otherVars, faults, escapes>>

-----------------------------------------------------------------------------
(* Control *)

Control(p, o) ==
  /\ paused' = p /\ operator' = o
  /\ UNCHANGED <<rowVars, pc, workVars, queryVars, otherVars, faults, escapes>>

Pause == /\ ~paused /\ pauses < MaxPauses
         /\ pauses' = pauses + 1
         /\ Control(TRUE, operator)

Resume == paused /\ Control(FALSE, operator) /\ UNCHANGED pauses

OperatorPause == /\ ~operator /\ pauses < MaxPauses
                 /\ pauses' = pauses + 1
                 /\ Control(paused, TRUE)

OperatorResume == operator /\ Control(paused, FALSE) /\ UNCHANGED pauses

QueryOnly == UNCHANGED <<rowVars, pc, workVars, controlVars, otherVars, faults, escapes>>

\* _query_priority: the body is awaited after the first test of the pause.
QueryArrives ==
  /\ ~paused /\ asked < MaxAsked
  /\ asking' = asking + 1 /\ asked' = asked + 1
  /\ UNCHANGED queries /\ QueryOnly

\* (variant for the mutation checks: no second test)
BodyReadUnchecked ==
  /\ asking > 0
  /\ asking' = asking - 1 /\ queries' = queries + 1
  /\ UNCHANGED asked /\ QueryOnly

\* The body is there: the query runs, or it is refused (paused, or no JSON object).
BodyRead ==
  /\ asking > 0
  /\ asking' = asking - 1
  /\ \/ ~paused /\ queries' = queries + 1
     \/ UNCHANGED queries
  /\ UNCHANGED asked /\ QueryOnly

\* (variant for the mutation checks: max(1, ...))
QueryEndsOffByOne ==
  /\ queries > 0
  /\ queries' = IF queries > 1 THEN queries - 1 ELSE 1
  /\ UNCHANGED <<asking, asked>> /\ QueryOnly

QueryEnds ==
  /\ queries > 0
  /\ queries' = queries - 1
  /\ UNCHANGED <<asking, asked>> /\ QueryOnly

-----------------------------------------------------------------------------
(* _embed_reaper_tick and _classification_loop *)

OtherOnly == UNCHANGED <<rowVars, pc, workVars, controlVars, queryVars, faults, escapes>>

SweepTick ==
  /\ sweep = 0 /\ ~embedding /\ ~paused
  /\ sweep' \in 1..MaxSweep
  /\ UNCHANGED <<embedding, classifying>> /\ OtherOnly

\* Before each node the pause is tested again.
EmbedBegins ==
  /\ sweep > 0 /\ ~embedding
  /\ IF paused
     THEN sweep' = 0 /\ UNCHANGED embedding
     ELSE sweep' = sweep - 1 /\ embedding' = TRUE
  /\ UNCHANGED classifying /\ OtherOnly

EmbedEnds ==
  /\ embedding /\ embedding' = FALSE
  /\ UNCHANGED <<sweep, classifying>> /\ OtherOnly

ClassifyBegins ==
  /\ ~paused /\ queries = 0 /\ ~classifying
  /\ classifying' = TRUE
  /\ UNCHANGED <<sweep, embedding>> /\ OtherOnly

ClassifyEnds ==
  /\ classifying /\ classifying' = FALSE
  /\ UNCHANGED <<sweep, embedding>> /\ OtherOnly

\* The process dies and is started again: the bench pause is forgotten, the operator's
\* is not, and claimed rows stay 'processing'.
Crash ==
  /\ faults < MaxFaults
  /\ pc' = "top" /\ batch' = {} /\ stray' = [r \in Row |-> 0]
  /\ paused' = FALSE
  /\ asking' = 0 /\ queries' = 0
  /\ sweep' = 0 /\ embedding' = FALSE /\ classifying' = FALSE
  /\ faults' = faults + 1
  /\ UNCHANGED <<rowVars, operator, pauses, asked, escapes>>

-----------------------------------------------------------------------------
Init ==
  /\ status = [r \in Row |-> "none"] /\ retry = [r \in Row |-> 0]
  /\ nodes = [r \in Row |-> 0]
  /\ pc = "top" /\ batch = {} /\ stray = [r \in Row |-> 0]
  /\ paused = FALSE /\ operator = FALSE
  /\ asking = 0 /\ queries = 0
  /\ sweep = 0 /\ embedding = FALSE /\ classifying = FALSE
  /\ asked = 0 /\ pauses = 0 /\ faults = 0 /\ escapes = 0

ClaimNext ==
  \/ \E C \in SUBSET Row : Claims(C)
  \/ \E L \in SUBSET Row : ShellClaimRaises(L)
  \/ \E S \in SUBSET Source, L, C \in SUBSET Row : OtherClaimsRaise(S, L, C)

LoopNext ==
  Poll \/ StartRound \/ PreflightRefuses \/ ClaimNext \/ GatherEnds \/ BackoffEnds

Settle(r, w) == WriteNode(r, w) \/ MarkFailed(r, w)

RowNext(r) == Enqueue(r) \/ Escape(r) \/ Reap(r) \/ \E w \in Worker : Settle(r, w)

ControlNext == Pause \/ Resume \/ OperatorPause \/ OperatorResume

QueryNext == QueryArrives \/ BodyRead \/ QueryEnds

OtherNext == SweepTick \/ EmbedBegins \/ EmbedEnds \/ ClassifyBegins \/ ClassifyEnds

Next ==
  \/ LoopNext \/ ControlNext \/ QueryNext \/ OtherNext
  \/ \E r \in Row : RowNext(r)
  \/ \E S \in SUBSET Row : StrayEscape(S)
  \/ Crash

Spec == Init /\ [][Next]_vars

\* The tasks run, a body arrives, a handler, a model call and an embedding end (each
\* has a timeout). A row that waits is among those claimed some day: its session gets
\* old and the claim takes the oldest first. Nobody has to pause or resume.
Fairness ==
  /\ WF_vars(Poll) /\ WF_vars(StartRound) /\ WF_vars(GatherEnds) /\ WF_vars(BackoffEnds)
  /\ WF_vars(\E C \in SUBSET Row : Claims(C))
  /\ \A r \in Row :
       /\ SF_vars(\E C \in SUBSET Row : r \in C /\ Claims(C))
       /\ \A w \in Worker : WF_vars(Settle(r, w))
       /\ WF_vars(~Held(r) /\ Reap(r))
  /\ WF_vars(BodyRead) /\ WF_vars(QueryEnds)
  /\ WF_vars(EmbedBegins) /\ WF_vars(EmbedEnds) /\ WF_vars(ClassifyEnds)

FairSpec == Spec /\ Fairness

-----------------------------------------------------------------------------
(* Properties *)

\* Every variable holds a value of its type; rows are in work only during a gather.
TypeOK ==
  /\ status \in [Row -> Status] /\ retry \in [Row -> Nat] /\ nodes \in [Row -> Nat]
  /\ pc \in LoopPc
  /\ batch \subseteq Row /\ stray \in [Row -> Nat]
  /\ pc # "gather" => batch = {}
  /\ paused \in BOOLEAN /\ operator \in BOOLEAN
  /\ asking \in Nat /\ queries \in Nat
  /\ sweep \in Nat /\ embedding \in BOOLEAN /\ classifying \in BOOLEAN
  /\ asked \in Nat /\ pauses \in Nat /\ faults \in Nat /\ escapes \in Nat

\* A row yields at most one node, although the reaper releases and charges rows whose
\* worker is still at the model and a late answer is written whatever became of the row
\* (write_knowledge_node, reap_stale_locks). Each exception that leaves a batch may cost
\* one more, never two: the coroutines a failed gather leaves behind go on with rows that
\* are claimed again.
OneNodePerRow == \A r \in Row : nodes[r] <= 1 + escapes

\* Once control_pause has answered in_flight_finished, no task takes the inference
\* server again before a resume: not a round that was waiting, not a query whose body
\* was still arriving, not the rest of an embedding sweep. An operator's pause likewise
\* holds the enrichment loop.
PauseHolds ==
  [][/\ paused /\ InFlightFinished /\ paused' => InFlightFinished'
     /\ operator /\ ~EnrichmentActive /\ operator' => ~EnrichmentActive']_vars

\* A bench that pauses and polls gets its in_flight_finished, unless someone resumes
\* (pause_rpc waits for it).
PauseCompletes == paused ~> InFlightFinished \/ ~paused

\* Unless it is paused again and again, every queued row is enriched, given up on or found
\* ineligible, however its claim was lost: to an exception, a crash or the reaper.
RowsSettle ==
  \/ []<>Paused
  \/ \A r \in Row : status[r] \in {"pending", "processing"}
                      ~> status[r] \in {"done", "failed", "skipped"}

\* "Existing queries, enrichment, classification, and reaper embeddings must drain
\* before bench callers can own the inference server slot" (control_pause): when the
\* answer is in_flight_finished, no coroutine of an enrichment awaits the model, unless an
\* exception has left a batch: the gather then ends without its other coroutines.
PauseDrains ==
  escapes = 0 => (paused /\ InFlightFinished => \A r \in Row : ~Held(r))
=============================================================================
