------------------------------ MODULE Workflows ------------------------------
(***************************************************************************)
(* CI outcomes of one watched repository. `hippo gh-poll`, started every   *)
(* five minutes, lists the newest runs and drills into those that have     *)
(* completed: it awaits GitHub for the list, for the jobs and for the      *)
(* annotations, and commits every statement by itself. The brain enriches  *)
(* the runs it queues. Hooks of Claude Code register pushed SHAs, tell the *)
(* failures of registered SHAs to new sessions and mark them notified.     *)
(*                                                                         *)
(* A run has at most one job per attempt. Log excerpts, which no           *)
(* enrichment reads, are left out; 'cancelled' is a failure, every other   *)
(* conclusion a success, as in run_once. The retry budget of a queue row   *)
(* is a choice between 'pending' and 'failed' (BrainServer counts it).     *)
(***************************************************************************)
EXTENDS Integers, FiniteSets

CONSTANTS
  Run,         \* workflow runs: their ids grow with their creation
  Sha,
  ShaOf,       \* the head_sha of a run
  Pushed,      \* the SHAs a session of Claude Code pushes; runs have other SHAs too
  PerPage,     \* 20 in the source: how many runs list_runs returns
  MaxAttempts, \* bound: attempts of a run that may be run again
  Again,       \* the runs that may
  Past,        \* runs that had ended and were enriched before the behaviour begins
  MaxWatches,  \* bound: registrations of pushed SHAs
  MaxFaults    \* bound: refused requests, deaths of a process, failed enrichments

ASSUME WorkflowsAssumption ==
  /\ Run \subseteq Nat /\ IsFiniteSet(Run)
  /\ ShaOf \in [Run -> Sha] /\ Pushed \subseteq Sha
  /\ PerPage \in Nat /\ Again \subseteq Run /\ Past \subseteq Run
  /\ MaxAttempts \in Nat \ {0}
  /\ MaxWatches \in Nat /\ MaxFaults \in Nat

VARIABLES
  github,    \* github[r]: the attempt a run is at, and its state
  (* the database *)
  stored,    \* status and conclusion in workflow_runs
  enriched,  \* the runs whose enriched flag is set
  details,   \* details[r][a]: the job of attempt a and its annotations, if GitHub lists it
  queue,     \* workflow_enrichment_queue
  watch,     \* sha_watchlist
  (* run_once *)
  pc,
  page,      \* what it has still to store of what list_runs returned
  drill,     \* the run and the attempt it drills into
  (* the brain *)
  held,      \* runs it has claimed and not finished
  reading,   \* reading[r]: the state enrich_one_async has read
  outcome,   \* outcome[r]: the outcome column of the node made for r, if one was made
  node,      \* node[r]: the run whose node r is linked to
  (* the session-start hook *)
  telling,   \* SHAs printed and not yet marked
  (* bounds *)
  watches, faults

runVars == <<stored, enriched, details, queue>>
pollVars == <<pc, page, drill>>
brainVars == <<held, reading, outcome, node>>
vars == <<github, runVars, watch, pollVars, brainVars, telling, watches, faults>>

Final == {"success", "failure"}
State == {"none", "running"} \cup Final
Attempt == 1..MaxAttempts
Detail == {"none", "nothing", "bare", "noted", "refused"}
QueueStatus == {"none", "pending", "processing", "done", "failed"}

\* A row, if there is one: terminal_status (only failures are stored), notified, and
\* whether expires_at has passed
Entry == [there : BOOLEAN, terminal : BOOLEAN, notified : BOOLEAN, expired : BOOLEAN]
NoEntry == [there |-> FALSE, terminal |-> FALSE, notified |-> FALSE, expired |-> FALSE]
NewEntry == [NoEntry EXCEPT !.there = TRUE]

NoRun == -1
NoDrill == [run |-> NoRun, attempt |-> 0]

Fault == faults < MaxFaults /\ faults' = faults + 1

-----------------------------------------------------------------------------
(* GitHub *)

Started == {r \in Run : github[r].state # "none"}

\* What list_runs returns: the newest runs
Listed == {r \in Started : Cardinality({q \in Started : q > r}) < PerPage}

GithubSets(r, g) ==
  /\ github' = [github EXCEPT ![r] = g]
  /\ UNCHANGED <<runVars, watch, pollVars, brainVars, telling, watches, faults>>

RunStarts(r) ==
  /\ github[r].state = "none" /\ \A q \in Run \ Started : r <= q
  /\ GithubSets(r, [attempt |-> 1, state |-> "running"])

RunEnds(r, s) ==
  /\ github[r].state = "running"
  /\ GithubSets(r, [github[r] EXCEPT !.state = s])

\* The same id runs again, with new jobs.
RunAgain(r) ==
  /\ r \in Again
  /\ github[r].state \in Final /\ github[r].attempt < MaxAttempts
  /\ GithubSets(r, [attempt |-> github[r].attempt + 1, state |-> "running"])

-----------------------------------------------------------------------------
(* run_once *)

PollOnly == UNCHANGED <<github, brainVars, telling, watches>>

ListRuns ==
  /\ pc = "idle"
  /\ pc' = "store"
  /\ page' = {[run |-> r, state |-> github[r].state] : r \in Listed}
  /\ UNCHANGED <<drill, runVars, watch, faults>> /\ PollOnly

\* (variant for the mutation checks: a failed run is followed only once it is expired)
FollowLate(s, state) ==
  CASE state = "failure" /\ watch[s].there /\ watch[s].expired
         -> [watch EXCEPT ![s].terminal = TRUE]
    [] state = "success" -> [watch EXCEPT ![s] = NoEntry]
    [] OTHER -> watch

\* (variant for the mutation checks: a success is told as well)
FollowWhateverItsEnd(s, state) ==
  IF state \in Final /\ watch[s].there THEN [watch EXCEPT ![s].terminal = TRUE] ELSE watch

\* mark_terminal, or the row is deleted.
Follow(s, state) ==
  CASE state = "failure" /\ watch[s].there -> [watch EXCEPT ![s].terminal = TRUE]
    [] state = "success" -> [watch EXCEPT ![s] = NoEntry]
    [] OTHER -> watch

\* (variant for the mutation checks: a run still in progress is drilled into)
CompletedOrNot(p) == TRUE

Completed(p) == p.state \in Final

\* The newest run left in the list
Newest(p) == p \in page /\ \A q \in page : q.run <= p.run

\* upsert_run; there is no more to do for a run that goes on.
StoreRun(p) ==
  /\ pc = "store" /\ Newest(p)
  /\ stored' = [stored EXCEPT ![p.run] = p.state]
  /\ IF Completed(p)
     THEN pc' = "follow" /\ UNCHANGED page
     ELSE page' = page \ {p} /\ UNCHANGED pc
  /\ UNCHANGED <<drill, enriched, details, queue, watch, faults>> /\ PollOnly

FollowRun(p) ==
  /\ pc = "follow" /\ Newest(p)
  /\ pc' = "check"
  /\ watch' = Follow(ShaOf[p.run], p.state)
  /\ UNCHANGED <<page, drill, runVars, faults>> /\ PollOnly

\* "Skip drill-down if this run was already enriched"
CheckRun(p) ==
  /\ pc = "check" /\ Newest(p)
  /\ page' = page \ {p}
  /\ IF p.run \in enriched
     THEN pc' = "store" /\ UNCHANGED drill
     ELSE pc' = "jobs" /\ drill' = [run |-> p.run, attempt |-> 0]
  /\ UNCHANGED <<runVars, watch, faults>> /\ PollOnly

\* list_jobs tells of the attempt the run is at by now. Its job is stored, and has
\* annotations to be fetched ...
ListJobs ==
  LET r == drill.run  a == github[r].attempt IN
  /\ pc = "jobs"
  /\ pc' = "notes" /\ drill' = [drill EXCEPT !.attempt = a]
  /\ details' = [details EXCEPT ![r][a] = IF @ \in {"none", "nothing"} THEN "bare" ELSE @]
  /\ UNCHANGED <<page, stored, enriched, queue, watch, faults>> /\ PollOnly

\* ... or has none (no check_run_url), or there is no job: nothing is left to fetch.
ListNothing ==
  LET r == drill.run  a == github[r].attempt IN
  /\ pc = "jobs"
  /\ pc' = "enqueue" /\ drill' = [drill EXCEPT !.attempt = a]
  /\ details' = [details EXCEPT ![r][a] = IF @ \in {"none", "bare"} THEN "nothing" ELSE @]
  /\ UNCHANGED <<page, stored, enriched, queue, watch, faults>> /\ PollOnly

\* (variants for the mutation checks: the run is queued nevertheless; the pass ends)
RefusedButQueued == "enqueue"
RefusalEndsPass == "idle"

\* "skip this run, try the next"
AfterRefusal == "store"

ListJobsFails ==
  /\ pc = "jobs" /\ Fault
  /\ pc' = AfterRefusal
  /\ drill' = IF pc' = "store" THEN NoDrill ELSE drill
  /\ UNCHANGED <<page, runVars, watch>> /\ PollOnly

SetDetail(d) == details' = [details EXCEPT ![drill.run][drill.attempt] = d]

\* get_annotations, then the DELETE of what an earlier pass stored
FetchNotes ==
  /\ pc = "notes"
  /\ pc' = "insert" /\ SetDetail("bare")
  /\ UNCHANGED <<page, drill, stored, enriched, queue, watch, faults>> /\ PollOnly

\* GitHub refuses: what was stored is deleted all the same, and nothing is inserted.
NotesRefused ==
  /\ pc = "notes" /\ Fault
  /\ pc' = "enqueue" /\ SetDetail("refused")
  /\ UNCHANGED <<page, drill, stored, enriched, queue, watch>> /\ PollOnly

InsertNotes ==
  /\ pc = "insert"
  /\ pc' = "enqueue" /\ SetDetail("noted")
  /\ UNCHANGED <<page, drill, stored, enriched, queue, watch, faults>> /\ PollOnly

\* enqueue_enrichment: ON CONFLICT(run_id) DO NOTHING
EnqueueRun ==
  /\ pc = "enqueue"
  /\ pc' = "store" /\ drill' = NoDrill
  /\ queue' = [queue EXCEPT ![drill.run] = IF @ = "none" THEN "pending" ELSE @]
  /\ UNCHANGED <<page, stored, enriched, details, watch, faults>> /\ PollOnly

\* cleanup_expired
PassEnds ==
  /\ pc = "store" /\ page = {}
  /\ pc' = "idle"
  /\ watch' = [s \in Sha |-> IF watch[s].expired /\ watch[s].terminal /\ watch[s].notified
                             THEN NoEntry ELSE watch[s]]
  /\ UNCHANGED <<page, drill, runVars, faults>> /\ PollOnly

\* An error of the database, or the process is killed.
PassDies ==
  /\ pc # "idle" /\ Fault
  /\ pc' = "idle" /\ page' = {} /\ drill' = NoDrill
  /\ UNCHANGED <<runVars, watch>> /\ PollOnly

PollNext ==
  \/ ListRuns \/ (\E p \in page : StoreRun(p) \/ FollowRun(p) \/ CheckRun(p))
  \/ ListJobs \/ ListNothing \/ ListJobsFails
  \/ FetchNotes \/ NotesRefused \/ InsertNotes \/ EnqueueRun \/ PassEnds \/ PassDies

-----------------------------------------------------------------------------
(* The brain *)

BrainOnly == UNCHANGED <<github, stored, details, watch, pollVars, telling, watches>>

\* claim_pending_workflow_runs
Claim(r) ==
  /\ queue[r] = "pending" /\ r \notin held
  /\ queue' = [queue EXCEPT ![r] = "processing"] /\ held' = held \cup {r}
  /\ UNCHANGED <<enriched, reading, outcome, node, faults>> /\ BrainOnly

\* enrich_one_async, up to its await
Read(r) ==
  /\ r \in held /\ reading[r] = "none"
  /\ reading' = [reading EXCEPT ![r] = stored[r]]
  /\ UNCHANGED <<queue, enriched, held, outcome, node, faults>> /\ BrainOnly

Release(r) == held' = held \ {r} /\ reading' = [reading EXCEPT ![r] = "none"]

\* (variant for the mutation checks: the row stays in the queue)
LinkOnly(r, n) ==
  /\ node' = [node EXCEPT ![r] = n]
  /\ enriched' = enriched \cup {r}
  /\ Release(r)
  /\ UNCHANGED queue

\* The link to the node, the enriched flag and the queue row, whatever has become of the
\* run and of the row meanwhile
Link(r, n) ==
  /\ node' = [node EXCEPT ![r] = n]
  /\ enriched' = enriched \cup {r}
  /\ queue' = [queue EXCEPT ![r] = "done"]
  /\ Release(r)

\* A node of its own; its outcome column is "the raw GitHub conclusion" that was read.
\* One transaction
WriteNode(r) ==
  /\ reading[r] # "none"
  /\ outcome' = [outcome EXCEPT ![r] = reading[r]]
  /\ Link(r, r)
  /\ UNCHANGED faults /\ BrainOnly

\* find_identical_node: the answer is word for word that of run q's node, which r is linked
\* to instead. The node is not changed, and q may have ended otherwise.
ReuseNode(r, q) ==
  /\ reading[r] # "none" /\ outcome[q] # "none"
  /\ Link(r, q)
  /\ UNCHANGED <<outcome, faults>> /\ BrainOnly

Charge(r) == \E s \in {"pending", "failed"} : queue' = [queue EXCEPT ![r] = s]

\* mark_workflow_queue_failed
EnrichFails(r) ==
  /\ r \in held /\ Fault
  /\ Charge(r) /\ Release(r)
  /\ UNCHANGED <<enriched, outcome, node>> /\ BrainOnly

\* reap_stale_locks
Reap(r) ==
  /\ queue[r] = "processing"
  /\ Charge(r)
  /\ UNCHANGED <<enriched, brainVars, faults>> /\ BrainOnly

BrainDies ==
  /\ held # {} /\ Fault
  /\ held' = {} /\ reading' = [r \in Run |-> "none"]
  /\ UNCHANGED <<queue, enriched, outcome, node>> /\ BrainOnly

BrainNext ==
  \/ \E r \in Run : Claim(r) \/ Read(r) \/ WriteNode(r) \/ EnrichFails(r) \/ Reap(r)
  \/ \E r, q \in Run : ReuseNode(r, q)
  \/ BrainDies

-----------------------------------------------------------------------------
(* The watchlist and its hooks *)

WatchOnly == UNCHANGED <<github, runVars, pollVars, brainVars>>

\* RegisterWatchSha: an existing row only gets a new expires_at.
Register(s) ==
  /\ s \in Pushed
  /\ watches < MaxWatches /\ watches' = watches + 1
  /\ watch' = [watch EXCEPT ![s] = IF @.there THEN [@ EXCEPT !.expired = FALSE] ELSE NewEntry]
  /\ UNCHANGED <<telling, faults>> /\ WatchOnly

Expire(s) ==
  /\ watch[s].there /\ ~watch[s].expired
  /\ watch' = [watch EXCEPT ![s].expired = TRUE]
  /\ UNCHANGED <<telling, watches, faults>> /\ WatchOnly

\* pending_notifications
Pending == {s \in Sha : watch[s].terminal /\ ~watch[s].notified /\ ~watch[s].expired}

\* gh-pending-notifications prints, and marks what it printed.
Tell ==
  /\ telling = {} /\ Pending # {}
  /\ telling' = Pending
  /\ UNCHANGED <<watch, watches, faults>> /\ WatchOnly

Ack ==
  /\ telling # {} /\ telling' = {}
  /\ watch' = [s \in Sha |-> IF s \in telling /\ watch[s].there
                             THEN [watch[s] EXCEPT !.notified = TRUE] ELSE watch[s]]
  /\ UNCHANGED <<watches, faults>> /\ WatchOnly

HookDies ==
  /\ telling # {} /\ telling' = {} /\ Fault
  /\ UNCHANGED <<watch, watches>> /\ WatchOnly

WatchNext == (\E s \in Sha : Register(s) \/ Expire(s)) \/ Tell \/ Ack \/ HookDies

-----------------------------------------------------------------------------
GithubNext == \E r \in Run : RunStarts(r) \/ RunAgain(r) \/ \E s \in Final : RunEnds(r, s)

\* ended[r]: how a run of the past ended
Ended(ended, r) == IF r \in Past THEN ended[r] ELSE "none"

Init ==
  /\ \E ended \in [Past -> Final] :
       /\ github = [r \in Run |-> [attempt |-> 1, state |-> Ended(ended, r)]]
       /\ stored = [r \in Run |-> Ended(ended, r)]
       /\ outcome = [r \in Run |-> Ended(ended, r)]
  /\ enriched = Past
  /\ node = [r \in Run |-> IF r \in Past THEN r ELSE NoRun]
  /\ details = [r \in Run |-> [a \in Attempt |-> IF r \in Past /\ a = 1 THEN "noted" ELSE "none"]]
  /\ queue = [r \in Run |-> IF r \in Past THEN "done" ELSE "none"]
  /\ watch = [s \in Sha |-> NoEntry]
  /\ pc = "idle" /\ page = {} /\ drill = NoDrill
  /\ held = {} /\ reading = [r \in Run |-> "none"]
  /\ telling = {} /\ watches = 0 /\ faults = 0

Next == GithubNext \/ PollNext \/ BrainNext \/ WatchNext

Spec == Init /\ [][Next]_vars

\* launchd starts the poller again and again, GitHub answers, the brain polls and a
\* model call ends; the reaper runs. Nobody has to push, rerun or open a session.
Fairness ==
  /\ WF_vars(ListRuns) /\ WF_vars(\E p \in page : StoreRun(p) \/ FollowRun(p) \/ CheckRun(p))
  /\ WF_vars(ListJobs \/ ListNothing)
  /\ WF_vars(FetchNotes) /\ WF_vars(InsertNotes) /\ WF_vars(EnqueueRun) /\ WF_vars(PassEnds)
  /\ \A r \in Run \ Past :
       /\ WF_vars(Claim(r)) /\ WF_vars(Read(r))
       /\ WF_vars(WriteNode(r) \/ \E q \in Run : ReuseNode(r, q))
       /\ WF_vars(r \notin held /\ Reap(r))

FairSpec == Spec /\ Fairness

-----------------------------------------------------------------------------
(* Properties *)

\* Every variable holds a value of its type.
TypeOK ==
  /\ github \in [Run -> [attempt : Attempt, state : State]]
  /\ stored \in [Run -> State] /\ enriched \subseteq Run
  /\ details \in [Run -> [Attempt -> Detail]]
  /\ queue \in [Run -> QueueStatus] /\ watch \in [Sha -> Entry]
  /\ pc \in {"idle", "store", "follow", "check", "jobs", "notes", "insert", "enqueue"}
  /\ page \subseteq [run : Run, state : State]
  /\ pc = "idle" => page = {}
  /\ IF pc \in {"idle", "store", "follow", "check"}
     THEN drill = NoDrill
     ELSE drill \in [run : Run, attempt : Attempt \cup {0}]
  /\ held \subseteq Run /\ reading \in [Run -> State] /\ outcome \in [Run -> State]
  /\ node \in [Run -> Run \cup {NoRun}]
  /\ telling \subseteq Sha /\ watches \in Nat /\ faults \in Nat

\* Of a queued run GitHub has listed an attempt, and its job is stored with its annotations
\* unless GitHub lists or gives none or a later pass is fetching them or died while it
\* did: what the enrichment and the lessons are made from is there before the brain can
\* claim the run (run_once).
QueuedHasDetails ==
  \A r \in Run : queue[r] # "none" =>
    \E a \in Attempt :
      \/ details[r][a] \in {"noted", "refused", "nothing"}
      \/ details[r][a] = "bare" /\ faults > 0
      \/ drill = [run |-> r, attempt |-> a] /\ pc \in {"notes", "insert"}

\* The node an enriched run is linked to was made for that run or for another enriched one,
\* and of a run that was not run again it tells the true conclusion, however the list, the
\* drill-down, the claim and the answer interleave with the run's end. Of the other runs
\* linked to it it may not: the node of an identical answer is reused whatever its outcome
\* column says (enrich_one_async, find_identical_node).
OutcomeTrue ==
  \A r \in enriched :
    LET q == node[r] IN
    /\ q \in enriched /\ node[q] = q
    /\ outcome[q] # "none"
    /\ github[q].attempt = 1 => outcome[q] = github[q].state

\* A failure GitHub has shown; a run that was run again may have failed before.
HasFailed(r) == github[r].state = "failure" \/ github[r].attempt > 1

\* A session is told of a CI failure of a SHA only if one of its runs has failed, however
\* old the list is that the poller works through and whatever happened to the SHA's entry
\* between the hook's reading and its marking (mark_terminal, pending_notifications).
NoticeTrue ==
  \A s \in Sha : s \in telling \/ watch[s].terminal
                 => \E r \in Run : ShaOf[r] = s /\ HasFailed(r)

\* A run is enriched once: neither the reaper, which puts its row back into the queue while
\* the brain is at the model, nor a restart, nor a later pass that lists it again, nor
\* another attempt of it links it to a second node, and a node stays as it was made
\* (enrich_one_async, ON CONFLICT(run_id) DO NOTHING). Exceptions that leave a batch are
\* BrainServer's subject.
EnrichedOnce ==
  [][\A r \in Run : /\ node[r] # NoRun => node'[r] = node[r]
                    /\ outcome[r] # "none" => outcome'[r] = outcome[r]]_vars

\* A run that has completed is enriched or given up on, over refused requests and deaths
\* of either process, as long as GitHub lists it.
RunsSettle ==
  \A r \in Run \ Past :
    github[r].state \in Final
      ~> \/ queue[r] \in {"done", "failed"}
         \/ github[r].state \notin Final \/ r \notin Listed

Sole(r) == \A q \in Run : ShaOf[q] = ShaOf[r] => q = r

\* The failure of a registered SHA's only run is there for the next session to be told,
\* until the entry expires.
FailureFollowed ==
  \A r \in Run \ Past :
    Sole(r) =>
      (github[r] = [attempt |-> 1, state |-> "failure"] /\ watch[ShaOf[r]].there
        ~> \/ watch[ShaOf[r]].terminal \/ watch[ShaOf[r]].expired
           \/ github[r].attempt > 1 \/ r \notin Listed)

\* sha_watchlist "drives the gh-poller's 'wait for this SHA's runs to settle' loop"
\* (docs/schema.md): a SHA is not given up, before it expires, while one of its runs is
\* going on or has failed.
WaitsForAll ==
  [][\A s \in Sha :
       watch[s].there /\ ~watch[s].expired /\ ~watch'[s].there
         => \A r \in Run : ShaOf[r] = s => github[r].state \notin {"running", "failure"}]_vars
=============================================================================
