------------------------------- MODULE Watchdog -------------------------------
(***************************************************************************)
(* `hippo watchdog run`, a short-lived process that launchd starts every   *)
(* minute: it reads source_health, decides which invariants are violated,  *)
(* raises alarms (rate-limited per invariant) and resolves those whose     *)
(* violation has gone (per invariant and source). Beside it users ack      *)
(* alarms, commands and probes arrive or not, and benches mute checks. The *)
(* shell's two checks and their idle carve-out are modelled by their       *)
(* thresholds; the other sources' checks hold or not.                      *)
(*                                                                         *)
(* One unit of time is what passes between two runs; ages stop at a cap.   *)
(***************************************************************************)
EXTENDS Integers

CONSTANTS
  Liveness, Freshness,  \* the pairs (I-1, shell) and (I-8, shell)
  Other,                \* further pairs of an invariant and a source
  InvOf,                \* the invariant of each pair
  Rank,                 \* where check_invariants puts a pair's violation
  BenchMutes,           \* the pairs a bench pause suppresses
  ShellStale,           \* SHELL_LIVENESS_STALE_MS
  IdleWindow,           \* SHELL_IDLE_WINDOW_MS
  ProbeStale,           \* PROBE_STALE_MS
  Backstop,             \* SHELL_IDLE_SUPPRESSION_BACKSTOP_MS
  RateLimit,            \* alarm_rate_limit_minutes
  Elapse,               \* how much time may pass between two runs (more: sleep)
  MaxFaults             \* bound: runs that die, inserts that find the database busy,
                        \* queries of the shell's activity that fail and bench pauses

Shell == {Liveness, Freshness}
Pair == Shell \cup Other
Age == 0..Backstop

ASSUME WatchdogAssumption ==
  /\ Liveness # Freshness
  /\ Rank \in [Pair -> Nat]
  /\ BenchMutes \subseteq Pair
  /\ Backstop \in Nat
  /\ ShellStale \in 0..(Backstop - 1) /\ IdleWindow \in 0..(Backstop - 1)
  /\ ProbeStale \in 0..(Backstop - 1)
  /\ RateLimit \in Nat \ {0} /\ Elapse \subseteq Nat \ {0}
  /\ MaxFaults \in Nat

VARIABLES
  (* the shell's row of source_health *)
  pipe,      \* what is sent reaches the database
  event,     \* age of the last command stored
  probe,     \* age of the last probe result
  probeOk,   \* "never", "ok", "failed"
  (* what else the checks look at *)
  broken,    \* other pairs whose check finds a violation
  bench,     \* pause.lock is there and not too old
  (* capture_alarms: the rows neither acknowledged nor resolved *)
  alarms,
  (* the process *)
  running,
  seen,      \* the violations it found
  todo,      \* those it has not dealt with
  (* history and bounds *)
  last,      \* the violations of the last run that came to its end
  faults

shellVars == <<pipe, event, probe, probeOk>>
sourceVars == <<broken, bench>>
runVars == <<running, seen, todo, last>>
vars == <<shellVars, sourceVars, alarms, runVars, faults>>

Alarm == [pair : Pair, age : 0..RateLimit, ticks : 0..1]

Capped(n, cap) == IF n > cap THEN cap ELSE n

-----------------------------------------------------------------------------
(* The checks, for the ages a run finds *)

\* shell_real_activity_recent: its query may fail, which counts as activity. The age of the
\* newest event stands for that of last_event_ts too: one flush writes both, and
\* write_rolling_counts sets the one to the other.
RecentlyActive(e, failsOpen) == failsOpen \/ e <= IdleWindow

\* latest_capture_signal, where the probe succeeded
Signal(e, p) == IF e < p THEN e ELSE p

\* check_i1_shell_liveness
LivenessViolated(active, e, p) ==
  /\ probeOk = "ok"
  /\ active \/ Signal(e, p) >= Backstop
  /\ Signal(e, p) > ShellStale

\* (variant for the mutation checks: a probe that runs counts, whatever it found)
FreshnessViolatedIfStale(active, p) ==
  probeOk # "never" /\ p > ProbeStale /\ (active \/ p >= Backstop)

\* check_i8_probe_freshness, of the shell
FreshnessViolated(active, p) ==
  \/ probeOk = "failed"
  \/ probeOk = "ok" /\ p > ProbeStale /\ (active \/ p >= Backstop)

\* check_invariants
Violated(active, e, p) ==
  (broken \cup {v \in Shell : \/ v = Liveness /\ LivenessViolated(active, e, p)
                              \/ v = Freshness /\ FreshnessViolated(active, p)})
  \ (IF bench THEN BenchMutes ELSE {})

-----------------------------------------------------------------------------
(* The run *)

\* Up to the list of violations. The process knows the time once.
Start(d, failsOpen) ==
  /\ ~running
  /\ IF failsOpen THEN faults < MaxFaults /\ faults' = faults + 1 ELSE UNCHANGED faults
  /\ event' = Capped(event + d, Backstop) /\ probe' = Capped(probe + d, Backstop)
  /\ alarms' = {[a EXCEPT !.age = Capped(a.age + d, RateLimit)] : a \in alarms}
  /\ running' = TRUE
  /\ seen' = Violated(RecentlyActive(event', failsOpen), event', probe') /\ todo' = seen'
  /\ UNCHANGED <<pipe, probeOk, sourceVars, last>>

\* (variant for the mutation checks: the window is one tick short)
LimitedShort(p) ==
  \E a \in alarms : InvOf[a.pair] = InvOf[p] /\ a.age + 1 < RateLimit

\* check_rate_limit
Limited(p) == \E a \in alarms : InvOf[a.pair] = InvOf[p] /\ a.age < RateLimit

IsNext(p) == p \in todo /\ \A q \in todo : Rank[p] <= Rank[q]

RunOnly == UNCHANGED <<shellVars, sourceVars, running, seen, last>>

Skip(p) ==
  /\ IsNext(p) /\ Limited(p)
  /\ todo' = todo \ {p}
  /\ UNCHANGED <<alarms, faults>> /\ RunOnly

Raise(p) ==
  /\ IsNext(p) /\ ~Limited(p)
  /\ alarms' = alarms \cup {[pair |-> p, age |-> 0, ticks |-> 0]}
  /\ todo' = todo \ {p}
  /\ UNCHANGED faults /\ RunOnly

\* SQLITE_BUSY twice: the violation waits for the next run.
RaiseBusy(p) ==
  /\ IsNext(p) /\ ~Limited(p) /\ faults < MaxFaults
  /\ todo' = todo \ {p}
  /\ faults' = faults + 1
  /\ UNCHANGED alarms /\ RunOnly

\* (variant for the mutation checks: a violation does not reset the count)
CountedNoReset(a) ==
  IF a.pair \in seen THEN {a} ELSE IF a.ticks = 1 THEN {} ELSE {[a EXCEPT !.ticks = 1]}

\* auto_resolve_alarms for one row: reset, resolved or one more clean tick
Counted(a) ==
  IF a.pair \in seen THEN {[a EXCEPT !.ticks = 0]}
  ELSE IF a.ticks = 1 THEN {} ELSE {[a EXCEPT !.ticks = 1]}

Resolve ==
  /\ running /\ todo = {}
  /\ alarms' = UNION {Counted(a) : a \in alarms}
  /\ running' = FALSE /\ last' = seen /\ seen' = {}
  /\ UNCHANGED <<shellVars, sourceVars, todo, faults>>

\* (variant for the mutation checks: the list of violations outlives the run)
AbortKeepsList ==
  /\ running /\ faults < MaxFaults
  /\ running' = FALSE
  /\ faults' = faults + 1
  /\ UNCHANGED <<shellVars, sourceVars, alarms, last, seen, todo>>

\* The process is killed, or a query fails and run returns its error.
Abort ==
  /\ running /\ faults < MaxFaults
  /\ running' = FALSE /\ seen' = {} /\ todo' = {}
  /\ faults' = faults + 1
  /\ UNCHANGED <<shellVars, sourceVars, alarms, last>>

-----------------------------------------------------------------------------
(* Everything else *)

\* `hippo alarms ack`: of rows that look the same here one may remain.
Ack(a) ==
  /\ a \in alarms
  /\ alarms' = alarms \ {a}
  /\ UNCHANGED <<shellVars, sourceVars, runVars, faults>>

ShellOnly == UNCHANGED <<sourceVars, alarms, runVars, faults>>

Command ==
  /\ pipe
  /\ event' = 0
  /\ UNCHANGED <<pipe, probe, probeOk>> /\ ShellOnly

\* The probe job records whether its own command came through.
ProbeRuns ==
  /\ probe' = 0 /\ probeOk' = (IF pipe THEN "ok" ELSE "failed")
  /\ UNCHANGED <<pipe, event>> /\ ShellOnly

PipeFlips ==
  /\ pipe' = ~pipe
  /\ UNCHANGED <<event, probe, probeOk>> /\ ShellOnly

SourceFlips(p) ==
  /\ broken' = IF p \in broken THEN broken \ {p} ELSE broken \cup {p}
  /\ UNCHANGED <<shellVars, bench, alarms, runVars, faults>>

BenchPauses ==
  /\ ~bench /\ faults < MaxFaults
  /\ bench' = TRUE /\ faults' = faults + 1
  /\ UNCHANGED <<shellVars, broken, alarms, runVars>>

\* The lock file is removed, or thirty minutes old.
BenchEnds ==
  /\ bench /\ bench' = FALSE
  /\ UNCHANGED <<shellVars, broken, alarms, runVars, faults>>

-----------------------------------------------------------------------------
Init ==
  /\ pipe = TRUE /\ event = Backstop /\ probe = Backstop /\ probeOk = "never"
  /\ broken = {} /\ bench = FALSE
  /\ alarms = {}
  /\ running = FALSE /\ seen = {} /\ todo = {} /\ last = {}
  /\ faults = 0

Starts == \E d \in Elapse, failsOpen \in BOOLEAN : Start(d, failsOpen)

Deals == \E p \in todo : Skip(p) \/ Raise(p) \/ RaiseBusy(p)

RunProceeds == Starts \/ Deals \/ Resolve

RunNext == RunProceeds \/ Abort

WorldNext ==
  \/ \E a \in alarms : Ack(a)
  \/ Command \/ ProbeRuns \/ PipeFlips
  \/ \E p \in Other : SourceFlips(p)
  \/ BenchPauses \/ BenchEnds

Next == RunNext \/ WorldNext

Spec == Init /\ [][Next]_vars

\* launchd starts a run every minute and nothing in a run waits; a lock file ages.
Fairness == WF_vars(RunProceeds) /\ WF_vars(BenchEnds)

FairSpec == Spec /\ Fairness

-----------------------------------------------------------------------------
(* Properties *)

\* Every variable holds a value of its type, and nothing is left of a run that ended.
TypeOK ==
  /\ pipe \in BOOLEAN /\ event \in Age /\ probe \in Age
  /\ probeOk \in {"never", "ok", "failed"}
  /\ broken \subseteq Other /\ bench \in BOOLEAN
  /\ alarms \subseteq Alarm
  /\ running \in BOOLEAN /\ seen \subseteq Pair /\ todo \subseteq seen /\ last \subseteq Pair
  /\ ~running => seen = {}
  /\ faults \in Nat

\* Of the active alarms of an invariant, whatever their sources, at most one was raised
\* within the window, also when runs die between two inserts and users acknowledge
\* meanwhile (check_rate_limit).
Spaced ==
  \A a, b \in alarms :
    /\ InvOf[a.pair] = InvOf[b.pair]
    /\ a.age < RateLimit /\ b.age < RateLimit
    => a = b

\* An alarm is resolved by two runs that came to their end one after the other (or with
\* runs that died between them) and did not find its violation (AUTO_RESOLVE_CLEAN_TICKS).
Earned ==
  running /\ ~running' =>
    \A a \in alarms :
      (\A b \in alarms' : b.pair = a.pair => b.age # a.age) => a.pair \notin seen \cup last
ResolvesEarned == [][Earned]_vars

\* A lasting outage of the shell's capture is reported by I-1 or I-8 in the end, idle
\* carve-out, bench pauses, rate limit and dead runs notwithstanding, unless no probe
\* has ever run. The alarm may be another source's: the rate limit is the invariant's, and
\* one acknowledged between the shell's turn and the other source's lets only that one in.
OutageAlarmed ==
  ~pipe /\ probeOk # "never" ~>
    pipe \/ \E a \in alarms : \E p \in Shell : InvOf[a.pair] = InvOf[p]

\* The idle carve-out has nothing left to excuse: the last probe failed, or its result is
\* as old as the backstop.
Exposed == probeOk = "failed" \/ (probeOk = "ok" /\ probe = Backstop)

\* What OutageAlarmed rests on: while nothing arrives, every run of the watchdog finds I-8
\* of the shell violated (or a bench mutes it) or brings the probe's age closer to the
\* backstop, and nothing but what arrives (no command typed in vain, probe that fails,
\* acknowledgement or dead run) takes that back (check_i8_probe_freshness).
OutageExposed ==
  ~pipe /\ ~pipe' /\ probeOk # "never" =>
    /\ Exposed => Exposed'
    /\ probe' >= probe \/ Exposed'
    /\ ~running /\ running' =>
         /\ probe' > probe \/ Exposed'
         /\ Exposed' => Freshness \in seen' \/ bench
OutageNeverExcused == [][OutageExposed]_vars
=============================================================================
