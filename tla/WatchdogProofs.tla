---------------------------- MODULE WatchdogProofs ----------------------------
(***************************************************************************)
(* Theorems about Watchdog, for every set of pairs, every invariant each   *)
(* belongs to, and every value of the thresholds and bounds.               *)
(***************************************************************************)
EXTENDS Watchdog, TLAPS

RowTypes == event \in Age /\ probe \in Age /\ probeOk \in {"never", "ok", "failed"}

RunTypes == /\ broken \subseteq Other
            /\ seen \subseteq Pair /\ todo \subseteq seen /\ last \subseteq Pair
            /\ ~running => seen = {}

FlagTypes == pipe \in BOOLEAN /\ bench \in BOOLEAN /\ running \in BOOLEAN

AlarmTypes == alarms \subseteq Alarm /\ faults \in Nat

LEMMA TypeParts == TypeOK <=> RowTypes /\ RunTypes /\ FlagTypes /\ AlarmTypes
BY DEF TypeOK, RowTypes, RunTypes, FlagTypes, AlarmTypes

LEMMA TypePartsNext == RowTypes' /\ RunTypes' /\ FlagTypes' /\ AlarmTypes' => TypeOK'
BY DEF TypeOK, RowTypes, RunTypes, FlagTypes, AlarmTypes

LEMMA TypeInit == Init => TypeOK
<1> SUFFICES ASSUME Init PROVE TypeOK
  OBVIOUS
<1>1. RowTypes /\ AlarmTypes
  BY WatchdogAssumption DEF Init, RowTypes, AlarmTypes, Age
<1>2. RunTypes /\ FlagTypes
  BY DEF Init, RunTypes, FlagTypes
<1> QED BY <1>1, <1>2, TypeParts

LEMMA CappedRange ==
  ASSUME NEW n \in Nat, NEW d \in Nat, NEW cap \in Nat
  PROVE  /\ Capped(n + d, cap) \in 0..cap
         /\ d > 0 /\ Capped(n + d, cap) < cap => n < cap
BY DEF Capped

\* What time makes of the alarms
LEMMA Aged ==
  ASSUME TypeOK, NEW d \in Elapse, NEW a \in alarms
  PROVE  LET b == [a EXCEPT !.age = Capped(a.age + d, RateLimit)]
         IN  /\ b \in Alarm /\ b.pair = a.pair /\ b.ticks = a.ticks
             /\ b.age < RateLimit => a.age < RateLimit
<1>1. a \in Alarm /\ d \in Nat /\ d > 0 /\ RateLimit \in Nat /\ a.age \in Nat
  BY WatchdogAssumption DEF TypeOK, Alarm
<1>2. /\ Capped(a.age + d, RateLimit) \in 0..RateLimit
      /\ Capped(a.age + d, RateLimit) < RateLimit => a.age < RateLimit
  BY <1>1, CappedRange
<1> QED BY <1>1, <1>2 DEF Alarm

\* What a run that ends makes of an alarm
LEMMA CountedAlarm ==
  ASSUME TypeOK, NEW a \in alarms, NEW b \in Counted(a)
  PROVE  /\ b \in Alarm /\ b.pair = a.pair /\ b.age = a.age
         /\ b.ticks = 1 => a.pair \notin seen
         /\ Counted(a) = {b}
<1>1. a \in Alarm
  BY DEF TypeOK
<1> QED BY <1>1 DEF Counted, Alarm

LEMMA StartTypes ==
  ASSUME TypeOK, NEW d \in Elapse, NEW f \in BOOLEAN, Start(d, f)
  PROVE  TypeOK'
<1>1. event' \in Age /\ probe' \in Age
  <2>1. event \in Nat /\ probe \in Nat /\ d \in Nat /\ Backstop \in Nat
    BY WatchdogAssumption DEF TypeOK, Age
  <2> QED BY <2>1, CappedRange DEF Start, Age
<1>2. RowTypes'
  BY <1>1 DEF Start, TypeOK, RowTypes
<1>3. AlarmTypes'
  BY Aged DEF Start, TypeOK, AlarmTypes
<1>4. RunTypes'
  BY DEF Start, TypeOK, RunTypes, Violated, Pair, Shell, sourceVars
<1>5. FlagTypes'
  BY DEF Start, TypeOK, FlagTypes, sourceVars
<1> QED BY <1>2, <1>3, <1>4, <1>5, TypePartsNext

LEMMA DealTypes ==
  ASSUME TypeOK, NEW p \in todo, Skip(p) \/ Raise(p) \/ RaiseBusy(p)
  PROVE  TypeOK'
<1>1. UNCHANGED <<shellVars, sourceVars, running, seen, last>> /\ todo' = todo \ {p}
  BY DEF Skip, Raise, RaiseBusy, RunOnly
<1>2. RowTypes' /\ RunTypes' /\ FlagTypes'
  BY <1>1, TypeParts DEF shellVars, sourceVars, RowTypes, RunTypes, FlagTypes
<1>3. AlarmTypes'
  <2>1. [pair |-> p, age |-> 0, ticks |-> 0] \in Alarm
    BY WatchdogAssumption DEF TypeOK, Alarm
  <2> QED BY <2>1, TypeParts DEF Skip, Raise, RaiseBusy, AlarmTypes
<1> QED BY <1>2, <1>3, TypePartsNext

LEMMA EndTypes == TypeOK /\ (Resolve \/ Abort) => TypeOK'
<1> SUFFICES ASSUME TypeOK, Resolve \/ Abort PROVE TypeOK'
  OBVIOUS
<1>1. UNCHANGED <<shellVars, sourceVars>> /\ running' = FALSE
  BY DEF Resolve, Abort
<1>2. RowTypes' /\ FlagTypes'
  BY <1>1, TypeParts DEF shellVars, sourceVars, RowTypes, FlagTypes
<1>3. RunTypes'
  BY <1>1, TypeParts DEF Resolve, Abort, RunTypes, sourceVars
<1>4. AlarmTypes'
  <2>1. CASE Resolve
    BY <2>1, CountedAlarm, TypeParts DEF Resolve, AlarmTypes
  <2>2. CASE Abort
    BY <2>2, TypeParts DEF Abort, AlarmTypes
  <2> QED BY <2>1, <2>2
<1> QED BY <1>2, <1>3, <1>4, TypePartsNext

LEMMA WorldTypes == TypeOK /\ WorldNext => TypeOK'
<1> SUFFICES ASSUME TypeOK, WorldNext PROVE TypeOK'
  OBVIOUS
<1>1. UNCHANGED runVars /\ alarms' \subseteq alarms /\ faults' \in Nat /\ broken' \subseteq Other
  BY TypeParts
  DEF WorldNext, Ack, Command, ProbeRuns, PipeFlips, ShellOnly, SourceFlips, BenchPauses,
      BenchEnds, sourceVars, AlarmTypes, RunTypes
<1>2. RunTypes' /\ AlarmTypes'
  BY <1>1, TypeParts DEF runVars, RunTypes, AlarmTypes
<1>3. RowTypes'
  <2>1. 0 \in Age
    BY WatchdogAssumption DEF Age
  <2> QED
    BY <2>1, TypeParts
    DEF WorldNext, Ack, Command, ProbeRuns, PipeFlips, ShellOnly, SourceFlips, BenchPauses,
        BenchEnds, shellVars, RowTypes
<1>4. pipe' \in BOOLEAN /\ bench' \in BOOLEAN
  BY TypeParts
  DEF WorldNext, Ack, Command, ProbeRuns, PipeFlips, ShellOnly, SourceFlips, BenchPauses,
      BenchEnds, shellVars, sourceVars, FlagTypes
<1>5. FlagTypes'
  BY <1>1, <1>4, TypeParts DEF runVars, FlagTypes
<1> QED BY <1>2, <1>3, <1>5, TypePartsNext

LEMMA TypeStep == TypeOK /\ [Next]_vars => TypeOK'
<1> SUFFICES ASSUME TypeOK, [Next]_vars PROVE TypeOK'
  OBVIOUS
<1>1. CASE UNCHANGED vars
  BY <1>1, TypeParts, TypePartsNext
  DEF vars, shellVars, sourceVars, runVars, RowTypes, RunTypes, FlagTypes, AlarmTypes
<1>2. CASE Next
  BY <1>2, StartTypes, DealTypes, EndTypes, WorldTypes
  DEF Next, RunNext, RunProceeds, Starts, Deals
<1> QED BY <1>1, <1>2

\* Every reachable state of the checks, the run and the alarms is of its type, and a run
\* that ended, however it ended, leaves no violation to deal with behind.
THEOREM TypeCorrect == Spec => []TypeOK
<1> QED BY TypeInit, TypeStep, PTL DEF Spec

-----------------------------------------------------------------------------
(* An alarm that counts one clean run was not violated in the last one that came to its
   end: that is what makes its resolution earned. *)

TicksClean == \A a \in alarms : a.ticks = 1 => a.pair \notin last

AlarmInv == TypeOK /\ Spaced /\ TicksClean

LEMMA AlarmStep == AlarmInv /\ [Next]_vars => Spaced' /\ TicksClean'
<1> SUFFICES ASSUME TypeOK, Spaced, TicksClean, [Next]_vars PROVE Spaced' /\ TicksClean'
  BY DEF AlarmInv
<1>1. ASSUME NEW d \in Elapse, NEW f \in BOOLEAN, Start(d, f) PROVE Spaced' /\ TicksClean'
  <2>1. ASSUME NEW a \in alarms' PROVE
          \E b \in alarms : /\ a = [b EXCEPT !.age = Capped(b.age + d, RateLimit)]
                            /\ a.pair = b.pair /\ a.ticks = b.ticks
                            /\ a.age < RateLimit => b.age < RateLimit
    <3>1. PICK b \in alarms : a = [b EXCEPT !.age = Capped(b.age + d, RateLimit)]
      BY <1>1 DEF Start
    <3>2. /\ a.pair = b.pair /\ a.ticks = b.ticks
          /\ a.age < RateLimit => b.age < RateLimit
      BY <3>1, Aged
    <3> QED BY <3>1, <3>2
  <2>2. Spaced'
    BY <2>1 DEF Spaced
  <2>3. TicksClean'
    BY <1>1, <2>1 DEF Start, TicksClean
  <2> QED BY <2>2, <2>3
<1>2. ASSUME NEW p \in todo, Raise(p) PROVE Spaced' /\ TicksClean'
  <2> DEFINE new == [pair |-> p, age |-> 0, ticks |-> 0]
  <2>1. alarms' = alarms \cup {new} /\ last' = last /\ new.pair = p /\ new.ticks = 0
    BY <1>2 DEF Raise, RunOnly
  <2>2. \A a \in alarms : ~(InvOf[a.pair] = InvOf[new.pair] /\ a.age < RateLimit)
    BY <1>2 DEF Raise, Limited
  <2> HIDE DEF new
  <2>3. Spaced'
    BY <2>1, <2>2 DEF Spaced
  <2>4. TicksClean'
    BY <2>1 DEF TicksClean
  <2> QED BY <2>3, <2>4
<1>3. CASE Resolve
  <2>1. ASSUME NEW b \in alarms' PROVE \E a \in alarms : b \in Counted(a)
    BY <1>3 DEF Resolve
  <2>2. Spaced'
    BY <2>1, CountedAlarm DEF Spaced
  <2>3. TicksClean'
    BY <1>3, <2>1, CountedAlarm DEF Resolve, TicksClean
  <2> QED BY <2>2, <2>3
<1>4. CASE alarms' \subseteq alarms /\ last' = last
  BY <1>4 DEF Spaced, TicksClean
<1>5. CASE Abort \/ WorldNext \/ UNCHANGED vars \/ \E p \in todo : Skip(p) \/ RaiseBusy(p)
  BY <1>4, <1>5
  DEF Abort, WorldNext, Ack, Command, ProbeRuns, PipeFlips, ShellOnly, SourceFlips,
      BenchPauses, BenchEnds, vars, runVars, Skip, RaiseBusy, RunOnly
<1> QED
  BY <1>1, <1>2, <1>3, <1>5 DEF Next, RunNext, RunProceeds, Starts, Deals

LEMMA AlarmAlways == Spec => []AlarmInv
<1>1. Init => AlarmInv
  BY TypeInit DEF Init, AlarmInv, Spaced, TicksClean
<1>2. AlarmInv /\ [Next]_vars => AlarmInv'
  BY TypeStep, AlarmStep DEF AlarmInv
<1> QED BY <1>1, <1>2, PTL DEF Spec

\* The rate limit holds for an invariant across its sources, whatever dies or is
\* acknowledged between two inserts (check_rate_limit).
THEOREM SpacedAlways == Spec => []Spaced
<1>1. AlarmInv => Spaced
  BY DEF AlarmInv
<1> QED BY <1>1, AlarmAlways, PTL

LEMMA EarnedStep == AlarmInv /\ [Next]_vars => Earned
<1> SUFFICES ASSUME AlarmInv, [Next]_vars, running, ~running', NEW a \in alarms,
                    \A b \in alarms' : b.pair = a.pair => b.age # a.age
             PROVE  a.pair \notin seen \cup last
  BY DEF Earned
<1>1. TypeOK /\ TicksClean
  BY DEF AlarmInv
<1>2. Resolve \/ Abort
  BY DEF Next, RunNext, RunProceeds, Starts, Start, Deals, Skip, Raise, RaiseBusy, RunOnly,
         WorldNext, Ack, Command, ProbeRuns, PipeFlips, ShellOnly, SourceFlips, BenchPauses,
         BenchEnds, vars, runVars
<1>3. CASE Abort
  BY <1>3 DEF Abort
<1>4. CASE Resolve
  <2>1. Counted(a) = {}
    BY <1>1, <1>4, CountedAlarm DEF Resolve
  <2>2. a.pair \notin seen /\ a.ticks = 1
    BY <2>1 DEF Counted
  <2> QED BY <1>1, <2>2 DEF TicksClean
<1> QED BY <1>2, <1>3, <1>4

\* No alarm is resolved by runs of which one, of those that came to their end, saw its
\* violation (auto_resolve_alarms).
THEOREM ResolvesEarnedAlways == Spec => ResolvesEarned
<1> QED BY EarnedStep, AlarmAlways, PTL DEF Spec, ResolvesEarned

-----------------------------------------------------------------------------
(* An outage of the shell is not excused for ever. *)

LEMMA ProbeAges ==
  ASSUME TypeOK, NEW d \in Elapse, NEW f \in BOOLEAN, Start(d, f)
  PROVE  /\ probe' >= probe
         /\ probe' > probe \/ probe = Backstop
         /\ probe = Backstop => probe' = Backstop
<1>1. probe \in Nat /\ probe <= Backstop /\ d \in Nat /\ d > 0 /\ Backstop \in Nat
  BY WatchdogAssumption DEF TypeOK, Age
<1>2. probe' = Capped(probe + d, Backstop)
  BY DEF Start
<1> QED BY <1>1, <1>2 DEF Capped

LEMMA ExposedSeen ==
  ASSUME TypeOK, NEW d \in Elapse, NEW f \in BOOLEAN, Start(d, f), Exposed'
  PROVE  Freshness \in seen' \/ bench
<1>1. probeOk = "failed" \/ (probeOk = "ok" /\ probe' = Backstop)
  BY DEF Exposed, Start
<1>2. Backstop > ProbeStale /\ Backstop >= Backstop
  BY WatchdogAssumption
<1>3. FreshnessViolated(RecentlyActive(event', f), probe')
  BY <1>1, <1>2 DEF FreshnessViolated
<1>4. seen' = Violated(RecentlyActive(event', f), event', probe')
  BY DEF Start
<1> QED BY <1>3, <1>4 DEF Violated, Shell

LEMMA OutageStep == TypeOK /\ [Next]_vars => OutageExposed
<1> SUFFICES ASSUME TypeOK, [Next]_vars, ~pipe, ~pipe', probeOk # "never"
             PROVE  /\ Exposed => Exposed'
                    /\ probe' >= probe \/ Exposed'
                    /\ ~running /\ running' =>
                         /\ probe' > probe \/ Exposed'
                         /\ Exposed' => Freshness \in seen' \/ bench
  BY DEF OutageExposed
<1>0. probe \in Nat /\ probeOk \in {"ok", "failed"}
  BY WatchdogAssumption DEF TypeOK, Age
<1>1. ASSUME NEW d \in Elapse, NEW f \in BOOLEAN, Start(d, f)
      PROVE  /\ Exposed => Exposed'
             /\ probe' >= probe
             /\ probe' > probe \/ Exposed'
             /\ Exposed' => Freshness \in seen' \/ bench
  <2>1. probeOk' = probeOk
    BY <1>1 DEF Start
  <2> QED BY <1>0, <1>1, <2>1, ProbeAges, ExposedSeen DEF Exposed
<1>2. CASE ProbeRuns
  <2>1. Exposed' /\ running' = running
    BY <1>2 DEF ProbeRuns, ShellOnly, runVars, Exposed
  <2> QED BY <2>1
<1>3. CASE UNCHANGED <<probe, probeOk>> /\ (running' => running)
  BY <1>0, <1>3 DEF Exposed
<1>4. CASE \/ Abort \/ Resolve \/ UNCHANGED vars
           \/ \E p \in todo : Skip(p) \/ Raise(p) \/ RaiseBusy(p)
  BY <1>3, <1>4
  DEF Abort, Resolve, Skip, Raise, RaiseBusy, RunOnly, vars, shellVars, runVars
<1>5. CASE WorldNext /\ ~ProbeRuns
  BY <1>3, <1>5
  DEF WorldNext, Ack, Command, PipeFlips, ShellOnly, SourceFlips, BenchPauses, BenchEnds,
      shellVars, runVars
<1> QED
  BY <1>1, <1>2, <1>4, <1>5 DEF Next, RunNext, RunProceeds, Starts, Deals

\* While nothing arrives, runs of the watchdog lead to one that finds the shell's probe
\* overdue, and from there on each does, unless a bench mutes it: the safety part of
\* OutageAlarmed, for all thresholds in the order the code's have
\* (check_i8_probe_freshness).
THEOREM OutageNeverExcusedAlways == Spec => OutageNeverExcused
<1> QED BY OutageStep, TypeCorrect, PTL DEF Spec, OutageNeverExcused
=============================================================================
