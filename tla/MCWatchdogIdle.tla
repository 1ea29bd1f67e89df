---------------------------- MODULE MCWatchdogIdle ----------------------------
(* The instance of MCWatchdog with the history of an outage: how long nothing  *)
(* can have arrived, up to the rate limit.                                     *)
EXTENDS MCWatchdog

VARIABLE down

InitDown == Init /\ down = 0

NextDown ==
  /\ Next
  /\ down' = IF pipe' THEN 0
             ELSE IF ~running /\ running' THEN Capped(down + 1, RateLimit) ELSE down

SpecDown == InitDown /\ [][NextDown]_<<vars, down>>

\* "so a genuine break (real commands stop landing and the probe also stops landing) still
\* alarms instead of being swallowed by the idle carve-out" (shell_health.rs:27-29): the
\* alarm of such a break is not swallowed afterwards either. An alarm about the shell that
\* was raised in an outage is not resolved while the outage lasts (auto_resolve_alarms).
ResolvedRecovered ==
  running /\ ~running' /\ ~pipe =>
    \A a \in alarms :
      a.pair \in Shell /\ a.age < down => \E b \in alarms' : b.pair = a.pair /\ b.age = a.age
ResolvedMeansRecovered == [][ResolvedRecovered]_<<vars, down>>
=============================================================================
