------------------------------- MODULE Delivery -------------------------------
(***************************************************************************)
(* What the capture path promises of an envelope, whatever senders, flushes, *)
(* crashes and recoveries do to get there: the daemon lets go of it only   *)
(* when it is stored or kept in a file, or when it reports that it could   *)
(* do neither, and only a kill forgets more. It is stored once, with one   *)
(* enrichment job, and a file is given up only for what is stored.         *)
(***************************************************************************)
EXTENDS Naturals

CONSTANTS
  Envelope,
  Jobless  \* those that get no enrichment job

VARIABLES
  held,      \* envelopes in the daemon's memory
  kept,      \* envelopes in files that somebody will still read
  stored,    \* how many rows there are for an envelope
  jobs,      \* how many enrichment jobs
  reported,  \* envelopes the daemon has reported as lost
  stops      \* shutdowns asked for, and kills

abstractVars == <<held, kept, stored, jobs, reported, stops>>

Durable(e) == stored[e] > 0 \/ e \in kept

Init ==
  /\ held = {} /\ kept = {} /\ reported = {} /\ stops = 0
  /\ stored = [e \in Envelope |-> 0] /\ jobs = [e \in Envelope |-> 0]

Take(e) ==
  /\ held' = held \cup {e}
  /\ UNCHANGED <<kept, stored, jobs, reported, stops>>

\* By a sender, or by the daemon when it cannot store the envelope
Keep(e) ==
  /\ kept' = kept \cup {e}
  /\ UNCHANGED <<held, stored, jobs, reported, stops>>

\* From memory or from a file; the daemon may hold the envelope a second time.
Store(e) ==
  /\ e \in held \cup kept /\ stored[e] = 0
  /\ stored' = [stored EXCEPT ![e] = 1]
  /\ jobs' = [jobs EXCEPT ![e] = IF e \in Jobless THEN 0 ELSE 1]
  /\ held' \in {held, held \ {e}}
  /\ UNCHANGED <<kept, reported, stops>>

Release(e) ==
  /\ Durable(e)
  /\ held' = held \ {e}
  /\ UNCHANGED <<kept, stored, jobs, reported, stops>>

ReportLost(e) ==
  /\ e \in held
  /\ held' \in {held, held \ {e}}
  /\ reported' = reported \cup {e}
  /\ UNCHANGED <<kept, stored, jobs, stops>>

\* What a file held is in the database: the file is archived.
Archive(S) ==
  /\ \A e \in S : stored[e] > 0
  /\ kept' = kept \ S
  /\ UNCHANGED <<held, stored, jobs, reported, stops>>

AskToStop == stops' = stops + 1 /\ UNCHANGED <<held, kept, stored, jobs, reported>>

Kill ==
  /\ held' = {}
  /\ stops' = stops + 1
  /\ UNCHANGED <<kept, stored, jobs, reported>>

Next ==
  \/ \E e \in Envelope : Take(e) \/ Keep(e) \/ Store(e) \/ Release(e) \/ ReportLost(e)
  \/ \E S \in SUBSET Envelope : Archive(S)
  \/ AskToStop \/ Kill

Spec == Init /\ [][Next]_abstractVars
=============================================================================
