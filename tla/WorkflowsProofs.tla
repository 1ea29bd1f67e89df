--------------------------- MODULE WorkflowsProofs ---------------------------
(***************************************************************************)
(* Theorems about Workflows, for every set of runs and SHAs and every      *)
(* value of the bounds.                                                    *)
(***************************************************************************)
EXTENDS Workflows, TLAPS

Pc == {"idle", "store", "follow", "check", "jobs", "notes", "insert", "enqueue"}
NotDrilling == {"idle", "store", "follow", "check"}
Drill == [run : Run, attempt : Attempt \cup {0}]

RunTypes == /\ stored \in [Run -> State] /\ enriched \subseteq Run
            /\ details \in [Run -> [Attempt -> Detail]]
            /\ queue \in [Run -> QueueStatus]

PollTypes == /\ pc \in Pc
             /\ page \subseteq [run : Run, state : State]
             /\ pc = "idle" => page = {}
             /\ pc \in NotDrilling => drill = NoDrill
             /\ pc \notin NotDrilling => drill \in Drill

BrainTypes == /\ held \subseteq Run /\ reading \in [Run -> State]
              /\ outcome \in [Run -> State] /\ node \in [Run -> Run \cup {NoRun}]

GithubTypes == github \in [Run -> [attempt : Attempt, state : State]]

WatchTypes == watch \in [Sha -> Entry]

CountTypes == telling \subseteq Sha /\ watches \in Nat /\ faults \in Nat

LEMMA TypeParts ==
  TypeOK <=> GithubTypes /\ RunTypes /\ WatchTypes /\ PollTypes /\ BrainTypes /\ CountTypes
BY DEF TypeOK, GithubTypes, RunTypes, WatchTypes, PollTypes, BrainTypes, CountTypes, Pc, Drill,
   NotDrilling

LEMMA TypePartsNext ==
  GithubTypes' /\ RunTypes' /\ WatchTypes' /\ PollTypes' /\ BrainTypes' /\ CountTypes' => TypeOK'
BY DEF TypeOK, GithubTypes, RunTypes, WatchTypes, PollTypes, BrainTypes, CountTypes, Pc, Drill,
   NotDrilling

\* A step that leaves a part of the state alone keeps its types.
LEMMA Frame ==
  ASSUME TypeOK
  PROVE  /\ UNCHANGED runVars => RunTypes'
         /\ UNCHANGED pollVars => PollTypes'
         /\ UNCHANGED brainVars => BrainTypes'
         /\ UNCHANGED github => GithubTypes'
         /\ UNCHANGED watch => WatchTypes'
         /\ UNCHANGED <<telling, watches, faults>> => CountTypes'
<1>1. UNCHANGED runVars => RunTypes'
  BY TypeParts DEF RunTypes, runVars
<1>2. UNCHANGED pollVars => PollTypes'
  BY TypeParts DEF PollTypes, pollVars
<1>3. UNCHANGED brainVars => BrainTypes'
  BY TypeParts DEF BrainTypes, brainVars
<1>4. (UNCHANGED github => GithubTypes') /\ (UNCHANGED watch => WatchTypes')
  BY TypeParts DEF GithubTypes, WatchTypes
<1>5. UNCHANGED <<telling, watches, faults>> => CountTypes'
  BY TypeParts DEF CountTypes
<1> QED BY <1>1, <1>2, <1>3, <1>4, <1>5

\* The behaviour begins with what the runs of the past have left, and nothing else.
LEMMA InitFacts ==
  ASSUME Init
  PROVE  /\ stored \in [Run -> State] /\ outcome = stored
         /\ github = [r \in Run |-> [attempt |-> 1, state |-> stored[r]]]
         /\ \A r \in Run : stored[r] = "none" <=> r \notin Past
         /\ \A r \in Past : stored[r] \in Final
<1>1. PICK ended \in [Past -> Final] :
        /\ github = [r \in Run |-> [attempt |-> 1, state |-> Ended(ended, r)]]
        /\ stored = [r \in Run |-> Ended(ended, r)]
        /\ outcome = [r \in Run |-> Ended(ended, r)]
  BY DEF Init
<1>2. \A r \in Run : Ended(ended, r) \in State
  BY DEF Ended, State
<1> QED BY <1>1, <1>2, WorkflowsAssumption DEF Ended, Final

LEMMA TypeInit == Init => TypeOK
<1> SUFFICES ASSUME Init PROVE TypeOK
  OBVIOUS
<1>1. stored \in [Run -> State] /\ outcome \in [Run -> State]
  BY InitFacts
<1>2. GithubTypes
  <2>1. 1 \in Attempt
    BY WorkflowsAssumption DEF Attempt
  <2> QED BY <1>1, <2>1, InitFacts DEF GithubTypes
<1>3. RunTypes
  <2>1. enriched \subseteq Run
    BY WorkflowsAssumption DEF Init
  <2>2. details \in [Run -> [Attempt -> Detail]]
    BY DEF Init, Detail
  <2>3. queue \in [Run -> QueueStatus]
    BY DEF Init, QueueStatus
  <2> QED BY <1>1, <2>1, <2>2, <2>3 DEF RunTypes
<1>4. WatchTypes
  BY DEF Init, WatchTypes, Entry, NoEntry
<1>5. PollTypes
  BY DEF Init, PollTypes, Pc, NotDrilling
<1>6. BrainTypes /\ CountTypes
  BY <1>1 DEF Init, BrainTypes, CountTypes, State
<1> QED BY <1>2, <1>3, <1>4, <1>5, <1>6, TypeParts

\* What becomes of the watchlist row of a run's SHA is a row again, or none.
LEMMA FollowTypes ==
  ASSUME TypeOK, NEW s \in Sha, NEW state
  PROVE  Follow(s, state) \in [Sha -> Entry]
BY DEF TypeOK, Follow, Entry, NoEntry

LEMMA PollKeepsTypes ==
  ASSUME TypeOK, PollNext
  PROVE  TypeOK'
<1>0. PollOnly
  BY DEF PollNext, ListRuns, StoreRun, FollowRun, CheckRun, ListJobs, ListNothing,
     ListJobsFails, FetchNotes, NotesRefused, InsertNotes, EnqueueRun, PassEnds, PassDies
<1>1. GithubTypes' /\ BrainTypes' /\ telling' \subseteq Sha /\ watches' \in Nat
  BY <1>0, Frame DEF TypeOK, PollOnly
<1>2. faults' \in Nat
  BY DEF TypeOK, PollNext, ListRuns, StoreRun, FollowRun, CheckRun, ListJobs, ListNothing,
     ListJobsFails, FetchNotes, NotesRefused, InsertNotes, EnqueueRun, PassEnds, PassDies,
     Fault
<1>3. RunTypes' /\ WatchTypes' /\ PollTypes'
  <2>1. CASE ListRuns
    <3>1. page' \subseteq [run : Run, state : State]
      <4>1. Listed \subseteq Run
        BY DEF Listed, Started
      <4>2. \A r \in Run : github[r].state \in State
        BY DEF TypeOK
      <4>3. page' = {[run |-> r, state |-> github[r].state] : r \in Listed}
        BY <2>1 DEF ListRuns
      <4> QED BY <4>1, <4>2, <4>3
    <3>2. PollTypes'
      BY <2>1, <3>1 DEF ListRuns, TypeOK, PollTypes, Pc, NotDrilling
    <3> QED BY <2>1, <3>2, Frame DEF ListRuns
  <2>2. ASSUME NEW p \in page, StoreRun(p) \/ FollowRun(p) \/ CheckRun(p)
        PROVE  RunTypes' /\ WatchTypes' /\ PollTypes'
    <3>1. p.run \in Run /\ p.state \in State /\ p \in [run : Run, state : State]
      BY DEF TypeOK
    <3>2. RunTypes'
      <4>1. CASE StoreRun(p)
        BY <3>1, <4>1 DEF StoreRun, TypeOK, RunTypes
      <4>2. CASE FollowRun(p) \/ CheckRun(p)
        BY <4>2, Frame DEF FollowRun, CheckRun
      <4> QED BY <2>2, <4>1, <4>2
    <3>3. WatchTypes'
      <4>1. CASE FollowRun(p)
        BY <3>1, <4>1, FollowTypes, WorkflowsAssumption DEF FollowRun, WatchTypes
      <4>2. CASE StoreRun(p) \/ CheckRun(p)
        BY <4>2, Frame DEF StoreRun, CheckRun
      <4> QED BY <2>2, <4>1, <4>2
    <3>4. PollTypes'
      <4>1. CASE StoreRun(p)
        BY <4>1 DEF StoreRun, TypeOK, PollTypes, Pc, NotDrilling
      <4>2. CASE FollowRun(p)
        BY <4>2 DEF FollowRun, TypeOK, PollTypes, Pc, NotDrilling
      <4>3. CASE CheckRun(p)
        BY <3>1, <4>3 DEF CheckRun, TypeOK, PollTypes, Pc, Drill, NotDrilling
      <4> QED BY <2>2, <4>1, <4>2, <4>3
    <3> QED BY <3>2, <3>3, <3>4
  <2>3. CASE ListJobs \/ ListNothing
    <3>1. drill.run \in Run /\ drill \in Drill /\ github[drill.run].attempt \in Attempt
      BY <2>3 DEF ListJobs, ListNothing, TypeOK, Drill
    <3>2. RunTypes'
      <4>1. PICK d \in Detail :
              details' = [details EXCEPT ![drill.run][github[drill.run].attempt] = d]
        <5>1. details[drill.run][github[drill.run].attempt] \in Detail
          BY <3>1 DEF TypeOK
        <5> QED BY <2>3, <5>1 DEF ListJobs, ListNothing, Detail
      <4>2. [details[drill.run] EXCEPT ![github[drill.run].attempt] = d] \in [Attempt -> Detail]
        BY <3>1 DEF TypeOK
      <4>3. details' \in [Run -> [Attempt -> Detail]]
        BY <3>1, <4>1, <4>2 DEF TypeOK
      <4> QED BY <2>3, <4>3 DEF ListJobs, ListNothing, TypeOK, RunTypes
    <3>3. PollTypes'
      BY <2>3, <3>1 DEF ListJobs, ListNothing, TypeOK, PollTypes, Pc, Drill, NotDrilling
    <3> QED BY <2>3, <3>2, <3>3 DEF ListJobs, ListNothing, TypeOK, WatchTypes
  <2>4. CASE FetchNotes \/ NotesRefused \/ InsertNotes
    <3>1. RunTypes'
      <4>1. PICK d \in Detail :
              details' = [details EXCEPT ![drill.run][drill.attempt] = d]
        BY <2>4 DEF FetchNotes, NotesRefused, InsertNotes, SetDetail, Detail
      <4>2. drill.run \in Run
        BY <2>4 DEF FetchNotes, NotesRefused, InsertNotes, TypeOK
      <4>3. details[drill.run] \in [Attempt -> Detail]
        BY <4>2 DEF TypeOK
      <4>4. [details[drill.run] EXCEPT ![drill.attempt] = d] \in [Attempt -> Detail]
        BY <4>3
      <4>5. details' \in [Run -> [Attempt -> Detail]]
        BY <4>1, <4>2, <4>4 DEF TypeOK
      <4> QED
        BY <2>4, <4>5 DEF FetchNotes, NotesRefused, InsertNotes, TypeOK, RunTypes
    <3>2. PollTypes'
      BY <2>4 DEF FetchNotes, NotesRefused, InsertNotes, TypeOK, PollTypes, Pc, Drill, NotDrilling
    <3> QED BY <2>4, <3>1, <3>2, Frame DEF FetchNotes, NotesRefused, InsertNotes
  <2>5. CASE EnqueueRun
    <3>1. RunTypes'
      BY <2>5 DEF EnqueueRun, TypeOK, RunTypes, QueueStatus
    <3>2. PollTypes'
      BY <2>5 DEF EnqueueRun, TypeOK, PollTypes, Pc, NotDrilling
    <3> QED BY <2>5, <3>1, <3>2, Frame DEF EnqueueRun
  <2>6. CASE PassEnds
    <3>1. WatchTypes'
      BY <2>6 DEF PassEnds, TypeOK, WatchTypes, Entry, NoEntry
    <3>2. PollTypes'
      BY <2>6 DEF PassEnds, TypeOK, PollTypes, Pc, NotDrilling
    <3> QED BY <2>6, <3>1, <3>2, Frame DEF PassEnds
  <2>7. CASE ListJobsFails \/ PassDies
    <3>1. PollTypes'
      BY <2>7 DEF ListJobsFails, AfterRefusal, PassDies, TypeOK, PollTypes, Pc, NotDrilling
    <3> QED BY <2>7, <3>1, Frame DEF ListJobsFails, PassDies
  <2> QED BY <2>1, <2>2, <2>3, <2>4, <2>5, <2>6, <2>7 DEF PollNext
<1> QED BY <1>1, <1>2, <1>3, TypePartsNext DEF CountTypes

LEMMA BrainKeepsTypes ==
  ASSUME TypeOK, BrainNext
  PROVE  TypeOK'
<1>1. UNCHANGED <<github, stored, details, watch, pollVars, telling, watches>>
  BY DEF BrainNext, Claim, Read, WriteNode, ReuseNode, Link, EnrichFails, Reap, BrainDies,
     BrainOnly
<1>2. faults' \in Nat
  BY DEF TypeOK, BrainNext, Claim, Read, WriteNode, ReuseNode, Link, EnrichFails, Reap,
     BrainDies, Fault
<1>3. queue' \in [Run -> QueueStatus] /\ enriched' \subseteq Run /\ BrainTypes'
  <2>0. /\ held \subseteq Run /\ reading \in [Run -> State] /\ outcome \in [Run -> State]
        /\ node \in [Run -> Run \cup {NoRun}] /\ stored \in [Run -> State] /\ "none" \in State
        /\ queue \in [Run -> QueueStatus] /\ enriched \subseteq Run
    BY DEF TypeOK, State
  <2>1. ASSUME NEW r \in Run, Charge(r) PROVE queue' \in [Run -> QueueStatus]
    <3>1. PICK s \in QueueStatus : queue' = [queue EXCEPT ![r] = s]
      BY <2>1 DEF Charge, QueueStatus
    <3> QED BY <2>0, <3>1
  <2>2. ASSUME NEW r \in Run, NEW n \in Run, Link(r, n), outcome' \in [Run -> State]
        PROVE  queue' \in [Run -> QueueStatus] /\ enriched' \subseteq Run /\ BrainTypes'
    BY <2>0, <2>2 DEF Link, Release, BrainTypes, QueueStatus
  <2>3. ASSUME NEW r \in Run, Claim(r) \/ Read(r)
        PROVE  queue' \in [Run -> QueueStatus] /\ enriched' \subseteq Run /\ BrainTypes'
    BY <2>0, <2>3 DEF Claim, Read, BrainTypes, QueueStatus
  <2>4. ASSUME NEW r \in Run, WriteNode(r)
        PROVE  queue' \in [Run -> QueueStatus] /\ enriched' \subseteq Run /\ BrainTypes'
    BY <2>0, <2>2, <2>4 DEF WriteNode
  <2>5. ASSUME NEW r \in Run, NEW q \in Run, ReuseNode(r, q)
        PROVE  queue' \in [Run -> QueueStatus] /\ enriched' \subseteq Run /\ BrainTypes'
    BY <2>0, <2>2, <2>5 DEF ReuseNode
  <2>6. ASSUME NEW r \in Run, EnrichFails(r) \/ Reap(r)
        PROVE  queue' \in [Run -> QueueStatus] /\ enriched' \subseteq Run /\ BrainTypes'
    BY <2>0, <2>1, <2>6 DEF EnrichFails, Reap, Release, BrainTypes, brainVars
  <2>7. CASE BrainDies
    BY <2>0, <2>7 DEF BrainDies, BrainTypes
  <2> QED BY <2>3, <2>4, <2>5, <2>6, <2>7 DEF BrainNext
<1>4. RunTypes' /\ CountTypes'
  BY <1>1, <1>2, <1>3 DEF TypeOK, RunTypes, CountTypes
<1> QED BY <1>1, <1>3, <1>4, Frame, TypePartsNext

LEMMA TypeStep == TypeOK /\ [Next]_vars => TypeOK'
<1> SUFFICES ASSUME TypeOK, [Next]_vars PROVE TypeOK'
  OBVIOUS
<1>1. CASE GithubNext
  <2>1. UNCHANGED <<runVars, watch, pollVars, brainVars, telling, watches, faults>>
    BY <1>1 DEF GithubNext, RunStarts, RunAgain, RunEnds, GithubSets
  <2>2. GithubTypes'
    <3>0. github \in [Run -> [attempt : Attempt, state : State]]
      BY DEF TypeOK
    <3>1. ASSUME NEW r \in Run, RunStarts(r) PROVE GithubTypes'
      <4>1. 1 \in Attempt
        BY WorkflowsAssumption DEF Attempt
      <4> QED BY <3>0, <3>1, <4>1 DEF RunStarts, GithubSets, GithubTypes, State
    <3>2. ASSUME NEW r \in Run, RunAgain(r) PROVE GithubTypes'
      <4>1. github[r].attempt + 1 \in Attempt
        BY <3>0, <3>2, WorkflowsAssumption DEF RunAgain, Attempt
      <4> QED BY <3>0, <3>2, <4>1 DEF RunAgain, GithubSets, GithubTypes, State
    <3>3. ASSUME NEW r \in Run, NEW s \in Final, RunEnds(r, s) PROVE GithubTypes'
      <4>1. [github[r] EXCEPT !.state = s] \in [attempt : Attempt, state : State]
        BY <3>0 DEF State
      <4> QED BY <3>0, <3>3, <4>1 DEF RunEnds, GithubSets, GithubTypes
    <3> QED BY <1>1, <3>1, <3>2, <3>3 DEF GithubNext
  <2> QED BY <2>1, <2>2, Frame, TypePartsNext
<1>2. CASE PollNext
  BY <1>2, PollKeepsTypes
<1>3. CASE BrainNext
  BY <1>3, BrainKeepsTypes
<1>4. CASE WatchNext
  <2>1. UNCHANGED <<github, runVars, pollVars, brainVars>>
    BY <1>4 DEF WatchNext, Register, Expire, Tell, Ack, HookDies, WatchOnly
  <2>2. CountTypes'
    BY <1>4
    DEF WatchNext, Register, Expire, Tell, Ack, HookDies, Pending, Fault, TypeOK, CountTypes
  <2>3. WatchTypes'
    <3>0. watch \in [Sha -> Entry]
      BY DEF TypeOK
    <3>1. ASSUME NEW s \in Sha, Register(s) PROVE WatchTypes'
      <4>1. NewEntry \in Entry
        BY DEF Entry, NoEntry, NewEntry
      <4>2. [watch[s] EXCEPT !.expired = FALSE] \in Entry
        BY <3>0 DEF Entry
      <4> QED BY <3>0, <3>1, <4>1, <4>2 DEF Register, WatchTypes
    <3>2. ASSUME NEW s \in Sha, Expire(s) PROVE WatchTypes'
      <4>1. [watch[s] EXCEPT !.expired = TRUE] \in Entry
        BY <3>0 DEF Entry
      <4> QED BY <3>0, <3>2, <4>1 DEF Expire, WatchTypes
    <3>3. CASE Ack
      <4>1. \A s \in Sha : [watch[s] EXCEPT !.notified = TRUE] \in Entry
        BY <3>0 DEF Entry
      <4> QED BY <3>0, <3>3, <4>1 DEF Ack, WatchTypes
    <3>4. CASE Tell \/ HookDies
      BY <3>0, <3>4 DEF Tell, HookDies, WatchTypes
    <3> QED BY <1>4, <3>1, <3>2, <3>3, <3>4 DEF WatchNext
  <2> QED BY <2>1, <2>2, <2>3, Frame, TypePartsNext
<1>5. CASE UNCHANGED vars
  BY <1>5, Frame, TypePartsNext DEF vars
<1> QED BY <1>1, <1>2, <1>3, <1>4, <1>5 DEF Next

\* Every reachable state is well typed.
THEOREM TypeCorrect == Spec => []TypeOK
BY TypeInit, TypeStep, PTL DEF Spec
-----------------------------------------------------------------------------
(***************************************************************************)
(* QueuedHasDetails is not inductive: it needs how far the drill-down has  *)
(* come, and that the brain holds and reads queued runs only.              *)
(***************************************************************************)

Drilled ==
  /\ pc \in {"notes", "insert", "enqueue"} => drill.attempt \in Attempt
  /\ pc = "notes" => details[drill.run][drill.attempt] \in {"bare", "noted", "refused"}
  /\ pc = "insert" => details[drill.run][drill.attempt] = "bare"
  /\ pc = "enqueue" => details[drill.run][drill.attempt] \in {"noted", "refused", "nothing"}

HoldsQueued == \A r \in Run : r \in held \/ reading[r] # "none" => queue[r] # "none"

\* What the steps that touch neither the poller nor the details leave alone
LEMMA DrilledFrame ==
  ASSUME Drilled, UNCHANGED <<pc, drill, details>>
  PROVE  Drilled'
BY DEF Drilled

LEMMA DrilledStep == TypeOK /\ Drilled /\ [Next]_vars => Drilled'
<1> SUFFICES ASSUME TypeOK, Drilled, [Next]_vars PROVE Drilled'
  OBVIOUS
<1>1. CASE GithubNext \/ BrainNext \/ WatchNext \/ UNCHANGED vars
  <2>1. UNCHANGED <<pc, drill, details>>
    <3>1. CASE GithubNext
      BY <3>1 DEF GithubNext, RunStarts, RunAgain, RunEnds, GithubSets, runVars, pollVars
    <3>2. CASE BrainNext
      BY <3>2
      DEF BrainNext, Claim, Read, WriteNode, ReuseNode, Link, EnrichFails, Reap, BrainDies,
         BrainOnly, pollVars
    <3>3. CASE WatchNext
      BY <3>3
      DEF WatchNext, Register, Expire, Tell, Ack, HookDies, WatchOnly, runVars, pollVars
    <3>4. CASE UNCHANGED vars
      BY <3>4 DEF vars, runVars, pollVars
    <3> QED BY <1>1, <3>1, <3>2, <3>3, <3>4
  <2> QED BY <2>1, DrilledFrame
<1>2. CASE PollNext
  <2>1. CASE \/ ListRuns \/ (\E p \in page : StoreRun(p) \/ FollowRun(p) \/ CheckRun(p))
             \/ ListJobsFails \/ EnqueueRun \/ PassEnds \/ PassDies
    <3>1. pc' \in {"idle", "store", "follow", "check", "jobs"}
      BY <2>1
      DEF ListRuns, StoreRun, FollowRun, CheckRun, ListJobsFails, AfterRefusal, EnqueueRun,
         PassEnds, PassDies
    <3> QED BY <3>1 DEF Drilled
  <2>2. CASE ListJobs \/ ListNothing
    <3>1. drill' = [drill EXCEPT !.attempt = github[drill.run].attempt] /\ drill \in Drill
      BY <2>2 DEF ListJobs, ListNothing, TypeOK, Drill
    <3>2. /\ drill'.attempt = github[drill.run].attempt
          /\ drill'.run = drill.run /\ drill.run \in Run
      BY <3>1 DEF Drill
    <3>3. drill'.attempt \in Attempt
      BY <3>2 DEF TypeOK
    <3>4. CASE ListJobs
      <4>1. /\ details \in [Run -> [Attempt -> Detail]]
            /\ details' = [details EXCEPT ![drill.run][drill'.attempt] =
                             IF @ \in {"none", "nothing"} THEN "bare" ELSE @]
        BY <3>2, <3>4 DEF ListJobs, TypeOK
      <4>2. details'[drill.run][drill'.attempt] \in {"bare", "noted", "refused"}
        BY <3>2, <3>3, <4>1 DEF Detail
      <4> QED BY <3>2, <3>3, <3>4, <4>2 DEF ListJobs, Drilled
    <3>5. CASE ListNothing
      <4>1. /\ details \in [Run -> [Attempt -> Detail]]
            /\ details' = [details EXCEPT ![drill.run][drill'.attempt] =
                             IF @ \in {"none", "bare"} THEN "nothing" ELSE @]
        BY <3>2, <3>5 DEF ListNothing, TypeOK
      <4>2. details'[drill.run][drill'.attempt] \in {"noted", "refused", "nothing"}
        BY <3>2, <3>3, <4>1 DEF Detail
      <4> QED BY <3>2, <3>3, <3>5, <4>2 DEF ListNothing, Drilled
    <3> QED BY <2>2, <3>4, <3>5
  <2>3. CASE FetchNotes \/ NotesRefused \/ InsertNotes
    <3>1. drill' = drill /\ drill.attempt \in Attempt /\ drill.run \in Run
      BY <2>3 DEF FetchNotes, NotesRefused, InsertNotes, Drilled, TypeOK
    <3>2. details[drill.run] \in [Attempt -> Detail] /\ details \in [Run -> [Attempt -> Detail]]
      BY <3>1 DEF TypeOK
    <3>3. ASSUME NEW d, SetDetail(d) PROVE details'[drill.run][drill.attempt] = d
      BY <3>1, <3>2, <3>3 DEF SetDetail
    <3> QED BY <2>3, <3>1, <3>3 DEF FetchNotes, NotesRefused, InsertNotes, Drilled
  <2> QED BY <1>2, <2>1, <2>2, <2>3 DEF PollNext
<1> QED BY <1>1, <1>2 DEF Next

\* No step takes a run out of the queue.
LEMMA QueueKeeps ==
  ASSUME TypeOK, HoldsQueued, [Next]_vars, NEW r \in Run
  PROVE  queue[r] # "none" => queue'[r] # "none"
<1>0. queue \in [Run -> QueueStatus]
  BY DEF TypeOK
<1>1. CASE GithubNext \/ WatchNext \/ UNCHANGED vars
  BY <1>1
  DEF GithubNext, RunStarts, RunAgain, RunEnds, GithubSets, WatchNext, Register, Expire, Tell,
     Ack, HookDies, WatchOnly, vars, runVars
<1>2. CASE PollNext
  BY <1>0, <1>2
  DEF PollNext, ListRuns, StoreRun, FollowRun, CheckRun, ListJobs, ListNothing, ListJobsFails,
     FetchNotes, NotesRefused, InsertNotes, EnqueueRun, PassEnds, PassDies, runVars
<1>3. CASE BrainNext
  BY <1>0, <1>3
  DEF BrainNext, Claim, Read, WriteNode, ReuseNode, Link, EnrichFails, Reap, BrainDies, Charge
<1> QED BY <1>1, <1>2, <1>3 DEF Next

LEMMA HoldsQueuedStep == TypeOK /\ HoldsQueued /\ [Next]_vars => HoldsQueued'
<1> SUFFICES ASSUME TypeOK, HoldsQueued, [Next]_vars, NEW r \in Run,
                    r \in held' \/ reading'[r] # "none"
             PROVE  queue'[r] # "none"
  BY DEF HoldsQueued
<1>1. CASE r \in held \/ reading[r] # "none"
  BY <1>1, QueueKeeps DEF HoldsQueued
<1>2. CASE ~(r \in held \/ reading[r] # "none")
  <2>1. BrainNext
    BY <1>2
    DEF Next, GithubNext, RunStarts, RunAgain, RunEnds, GithubSets, WatchNext, Register, Expire,
        Tell, Ack, HookDies, WatchOnly, PollNext, ListRuns, StoreRun, FollowRun, CheckRun,
        ListJobs, ListNothing, ListJobsFails, FetchNotes, NotesRefused, InsertNotes, EnqueueRun, PassEnds, PassDies, PollOnly, vars,
        brainVars
  <2>2. Claim(r)
    BY <1>2, <2>1
    DEF BrainNext, Claim, Read, WriteNode, ReuseNode, Link, EnrichFails, Reap, BrainDies,
       Release, brainVars, TypeOK
  <2> QED BY <2>2 DEF Claim, TypeOK
<1> QED BY <1>1, <1>2

\* What QueuedHasDetails says of one run and one attempt
Detailed(r, a) ==
  \/ details[r][a] \in {"noted", "refused", "nothing"}
  \/ details[r][a] = "bare" /\ faults > 0
  \/ drill = [run |-> r, attempt |-> a] /\ pc \in {"notes", "insert"}

\* A step that does not enqueue the run keeps its details, or is about to replace them.
LEMMA DetailedStep ==
  ASSUME TypeOK, Drilled, [Next]_vars, NEW r \in Run, NEW a \in Attempt, Detailed(r, a)
  PROVE  Detailed(r, a)'
<1>1. CASE GithubNext \/ BrainNext \/ WatchNext \/ UNCHANGED vars
  <2>1. UNCHANGED <<pc, drill, details>> /\ (faults > 0 => faults' > 0)
    <3>1. CASE GithubNext
      BY <3>1 DEF GithubNext, RunStarts, RunAgain, RunEnds, GithubSets, runVars, pollVars
    <3>2. CASE BrainNext
      BY <3>2
      DEF BrainNext, Claim, Read, WriteNode, ReuseNode, Link, EnrichFails, Reap, BrainDies,
         BrainOnly, pollVars, Fault, TypeOK
    <3>3. CASE WatchNext
      BY <3>3
      DEF WatchNext, Register, Expire, Tell, Ack, HookDies, WatchOnly, runVars, pollVars, Fault,
          TypeOK
    <3>4. CASE UNCHANGED vars
      BY <3>4 DEF vars, runVars, pollVars
    <3> QED BY <1>1, <3>1, <3>2, <3>3, <3>4
  <2> QED BY <2>1 DEF Detailed
<1>2. CASE PollNext
  <2>0. details \in [Run -> [Attempt -> Detail]] /\ faults \in Nat
    BY DEF TypeOK
  <2>1. CASE \/ ListRuns \/ (\E p \in page : StoreRun(p) \/ FollowRun(p) \/ CheckRun(p))
             \/ EnqueueRun \/ PassEnds
    <3>1. UNCHANGED <<details, faults>> /\ pc \notin {"notes", "insert"}
      BY <2>1 DEF ListRuns, StoreRun, FollowRun, CheckRun, EnqueueRun, PassEnds, runVars
    <3> QED BY <3>1 DEF Detailed
  <2>2. CASE ListJobsFails \/ PassDies
    <3>1. UNCHANGED details /\ faults' > 0
      BY <2>0, <2>2 DEF ListJobsFails, PassDies, Fault, runVars
    <3>2. drill = [run |-> r, attempt |-> a] /\ pc \in {"notes", "insert"}
            => details[r][a] \in {"bare", "noted", "refused"}
      BY DEF Drilled
    <3> QED BY <3>1, <3>2 DEF Detailed
  <2>3. CASE ListJobs
    <3>1. UNCHANGED faults /\ pc = "jobs" /\ pc' = "notes"
      BY <2>3 DEF ListJobs
    <3>2. drill'.run = drill.run /\ drill'.attempt = github[drill.run].attempt /\ drill' \in Drill
      <4>1. drill \in Drill /\ drill.run \in Run /\ github[drill.run].attempt \in Attempt
        BY <2>3 DEF ListJobs, TypeOK, Drill
      <4> QED BY <2>3, <4>1 DEF ListJobs, Drill
    <3>3. details'[r][a] = details[r][a] \/ (r = drill'.run /\ a = drill'.attempt)
             \/ details[r][a] = "none"
      BY <2>0, <2>3, <3>2 DEF ListJobs
    <3>4. CASE r = drill'.run /\ a = drill'.attempt
      <4>1. drill' = [run |-> r, attempt |-> a]
        BY <3>2, <3>4 DEF Drill
      <4> QED BY <3>1, <4>1 DEF Detailed
    <3> QED BY <3>1, <3>3, <3>4 DEF Detailed
  <2>4. CASE ListNothing
    <3>1. UNCHANGED faults /\ pc = "jobs"
      BY <2>4 DEF ListNothing
    <3>2. details'[r][a] \in {details[r][a], "nothing"}
      BY <2>0, <2>4 DEF ListNothing
    <3> QED BY <3>1, <3>2 DEF Detailed
  <2>5. ASSUME NEW d \in Detail, SetDetail(d), drill' = drill,
               d \in {"noted", "refused"} \/ pc' = "insert",
               faults' \in Nat, faults' >= faults,
               drill \in Drill, drill.attempt \in Attempt
        PROVE  Detailed(r, a)'
    <3>1. drill.run \in Run /\ drill.attempt \in Attempt
      BY <2>5 DEF Drill
    <3>2. CASE r = drill.run /\ a = drill.attempt
      <4>1. details'[r][a] = d /\ drill = [run |-> r, attempt |-> a]
        BY <2>0, <2>5, <3>1, <3>2 DEF SetDetail, Drill
      <4> QED BY <2>5, <4>1 DEF Detailed
    <3>3. CASE ~(r = drill.run /\ a = drill.attempt)
      <4>1. details'[r][a] = details[r][a] /\ drill # [run |-> r, attempt |-> a]
        BY <2>0, <2>5, <3>1, <3>3 DEF SetDetail
      <4> QED BY <2>0, <2>5, <4>1 DEF Detailed
    <3> QED BY <3>2, <3>3
  <2>6. CASE FetchNotes \/ NotesRefused \/ InsertNotes
    <3>1. PICK d \in Detail :
            /\ SetDetail(d) /\ drill' = drill
            /\ d \in {"noted", "refused"} \/ pc' = "insert"
      BY <2>6 DEF FetchNotes, NotesRefused, InsertNotes, Detail
    <3>2. faults' \in Nat /\ faults' >= faults
      BY <2>0, <2>6 DEF FetchNotes, NotesRefused, InsertNotes, Fault
    <3>3. drill \in Drill /\ drill.attempt \in Attempt
      BY <2>6 DEF FetchNotes, NotesRefused, InsertNotes, TypeOK, Drill, Drilled
    <3> QED BY <2>5, <3>1, <3>2, <3>3
  <2> QED BY <1>2, <2>1, <2>2, <2>3, <2>4, <2>6 DEF PollNext
<1> QED BY <1>1, <1>2 DEF Next

LEMMA QueuedStep ==
  TypeOK /\ Drilled /\ HoldsQueued /\ QueuedHasDetails /\ [Next]_vars => QueuedHasDetails'
<1> SUFFICES ASSUME TypeOK, Drilled, HoldsQueued, QueuedHasDetails, [Next]_vars,
                    NEW r \in Run, queue'[r] # "none"
             PROVE  \E a \in Attempt : Detailed(r, a)'
  BY DEF QueuedHasDetails, Detailed
<1>1. CASE queue[r] # "none"
  <2>1. PICK a \in Attempt : Detailed(r, a)
    BY <1>1 DEF QueuedHasDetails, Detailed
  <2> QED BY <2>1, DetailedStep
<1>2. CASE queue[r] = "none"
  <2>1. EnqueueRun /\ r = drill.run
    <3>1. CASE GithubNext \/ WatchNext \/ UNCHANGED vars
      BY <1>2, <3>1
      DEF GithubNext, RunStarts, RunAgain, RunEnds, GithubSets, WatchNext, Register, Expire, Tell,
          Ack, HookDies, WatchOnly, vars, runVars
    <3>2. CASE PollNext
      BY <1>2, <3>2
      DEF PollNext, ListRuns, StoreRun, FollowRun, CheckRun, ListJobs, ListNothing,
         ListJobsFails, FetchNotes, NotesRefused, InsertNotes, EnqueueRun, PassEnds, PassDies,
         runVars, TypeOK
    <3>3. CASE BrainNext
      BY <1>2, <3>3
      DEF BrainNext, Claim, Read, WriteNode, ReuseNode, Link, EnrichFails, Reap, BrainDies,
         Charge, HoldsQueued, TypeOK
    <3> QED BY <3>1, <3>2, <3>3 DEF Next
  <2>2. /\ drill.attempt \in Attempt
        /\ details'[r][drill.attempt] \in {"noted", "refused", "nothing"}
    BY <2>1 DEF EnqueueRun, Drilled
  <2> QED BY <2>2 DEF Detailed
<1> QED BY <1>1, <1>2

\* The brain is never given a run whose jobs are not stored.
THEOREM QueuedHasDetailsAlways == Spec => []QueuedHasDetails
<1>1. Init => Drilled /\ HoldsQueued /\ QueuedHasDetails
  <2> SUFFICES ASSUME Init PROVE Drilled /\ HoldsQueued /\ QueuedHasDetails
    OBVIOUS
  <2>1. Drilled /\ HoldsQueued
    BY DEF Init, Drilled, HoldsQueued
  <2>2. ASSUME NEW r \in Run, queue[r] # "none" PROVE details[r][1] = "noted" /\ 1 \in Attempt
    BY <2>2, WorkflowsAssumption DEF Init, Attempt
  <2> QED BY <2>1, <2>2 DEF QueuedHasDetails
<1> QED
  BY <1>1, TypeInit, TypeStep, DrilledStep, HoldsQueuedStep, QueuedStep, PTL DEF Spec
-----------------------------------------------------------------------------
(***************************************************************************)
(* EnrichedOnce: the enriched flag, the queue row and the link agree, and  *)
(* the brain holds only runs that have none of them. The reaper and a      *)
(* failure put a row back only where the brain holds it or has lost it.    *)
(* A node belongs to the run it was made for, which is linked to it.       *)
(***************************************************************************)

Once(r) ==
  /\ r \in enriched <=> node[r] # NoRun
  /\ queue[r] = "done" <=> node[r] # NoRun
  /\ r \in held => node[r] = NoRun
  /\ reading[r] # "none" => r \in held
  /\ outcome[r] # "none" => node[r] = r

\* What a step may do to the node of a run, and to its link
Kept(r) ==
  /\ node[r] # NoRun => node'[r] = node[r]
  /\ outcome[r] # "none" => outcome'[r] = outcome[r]

LEMMA OnceBrain ==
  ASSUME TypeOK, BrainNext, NEW r \in Run, Once(r)
  PROVE  Once(r)' /\ Kept(r)
<1> USE DEF Once, Kept
<1>0. /\ queue \in [Run -> QueueStatus] /\ outcome \in [Run -> State]
      /\ reading \in [Run -> State] /\ node \in [Run -> Run \cup {NoRun}]
      /\ NoRun \notin Run
  BY WorkflowsAssumption DEF TypeOK, NoRun
<1>1. ASSUME NEW q \in Run, Claim(q) PROVE Once(r)' /\ Kept(r)
  BY <1>0, <1>1 DEF Claim
<1>2. ASSUME NEW q \in Run, Read(q) PROVE Once(r)' /\ Kept(r)
  BY <1>0, <1>2 DEF Read
<1>3. ASSUME NEW q \in Run, WriteNode(q) PROVE Once(r)' /\ Kept(r)
  <2>1. CASE q = r
    BY <1>0, <1>3, <2>1 DEF WriteNode, Link, Release
  <2>2. CASE q # r
    BY <1>0, <1>3, <2>2 DEF WriteNode, Link, Release
  <2> QED BY <2>1, <2>2
<1>4. ASSUME NEW q \in Run, NEW n \in Run, ReuseNode(q, n) PROVE Once(r)' /\ Kept(r)
  <2>1. CASE q = r
    BY <1>0, <1>4, <2>1 DEF ReuseNode, Link, Release
  <2>2. CASE q # r
    BY <1>0, <1>4, <2>2 DEF ReuseNode, Link, Release
  <2> QED BY <2>1, <2>2
<1>5. ASSUME NEW q \in Run, EnrichFails(q) PROVE Once(r)' /\ Kept(r)
  <2>1. CASE q = r
    BY <1>0, <1>5, <2>1 DEF EnrichFails, Charge, Release
  <2>2. CASE q # r
    BY <1>0, <1>5, <2>2 DEF EnrichFails, Charge, Release
  <2> QED BY <2>1, <2>2
<1>6. ASSUME NEW q \in Run, Reap(q) PROVE Once(r)' /\ Kept(r)
  BY <1>0, <1>6 DEF Reap, Charge, brainVars
<1>7. CASE BrainDies
  BY <1>0, <1>7 DEF BrainDies
<1> QED BY <1>1, <1>2, <1>3, <1>4, <1>5, <1>6, <1>7 DEF BrainNext

LEMMA OnceStep ==
  ASSUME TypeOK, [Next]_vars, NEW r \in Run, Once(r)
  PROVE  Once(r)' /\ Kept(r)
<1>1. CASE BrainNext
  BY <1>1, OnceBrain
<1>2. CASE EnqueueRun
  <2>1. UNCHANGED <<enriched, outcome, node, held, reading>>
    BY <1>2 DEF EnqueueRun, PollOnly, brainVars
  <2>2. queue'[r] = queue[r] \/ (queue[r] = "none" /\ queue'[r] = "pending")
    BY <1>2 DEF EnqueueRun, TypeOK
  <2> QED BY <2>1, <2>2 DEF Once, Kept
<1>3. CASE ~BrainNext /\ ~EnqueueRun
  <2>1. UNCHANGED <<enriched, outcome, node, queue, held, reading>>
    <3>1. CASE PollNext
      BY <1>3, <3>1
      DEF PollNext, ListRuns, StoreRun, FollowRun, CheckRun, ListJobs, ListNothing, ListJobsFails,
          FetchNotes, NotesRefused, InsertNotes, PassEnds, PassDies, PollOnly, runVars, brainVars
    <3>2. CASE GithubNext \/ WatchNext \/ UNCHANGED vars
      BY <3>2
      DEF GithubNext, RunStarts, RunAgain, RunEnds, GithubSets, WatchNext, Register, Expire, Tell,
          Ack, HookDies, WatchOnly, vars, runVars, brainVars
    <3> QED BY <1>3, <3>1, <3>2 DEF Next
  <2> QED BY <2>1 DEF Once, Kept
<1> QED BY <1>1, <1>2, <1>3

AllOnce == \A r \in Run : Once(r)

LEMMA AllOnceStep == TypeOK /\ AllOnce /\ [Next]_vars => AllOnce' /\ \A r \in Run : Kept(r)
BY OnceStep DEF AllOnce

LEMMA AllOnceInit == Init => AllOnce
<1> SUFFICES ASSUME Init, NEW r \in Run PROVE Once(r)
  BY DEF AllOnce
<1>1. NoRun \notin Run /\ Past \subseteq Run
  BY WorkflowsAssumption DEF NoRun
<1> QED BY <1>1, InitFacts DEF Init, Once

\* A run is linked to a node once, and neither the link nor the node changes.
THEOREM EnrichedOnceAlways == Spec => EnrichedOnce
<1> DEFINE AllKept == \A r \in Run : Kept(r)
<1>1. TypeOK /\ AllOnce /\ [Next]_vars => [AllKept]_vars
  BY AllOnceStep
<1>2. [AllKept]_vars => [\A r \in Run : /\ node[r] # NoRun => node'[r] = node[r]
                                        /\ outcome[r] # "none" => outcome'[r] = outcome[r]]_vars
  BY DEF Kept
<1>3. TypeOK /\ AllOnce /\ [Next]_vars => AllOnce'
  BY AllOnceStep
<1> QED
  BY <1>1, <1>2, <1>3, AllOnceInit, TypeInit, TypeStep, PTL DEF Spec, EnrichedOnce

\* A run is linked to a node that was made.
LinkMade == \A r \in Run : node[r] # NoRun => outcome[node[r]] # "none"

LEMMA LinkMadeStep == TypeOK /\ AllOnce /\ LinkMade /\ [Next]_vars => LinkMade'
<1> SUFFICES ASSUME TypeOK, AllOnce, LinkMade, [Next]_vars, NEW r \in Run, node'[r] # NoRun
             PROVE  outcome'[node'[r]] # "none"
  BY DEF LinkMade
<1>0. /\ node \in [Run -> Run \cup {NoRun}] /\ outcome \in [Run -> State]
      /\ \A q \in Run : outcome[q] # "none" => outcome'[q] # "none"
  BY AllOnceStep DEF TypeOK, Kept
<1>1. CASE node'[r] = node[r]
  BY <1>0, <1>1 DEF LinkMade
<1>2. CASE node'[r] # node[r]
  <2>1. BrainNext
    BY <1>2
    DEF Next, PollNext, ListRuns, StoreRun, FollowRun, CheckRun, ListJobs, ListNothing,
        ListJobsFails, FetchNotes, NotesRefused, InsertNotes, EnqueueRun, PassEnds, PassDies,
        PollOnly, GithubNext, RunStarts, RunAgain, RunEnds, GithubSets, WatchNext, Register,
        Expire, Tell, Ack, HookDies, WatchOnly, vars, brainVars
  <2>2. WriteNode(r) \/ \E q \in Run : ReuseNode(r, q)
    BY <1>0, <1>2, <2>1
    DEF BrainNext, Claim, Read, WriteNode, ReuseNode, Link, EnrichFails, Reap, BrainDies,
       brainVars
  <2>3. CASE WriteNode(r)
    BY <1>0, <2>3 DEF WriteNode, Link
  <2>4. ASSUME NEW q \in Run, ReuseNode(r, q) PROVE outcome'[node'[r]] # "none"
    BY <1>0, <2>4 DEF ReuseNode, Link
  <2> QED BY <2>2, <2>3, <2>4
<1> QED BY <1>1, <1>2

-----------------------------------------------------------------------------
(***************************************************************************)
(* OutcomeTrue follows the conclusion of a run from GitHub to the node:    *)
(* the list, the stored row, the queue, what the brain has read. Each      *)
(* holds what GitHub says, or nothing final yet; and a conclusion of a     *)
(* first attempt never changes.                                            *)
(***************************************************************************)

\* A pass has each run once in its list.
PageOnce == \A p, q \in page : p.run = q.run => p = q

Began == \A r \in Run : github[r].state = "none" => github[r].attempt = 1

PageTrue(r) ==
  \A p \in page : p.run = r =>
    /\ p.state \in Final => github[r].state = p.state
    /\ stored[r] \in Final => p.state = stored[r]

StoredTrue(r) == stored[r] \in Final => github[r].state = stored[r]

\* The run the pass has stored and not yet looked into has ended.
StepTrue(r) == pc \in {"follow", "check"} => \A p : Newest(p) /\ p.run = r => stored[r] \in Final

ReadTrue(r) ==
  /\ pc \notin NotDrilling /\ drill.run = r => stored[r] \in Final
  /\ queue[r] # "none" => stored[r] \in Final
  /\ reading[r] # "none" => reading[r] = stored[r]
  /\ outcome[r] # "none" => outcome[r] = stored[r] /\ stored[r] \in Final

Truth(r) == github[r].attempt = 1 => PageTrue(r) /\ StoredTrue(r) /\ StepTrue(r) /\ ReadTrue(r)

Truths == \A r \in Run : Truth(r)

\* What the list, the stored row and the brain hold of the runs, for frames
told == <<page, stored, pc, drill, queue, reading, outcome>>

LEMMA PageOnceStep == PageOnce /\ [Next]_vars => PageOnce'
<1> SUFFICES ASSUME PageOnce, [Next]_vars PROVE PageOnce'
  OBVIOUS
<1>1. CASE PollNext
  <2>1. CASE ListRuns
    BY <2>1 DEF ListRuns, PageOnce
  <2>2. CASE ~ListRuns
    <3>1. page' \subseteq page
      BY <1>1, <2>2
      DEF PollNext, StoreRun, FollowRun, CheckRun, ListJobs, ListNothing, ListJobsFails,
         FetchNotes, NotesRefused, InsertNotes, EnqueueRun, PassEnds, PassDies
    <3> QED BY <3>1 DEF PageOnce
  <2> QED BY <2>1, <2>2
<1>2. CASE GithubNext \/ BrainNext \/ WatchNext \/ UNCHANGED vars
  <2>1. page' = page
    BY <1>2
    DEF GithubNext, RunStarts, RunAgain, RunEnds, GithubSets, BrainNext, Claim, Read,
       WriteNode, ReuseNode, Link, EnrichFails, Reap, BrainDies, BrainOnly, WatchNext,
       Register, Expire, Tell, Ack, HookDies, WatchOnly, vars, pollVars
  <2> QED BY <2>1 DEF PageOnce
<1> QED BY <1>1, <1>2 DEF Next

\* Only GitHub's own steps change what GitHub says.
LEMMA GithubFrame ==
  ASSUME [Next]_vars, ~GithubNext
  PROVE  UNCHANGED github
<1>1. CASE PollNext
  BY <1>1
  DEF PollNext, ListRuns, StoreRun, FollowRun, CheckRun, ListJobs, ListNothing, ListJobsFails,
     FetchNotes, NotesRefused, InsertNotes, EnqueueRun, PassEnds, PassDies, PollOnly
<1>2. CASE BrainNext \/ WatchNext \/ UNCHANGED vars
  BY <1>2
  DEF BrainNext, Claim, Read, WriteNode, ReuseNode, Link, EnrichFails, Reap, BrainDies,
     BrainOnly, WatchNext, Register, Expire, Tell, Ack, HookDies, WatchOnly, vars
<1> QED BY <1>1, <1>2 DEF Next

\* A first attempt was one before, and once over it stays as it is.
LEMMA GithubKeeps ==
  ASSUME TypeOK, Began, [Next]_vars, NEW r \in Run, github'[r].attempt = 1
  PROVE  /\ github[r].attempt = 1
         /\ github[r].state \in Final => github'[r].state = github[r].state
<1>0. github \in [Run -> [attempt : Attempt, state : State]]
  BY DEF TypeOK
<1>1. CASE GithubNext
  <2>1. ASSUME NEW q \in Run, RunStarts(q) PROVE github[q].attempt = 1 /\ github[q].state = "none"
    BY <2>1 DEF RunStarts, Began
  <2>2. ASSUME NEW q \in Run, RunStarts(q)
        PROVE  /\ github[r].attempt = 1
               /\ github[r].state \in Final => github'[r].state = github[r].state
    <3>1. q # r => github'[r] = github[r]
      BY <1>0, <2>2 DEF RunStarts, GithubSets
    <3> QED BY <2>1, <2>2, <3>1 DEF Final
  <2>3. ASSUME NEW q \in Run, RunAgain(q)
        PROVE  q # r /\ github'[r] = github[r]
    <3>1. github'[q].attempt = github[q].attempt + 1 /\ github[q].attempt \in Attempt
      BY <1>0, <2>3 DEF RunAgain, GithubSets
    <3>2. q # r
      BY <3>1, WorkflowsAssumption DEF Attempt
    <3> QED BY <1>0, <2>3, <3>2 DEF RunAgain, GithubSets
  <2>4. ASSUME NEW q \in Run, NEW s \in Final, RunEnds(q, s)
        PROVE  /\ github'[r].attempt = github[r].attempt
               /\ github[r].state \in Final => github'[r].state = github[r].state
    <3>1. q # r => github'[r] = github[r]
      BY <1>0, <2>4 DEF RunEnds, GithubSets
    <3>2. q = r => github'[r].attempt = github[r].attempt /\ github[r].state \notin Final
      BY <1>0, <2>4 DEF RunEnds, GithubSets, Final
    <3> QED BY <3>1, <3>2
  <2> QED BY <1>1, <2>2, <2>3, <2>4 DEF GithubNext
<1>2. CASE ~GithubNext
  BY <1>2, GithubFrame
<1> QED BY <1>1, <1>2

LEMMA BeganStep == TypeOK /\ Began /\ [Next]_vars => Began'
<1> SUFFICES ASSUME TypeOK, Began, [Next]_vars, NEW r \in Run, github'[r].state = "none"
             PROVE  github'[r].attempt = 1
  BY DEF Began
<1>1. CASE GithubNext
  <2>0. github \in [Run -> [attempt : Attempt, state : State]]
    BY DEF TypeOK
  <2>1. ASSUME NEW q \in Run,
               RunStarts(q) \/ RunAgain(q) \/ \E s \in Final : RunEnds(q, s)
        PROVE  github'[r] = github[r]
    <3>1. q # r => github'[r] = github[r]
      BY <2>0, <2>1 DEF RunStarts, RunAgain, RunEnds, GithubSets
    <3>2. github'[q].state # "none"
      BY <2>0, <2>1 DEF RunStarts, RunAgain, RunEnds, GithubSets, Final
    <3> QED BY <3>1, <3>2
  <2> QED BY <1>1, <2>1 DEF GithubNext, Began
<1>2. CASE ~GithubNext
  BY <1>2, GithubFrame DEF Began
<1> QED BY <1>1, <1>2

\* Where nothing but GitHub moved, what is told stays true.
LEMMA TruthFrame ==
  ASSUME TypeOK, Began, [Next]_vars, NEW r \in Run, github'[r].attempt = 1, Truth(r),
         UNCHANGED told
  PROVE  Truth(r)'
<1>1. /\ github[r].attempt = 1
      /\ github[r].state \in Final => github'[r].state = github[r].state
  BY GithubKeeps
<1>2. PageTrue(r) /\ StoredTrue(r) /\ StepTrue(r) /\ ReadTrue(r)
  BY <1>1 DEF Truth
<1>3. PageTrue(r)'
  BY <1>1, <1>2 DEF PageTrue, told
<1>4. StoredTrue(r)' /\ StepTrue(r)' /\ ReadTrue(r)'
  BY <1>1, <1>2 DEF StoredTrue, StepTrue, Newest, ReadTrue, told
<1> QED BY <1>3, <1>4 DEF Truth

LEMMA TruthOfPoll ==
  ASSUME TypeOK, PageOnce, HoldsQueued, [Next]_vars, PollNext, UNCHANGED github,
         NEW r \in Run, PageTrue(r), StoredTrue(r), StepTrue(r), ReadTrue(r)
  PROVE  PageTrue(r)' /\ StoredTrue(r)' /\ StepTrue(r)' /\ ReadTrue(r)'
<1>0. UNCHANGED <<reading, outcome>>
  BY DEF PollNext, ListRuns, StoreRun, FollowRun, CheckRun, ListJobs, ListNothing,
     ListJobsFails, FetchNotes, NotesRefused, InsertNotes, EnqueueRun, PassEnds, PassDies,
     PollOnly, brainVars
<1>1. CASE ListRuns
  <2>1. UNCHANGED <<stored, queue>> /\ pc' = "store"
        /\ page' = {[run |-> q, state |-> github[q].state] : q \in Listed}
    BY <1>1 DEF ListRuns, runVars
  <2>2. PageTrue(r)'
    BY <2>1 DEF PageTrue, StoredTrue
  <2> QED BY <1>0, <2>1, <2>2 DEF StoredTrue, StepTrue, ReadTrue, NotDrilling
<1>2. ASSUME NEW p \in page, StoreRun(p)
      PROVE  PageTrue(r)' /\ StoredTrue(r)' /\ StepTrue(r)' /\ ReadTrue(r)'
  <2>0. p.run \in Run /\ stored \in [Run -> State]
    BY DEF TypeOK
  <2>1. /\ page' \subseteq page /\ UNCHANGED queue
        /\ stored' = [stored EXCEPT ![p.run] = p.state]
        /\ \/ pc' = "follow" /\ page' = page /\ p.state \in Final
           \/ pc' = "store"
    BY <1>2 DEF StoreRun, Completed
  <2>2. CASE p.run = r
    <3>1. stored'[r] = p.state /\ (stored[r] \in Final => p.state = stored[r])
      BY <2>0, <2>1, <2>2 DEF PageTrue
    <3>2. \A q \in page' : q.run = r => q = p
      BY <2>1, <2>2 DEF PageOnce
    <3>3. PageTrue(r)' /\ StoredTrue(r)'
      BY <2>2, <3>1, <3>2 DEF PageTrue, StoredTrue
    <3>4. StepTrue(r)'
      BY <2>1, <3>1 DEF StepTrue
    <3>5. ReadTrue(r)'
      <4>1. reading[r] # "none" => stored[r] \in Final
        BY DEF ReadTrue, HoldsQueued
      <4> QED BY <1>0, <2>1, <2>2, <3>1, <4>1 DEF ReadTrue, NotDrilling
    <3> QED BY <3>3, <3>4, <3>5
  <2>3. CASE p.run # r
    <3>1. stored'[r] = stored[r]
      BY <2>0, <2>1, <2>3
    <3>2. PageTrue(r)' /\ StoredTrue(r)' /\ ReadTrue(r)'
      BY <1>0, <2>1, <3>1 DEF PageTrue, StoredTrue, ReadTrue, NotDrilling
    <3>3. StepTrue(r)'
      <4>1. SUFFICES ASSUME page' = page, NEW q, Newest(q)', q.run = r PROVE FALSE
        BY <2>1 DEF StepTrue
      <4>2. q \in page /\ q.run >= p.run /\ p.run >= q.run
        BY <1>2, <4>1 DEF Newest, StoreRun
      <4>3. p.run \in Nat /\ r \in Nat
        BY <2>0, WorkflowsAssumption
      <4>4. r >= p.run /\ p.run >= r
        BY <4>1, <4>2
      <4> QED BY <2>3, <4>3, <4>4
    <3> QED BY <3>2, <3>3
  <2> QED BY <2>2, <2>3
<1>3. ASSUME NEW p \in page, FollowRun(p) \/ CheckRun(p)
      PROVE  PageTrue(r)' /\ StoredTrue(r)' /\ StepTrue(r)' /\ ReadTrue(r)'
  <2>1. page' \subseteq page /\ UNCHANGED <<stored, queue>>
    BY <1>3 DEF FollowRun, CheckRun, runVars
  <2>2. p.run = r => stored[r] \in Final
    BY <1>3 DEF FollowRun, CheckRun, StepTrue
  <2>3. \/ pc = "follow" /\ pc' = "check" /\ page' = page
        \/ pc' = "store"
        \/ pc' = "jobs" /\ drill' = [run |-> p.run, attempt |-> 0]
    BY <1>3 DEF FollowRun, CheckRun
  <2>4. StepTrue(r)'
    BY <2>1, <2>3 DEF StepTrue, Newest
  <2>5. PageTrue(r)' /\ StoredTrue(r)' /\ ReadTrue(r)'
    BY <1>0, <2>1, <2>2, <2>3 DEF PageTrue, StoredTrue, ReadTrue, NotDrilling
  <2> QED BY <2>4, <2>5
<1>4. CASE EnqueueRun
  <2>1. /\ UNCHANGED <<page, stored>> /\ pc' = "store"
        /\ queue' = [queue EXCEPT ![drill.run] = IF @ = "none" THEN "pending" ELSE @]
    BY <1>4 DEF EnqueueRun
  <2>2. queue'[r] # "none" => stored[r] \in Final
    BY <1>4, <2>1 DEF EnqueueRun, ReadTrue, TypeOK, NotDrilling
  <2> QED BY <1>0, <2>1, <2>2 DEF PageTrue, StoredTrue, StepTrue, ReadTrue, NotDrilling
<1>5. CASE \/ ListJobs \/ ListNothing \/ ListJobsFails \/ FetchNotes \/ NotesRefused
           \/ InsertNotes \/ PassEnds \/ PassDies
  <2>1. page' \subseteq page /\ UNCHANGED <<stored, queue>>
    BY <1>5
    DEF ListJobs, ListNothing, ListJobsFails, FetchNotes, NotesRefused, InsertNotes, PassEnds,
        PassDies, runVars
  <2>2. pc' \in {"idle", "store"} \/ (pc \notin NotDrilling /\ drill'.run = drill.run)
    <3>1. CASE ListJobs \/ ListNothing
      <4>1. drill' = [drill EXCEPT !.attempt = github[drill.run].attempt] /\ drill \in Drill
        BY <3>1 DEF ListJobs, ListNothing, TypeOK, Drill
      <4> QED BY <3>1, <4>1 DEF ListJobs, ListNothing, Drill, NotDrilling
    <3>2. CASE ~(ListJobs \/ ListNothing)
      BY <1>5, <3>2
      DEF ListJobsFails, AfterRefusal, FetchNotes, NotesRefused, InsertNotes, PassEnds, PassDies,
          NotDrilling
    <3> QED BY <3>1, <3>2
  <2>3. pc' \notin {"follow", "check"}
    BY <1>5
    DEF ListJobs, ListNothing, ListJobsFails, AfterRefusal, FetchNotes, NotesRefused,
        InsertNotes, PassEnds, PassDies
  <2> QED BY <1>0, <2>1, <2>2, <2>3 DEF PageTrue, StoredTrue, StepTrue, ReadTrue, NotDrilling
<1> QED BY <1>1, <1>2, <1>3, <1>4, <1>5 DEF PollNext

LEMMA TruthOfBrain ==
  ASSUME TypeOK, HoldsQueued, BrainNext, NEW r \in Run,
         PageTrue(r), StoredTrue(r), StepTrue(r), ReadTrue(r)
  PROVE  PageTrue(r)' /\ StoredTrue(r)' /\ StepTrue(r)' /\ ReadTrue(r)'
<1>1. UNCHANGED <<github, stored, page, pc, drill>>
  BY DEF BrainNext, Claim, Read, WriteNode, ReuseNode, EnrichFails, Reap, BrainDies, BrainOnly,
     pollVars
<1>2. queue'[r] # "none" => stored[r] \in Final
  <2>1. queue[r] # "none" \/ queue'[r] = "none"
    BY DEF BrainNext, Claim, Read, WriteNode, ReuseNode, Link, EnrichFails, Reap, BrainDies,
       Charge, HoldsQueued, TypeOK
  <2> QED BY <2>1 DEF ReadTrue
<1>3. /\ reading'[r] # "none" => reading'[r] = stored[r]
      /\ outcome'[r] # "none" => outcome'[r] = stored[r] /\ stored[r] \in Final
  <2>1. reading[r] # "none" => reading[r] = stored[r] /\ stored[r] \in Final
    BY DEF ReadTrue, HoldsQueued
  <2>2. ASSUME NEW q \in Run, Claim(q) \/ Read(q) \/ WriteNode(q) \/ EnrichFails(q) \/ Reap(q)
        PROVE  /\ reading'[r] \in {reading[r], stored[r], "none"}
               /\ outcome'[r] # outcome[r] => outcome'[r] = reading[r] /\ reading[r] # "none"
    BY <2>2 DEF Claim, Read, WriteNode, Link, EnrichFails, Reap, Release, brainVars, TypeOK
  <2>3. ASSUME NEW q \in Run, NEW n \in Run, ReuseNode(q, n)
        PROVE  reading'[r] \in {reading[r], "none"} /\ outcome' = outcome
    BY <2>3 DEF ReuseNode, Link, Release, TypeOK
  <2>4. CASE BrainDies
    BY <2>4 DEF BrainDies, ReadTrue
  <2> QED BY <2>1, <2>2, <2>3, <2>4 DEF BrainNext, ReadTrue
<1> QED BY <1>1, <1>2, <1>3 DEF PageTrue, StoredTrue, StepTrue, Newest, ReadTrue

LEMMA TruthsStep ==
  TypeOK /\ PageOnce /\ Began /\ HoldsQueued /\ Truths /\ [Next]_vars => Truths'
<1> SUFFICES ASSUME TypeOK, PageOnce, Began, HoldsQueued, Truths, [Next]_vars,
                    NEW r \in Run, github'[r].attempt = 1
             PROVE  Truth(r)'
  BY DEF Truths, Truth
<1>1. Truth(r) /\ PageTrue(r) /\ StoredTrue(r) /\ StepTrue(r) /\ ReadTrue(r)
  BY GithubKeeps DEF Truths, Truth
<1>2. CASE PollNext
  <2>1. UNCHANGED github
    BY <1>2
    DEF PollNext, ListRuns, StoreRun, FollowRun, CheckRun, ListJobs, ListNothing, ListJobsFails,
        FetchNotes, NotesRefused, InsertNotes, EnqueueRun, PassEnds, PassDies, PollOnly
  <2> QED BY <1>1, <1>2, <2>1, TruthOfPoll DEF Truth
<1>3. CASE BrainNext
  BY <1>1, <1>3, TruthOfBrain DEF Truth
<1>4. CASE GithubNext \/ WatchNext \/ UNCHANGED vars
  <2>1. UNCHANGED told
    BY <1>4
    DEF GithubNext, RunStarts, RunAgain, RunEnds, GithubSets, WatchNext, Register, Expire, Tell,
        Ack, HookDies, WatchOnly, vars, runVars, pollVars, brainVars, told
  <2> QED BY <1>1, <2>1, TruthFrame
<1> QED BY <1>2, <1>3, <1>4 DEF Next

LEMMA TruthInit == Init => PageOnce /\ Began /\ HoldsQueued /\ Truths /\ LinkMade
<1> SUFFICES ASSUME Init PROVE PageOnce /\ Began /\ HoldsQueued /\ Truths /\ LinkMade
  OBVIOUS
<1>1. PageOnce /\ Began /\ HoldsQueued
  BY InitFacts DEF Init, PageOnce, Began, HoldsQueued
<1>2. ASSUME NEW r \in Run PROVE PageTrue(r) /\ StoredTrue(r) /\ StepTrue(r) /\ ReadTrue(r)
  <2>1. PageTrue(r) /\ StoredTrue(r) /\ StepTrue(r)
    BY InitFacts DEF Init, PageTrue, StoredTrue, StepTrue
  <2>2. queue[r] # "none" => r \in Past
    BY DEF Init
  <2> QED BY <2>1, <2>2, InitFacts DEF Init, ReadTrue, NotDrilling
<1>3. LinkMade
  BY InitFacts, WorkflowsAssumption DEF Init, LinkMade
<1> QED BY <1>1, <1>2, <1>3 DEF Truths, Truth

\* The node an enriched run is linked to was made for that run or another enriched one, and
\* tells how a run ended that was run once, when it was made for that one.
THEOREM OutcomeTrueAlways == Spec => []OutcomeTrue
<1>1. TypeOK /\ AllOnce /\ LinkMade /\ Truths => OutcomeTrue
  <2> SUFFICES ASSUME TypeOK, AllOnce, LinkMade, Truths, NEW r \in enriched
               PROVE  /\ node[r] \in enriched /\ node[node[r]] = node[r]
                      /\ outcome[node[r]] # "none"
                      /\ github[node[r]].attempt = 1
                           => outcome[node[r]] = github[node[r]].state
    BY DEF OutcomeTrue
  <2>1. node[r] \in Run /\ outcome[node[r]] # "none"
    <3>1. node[r] # NoRun /\ node[r] \in Run \cup {NoRun}
      BY DEF TypeOK, AllOnce, Once
    <3> QED BY <3>1 DEF LinkMade, TypeOK
  <2>2. ASSUME NEW q \in Run, outcome[q] # "none" PROVE node[q] = q /\ q \in enriched
    <3>1. q # NoRun
      BY WorkflowsAssumption DEF NoRun
    <3> QED BY <2>2, <3>1 DEF AllOnce, Once
  <2>3. ASSUME NEW q \in Run, outcome[q] # "none", github[q].attempt = 1
        PROVE  outcome[q] = github[q].state
    <3>1. StoredTrue(q) /\ ReadTrue(q)
      BY <2>3 DEF Truths, Truth
    <3> QED BY <2>3, <3>1 DEF StoredTrue, ReadTrue
  <2> QED BY <2>1, <2>2, <2>3
<1>2. TypeOK /\ AllOnce /\ [Next]_vars => AllOnce'
  BY AllOnceStep
<1> QED
  BY <1>1, <1>2, TruthInit, AllOnceInit, TypeInit, TypeStep, PageOnceStep, BeganStep,
     HoldsQueuedStep, TruthsStep, LinkMadeStep, PTL
  DEF Spec

-----------------------------------------------------------------------------
(***************************************************************************)
(* NoticeTrue: the failures in the list the poller works through are       *)
(* failures GitHub has shown, and HasFailed, once true, stays true.        *)
(***************************************************************************)

PageFailed == \A p \in page : p.state = "failure" => HasFailed(p.run)

\* A run that has failed is at its failure or at a later attempt.
LEMMA HasFailedKeeps ==
  ASSUME TypeOK, Began, [Next]_vars, NEW r \in Run, HasFailed(r)
  PROVE  HasFailed(r)'
<1>0. github \in [Run -> [attempt : Attempt, state : State]]
  BY DEF TypeOK
<1>1. CASE GithubNext
  <2>1. ASSUME NEW q \in Run, RunStarts(q) PROVE github'[r] = github[r]
    <3>1. q # r
      BY <2>1 DEF RunStarts, Began, HasFailed
    <3> QED BY <1>0, <2>1, <3>1 DEF RunStarts, GithubSets
  <2>2. ASSUME NEW q \in Run, RunAgain(q) PROVE HasFailed(r)'
    <3>1. CASE q # r
      BY <1>0, <2>2, <3>1 DEF RunAgain, GithubSets, HasFailed
    <3>2. CASE q = r
      <4>1. github'[r].attempt = github[r].attempt + 1 /\ github[r].attempt \in Attempt
        BY <1>0, <2>2, <3>2 DEF RunAgain, GithubSets
      <4>2. github'[r].attempt > 1
        BY <4>1, WorkflowsAssumption DEF Attempt
      <4> QED BY <4>2 DEF HasFailed
    <3> QED BY <3>1, <3>2
  <2>3. ASSUME NEW q \in Run, NEW s \in Final, RunEnds(q, s) PROVE HasFailed(r)'
    <3>1. CASE q # r
      BY <1>0, <2>3, <3>1 DEF RunEnds, GithubSets, HasFailed
    <3>2. CASE q = r
      BY <1>0, <2>3, <3>2 DEF RunEnds, GithubSets, HasFailed
    <3> QED BY <3>1, <3>2
  <2> QED BY <1>1, <2>1, <2>2, <2>3 DEF GithubNext, HasFailed
<1>2. CASE ~GithubNext
  BY <1>2, GithubFrame DEF HasFailed
<1> QED BY <1>1, <1>2

LEMMA PageFailedStep == TypeOK /\ Began /\ PageFailed /\ [Next]_vars => PageFailed'
<1> SUFFICES ASSUME TypeOK, Began, PageFailed, [Next]_vars PROVE PageFailed'
  OBVIOUS
<1>1. ASSUME page' \subseteq page PROVE PageFailed'
  <2>1. \A p \in page : p.run \in Run
    BY DEF TypeOK
  <2> QED BY <1>1, <2>1, HasFailedKeeps DEF PageFailed
<1>2. CASE ListRuns
  <2>1. UNCHANGED github /\ page' = {[run |-> r, state |-> github[r].state] : r \in Listed}
    BY <1>2 DEF ListRuns, PollOnly
  <2> QED BY <2>1 DEF PageFailed, HasFailed
<1>3. CASE PollNext /\ ~ListRuns
  BY <1>1, <1>3
  DEF PollNext, StoreRun, FollowRun, CheckRun, ListJobs, ListNothing, ListJobsFails,
     FetchNotes, NotesRefused, InsertNotes, EnqueueRun, PassEnds, PassDies
<1>4. CASE GithubNext \/ BrainNext \/ WatchNext \/ UNCHANGED vars
  <2>1. page' = page
    BY <1>4
    DEF GithubNext, RunStarts, RunAgain, RunEnds, GithubSets, BrainNext, Claim, Read,
       WriteNode, ReuseNode, Link, EnrichFails, Reap, BrainDies, BrainOnly, WatchNext,
       Register, Expire, Tell, Ack, HookDies, WatchOnly, vars, pollVars
  <2> QED BY <1>1, <2>1
<1> QED BY <1>2, <1>3, <1>4 DEF Next

\* What a session is told, or is to be told
Noticed(s) == s \in telling \/ watch[s].terminal

\* Only a failure in the list makes a new notice.
LEMMA NewNotice ==
  ASSUME TypeOK, [Next]_vars, NEW s \in Sha, Noticed(s)', ~Noticed(s)
  PROVE  \E p \in page : ShaOf[p.run] = s /\ p.state = "failure"
<1> USE DEF Noticed
<1>0. watch \in [Sha -> Entry] /\ ~NoEntry.terminal
  BY DEF TypeOK, NoEntry
<1>1. CASE GithubNext \/ BrainNext \/ UNCHANGED vars
  BY <1>1
  DEF GithubNext, RunStarts, RunAgain, RunEnds, GithubSets, BrainNext, Claim, Read, WriteNode,
     ReuseNode, Link, EnrichFails, Reap, BrainDies, BrainOnly, vars
<1>2. ASSUME NEW p \in page, FollowRun(p)
      PROVE ShaOf[p.run] = s /\ p.state = "failure"
  <2>1. watch' = Follow(ShaOf[p.run], p.state) /\ telling' = telling
    BY <1>2 DEF FollowRun, PollOnly
  <2>2. watch'[s].terminal /\ ~watch[s].terminal
    BY <2>1
  <2>3. CASE p.state = "failure" /\ watch[ShaOf[p.run]].there
    <3>1. watch' = [watch EXCEPT ![ShaOf[p.run]].terminal = TRUE]
      BY <2>1, <2>3 DEF Follow
    <3>2. ShaOf[p.run] # s => watch'[s] = watch[s]
      BY <1>0, <3>1
    <3> QED BY <2>2, <2>3, <3>2
  <2>4. CASE ~(p.state = "failure" /\ watch[ShaOf[p.run]].there)
    <3>1. watch'[s] \in {watch[s], NoEntry}
      BY <1>0, <2>1, <2>4 DEF Follow
    <3> QED BY <1>0, <2>2, <3>1
  <2> QED BY <2>3, <2>4
<1>3. CASE PassEnds
  BY <1>0, <1>3 DEF PassEnds, PollOnly
<1>4. CASE PollNext /\ ~PassEnds /\ ~(\E p \in page : FollowRun(p))
  BY <1>4
  DEF PollNext, ListRuns, StoreRun, CheckRun, ListJobs, ListNothing, ListJobsFails, FetchNotes,
     NotesRefused, InsertNotes, EnqueueRun, PassDies, PollOnly
<1>5. CASE WatchNext
  <2>1. telling' \subseteq telling \cup Pending
    BY <1>5 DEF WatchNext, Register, Expire, Tell, Ack, HookDies
  <2>2. watch'[s].terminal => watch[s].terminal
    <3>1. ASSUME NEW q \in Sha, Register(q) PROVE watch'[s].terminal => watch[s].terminal
      <4>1. watch'[s] = watch[s] \/ (q = s /\ watch'[s] \in {[watch[s] EXCEPT !.expired = FALSE], NewEntry})
        BY <1>0, <3>1 DEF Register
      <4>2. [watch[s] EXCEPT !.expired = FALSE].terminal = watch[s].terminal /\ ~NewEntry.terminal
        BY <1>0 DEF Entry, NewEntry, NoEntry
      <4> QED BY <4>1, <4>2
    <3>2. ASSUME NEW q \in Sha, Expire(q) PROVE watch'[s].terminal => watch[s].terminal
      <4>1. watch'[s] = watch[s] \/ watch'[s] = [watch[s] EXCEPT !.expired = TRUE]
        BY <1>0, <3>2 DEF Expire
      <4>2. [watch[s] EXCEPT !.expired = TRUE].terminal = watch[s].terminal
        BY <1>0 DEF Entry
      <4> QED BY <4>1, <4>2
    <3>3. CASE Ack
      <4>1. watch'[s] = watch[s] \/ watch'[s] = [watch[s] EXCEPT !.notified = TRUE]
        BY <3>3 DEF Ack
      <4>2. [watch[s] EXCEPT !.notified = TRUE].terminal = watch[s].terminal
        BY <1>0 DEF Entry
      <4> QED BY <4>1, <4>2
    <3>4. CASE Tell \/ HookDies
      BY <3>4 DEF Tell, HookDies
    <3> QED BY <1>5, <3>1, <3>2, <3>3, <3>4 DEF WatchNext
  <2> QED BY <2>1, <2>2 DEF Pending
<1> QED BY <1>1, <1>2, <1>3, <1>4, <1>5 DEF Next

LEMMA NoticeStep == TypeOK /\ Began /\ PageFailed /\ NoticeTrue /\ [Next]_vars => NoticeTrue'
<1> SUFFICES ASSUME TypeOK, Began, PageFailed, NoticeTrue, [Next]_vars, NEW s \in Sha, Noticed(s)'
             PROVE  \E r \in Run : ShaOf[r] = s /\ HasFailed(r)'
  BY DEF NoticeTrue, Noticed
<1>1. \E r \in Run : ShaOf[r] = s /\ HasFailed(r)
  <2>1. CASE Noticed(s)
    BY <2>1 DEF NoticeTrue, Noticed
  <2>2. CASE ~Noticed(s)
    <3>1. PICK p \in page : ShaOf[p.run] = s /\ p.state = "failure"
      BY <2>2, NewNotice
    <3> QED BY <3>1 DEF PageFailed, TypeOK
  <2> QED BY <2>1, <2>2
<1> QED BY <1>1, HasFailedKeeps

\* No session is told of a failure that was none, over stale lists, reruns and hooks that
\* die before they mark what they told.
THEOREM NoticeTrueAlways == Spec => []NoticeTrue
<1>1. Init => Began /\ PageFailed /\ NoticeTrue
  BY InitFacts DEF Init, Began, PageFailed, NoticeTrue, NoEntry
<1> QED
  BY <1>1, TypeInit, TypeStep, BeganStep, PageFailedStep, NoticeStep, PTL DEF Spec
=============================================================================
