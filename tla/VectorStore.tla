------------------------------ MODULE VectorStore ------------------------------
(***************************************************************************)
(* knowledge_nodes and the vectors of their texts. Enrichment writes a     *)
(* node and then embeds it in a task of its own, the embedding reaper      *)
(* embeds what was missed, a changed segment's node is replaced, documents *)
(* and duplicates are deleted, and the re-embed script moves the corpus to *)
(* another embedding model. An embedding is awaited with nothing held: the *)
(* node it was begun for may be gone, and its id given to another, when    *)
(* the vectors are stored.                                                 *)
(***************************************************************************)
EXTENDS Naturals

CONSTANTS
  Segment,     \* what a node is about
  Model,       \* embedding models
  FirstModel,  \* the one configured at installation
  NoModel,     \* no row in embed_model_meta
  Unseen,      \* the model on record was not looked at yet
  MaxTexts,    \* bound: nodes written
  MaxFaults,   \* bound: embeddings that fail, stops of the brain
  MaxSwitches  \* bound: changes of the configured model, runs of the script

ASSUME VectorAssumption ==
  /\ FirstModel \in Model
  /\ NoModel \notin Model /\ Unseen \notin Model \cup {NoModel}
  /\ MaxTexts \in Nat /\ MaxFaults \in Nat /\ MaxSwitches \in Nat

VARIABLES
  (* knowledge_nodes *)
  node,      \* the text of the row with this id, 0 if there is none
  nodeOf,    \* the segment's node, 0 if it has none
  texts,     \* how many texts were written: the next is a new one
  (* knowledge_vectors and embed_model_meta *)
  vec,       \* the text that was embedded, 0 if there is no row
  vecModel,  \* by which model
  stored,    \* the model on record
  (* the brain *)
  up,
  live,      \* the embedding model it was started with
  tasks,     \* embeddings under way
  todo,      \* what the reaper's SELECT returned and it has not come to
  (* hippo-re-embed.py *)
  script,
  config,    \* the embedding model in config.toml
  (* history and bounds *)
  crossed,   \* a store went by a check of the model that was no longer true
  faults, switches

nodeVars == <<node, nodeOf, texts>>
vecVars == <<vec, vecModel, stored>>
brainVars == <<up, live, tasks, todo>>
scriptVars == <<script, config, switches>>
vars == <<nodeVars, vecVars, brainVars, scriptVars, crossed, faults>>

Id == 1..MaxTexts
Text == 0..MaxTexts

Row == [id : Id, text : Text \ {0}]
Task == [row : Row, seen : Model \cup {NoModel, Unseen}, reaper : BOOLEAN]
Idle == [running |-> FALSE, inputs |-> [i \in Id |-> 0], old |-> NoModel, new |-> NoModel]

\* check_embed_model_drift
Drifted == stored \notin {NoModel, live}

Reaping == \E t \in tasks : t.reaper

\* embed_knowledge_node up to its await
Begun(row, reaper) ==
  IF Drifted THEN {} ELSE {[row |-> row, seen |-> Unseen, reaper |-> reaper]}

-----------------------------------------------------------------------------
(* Writers of nodes *)

\* The row id SQLite gives (no AUTOINCREMENT) once the row `gone` is deleted: one more
\* than the largest.
IsNextId(i, gone) ==
  /\ \A j \in Id : j >= i => node[j] = 0 \/ j = gone
  /\ \A j \in Id : j + 1 = i => node[j] # 0 /\ j # gone

\* (variant for the mutation checks: the vector of a deleted node stays)
WithoutVectorsKept(gone) == [i \in Id |-> vec[i]]

WithoutVectors(gone) == [i \in Id |-> IF i = gone THEN 0 ELSE vec[i]]

\* A writer's transaction: replace_prior_agentic_nodes, the INSERT, and the task that
\* will embed the node.
Write(s, i) ==
  /\ up /\ texts < MaxTexts
  /\ IsNextId(i, nodeOf[s])
  /\ texts' = texts + 1
  /\ node' = [j \in Id |-> IF j = i THEN texts + 1 ELSE IF j = nodeOf[s] THEN 0 ELSE node[j]]
  /\ nodeOf' = [nodeOf EXCEPT ![s] = i]
  /\ vec' = WithoutVectors(nodeOf[s])
  /\ tasks' = tasks \cup Begun([id |-> i, text |-> texts + 1], FALSE)
  /\ UNCHANGED <<vecModel, stored, up, live, todo, scriptVars, crossed, faults>>

\* A tombstoned document, a duplicate: the node goes with its vector. Other processes
\* do this too.
Delete(s) ==
  /\ nodeOf[s] # 0
  /\ node' = [node EXCEPT ![nodeOf[s]] = 0]
  /\ vec' = WithoutVectors(nodeOf[s])
  /\ nodeOf' = [nodeOf EXCEPT ![s] = 0]
  /\ UNCHANGED <<texts, vecModel, stored, brainVars, scriptVars, crossed, faults>>

-----------------------------------------------------------------------------
(* _embed_node *)

EmbedFails(t) ==
  /\ t \in tasks /\ t.seen = Unseen /\ faults < MaxFaults
  /\ tasks' = tasks \ {t}
  /\ faults' = faults + 1
  /\ UNCHANGED <<nodeVars, vecVars, up, live, todo, scriptVars, crossed>>

\* (variant for the mutation checks: the model is not checked)
EmbedUnchecked(t) ==
  /\ t \in tasks /\ t.seen = Unseen
  /\ tasks' = (tasks \ {t}) \cup {[t EXCEPT !.seen = stored]}
  /\ UNCHANGED <<nodeVars, vecVars, up, live, todo, scriptVars, crossed, faults>>

\* The vectors have come: store_node_vectors looks at the model on record.
EmbedChecks(t) ==
  /\ t \in tasks /\ t.seen = Unseen
  /\ tasks' = (tasks \ {t}) \cup (IF Drifted THEN {} ELSE {[t EXCEPT !.seen = stored]})
  /\ UNCHANGED <<nodeVars, vecVars, up, live, todo, scriptVars, crossed, faults>>

\* Its write: another process may have committed in between. Nobody looks whether the
\* node is still there. Whether vec0 replaces a row that exists or refuses it depends
\* on the extension.
EmbedStores(t) ==
  /\ t \in tasks /\ t.seen # Unseen
  /\ tasks' = tasks \ {t}
  /\ \/ /\ vec' = [vec EXCEPT ![t.row.id] = t.row.text]
        /\ vecModel' = [vecModel EXCEPT ![t.row.id] = live]
        /\ stored' = live
        /\ crossed' = (crossed \/ (Drifted /\ stored # t.seen))
     \/ vec[t.row.id] # 0 /\ UNCHANGED <<vecVars, crossed>>
  /\ UNCHANGED <<nodeVars, up, live, todo, scriptVars, faults>>

-----------------------------------------------------------------------------
(* _embed_reaper_tick *)

\* (variant for the mutation checks: a high-water mark instead of the anti-join)
MissingSince ==
  {r \in Row : node[r.id] = r.text /\ \A i \in Id : vec[i] # 0 => i < r.id}

Missing == {r \in Row : node[r.id] = r.text /\ vec[r.id] = 0}

\* The SELECT: which of the missing ones are old enough is left open.
SweepTick(C) ==
  /\ up /\ todo = {} /\ ~Reaping
  /\ C # {} /\ C \subseteq Missing
  /\ todo' = C
  /\ UNCHANGED <<nodeVars, vecVars, up, live, tasks, scriptVars, crossed, faults>>

\* (variant for the mutation checks: the whole batch at once)
SweepNextAtOnce(r) ==
  /\ r \in todo
  /\ todo' = todo \ {r}
  /\ tasks' = tasks \cup Begun(r, TRUE)
  /\ UNCHANGED <<nodeVars, vecVars, up, live, scriptVars, crossed, faults>>

\* One after the other
SweepNext(r) ==
  /\ r \in todo /\ ~Reaping
  /\ todo' = todo \ {r}
  /\ tasks' = tasks \cup Begun(r, TRUE)
  /\ UNCHANGED <<nodeVars, vecVars, up, live, scriptVars, crossed, faults>>

-----------------------------------------------------------------------------
(* Restarts, the configuration and the script *)

Stop ==
  /\ up /\ faults < MaxFaults
  /\ up' = FALSE /\ tasks' = {} /\ todo' = {}
  /\ faults' = faults + 1
  /\ UNCHANGED <<nodeVars, vecVars, live, scriptVars, crossed>>

Start ==
  /\ ~up
  /\ up' = TRUE /\ live' = config
  /\ UNCHANGED <<nodeVars, vecVars, tasks, todo, scriptVars, crossed, faults>>

Configure(m) ==
  /\ m # config /\ switches < MaxSwitches
  /\ config' = m
  /\ switches' = switches + 1
  /\ UNCHANGED <<nodeVars, vecVars, brainVars, script, crossed, faults>>

ScriptOnly == UNCHANGED <<nodeVars, brainVars, config, crossed, faults>>

\* re_embed_nodes: the corpus is read, then every text goes through the model.
ReembedBegins ==
  /\ ~script.running /\ switches < MaxSwitches
  /\ script' = [running |-> TRUE, inputs |-> node, old |-> stored, new |-> config]
  /\ switches' = switches + 1
  /\ UNCHANGED vecVars /\ ScriptOnly

\* (variant for the mutation checks: published without a second look at the corpus)
ReembedPublishesBlindly ==
  /\ script.running
  /\ vec' = [i \in Id |-> IF script.inputs[i] # 0 THEN script.inputs[i] ELSE vec[i]]
  /\ vecModel' = [i \in Id |-> IF script.inputs[i] # 0 THEN script.new ELSE vecModel[i]]
  /\ stored' = script.new
  /\ script' = Idle
  /\ UNCHANGED switches /\ ScriptOnly

\* The publishing transaction, if neither the corpus nor the model on record changed
ReembedPublishes ==
  /\ script.running /\ node = script.inputs /\ stored = script.old
  /\ vec' = [i \in Id |-> IF script.inputs[i] # 0 THEN script.inputs[i] ELSE vec[i]]
  /\ vecModel' = [i \in Id |-> IF script.inputs[i] # 0 THEN script.new ELSE vecModel[i]]
  /\ stored' = script.new
  /\ script' = Idle
  /\ UNCHANGED switches /\ ScriptOnly

\* It finds a change, or fails, or is stopped.
ReembedAborts ==
  /\ script.running
  /\ script' = Idle
  /\ UNCHANGED <<vecVars, switches>> /\ ScriptOnly

-----------------------------------------------------------------------------
Init ==
  /\ node = [i \in Id |-> 0] /\ nodeOf = [s \in Segment |-> 0] /\ texts = 0
  /\ vec = [i \in Id |-> 0] /\ vecModel = [i \in Id |-> NoModel] /\ stored = NoModel
  /\ config = FirstModel /\ live = FirstModel
  /\ up = TRUE /\ tasks = {} /\ todo = {}
  /\ script = Idle
  /\ crossed = FALSE /\ faults = 0 /\ switches = 0

EmbedNext(t) == EmbedFails(t) \/ EmbedChecks(t) \/ EmbedStores(t)

SweepAny == (\E C \in SUBSET Missing : SweepTick(C)) \/ \E r \in todo : SweepNext(r)

ScriptNext ==
  \/ ReembedBegins \/ ReembedPublishes \/ ReembedAborts
  \/ \E m \in Model : Configure(m)

Next ==
  \/ \E s \in Segment : Delete(s) \/ \E i \in Id : Write(s, i)
  \/ \E t \in tasks : EmbedNext(t)
  \/ SweepAny \/ Stop \/ Start \/ ScriptNext

Spec == Init /\ [][Next]_vars

\* launchd restarts the brain; an embedding ends (it has a timeout); the reaper ticks
\* and some day every node that lacks a vector is old enough. Nobody has to run the
\* script.
Fairness ==
  /\ WF_vars(Start)
  /\ WF_vars(\E t \in tasks : EmbedChecks(t)) /\ WF_vars(\E t \in tasks : EmbedStores(t))
  /\ WF_vars(\E r \in todo : SweepNext(r))
  /\ \A i \in Id : SF_vars(\E C \in SUBSET Missing : SweepTick(C) /\ \E r \in C : r.id = i)

FairSpec == Spec /\ Fairness

-----------------------------------------------------------------------------
(* Properties *)

\* Every variable holds a value of its type, a brain that is down embeds nothing, and
\* the embedding reaper never has two embeddings under way.
TypeOK ==
  /\ node \in [Id -> Text] /\ nodeOf \in [Segment -> Text] /\ texts \in Text
  /\ vec \in [Id -> Text] /\ vecModel \in [Id -> Model \cup {NoModel}]
  /\ stored \in Model \cup {NoModel}
  /\ up \in BOOLEAN /\ live \in Model /\ config \in Model
  /\ tasks \subseteq Task /\ todo \subseteq Row
  /\ script \in [running : BOOLEAN, inputs : [Id -> Text], old : Model \cup {NoModel},
                 new : Model \cup {NoModel}]
  /\ ~up => tasks = {} /\ todo = {}
  /\ \A t, u \in tasks : t.reaper /\ u.reaper => t = u
  /\ crossed \in BOOLEAN /\ faults \in Nat /\ switches \in Nat

\* A vector is the vector of the node that has its id now, although ids are given again
\* after a delete: a node takes its vector along, and the next owner of the id starts
\* without one. Only the store of an embedding that was begun for another text, which
\* nobody checks, ends that.
Matches(i) == vec[i] \in {0, node[i]}
Followed ==
  \A i \in Id : Matches(i) => \/ Matches(i)'
                              \/ \E t \in tasks : t.row.id = i /\ t.row.text # node[i]
VectorsFollow == [][Followed]_vars

\* A vector that is not its node's is of a text that has left the corpus and is older
\* than the node's: whatever was embedded late, replaced or swept meanwhile, no search
\* finds one node by the present text of another (store_node_vectors, which trusts the id
\* it was given before the await).
WrongMeansGone ==
  \A i \in Id : vec[i] # 0 /\ vec[i] # node[i] =>
    /\ \A j \in Id : node[j] # vec[i]
    /\ node[i] # 0 => vec[i] < node[i]

\* The vectors of nodes belong to one embedding space, whatever the configuration, the
\* restarts and the re-embed script do (check_embed_model_drift: "refusing writes so
\* stale vectors are never mixed with new ones from a different embedding space"),
\* unless another process commits between a store's check and its write. A vector that
\* is not its node's can keep the space of an earlier model.
OneSpace == ~crossed => \A i \in Id : vec[i] # 0 /\ vec[i] = node[i] => vecModel[i] = stored

\* The corpus goes to another model as a whole: with the model on record every node
\* has a vector of its present text by that model (re_embed_nodes).
SwitchedWhole ==
  stored # NoModel /\ stored' # stored /\ ~crossed' =>
    \A i \in Id : node'[i] # 0 => vec'[i] = node'[i] /\ vecModel'[i] = stored'
SwitchesWhole == [][SwitchedWhole]_vars

\* A node whose embedding failed or was lost in a restart has a vector in the end, as
\* long as the brain is up and its model is the corpus's (_embed_reaper_tick).
EventuallyEmbedded ==
  \/ []<>(~up \/ Drifted)
  \/ \A i \in Id : node[i] # 0 ~> vec[i] # 0 \/ node[i] = 0

\* "any source that fails to embed is healed regardless of which one": it is a vector of
\* the node's own text (_embed_reaper_tick).
EventuallyHealed ==
  \/ []<>(~up \/ Drifted)
  \/ \A i \in Id : node[i] # 0 ~> vec[i] = node[i]
=============================================================================
