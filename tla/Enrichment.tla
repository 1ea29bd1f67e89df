------------------------------ MODULE Enrichment ------------------------------
(***************************************************************************)
(* What enrichment promises of one text (a segment of a session), whatever *)
(* the daemon and the brain do to get there: the text changes at any time, *)
(* and what is published or settled about it is about the text as it is at *)
(* that very moment. At most one observation is published.                 *)
(***************************************************************************)
EXTENDS Sequences

CONSTANTS
  Item,  \* what is enriched
  Text,  \* the contents an item may have
  NoText

VARIABLES
  text,       \* the item's present content
  published,  \* the observation shown for the item, if any: the content it is about
  settled     \* the last content the brain is finished with

abstractVars == <<text, published, settled>>

Init ==
  /\ text = [i \in Item |-> NoText]
  /\ published = [i \in Item |-> <<>>]
  /\ settled = [i \in Item |-> NoText]

Edit(i, t) ==
  /\ text' = [text EXCEPT ![i] = t]
  /\ UNCHANGED <<published, settled>>

\* The observation of the present text takes the place of an earlier one.
Publish(i) ==
  /\ text[i] # NoText
  /\ published' = [published EXCEPT ![i] = <<text[i]>>]
  /\ settled' = [settled EXCEPT ![i] = text[i]]
  /\ UNCHANGED text

\* The present text is not worth an observation, or cannot be enriched.
GiveUp(i) ==
  /\ text[i] # NoText
  /\ settled' = [settled EXCEPT ![i] = text[i]]
  /\ UNCHANGED <<text, published>>

Next ==
  \E i \in Item : (\E t \in Text : Edit(i, t)) \/ Publish(i) \/ GiveUp(i)

Spec == Init /\ [][Next]_abstractVars
=============================================================================
