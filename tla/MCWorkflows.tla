----------------------------- MODULE MCWorkflows -----------------------------
(* Small instances of Workflows: a run of a pushed SHA after one that has been *)
(* enriched before, or two runs of the same pushed SHA.                        *)
EXTENDS Workflows

CONSTANTS sha1, sha2

MCShas == [r \in Run |-> IF r = 1 THEN sha1 ELSE sha2]

MCOneSha == [r \in Run |-> sha1]
=============================================================================
