----------------------------- MODULE MCWorkflow -----------------------------
(* Small instances of Workflow for TLC. *)
EXTENDS Workflow, TLC

CONSTANTS ann, bo

\* No approver, one, three in turn with one of them twice.
MCChains == {<<>>, <<ann>>, <<ann, bo, ann>>}

MCSymmetry == Permutations(Handlers)
=============================================================================
