------------------------- MODULE MCTextDocumentSync -------------------------
(* Instances of TextDocumentSync for TLC.                                  *)
EXTENDS TextDocumentSync, TLC

MCThreads == {Loop} \cup Openers \cup Refreshers \cup Readers \cup Callbacks

Symmetry == Permutations(Callbacks) \cup Permutations(Locks) \cup Permutations(Texts)
            \cup Permutations(Openers)
=============================================================================
