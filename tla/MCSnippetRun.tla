----------------------------- MODULE MCSnippetRun -----------------------------
(***************************************************************************)
(* Two runs over two hosts, one of which may hold on to its pipe.          *)
(***************************************************************************)
EXTENDS SnippetRun

CONSTANTS h1, h2

TwoRuns == 1..2

=============================================================================
