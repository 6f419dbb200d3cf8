---------------------------- MODULE MCWebSession ----------------------------
(* A small instance of the dashboard's pages for TLC.                       *)
EXTENDS WebSession, TLC

CONSTANTS bob, Bob

\* Two spellings of one peer.
MCFold == [k \in Key |-> bob]

MCTabs == Permutations(Tab)
=============================================================================
