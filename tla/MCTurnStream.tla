---------------------------- MODULE MCTurnStream ----------------------------
(***************************************************************************)
(* A small instance of TurnStream for TLC.                                 *)
(***************************************************************************)
EXTENDS TurnStream

\* No two sets of replies cost the same.
MCPrice == [resolver |-> 1, writer |-> 2]
=============================================================================
