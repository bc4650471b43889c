----------------------------- MODULE MCExecutor -----------------------------
(***************************************************************************)
(* An instance of Executor for TLC: node n1 has an exclusive group of a    *)
(* subscription and a timer, node n2 a reentrant group of a waitable.      *)
(***************************************************************************)
EXTENDS Executor, TLC

MCNodeOf == [g1 |-> "n1", g2 |-> "n2"]

MCGroupOf == [sub |-> "g1", tm |-> "g1", wt |-> "g2"]
=============================================================================
