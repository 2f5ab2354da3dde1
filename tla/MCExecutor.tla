----------------------------- MODULE MCExecutor -----------------------------
(* Instances of Executor for TLC.                                          *)
EXTENDS Executor, TLC

\* Accepts of the same request are interchangeable.
AcceptSymmetry == Permutations(Acceptor)
=============================================================================
