-------------------------- MODULE MCTwoExecutions --------------------------
(* TwoExecutions on small instances.                                        *)
EXTENDS TwoExecutions
=============================================================================
