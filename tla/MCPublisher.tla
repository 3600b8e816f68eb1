----------------------------- MODULE MCPublisher ----------------------------
(* Values for model checking Publisher.                                    *)
EXTENDS Publisher, TLC

Interchangeable == Permutations(Task)
=============================================================================
