--------------------------- MODULE MCLivePipeline ---------------------------
EXTENDS LivePipeline, TLC

CONSTANTS d1, d2, other

(* Two readings of one moment, then one of the next. *)
Times == [o \in 1..MaxObs |-> IF o = 3 THEN 2 ELSE 1]
FromTheStart == [o \in 1..MaxObs |-> o - 1]
TwoDevices == [o \in 1..MaxObs |-> IF o = 2 THEN d1 ELSE d2]
Elsewhere == {<<0, other>>}

(* Threads are alike, and no definition chooses one.                        *)
Interchangeable == Permutations(Worker)
=============================================================================
