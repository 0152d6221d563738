----------------------------- MODULE MCPipeline -----------------------------
(* Small instances of the tick: t1 and t2 run in the same repository. *)
EXTENDS PipelineDispatch, TLC
CONSTANTS t1, t2, r1
ThreadSymmetry == Permutations(Threads)
SharedRepo == [c \in Tasks |-> IF c \in {t1, t2} THEN r1 ELSE NoRepo]
OneInRepo == [c \in Tasks |-> IF c = t1 THEN r1 ELSE NoRepo]
T1First == [c \in Tasks |-> IF c = t1 THEN 1 ELSE 2]
T1Last == [c \in Tasks |-> IF c = t1 THEN 2 ELSE 1]
=============================================================================
