------------------------------ MODULE MCJobWorker ------------------------------
(* Two worker processes, one of which may crash or be closed, and one job. *)
EXTENDS JobWorker, TLC

CONSTANTS j1, w1, w2, p1

MCIds == {j1}
MCWorkers == {w1, w2}
MCMortal == {w1}
MCProducers == {p1}
MCQueues == {"default"}
MCPriorities == {0}
MCMaxAttempts == {2}
MCConcurrency == [q \in MCQueues |-> 2]
=============================================================================
