---------------------------- MODULE MCCollector ----------------------------
(* Collector with two replicas, queues of one record and segments of two   *)
(* lines.  Replicas are alike, so one of them may be taken for the one     *)
(* that the first request goes to.                                         *)
EXTENDS Collector

CONSTANT r1

FirstRequest == made = 0 /\ made' = 1 => queue'[r1] # <<>>

MCSpec == CollectorInit /\ [][CollectorNext /\ FirstRequest]_allVars /\ CollectorFairness
=============================================================================
