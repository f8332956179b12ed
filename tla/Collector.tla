----------------------------- MODULE Collector -----------------------------
(***************************************************************************)
(* The audit log's writers and the collector they post their events to     *)
(* (`audit-ingest` in src/main.rs, append_remote_event in src/audit.rs):   *)
(* each event on a connection of its own, admitted by one acceptor up to a *)
(* limit, stored by a worker under a lock and answered.  A writer waits    *)
(* for the answer as long as its timeout; a worker goes on without it.     *)
(*                                                                         *)
(* An event goes by the number of the record it is made of.                *)
(***************************************************************************)
EXTENDS Audit

CONSTANTS
  MaxConnections,
  MaxFaults        \* bound: failures, of replicas and of the collector

ASSUME CollectorAssumption == MaxConnections \in Nat \ {0} /\ MaxFaults \in Nat

VARIABLES
  remote_failed,  \* what each replica's counter of failed posts shows
  conn,           \* what has become of the connection of each event
  accepting,      \* the event of the connection the acceptor is about to
                  \* admit, or None, and the count of workers it has read
  active,         \* the shared count of workers
  ingest,         \* the event whose worker holds the lock, or None
  store,          \* the lines of the store, 0 where one cannot be read
  cut,            \* whether its last line lacks the newline
  acked,          \* the events answered 204
  faults,         \* what the bound counts
  delivered,      \* history: events whose writer had a 204, or gave up
  undelivered

ingestVars == <<accepting, active, ingest, store, cut, acked, faults>>
postVars   == <<remote_failed, delivered, undelivered>>
allVars    == <<vars, ingestVars, postVars, conn>>

Events == 1 .. MaxRequests

(* Connections whose worker has not finished, or is inside the lock. *)
Storing == {"append", "end"}
Working == Storing \cup {"admitted", "stored", "leaving"}

Move(e, pc) == conn' = [conn EXCEPT ![e] = pc]

NotAccepting == [event |-> None, count |-> 0]

-----------------------------------------------------------------------------
(* The writer's side. *)

Posted(r) ==
  /\ writer[r].pc = "export"
  /\ Goto(r, "posted")
  /\ Move(writer[r].rec, "arrived")
  /\ UNCHANGED <<made, queue, dropped, holder, files, drops, reported, failures>>
  /\ UNCHANGED <<ingestVars, postVars>>

Delivered(r) ==
  /\ writer[r].pc = "posted" /\ writer[r].rec \in acked
  /\ delivered' = delivered \cup {writer[r].rec}
  /\ writer' = [writer EXCEPT ![r] = Idle(0)]
  /\ UNCHANGED <<made, queue, dropped, holder, files, drops, reported, failures>>
  /\ UNCHANGED <<ingestVars, conn, remote_failed, undelivered>>

(* Mutant: a failed post keeps the count of drops for the next record. *)
GiveUpKeeping(r) ==
  /\ writer[r].pc \in {"export", "posted"}
  /\ undelivered' = undelivered \cup {writer[r].rec}
  /\ remote_failed' = [remote_failed EXCEPT ![r] = @ + 1]
  /\ writer' = [writer EXCEPT ![r] = Idle(writer[r].missed)]
  /\ UNCHANGED <<made, queue, dropped, holder, files, drops, reported, failures>>
  /\ UNCHANGED <<ingestVars, conn, delivered>>

(* Mutant: a connection that is not made does not count. *)
GiveUpUncounted(r) ==
  /\ writer[r].pc \in {"export", "posted"}
  /\ undelivered' = undelivered \cup {writer[r].rec}
  /\ remote_failed' = [remote_failed EXCEPT ![r] = IF writer[r].pc = "export" THEN @ ELSE @ + 1]
  /\ writer' = [writer EXCEPT ![r] = Idle(0)]
  /\ UNCHANGED <<made, queue, dropped, holder, files, drops, reported, failures>>
  /\ UNCHANGED <<ingestVars, conn, delivered>>

(* No connection, no answer in time, a closed connection, or a 401.  There *)
(* is no second attempt.                                                   *)
GiveUp(r) ==
  /\ writer[r].pc \in {"export", "posted"}
  /\ undelivered' = undelivered \cup {writer[r].rec}
  /\ remote_failed' = [remote_failed EXCEPT ![r] = @ + 1]
  /\ writer' = [writer EXCEPT ![r] = Idle(0)]
  /\ UNCHANGED <<made, queue, dropped, holder, files, drops, reported, failures>>
  /\ UNCHANGED <<ingestVars, conn, delivered>>

-----------------------------------------------------------------------------
(* The acceptor. *)

Accept(e) ==
  /\ accepting = NotAccepting
  /\ conn[e] = "arrived"
  /\ accepting' = [event |-> e, count |-> active]
  /\ UNCHANGED <<vars, postVars, faults, conn, active, ingest, store, cut, acked>>

Refused ==
  /\ accepting.count >= MaxConnections
  /\ Move(accepting.event, "closed")
  /\ accepting' = NotAccepting
  /\ UNCHANGED active

Admitted ==
  /\ Move(accepting.event, "admitted")
  /\ active' = accepting.count + 1
  /\ accepting' = NotAccepting

(* Mutant: the count is stored, not swapped. *)
AdmitByStore ==
  /\ accepting.event # None
  /\ IF accepting.count >= MaxConnections THEN Refused ELSE Admitted
  /\ UNCHANGED <<vars, postVars, faults, ingest, store, cut, acked>>

(* A count that has changed since it was read is read again. *)
Admit ==
  /\ accepting.event # None
  /\ \/ Refused
     \/ /\ accepting.count < MaxConnections
        /\ \/ active = accepting.count /\ Admitted
           \/ /\ active # accepting.count
              /\ accepting' = [accepting EXCEPT !.count = active]
              /\ UNCHANGED <<active, conn>>
  /\ UNCHANGED <<vars, postVars, faults, ingest, store, cut, acked>>

-----------------------------------------------------------------------------
(* The workers. *)

LockStore(e) ==
  /\ conn[e] = "admitted"
  /\ ingest = None
  /\ ingest' = e
  /\ Move(e, "append")
  /\ UNCHANGED <<vars, postVars, faults, accepting, active, store, cut, acked>>

(* As in the log, what is written continues a line that was never ended. *)
Wrote(line) ==
  /\ store' = IF cut THEN [store EXCEPT ![Len(store)] = 0] ELSE Append(store, line)
  /\ cut' = TRUE

AppendEvent(e) ==
  /\ conn[e] = "append"
  /\ Wrote(e)
  /\ Move(e, "end")
  /\ UNCHANGED <<vars, postVars, faults, accepting, active, ingest, acked>>

(* Mutant: the newline is left out. *)
EndNothing(e) ==
  /\ conn[e] = "end"
  /\ ingest' = None
  /\ Move(e, "stored")
  /\ UNCHANGED <<vars, postVars, faults, accepting, active, store, cut, acked>>

(* The newline; synchronised and unlocked. *)
EndEvent(e) ==
  /\ conn[e] = "end"
  /\ cut' = FALSE
  /\ ingest' = None
  /\ Move(e, "stored")
  /\ UNCHANGED <<vars, postVars, faults, accepting, active, store, acked>>

Answer(e) ==
  /\ conn[e] = "stored"
  /\ acked' = acked \cup {e}
  /\ Move(e, "leaving")
  /\ UNCHANGED <<vars, postVars, faults, accepting, active, ingest, store, cut>>

(* The guard of the worker counts it out. *)
Leave(e) ==
  /\ conn[e] = "leaving"
  /\ active' = active - 1
  /\ Move(e, "closed")
  /\ UNCHANGED <<vars, postVars, faults, accepting, ingest, store, cut, acked>>

-----------------------------------------------------------------------------
(* Failures of the collector. *)

FailureLeft == failures + faults < MaxFaults

Counted ==
  /\ FailureLeft
  /\ faults' = faults + 1
  /\ UNCHANGED <<vars, postVars>>

UnlockStore(e) == ingest' = IF ingest = e THEN None ELSE ingest

(* What a failing worker may have written by then. *)
MaybeCut(e) ==
  \/ UNCHANGED <<store, cut>>
  \/ conn[e] = "append" /\ Wrote(0)
  \/ conn[e] = "end" /\ cut' = FALSE /\ UNCHANGED store

(* Mutant: an error returns without unlocking. *)
FailStoreLocked(e) ==
  /\ conn[e] \in {"admitted"} \cup Storing
  /\ Counted
  /\ MaybeCut(e)
  /\ Move(e, "leaving")
  /\ UNCHANGED <<accepting, active, ingest, acked>>

(* The request cannot be read, or the event not stored: 401, or nothing. *)
FailStore(e) ==
  /\ conn[e] \in {"admitted"} \cup Storing
  /\ Counted
  /\ MaybeCut(e)
  /\ UnlockStore(e)
  /\ Move(e, "leaving")
  /\ UNCHANGED <<accepting, active, acked>>

(* A restarted collector knows no connection any more. *)
CollectorCrash ==
  /\ Counted
  /\ IF ingest = None THEN UNCHANGED <<store, cut>> ELSE MaybeCut(ingest)
  /\ conn' = [e \in Events |-> IF conn[e] = "none" THEN "none" ELSE "closed"]
  /\ accepting' = NotAccepting /\ active' = 0 /\ ingest' = None
  /\ UNCHANGED acked

-----------------------------------------------------------------------------
CollectorInit ==
  /\ Init
  /\ remote_failed = [r \in Replicas |-> 0]
  /\ conn = [e \in Events |-> "none"]
  /\ accepting = NotAccepting /\ active = 0 /\ ingest = None
  /\ store = <<>> /\ cut = FALSE
  /\ acked = {} /\ delivered = {} /\ undelivered = {} /\ faults = 0

(* What the replicas do without the collector. *)
LogWrite(r) ==
  /\ Take(r) \/ Lock(r) \/ Rotate(r) \/ Sign(r) \/ AppendLine(r) \/ EndLine(r)
  /\ UNCHANGED <<ingestVars, postVars, conn>>

LogOther(r) ==
  /\ \/ Request(r)
     \/ FailureLeft /\ (FailRotate(r) \/ FailWrite(r))
     \/ SignUnread(r) /\ (FailureLeft \/ UNCHANGED failures)
  /\ UNCHANGED <<ingestVars, postVars, conn>>

(* The connection of a crashed replica stays with the collector. *)
ReplicaCrash(r) ==
  /\ FailureLeft /\ Crash(r)
  /\ remote_failed' = [remote_failed EXCEPT ![r] = 0]
  /\ UNCHANGED <<ingestVars, conn, delivered, undelivered>>

WriterStep(r) == LogWrite(r) \/ Posted(r) \/ Delivered(r) \/ GiveUp(r)

WorkerStep(e) ==
  LockStore(e) \/ AppendEvent(e) \/ EndEvent(e) \/ Answer(e) \/ Leave(e)

CollectorNext ==
  \/ \E r \in Replicas : WriterStep(r) \/ LogOther(r) \/ ReplicaCrash(r)
  \/ \E e \in Events : Accept(e) \/ WorkerStep(e) \/ FailStore(e)
  \/ Admit
  \/ CollectorCrash

(* The systems run their threads; reads and posts time out.                *)
CollectorFairness ==
  /\ \A r \in Replicas : WF_allVars(WriterStep(r))
  /\ WF_allVars(\E e \in Events : WorkerStep(e))

CollectorSpec == CollectorInit /\ [][CollectorNext]_allVars /\ CollectorFairness

-----------------------------------------------------------------------------
(* Properties. *)

(* The log as the module Audit has it: a post under way is still to come.  *)
AsLog == INSTANCE Audit WITH
  writer <- [r \in Replicas |-> IF writer[r].pc = "posted" THEN [writer[r] EXCEPT !.pc = "export"]
                                                            ELSE writer[r]]

(* The types of the log and of the collector's state; the shared count is  *)
(* that of the workers and keeps to its limit, though workers lower it     *)
(* while the acceptor swaps it (main.rs:593, main.rs:720).                 *)
CollectorTypeOK ==
  /\ AsLog!TypeOK
  /\ remote_failed \in [Replicas -> Nat]
  /\ conn \in [Events -> {"none", "arrived", "closed"} \cup Working]
  /\ accepting \in [event : Events \cup {None}, count : 0 .. MaxConnections]
  /\ active = Cardinality({e \in Events : conn[e] \in Working})
  /\ active <= MaxConnections
  /\ ingest \in Events \cup {None}
  /\ \A e \in Events : ingest = e <=> conn[e] \in Storing
  /\ store \in Seq(Nat) /\ cut \in BOOLEAN
  /\ acked \subseteq Events /\ delivered \subseteq acked /\ undelivered \subseteq Events

(* Posting, its failures and the collector's leave the log alone: each     *)
(* step is one of the log's, or none (audit.rs:85).                        *)
ImplementsLog == AsLog!Init /\ [][AsLog!Next]_(AsLog!vars)

(* An event answered 204 is in the store (audit.rs:412), once, unless a    *)
(* write that failed before has spoilt its line: each failure costs one    *)
(* acknowledged event at most.                                             *)
IsStored(e) == Cardinality({i \in DOMAIN store : store[i] = e}) = 1

DeliveredIsStored == Cardinality({e \in acked : ~IsStored(e)}) <= faults

(* Every record is queued, in a writer's hands, with the collector, or one *)
(* of those a counter has counted (audit.rs:8, audit.rs:110); a failure    *)
(* loses no more than a queue and the record in hand (audit.rs:77).        *)
InHand == {e \in Events : \E r \in Replicas : writer[r].pc # "idle" /\ writer[r].rec = e}
Queued == UNION {{queue[r][i] : i \in DOMAIN queue[r]} : r \in Replicas}
Kept   == Queued \cup InHand \cup delivered \cup undelivered

RemoteFailed == Cardinality(Tally(remote_failed))

RecordsAccounted ==
  /\ made <= Cardinality(Kept) + drops + failures * (Capacity + 1)
  /\ failures = 0 => made = Cardinality(Queued) + Cardinality(InHand) + Cardinality(delivered)
                              + RemoteFailed + drops

(* Once requests stop, whatever was queued gets written (audit.rs:79), and *)
(* no connection stays counted, so that the collector does not fill up.    *)
Settled == <>[](Quiet /\ active = 0)

=============================================================================
