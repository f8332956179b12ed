------------------------------- MODULE Audit -------------------------------
(***************************************************************************)
(* The audit log (src/audit.rs): replicas of the control plane append      *)
(* signed records to one log on a shared volume.                           *)
(*                                                                         *)
(* A request leaves its record in a bounded queue or is counted as         *)
(* dropped; a writer thread per replica takes the records one by one,      *)
(* locks the log, rotates it when full, signs the record together with the *)
(* signature of the last readable line, writes the line, its newline, and  *)
(* unlocks.  The volume and the collector the events are posted to are     *)
(* modelled from how they are used.  A signature is the number of its      *)
(* record: equal exactly when record and predecessor are.                  *)
(***************************************************************************)
EXTENDS Integers, Sequences, FiniteSets

CONSTANTS
  Replicas,       \* processes that share the log
  Capacity,       \* QUEUE_CAPACITY
  SegmentLines,   \* lines that make a segment reach MAX_BYTES
  MaxRequests,    \* bounds: requests, and I/O errors and crashes
  MaxFailures,
  None

ASSUME AuditAssumption ==
  /\ Capacity \in Nat \ {0} /\ SegmentLines \in Nat \ {0}
  /\ MaxRequests \in Nat /\ MaxFailures \in Nat
  /\ None \notin Replicas /\ None \notin Nat

VARIABLES
  made,       \* requests so far: the number of the last record
  queue,      \* the records each replica has queued
  dropped,    \* what each replica's counter shows
  writer,     \* what each writer thread is doing
  holder,     \* the replica that holds the lock, or None
  current,    \* the lines of the log
  backup,     \* the lines of its one retained rotation
  unended,    \* whether the last line of the log lacks its newline
  misread,    \* history: the records that were signed after a wrong
              \* predecessor because a segment could not be read
  drops,      \* history: records dropped, and drops that records report
  reported,
  failures    \* what a bound counts

vars == <<made, queue, dropped, writer, holder, current, backup, unended,
          misread, drops, reported, failures>>
files == <<current, backup, unended, misread>>

(* `missed` outlives a record: it is what the next record will report. *)
Idle(missed) == [pc |-> "idle", rec |-> 0, missed |-> missed, prev |-> 0]

Goto(r, pc) == writer' = [writer EXCEPT ![r].pc = pc]

(* A line whose JSON does not parse. *)
Garbled == [prev |-> 0, hmac |-> None, missed |-> 0]

LineType == [prev : Nat, hmac : Nat \cup {None}, missed : Nat]

Readable(log) == {i \in DOMAIN log : log[i].hmac # None}

LastReadable(log) == CHOOSE i \in Readable(log) : \A j \in Readable(log) : j <= i

(* `last_hmac` looks in the log, and then in its rotation; 0 is the empty  *)
(* text that precedes the first record.                                    *)
LastHmac(log) == IF Readable(log) = {} THEN 0 ELSE log[LastReadable(log)].hmac

Retained == backup \o current

-----------------------------------------------------------------------------
(* A request has been answered: `record` never waits. *)
Request(r) ==
  /\ made < MaxRequests
  /\ made' = made + 1
  /\ IF Len(queue[r]) < Capacity
       THEN /\ queue' = [queue EXCEPT ![r] = Append(@, made + 1)]
            /\ UNCHANGED <<dropped, drops>>
       ELSE /\ dropped' = [dropped EXCEPT ![r] = @ + 1]
            /\ drops' = drops + 1
            /\ UNCHANGED queue
  /\ UNCHANGED <<writer, holder, files, reported, failures>>

-----------------------------------------------------------------------------
(* The writer thread. *)

(* Mutant: the counter is read but not reset. *)
TakeWithoutReset(r) ==
  /\ writer[r].pc = "idle"
  /\ queue[r] # <<>>
  /\ queue' = [queue EXCEPT ![r] = Tail(@)]
  /\ writer' = [writer EXCEPT ![r].pc = "lock", ![r].rec = Head(queue[r]),
                              ![r].missed = @ + dropped[r]]
  /\ UNCHANGED <<made, dropped, holder, files, drops, reported, failures>>

Take(r) ==
  /\ writer[r].pc = "idle"
  /\ queue[r] # <<>>
  /\ queue' = [queue EXCEPT ![r] = Tail(@)]
  /\ dropped' = [dropped EXCEPT ![r] = 0]
  /\ writer' = [writer EXCEPT ![r].pc = "lock", ![r].rec = Head(queue[r]),
                              ![r].missed = @ + dropped[r]]
  /\ UNCHANGED <<made, holder, files, drops, reported, failures>>

Lock(r) ==
  /\ writer[r].pc = "lock"
  /\ holder = None
  /\ holder' = r
  /\ Goto(r, "rotate")
  /\ UNCHANGED <<made, queue, dropped, files, drops, reported, failures>>

Rotate(r) ==
  /\ writer[r].pc = "rotate"
  /\ IF Len(current) >= SegmentLines
       THEN backup' = current /\ current' = <<>> /\ unended' = FALSE /\ UNCHANGED misread
       ELSE UNCHANGED files
  /\ Goto(r, "sign")
  /\ UNCHANGED <<made, queue, dropped, holder, drops, reported, failures>>

(* A rotation that fails is ignored: the log grows on. *)
FailRotate(r) ==
  /\ writer[r].pc = "rotate"
  /\ failures < MaxFailures
  /\ failures' = failures + 1
  /\ Goto(r, "sign")
  /\ UNCHANGED <<made, queue, dropped, holder, files, drops, reported>>

(* Mutant: the predecessor is looked for in the current segment only. *)
SignInSegment(r) ==
  /\ writer[r].pc = "sign"
  /\ writer' = [writer EXCEPT ![r].pc = "append", ![r].prev = LastHmac(current)]
  /\ UNCHANGED <<made, queue, dropped, holder, files, drops, reported, failures>>

Sign(r) ==
  /\ writer[r].pc = "sign"
  /\ writer' = [writer EXCEPT ![r].pc = "append", ![r].prev = LastHmac(Retained)]
  /\ UNCHANGED <<made, queue, dropped, holder, files, drops, reported, failures>>

(* A torn line may end inside a character: a segment with one may read as  *)
(* no text at all, again and again.                                        *)
Torn(log) == \E i \in DOMAIN log : log[i].hmac = None

(* A segment that cannot be read is passed over, and if none is left the   *)
(* record is signed after the empty text; it is appended all the same.     *)
SignUnread(r) ==
  /\ writer[r].pc = "sign"
  /\ \E old \in {backup, <<>>}, log \in {current, <<>>} :
       /\ LastHmac(old \o log) # LastHmac(Retained)
       /\ writer' = [writer EXCEPT ![r].pc = "append", ![r].prev = LastHmac(old \o log)]
       /\ \/ /\ old = backup \/ Torn(backup)
             /\ log = current \/ Torn(current)
             /\ UNCHANGED failures
          \/ failures < MaxFailures /\ failures' = failures + 1
  /\ misread' = misread \cup {writer[r].rec}
  /\ UNCHANGED <<made, queue, dropped, holder, current, backup, unended, drops, reported>>

(* What is written continues a line that was never ended, and spoils it.   *)
Written(line) ==
  /\ current' = IF unended THEN [current EXCEPT ![Len(current)] = Garbled]
                           ELSE Append(current, line)
  /\ unended' = TRUE
  /\ UNCHANGED <<backup, misread>>

AppendLine(r) ==
  /\ writer[r].pc = "append"
  /\ Written([prev |-> writer[r].prev, hmac |-> writer[r].rec, missed |-> writer[r].missed])
  /\ Goto(r, "end")
  /\ UNCHANGED <<made, queue, dropped, holder, drops, reported, failures>>

(* The newline; write_record unlocks and returns. *)
EndLine(r) ==
  /\ writer[r].pc = "end"
  /\ unended' = FALSE
  /\ holder' = None
  /\ reported' = reported + writer[r].missed
  /\ Goto(r, "export")
  /\ UNCHANGED <<made, queue, dropped, current, backup, misread, drops, failures>>

(* The event is posted to the collector, with or without success. *)
Export(r) ==
  /\ writer[r].pc = "export"
  /\ writer' = [writer EXCEPT ![r] = Idle(0)]
  /\ UNCHANGED <<made, queue, dropped, holder, files, drops, reported, failures>>

-----------------------------------------------------------------------------
(* Failures. *)

Release(r) == holder' = IF holder = r THEN None ELSE holder

(* What a failing write may have done by then: nothing, or part of a line. *)
MaybePart(r) == UNCHANGED files \/ (writer[r].pc = "append" /\ Written(Garbled))

(* write_record returns an error: the record is gone, the count is kept. *)
FailWrite(r) ==
  /\ writer[r].pc \in {"lock", "append", "end"}
  /\ failures < MaxFailures
  /\ failures' = failures + 1
  /\ MaybePart(r)
  /\ Release(r)
  /\ writer' = [writer EXCEPT ![r] = Idle(writer[r].missed)]
  /\ UNCHANGED <<made, queue, dropped, drops, reported>>

Crash(r) ==
  /\ failures < MaxFailures
  /\ failures' = failures + 1
  /\ MaybePart(r)
  /\ Release(r)
  /\ writer' = [writer EXCEPT ![r] = Idle(0)]
  /\ queue' = [queue EXCEPT ![r] = <<>>]
  /\ dropped' = [dropped EXCEPT ![r] = 0]
  /\ UNCHANGED <<made, drops, reported>>

-----------------------------------------------------------------------------
Init ==
  /\ made = 0
  /\ queue = [r \in Replicas |-> <<>>]
  /\ dropped = [r \in Replicas |-> 0]
  /\ writer = [r \in Replicas |-> Idle(0)]
  /\ holder = None
  /\ current = <<>> /\ backup = <<>> /\ unended = FALSE
  /\ misread = {} /\ drops = 0 /\ reported = 0 /\ failures = 0

Write(r) ==
  \/ Take(r) \/ Lock(r) \/ Rotate(r) \/ Sign(r)
  \/ AppendLine(r) \/ EndLine(r) \/ Export(r)

Next == \E r \in Replicas :
  Request(r) \/ Write(r) \/ FailRotate(r) \/ SignUnread(r) \/ FailWrite(r) \/ Crash(r)

(* The system runs every writer, the lock is handed on, the collector      *)
(* answers or times out.                                                   *)
Fairness == \A r \in Replicas : WF_vars(Write(r))

Spec == Init /\ [][Next]_vars /\ Fairness

Quiet == \A r \in Replicas : queue[r] = <<>> /\ writer[r].pc = "idle"

-----------------------------------------------------------------------------
(* Properties. *)

(* Queues within their capacity, files of lines, one lock holder at most   *)
(* inside the locked section (audit.rs:128, audit.rs:151).                 *)
TypeOK ==
  /\ made \in Nat /\ drops \in Nat /\ reported \in Nat /\ failures \in Nat
  /\ queue \in [Replicas -> Seq(Nat)]
  /\ \A r \in Replicas : Len(queue[r]) <= Capacity
  /\ dropped \in [Replicas -> Nat]
  /\ writer \in [Replicas -> [pc : {"idle", "lock", "rotate", "sign", "append", "end", "export"},
                              rec : Nat, missed : Nat, prev : Nat]]
  /\ \A r \in Replicas : writer[r].pc \in {"rotate", "sign", "append", "end"} => holder = r
  /\ holder \in Replicas \cup {None}
  /\ current \in Seq(LineType) /\ backup \in Seq(LineType)
  /\ unended \in BOOLEAN
  /\ unended => current # <<>>
  /\ misread \subseteq Nat

Consecutive(log, i, j) ==
  /\ i \in Readable(log) /\ j \in Readable(log) /\ i < j
  /\ \A k \in Readable(log) : k <= i \/ k >= j

(* Each readable record names the readable record before it as its         *)
(* predecessor, but for those excepted.                                    *)
Linked(log, excepted) ==
  \A i, j \in DOMAIN log :
    Consecutive(log, i, j) => log[j].prev = log[i].hmac \/ log[j].hmac \in excepted

(* "HA replicas cannot fork the signed chain" (audit.rs:18): through both  *)
(* segments, failing rotations and writes, torn lines and crashes, it      *)
(* forks at no record but one whose writer could not read a segment when   *)
(* it looked for the predecessor (audit.rs:207).                           *)
ForksAreMisreads == Linked(Retained, misread)

(* What the counters of all replicas come to: one element for each count.  *)
Tally(counter) == UNION {{r} \X (1 .. counter[r]) : r \in Replicas}

(* "records are dropped and counted" (audit.rs:8): until something else    *)
(* fails, the drops are those that records report and those still to be    *)
(* reported, each counted once.                                            *)
StillToReport ==
  [r \in Replicas |->
     dropped[r] + IF writer[r].pc \in {"export", "posted"} THEN 0 ELSE writer[r].missed]

DropsReported == failures = 0 => reported + Cardinality(Tally(StillToReport)) = drops

(* "Verifies the signed current log and its one retained rotation segment" *)
(* (audit.rs:298): `verify` accepts a log that nobody but the writers,     *)
(* none of which failed, ever touched.                                     *)
Verifies(log) ==
  \A i \in DOMAIN log :
    /\ log[i].hmac # None
    /\ log[i].prev = IF i = 1 THEN 0 ELSE log[i - 1].hmac

UntamperedVerifies == holder = None /\ failures = 0 => Verifies(Retained)

=============================================================================
