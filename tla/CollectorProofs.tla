-------------------------- MODULE CollectorProofs --------------------------
(***************************************************************************)
(* The audit log and its collector, for any number of replicas,            *)
(* connections and failures: the chain stays linked, drops and records are *)
(* accounted for, an acknowledged event is in the store, and the replicas  *)
(* with their collector implement the log of Audit.                        *)
(***************************************************************************)
EXTENDS Collector, WellFoundedInduction, SequenceTheorems, FiniteSetTheorems, TLAPS

-----------------------------------------------------------------------------
(***************************************************************************)
(* The last readable line exists.  The prover has no induction, so the     *)
(* greatest index is the least distance from the end of the log.           *)
(***************************************************************************)
LEMMA NatMin ==
  ASSUME NEW S \in SUBSET Nat, S # {}
  PROVE  \E x \in S : \A y \in S : x <= y
<1> DEFINE Less == {ss \in Nat \X Nat : ss[1] < ss[2]}
<1>1. IsWellFoundedOn(Less, Nat)
  BY NatLessThanWellFounded DEF OpToRel
<1>2. PICK x \in S : \A y \in S : ~(<<y, x>> \in Less)
  BY <1>1, WFMin
<1>3. ASSUME NEW y \in S  PROVE x <= y
  <2>1. x \in Nat /\ y \in Nat /\ <<y, x>> \in Nat \X Nat
    OBVIOUS
  <2>2. ~(y < x)
    BY <2>1, <1>2
  <2> QED  BY <2>1, <2>2
<1> QED  BY <1>3

LEMMA NatMax ==
  ASSUME NEW n \in Nat, NEW S \in SUBSET (1 .. n), S # {}
  PROVE  \E x \in S : \A y \in S : y <= x
<1> DEFINE D == {n - i : i \in S}
<1>1. D \in SUBSET Nat /\ D # {}
  <2>1. PICK i \in S : TRUE
    OBVIOUS
  <2>2. n - i \in D
    BY <2>1
  <2> QED  BY <2>2
<1>2. PICK d \in D : \A e \in D : d <= e
  <2> HIDE DEF D
  <2> QED  BY <1>1, NatMin
<1>3. PICK i \in S : d = n - i
  BY <1>2
<1>4. ASSUME NEW j \in S  PROVE j <= i
  <2>1. n - j \in D
    OBVIOUS
  <2>2. d <= n - j
    BY <2>1, <1>2
  <2> QED  BY <2>2, <1>3
<1> QED  BY <1>4

LEMMA LastReadableExists ==
  ASSUME NEW log \in Seq(LineType), Readable(log) # {}
  PROVE  /\ LastReadable(log) \in Readable(log)
         /\ \A j \in Readable(log) : j <= LastReadable(log)
<1>1. Len(log) \in Nat /\ Readable(log) \in SUBSET (1 .. Len(log))
  BY DEF Readable
<1>2. \E i \in Readable(log) : \A j \in Readable(log) : j <= i
  BY <1>1, NatMax
<1> QED  BY <1>2 DEF LastReadable

LEMMA LastHmacType ==
  ASSUME NEW log \in Seq(LineType)
  PROVE  LastHmac(log) \in Nat
<1>1. CASE Readable(log) = {}
  BY <1>1 DEF LastHmac
<1>2. CASE Readable(log) # {}
  <2>1. LastReadable(log) \in Readable(log)
    BY <1>2, LastReadableExists
  <2>2. log[LastReadable(log)] \in LineType /\ log[LastReadable(log)].hmac # None
    BY <2>1 DEF Readable
  <2> QED  BY <2>2, <1>2 DEF LastHmac, LineType
<1> QED  BY <1>1, <1>2

(***************************************************************************)
(* What the file operations do to the chain.                               *)
(***************************************************************************)
LEMMA AppendKeepsLinked ==
  ASSUME NEW log \in Seq(LineType), NEW excepted, Linked(log, excepted),
         NEW line \in LineType, line.prev = LastHmac(log) \/ line.hmac \in excepted
  PROVE  Linked(Append(log, line), excepted)
<1> DEFINE new == Append(log, line)
<1> SUFFICES ASSUME NEW i \in DOMAIN new, NEW j \in DOMAIN new, Consecutive(new, i, j)
             PROVE  new[j].prev = new[i].hmac \/ new[j].hmac \in excepted
  BY DEF Linked
<1>1. /\ Len(log) \in Nat /\ Len(new) = Len(log) + 1 /\ DOMAIN new = 1 .. Len(log) + 1
      /\ DOMAIN log = 1 .. Len(log)
      /\ \A k \in DOMAIN log : new[k] = log[k]
      /\ new[Len(log) + 1] = line
  OBVIOUS
<1>2. i \in DOMAIN log /\ i < j
  BY <1>1 DEF Consecutive, Readable
<1>3. Readable(log) = Readable(new) \cap DOMAIN log
  BY <1>1 DEF Readable
<1>4. CASE j \in DOMAIN log
  <2>1. Consecutive(log, i, j)
    BY <1>2, <1>3, <1>4 DEF Consecutive
  <2> QED  BY <2>1, <1>1, <1>2, <1>4 DEF Linked
<1>5. CASE j = Len(log) + 1
  <2>1. i \in Readable(log) /\ \A k \in Readable(log) : k <= i
    <3>1. i \in Readable(log)
      BY <1>2, <1>3 DEF Consecutive
    <3>2. ASSUME NEW k \in Readable(log)  PROVE k <= i
      <4>1. k \in Readable(new) /\ k \in 1 .. Len(log)
        BY <1>3, <1>1
      <4>2. k <= i \/ k >= j
        BY <4>1 DEF Consecutive
      <4> QED  BY <4>1, <4>2, <1>5, <1>1
    <3> QED  BY <3>1, <3>2
  <2>2. LastReadable(log) \in Readable(log) /\ \A k \in Readable(log) : k <= LastReadable(log)
    BY <2>1, LastReadableExists
  <2>3. LastReadable(log) = i
    <3>1. LastReadable(log) <= i /\ i <= LastReadable(log)
      BY <2>1, <2>2
    <3>2. LastReadable(log) \in Int /\ i \in Int
      BY <2>1, <2>2, <1>1 DEF Readable
    <3> QED  BY <3>1, <3>2
  <2>4. LastHmac(log) = log[i].hmac
    BY <2>1, <2>3 DEF LastHmac
  <2> QED  BY <2>4, <1>1, <1>2, <1>5
<1> QED  BY <1>1, <1>4, <1>5

LEMMA AppendGarbledKeepsLinked ==
  ASSUME NEW log \in Seq(LineType), NEW excepted, Linked(log, excepted)
  PROVE  Linked(Append(log, Garbled), excepted)
<1> DEFINE new == Append(log, Garbled)
<1> SUFFICES ASSUME NEW i \in DOMAIN new, NEW j \in DOMAIN new, Consecutive(new, i, j)
             PROVE  new[j].prev = new[i].hmac \/ new[j].hmac \in excepted
  BY DEF Linked
<1>1. /\ Len(log) \in Nat /\ DOMAIN new = 1 .. Len(log) + 1
      /\ DOMAIN log = 1 .. Len(log)
      /\ \A k \in DOMAIN log : new[k] = log[k]
      /\ new[Len(log) + 1] = Garbled
  OBVIOUS
<1>2. Readable(log) = Readable(new)
  BY <1>1 DEF Readable, Garbled
<1>3. i \in DOMAIN log /\ j \in DOMAIN log /\ Consecutive(log, i, j)
  BY <1>2 DEF Consecutive, Readable
<1> QED  BY <1>3, <1>1 DEF Linked

LEMMA GarblingKeepsLinked ==
  ASSUME NEW log \in Seq(LineType), log # <<>>, NEW excepted, Linked(log, excepted)
  PROVE  Linked([log EXCEPT ![Len(log)] = Garbled], excepted)
<1> DEFINE n   == Len(log)
           new == [log EXCEPT ![n] = Garbled]
<1> SUFFICES ASSUME NEW i \in DOMAIN new, NEW j \in DOMAIN new, Consecutive(new, i, j)
             PROVE  new[j].prev = new[i].hmac \/ new[j].hmac \in excepted
  BY DEF Linked
<1>1. /\ n \in Nat /\ DOMAIN log = 1 .. n /\ DOMAIN new = 1 .. n
      /\ \A k \in DOMAIN log : k # n => new[k] = log[k]
      /\ n \in DOMAIN log /\ new[n] = Garbled
  OBVIOUS
<1>2. Readable(new) = Readable(log) \ {n}
  BY <1>1 DEF Readable, Garbled
<1>3. i \in Readable(log) /\ j \in Readable(log) /\ i < j /\ i # n /\ j # n
  BY <1>2 DEF Consecutive
<1>4. \A k \in Readable(log) : k <= i \/ k >= j
  <2> TAKE k \in Readable(log)
  <2>1. CASE k = n
    BY <2>1, <1>1, <1>3 DEF Readable
  <2>2. CASE k # n
    BY <2>2, <1>2 DEF Consecutive
  <2> QED  BY <2>1, <2>2
<1>5. Consecutive(log, i, j)
  BY <1>3, <1>4 DEF Consecutive
<1> QED  BY <1>5, <1>3, <1>1 DEF Linked

EndGarbled(log) == [log EXCEPT ![Len(log)] = Garbled]

LEMMA ConcatExceptLast ==
  ASSUME NEW s \in Seq(LineType), NEW t \in Seq(LineType), t # <<>>
  PROVE  s \o EndGarbled(t) = EndGarbled(s \o t)
<1> DEFINE g == Garbled
           u == [t EXCEPT ![Len(t)] = g]
           a == s \o u
           b == [s \o t EXCEPT ![Len(s \o t)] = g]
<1>0. g \in LineType
  BY DEF Garbled, LineType
<1> HIDE DEF g
<1>1. /\ u \in Seq(LineType) /\ Len(u) = Len(t) /\ Len(t) \in Nat \ {0} /\ Len(s) \in Nat
      /\ \A k \in 1 .. Len(t) : u[k] = IF k = Len(t) THEN g ELSE t[k]
  BY <1>0
<1>2. /\ s \o t \in Seq(LineType) /\ Len(s \o t) = Len(s) + Len(t)
      /\ \A k \in 1 .. Len(s) + Len(t) :
           (s \o t)[k] = IF k <= Len(s) THEN s[k] ELSE t[k - Len(s)]
  OBVIOUS
<1>3. /\ a \in Seq(LineType) /\ Len(a) = Len(s) + Len(t)
      /\ \A k \in 1 .. Len(s) + Len(t) : a[k] = IF k <= Len(s) THEN s[k] ELSE u[k - Len(s)]
  BY <1>1
<1>4. /\ b \in Seq(LineType) /\ Len(b) = Len(s) + Len(t)
      /\ \A k \in 1 .. Len(s) + Len(t) :
           b[k] = IF k = Len(s) + Len(t) THEN g ELSE (s \o t)[k]
  <2> DEFINE c == s \o t
  <2>1. c \in Seq(LineType) /\ Len(c) = Len(s) + Len(t) /\ Len(c) \in Nat
    BY <1>1, <1>2
  <2> HIDE DEF c
  <2>2. /\ [c EXCEPT ![Len(c)] = g] \in Seq(LineType) /\ Len([c EXCEPT ![Len(c)] = g]) = Len(c)
        /\ \A k \in 1 .. Len(c) : [c EXCEPT ![Len(c)] = g][k] = IF k = Len(c) THEN g ELSE c[k]
    BY <2>1, <1>0
  <2> QED  BY <2>1, <2>2 DEF c
<1>5. \A k \in 1 .. Len(a) : a[k] = b[k]
  <2> TAKE k \in 1 .. Len(a)
  <2>0. k \in 1 .. Len(s) + Len(t)
    BY <1>3
  <2> HIDE DEF a, b
  <2>1. CASE k <= Len(s)
    <3>1. k # Len(s) + Len(t)
      BY <2>0, <2>1, <1>1
    <3>2. a[k] = s[k] /\ (s \o t)[k] = s[k]
      BY <2>0, <2>1, <1>2, <1>3
    <3> QED  BY <2>0, <3>1, <3>2, <1>4
  <2>2. CASE k > Len(s)
    <3>1. k - Len(s) \in 1 .. Len(t) /\ (k - Len(s) = Len(t) <=> k = Len(s) + Len(t))
      BY <2>0, <2>2, <1>1
    <3>2. a[k] = u[k - Len(s)] /\ (s \o t)[k] = t[k - Len(s)]
      BY <2>0, <2>2, <1>1, <1>2, <1>3
    <3> HIDE DEF u
    <3> QED  BY <2>0, <3>1, <3>2, <1>1, <1>4
  <2> QED  BY <2>0, <2>1, <2>2, <1>1
<1> HIDE DEF a, b
<1>6. a = b
  BY <1>3, <1>4, <1>5, SeqEqual
<1> QED  BY <1>6 DEF a, b, u, g, EndGarbled

LEMMA RotationKeepsLinked ==
  ASSUME NEW old \in Seq(LineType), NEW log \in Seq(LineType), NEW excepted,
         Linked(old \o log, excepted)
  PROVE  Linked(log, excepted)
<1> DEFINE all == old \o log
           m   == Len(old)
<1> SUFFICES ASSUME NEW i \in DOMAIN log, NEW j \in DOMAIN log, Consecutive(log, i, j)
             PROVE  log[j].prev = log[i].hmac \/ log[j].hmac \in excepted
  BY DEF Linked
<1>1. /\ m \in Nat /\ Len(log) \in Nat /\ DOMAIN log = 1 .. Len(log)
      /\ DOMAIN all = 1 .. m + Len(log)
      /\ \A k \in DOMAIN log : all[m + k] = log[k]
  OBVIOUS
<1>2. \A k \in DOMAIN log : k \in Readable(log) <=> m + k \in Readable(all)
  BY <1>1 DEF Readable
<1>3. m + i \in Readable(all) /\ m + j \in Readable(all) /\ m + i < m + j
  BY <1>1, <1>2 DEF Consecutive
<1>4. ASSUME NEW k \in Readable(all)  PROVE k <= m + i \/ k >= m + j
  <2>1. k \in 1 .. m + Len(log)
    BY <1>1 DEF Readable
  <2>2. CASE k <= m
    BY <2>1, <2>2, <1>1
  <2>3. CASE k > m
    <3>1. k - m \in DOMAIN log /\ k = m + (k - m)
      BY <2>1, <2>3, <1>1
    <3>2. k - m \in Readable(log)
      BY <3>1, <1>2
    <3>3. k - m <= i \/ k - m >= j
      BY <3>2 DEF Consecutive
    <3> QED  BY <3>1, <3>3, <1>1
  <2> QED  BY <2>1, <2>2, <2>3, <1>1
<1>5. Consecutive(all, m + i, m + j)
  <2> HIDE DEF all, m
  <2> QED  BY <1>3, <1>4 DEF Consecutive
<1>6. m + i \in DOMAIN all /\ m + j \in DOMAIN all
  BY <1>1
<1>7. all[m + j].prev = all[m + i].hmac \/ all[m + j].hmac \in excepted
  BY <1>5, <1>6 DEF Linked
<1> QED  BY <1>1, <1>7

LEMMA MoreExcepted ==
  ASSUME NEW log, NEW S, NEW T, S \subseteq T, Linked(log, S)
  PROVE  Linked(log, T)
BY DEF Linked

(***************************************************************************)
(* The inductive invariant: the chain forks at misread records only, the   *)
(* lock excludes, and between the signature and the append what was signed *)
(* is still the last readable line, unless that was misread.               *)
(***************************************************************************)
Locked == {"rotate", "sign", "append", "end"}

Points == {"idle", "lock", "export", "posted"} \cup Locked

WriterState == [pc : Points, rec : Nat, missed : Nat, prev : Nat]

FilesOK ==
  /\ current \in Seq(LineType) /\ backup \in Seq(LineType)
  /\ unended \in BOOLEAN
  /\ unended => current # <<>>
  /\ misread \subseteq Nat

WriterOK ==
  /\ made \in Nat
  /\ queue \in [Replicas -> Seq(Nat)]
  /\ dropped \in [Replicas -> Nat]
  /\ writer \in [Replicas -> WriterState]

LockOK == \A r \in Replicas : writer[r].pc \in Locked => holder = r

SignedLast == \A r \in Replicas :
  writer[r].pc = "append" => writer[r].prev = LastHmac(Retained) \/ writer[r].rec \in misread

Inv == FilesOK /\ WriterOK /\ LockOK /\ SignedLast /\ ForksAreMisreads

LEMMA InitInv == Init => Inv
<1> SUFFICES ASSUME Init  PROVE Inv
  OBVIOUS
<1>1. FilesOK
  <2>1. <<>> \in Seq(LineType)
    OBVIOUS
  <2> QED  BY <2>1 DEF Init, FilesOK
<1>2. WriterOK
  <2>1. <<>> \in Seq(Nat)
    OBVIOUS
  <2> QED  BY <2>1 DEF Init, WriterOK, Idle, WriterState, Points, Locked
<1>3. LockOK /\ SignedLast
  BY DEF Init, LockOK, SignedLast, Idle, Locked
<1>4. ForksAreMisreads
  <2>1. DOMAIN Retained = {}
    BY DEF Init, Retained
  <2> QED  BY <2>1 DEF ForksAreMisreads, Linked
<1> QED  BY <1>1, <1>2, <1>3, <1>4 DEF Inv

(* Appending to the log, garbled or not. *)
LEMMA WrittenKeepsLinked ==
  ASSUME FilesOK, ForksAreMisreads, NEW line \in LineType, Written(line),
         line # Garbled => line.prev = LastHmac(Retained) \/ line.hmac \in misread
  PROVE  FilesOK' /\ ForksAreMisreads'
<1>1. CASE unended
  <2>1. /\ current' = [current EXCEPT ![Len(current)] = Garbled] /\ backup' = backup
        /\ unended' = TRUE /\ misread' = misread /\ current # <<>>
    BY <1>1 DEF Written, FilesOK
  <2>2. Garbled \in LineType
    BY DEF Garbled, LineType
  <2>3. FilesOK'
    BY <2>1, <2>2 DEF FilesOK
  <2>4. Retained \in Seq(LineType) /\ Retained # <<>>
    BY <2>1 DEF Retained, FilesOK
  <2>5. Retained' = [Retained EXCEPT ![Len(Retained)] = Garbled]
    <3>1. Retained' = backup \o [current EXCEPT ![Len(current)] = Garbled]
      BY <2>1 DEF Retained
    <3>2. backup \o EndGarbled(current) = EndGarbled(backup \o current)
      <4>1. current \in Seq(LineType) /\ backup \in Seq(LineType)
        BY DEF FilesOK
      <4> QED  BY <4>1, <2>1, ConcatExceptLast
    <3> QED  BY <3>1, <3>2 DEF Retained, EndGarbled
  <2>6. ForksAreMisreads'
    BY <2>1, <2>4, <2>5, GarblingKeepsLinked DEF ForksAreMisreads
  <2> QED  BY <2>3, <2>6
<1>2. CASE ~unended
  <2>1. current' = Append(current, line) /\ backup' = backup /\ unended' = TRUE /\ misread' = misread
    BY <1>2 DEF Written
  <2>2. FilesOK'
    BY <2>1 DEF FilesOK
  <2>3. Retained \in Seq(LineType)
    BY DEF Retained, FilesOK
  <2>4. Retained' = Append(Retained, line)
    <3>1. Retained' = backup \o Append(current, line)
      BY <2>1 DEF Retained
    <3> QED  BY <3>1 DEF Retained, FilesOK
  <2>5. ForksAreMisreads'
    BY <2>1, <2>3, <2>4, AppendKeepsLinked, AppendGarbledKeepsLinked DEF ForksAreMisreads
  <2> QED  BY <2>2, <2>5
<1> QED  BY <1>1, <1>2

(***************************************************************************)
(* The steps.  Those that leave the files alone keep the chain and what    *)
(* was signed; those that change them hold the lock.                       *)
(***************************************************************************)
LEMMA UntouchedFiles ==
  ASSUME Inv, UNCHANGED files
  PROVE  FilesOK' /\ ForksAreMisreads' /\ Retained' = Retained /\ misread' = misread
BY DEF Inv, files, FilesOK, ForksAreMisreads, Retained

(* A step of r, which wrote to the log if at all while it held the lock,   *)
(* and after which it is not about to append.                              *)
LEMMA StepOfHolder ==
  ASSUME Inv, NEW r \in Replicas, WriterOK', LockOK',
         writer'[r].pc # "append",
         \A k \in Replicas : k # r => writer'[k] = writer[k],
         \/ UNCHANGED files
         \/ writer[r].pc \in Locked /\ FilesOK' /\ ForksAreMisreads'
  PROVE  Inv'
<1>1. CASE UNCHANGED files
  <2>1. FilesOK' /\ ForksAreMisreads' /\ Retained' = Retained /\ misread' = misread
    BY <1>1, UntouchedFiles
  <2>2. SignedLast'
    BY <2>1 DEF Inv, SignedLast
  <2> QED  BY <2>1, <2>2 DEF Inv
<1>2. CASE writer[r].pc \in Locked /\ FilesOK' /\ ForksAreMisreads'
  <2>1. \A k \in Replicas : writer'[k].pc # "append"
    BY <1>2 DEF Inv, LockOK, Locked
  <2>2. SignedLast'
    BY <2>1 DEF SignedLast
  <2> QED  BY <1>2, <2>2 DEF Inv
<1> QED  BY <1>1, <1>2

LEMMA RequestStep == ASSUME Inv, NEW r \in Replicas, Request(r)  PROVE Inv'
<1>1. WriterOK'
  <2>1. Append(queue[r], made + 1) \in Seq(Nat)
    BY DEF Inv, WriterOK, WriterState, Points, Locked
  <2>2. queue' \in [Replicas -> Seq(Nat)]
    BY <2>1 DEF Inv, WriterOK, Request, WriterState, Points, Locked
  <2>3. dropped' \in [Replicas -> Nat]
    <3>1. dropped \in [Replicas -> Nat] /\ dropped[r] + 1 \in Nat
      BY DEF Inv, WriterOK, WriterState, Points, Locked
    <3>2. dropped' = dropped \/ dropped' = [dropped EXCEPT ![r] = @ + 1]
      BY DEF Request
    <3> QED  BY <3>1, <3>2
  <2>4. made' \in Nat /\ writer' = writer
    BY DEF Inv, WriterOK, Request, WriterState, Points, Locked
  <2> QED  BY <2>2, <2>3, <2>4 DEF Inv, WriterOK, WriterState, Points, Locked
<1>2. LockOK' /\ SignedLast'
  BY UntouchedFiles DEF Inv, LockOK, SignedLast, Request
<1> QED  BY <1>1, <1>2, UntouchedFiles DEF Inv, Request

LEMMA TakeStep == ASSUME Inv, NEW r \in Replicas, Take(r)  PROVE Inv'
<1>1. WriterOK'
  <2>1. Head(queue[r]) \in Nat /\ Tail(queue[r]) \in Seq(Nat)
    BY DEF Inv, WriterOK, Take, WriterState, Points, Locked
  <2>2. queue' \in [Replicas -> Seq(Nat)] /\ dropped' \in [Replicas -> Nat] /\ made' \in Nat
    BY <2>1 DEF Inv, WriterOK, Take, WriterState, Points, Locked
  <2>3. writer[r].missed + dropped[r] \in Nat
    BY DEF Inv, WriterOK, WriterState, Points, Locked
  <2>4. writer' = [writer EXCEPT ![r].pc = "lock", ![r].rec = Head(queue[r]),
                                ![r].missed = @ + dropped[r]]
    BY DEF Take
  <2>5. writer' \in [Replicas -> WriterState]
    <3> DEFINE after == [writer[r] EXCEPT !.pc = "lock", !.rec = Head(queue[r]),
                                          !.missed = @ + dropped[r]]
    <3>1. after \in WriterState
      BY <2>1, <2>3 DEF Inv, WriterOK, WriterState, Points, Locked
    <3>2. writer' = [writer EXCEPT ![r] = after]
      BY <2>4 DEF Inv, WriterOK, WriterState, Points, Locked
    <3> HIDE DEF after
    <3> QED  BY <3>1, <3>2 DEF Inv, WriterOK, WriterState, Points, Locked
  <2> QED  BY <2>2, <2>5 DEF WriterOK, WriterState, Points, Locked
<1>2. /\ writer'[r].pc = "lock"
      /\ \A k \in Replicas : k # r => writer'[k] = writer[k]
  BY DEF Inv, WriterOK, Take, WriterState, Points, Locked
<1>3. LockOK'
  BY <1>2 DEF Inv, LockOK, Locked, Take
<1> QED  BY <1>1, <1>2, <1>3, StepOfHolder DEF Take

LEMMA LockStep == ASSUME Inv, NEW r \in Replicas, Lock(r)  PROVE Inv'
<1>1. WriterOK'
  BY DEF Inv, WriterOK, Lock, Goto, WriterState, Points, Locked
<1>2. /\ writer'[r].pc = "rotate"
      /\ \A k \in Replicas : k # r => writer'[k] = writer[k]
  BY DEF Inv, WriterOK, Lock, Goto, WriterState, Points, Locked
<1>3. LockOK'
  <2>1. \A k \in Replicas : k # r => writer[k].pc \notin Locked
    BY AuditAssumption DEF Inv, LockOK, Lock
  <2> QED  BY <1>2, <2>1 DEF LockOK, Lock
<1> QED  BY <1>1, <1>2, <1>3, StepOfHolder DEF Lock

LEMMA RotateStep == ASSUME Inv, NEW r \in Replicas, Rotate(r)  PROVE Inv'
<1>1. WriterOK'
  BY DEF Inv, WriterOK, Rotate, Goto, WriterState, Points, Locked
<1>2. /\ writer'[r].pc = "sign"
      /\ \A k \in Replicas : k # r => writer'[k] = writer[k]
  BY DEF Inv, WriterOK, Rotate, Goto, WriterState, Points, Locked
<1>3. LockOK'
  BY <1>2 DEF Inv, LockOK, Locked, Rotate
<1>4. CASE Len(current) >= SegmentLines
  <2>1. backup' = current /\ current' = <<>> /\ unended' = FALSE /\ misread' = misread
    BY <1>4 DEF Rotate
  <2>2. <<>> \in Seq(LineType)
    OBVIOUS
  <2>3. FilesOK'
    BY <2>1, <2>2 DEF Inv, FilesOK
  <2>4. Retained' = current
    BY <2>1 DEF Inv, FilesOK, Retained
  <2>5. ForksAreMisreads'
    BY <2>1, <2>4, RotationKeepsLinked DEF Inv, FilesOK, ForksAreMisreads, Retained
  <2>6. writer[r].pc \in Locked
    BY DEF Rotate, Locked
  <2> QED  BY <1>1, <1>2, <1>3, <2>3, <2>5, <2>6, StepOfHolder
<1>5. CASE ~(Len(current) >= SegmentLines)
  BY <1>1, <1>2, <1>3, <1>5, StepOfHolder DEF Rotate
<1> QED  BY <1>4, <1>5

LEMMA FailRotateStep == ASSUME Inv, NEW r \in Replicas, FailRotate(r)  PROVE Inv'
<1>1. WriterOK'
  BY DEF Inv, WriterOK, FailRotate, Goto, WriterState, Points, Locked
<1>2. /\ writer'[r].pc = "sign"
      /\ \A k \in Replicas : k # r => writer'[k] = writer[k]
  BY DEF Inv, WriterOK, FailRotate, Goto, WriterState, Points, Locked
<1>3. LockOK'
  BY <1>2 DEF Inv, LockOK, Locked, FailRotate
<1> QED  BY <1>1, <1>2, <1>3, StepOfHolder DEF FailRotate

LEMMA SignStep == ASSUME Inv, NEW r \in Replicas, Sign(r)  PROVE Inv'
<1>1. LastHmac(Retained) \in Nat
  <2>1. Retained \in Seq(LineType)
    BY DEF Inv, FilesOK, Retained
  <2> QED  BY <2>1, LastHmacType
<1>2. WriterOK'
  BY <1>1 DEF Inv, WriterOK, Sign, WriterState, Points, Locked
<1>3. /\ writer'[r].pc = "append" /\ writer'[r].prev = LastHmac(Retained)
      /\ \A k \in Replicas : k # r => writer'[k] = writer[k]
  BY DEF Inv, WriterOK, Sign, WriterState, Points, Locked
<1>4. LockOK'
  BY <1>3 DEF Inv, LockOK, Locked, Sign
<1>5. FilesOK' /\ ForksAreMisreads' /\ Retained' = Retained /\ misread' = misread
  BY UntouchedFiles DEF Sign
<1>6. SignedLast'
  BY <1>3, <1>5 DEF Inv, SignedLast
<1> QED  BY <1>2, <1>4, <1>5, <1>6 DEF Inv

(* What a signature after an unread segment changes: the writer, the        *)
(* history, and the count of failures at most.                             *)
Unread(r) ==
  /\ writer[r].pc = "sign"
  /\ writer'[r].pc = "append"
  /\ writer'[r].rec = writer[r].rec /\ writer'[r].missed = writer[r].missed
  /\ \A k \in Replicas : k # r => writer'[k] = writer[k]
  /\ misread' = misread \cup {writer[r].rec}
  /\ UNCHANGED <<made, queue, dropped, holder, current, backup, unended, drops, reported>>
  /\ failures' = failures \/ failures' = failures + 1

LEMMA SignsUnread ==
  ASSUME Inv, NEW r \in Replicas, SignUnread(r)
  PROVE  /\ Unread(r)
         /\ \E prev \in Nat : writer' = [writer EXCEPT ![r].pc = "append", ![r].prev = prev]
<1>1. PICK old \in {backup, <<>>}, log \in {current, <<>>} :
        writer' = [writer EXCEPT ![r].pc = "append", ![r].prev = LastHmac(old \o log)]
  BY DEF SignUnread
<1> PICK prev : prev = LastHmac(old \o log)
  OBVIOUS
<1>2. prev \in Nat
  <2>1. <<>> \in Seq(LineType)
    OBVIOUS
  <2>2. old \in Seq(LineType) /\ log \in Seq(LineType)
    BY <2>1 DEF Inv, FilesOK
  <2>3. old \o log \in Seq(LineType)
    BY <2>2
  <2> QED  BY <2>3, LastHmacType
<1>3. writer' = [writer EXCEPT ![r].pc = "append", ![r].prev = prev]
  BY <1>1
<1>4. /\ writer'[r].pc = "append" /\ writer'[r].rec = writer[r].rec
      /\ writer'[r].missed = writer[r].missed
      /\ \A k \in Replicas : k # r => writer'[k] = writer[k]
  BY <1>3 DEF Inv, WriterOK, WriterState
<1>5. failures' = failures \/ failures' = failures + 1
  BY DEF SignUnread
<1>6. Unread(r)
  BY <1>4, <1>5 DEF SignUnread, Unread
<1> QED  BY <1>2, <1>3, <1>6

LEMMA SignUnreadStep == ASSUME Inv, NEW r \in Replicas, SignUnread(r)  PROVE Inv'
<1>1. PICK prev \in Nat : writer' = [writer EXCEPT ![r].pc = "append", ![r].prev = prev]
  BY SignsUnread
<1>2. Unread(r)
  BY SignsUnread
<1>3. WriterOK'
  <2>1. UNCHANGED <<made, queue, dropped>>
    BY <1>2 DEF Unread
  <2> QED  BY <1>1, <2>1 DEF Inv, WriterOK, WriterState, Points, Locked
<1>4. writer[r].rec \in Nat /\ Retained' = Retained /\ misread \subseteq misread'
  BY <1>2 DEF Inv, WriterOK, WriterState, Unread, Retained
<1>5. LockOK'
  BY <1>2 DEF Inv, LockOK, Locked, Unread
<1>6. FilesOK'
  BY <1>2, <1>4 DEF Inv, FilesOK, Unread
<1>7. ForksAreMisreads'
  BY <1>4, MoreExcepted DEF Inv, ForksAreMisreads
<1>8. SignedLast'
  BY <1>2, <1>4 DEF Inv, SignedLast, Unread
<1> QED  BY <1>3, <1>5, <1>6, <1>7, <1>8 DEF Inv

LEMMA AppendStep == ASSUME Inv, NEW r \in Replicas, AppendLine(r)  PROVE Inv'
<1> DEFINE line == [prev |-> writer[r].prev, hmac |-> writer[r].rec, missed |-> writer[r].missed]
<1>1. WriterOK'
  BY DEF Inv, WriterOK, AppendLine, Goto, WriterState, Points, Locked
<1>2. /\ writer'[r].pc = "end"
      /\ \A k \in Replicas : k # r => writer'[k] = writer[k]
  BY DEF Inv, WriterOK, AppendLine, Goto, WriterState, Points, Locked
<1>3. LockOK'
  BY <1>2 DEF Inv, LockOK, Locked, AppendLine
<1>4. line \in LineType
  BY DEF Inv, WriterOK, LineType, WriterState, Points, Locked
<1>5. line.prev = LastHmac(Retained) \/ line.hmac \in misread
  BY DEF Inv, SignedLast, AppendLine
<1>6. Written(line)
  BY DEF AppendLine
<1>7. FilesOK' /\ ForksAreMisreads'
  <2> HIDE DEF line
  <2> QED  BY <1>4, <1>5, <1>6, WrittenKeepsLinked DEF Inv
<1>8. writer[r].pc \in Locked
  BY DEF AppendLine, Locked
<1> QED  BY <1>1, <1>2, <1>3, <1>7, <1>8, StepOfHolder

LEMMA EndStep == ASSUME Inv, NEW r \in Replicas, EndLine(r)  PROVE Inv'
<1>1. WriterOK'
  BY DEF Inv, WriterOK, EndLine, Goto, WriterState, Points, Locked
<1>2. /\ writer'[r].pc = "export" /\ writer[r].pc \in Locked
      /\ \A k \in Replicas : k # r => writer'[k] = writer[k]
  BY DEF Inv, WriterOK, EndLine, Goto, Locked, WriterState, Points
<1>3. LockOK'
  BY <1>2 DEF Inv, LockOK, Locked, EndLine
<1>4. FilesOK' /\ ForksAreMisreads'
  BY DEF Inv, FilesOK, ForksAreMisreads, Retained, EndLine
<1> QED  BY <1>1, <1>2, <1>3, <1>4, StepOfHolder

(* Exporting leaves the log alone; the posts of Collector are its parts.   *)
Exporting(r) ==
  /\ writer[r].pc \in {"export", "posted"}
  /\ Goto(r, "posted") \/ writer' = [writer EXCEPT ![r] = Idle(0)]
  /\ UNCHANGED <<made, queue, dropped, holder, files, drops, reported, failures>>

LEMMA ExportStep == ASSUME Inv, NEW r \in Replicas, Exporting(r)  PROVE Inv'
<1>1. WriterOK'
  <2>1. Idle(0) \in WriterState
    BY DEF Idle, WriterState, Points
  <2>2. [writer[r] EXCEPT !.pc = "posted"] \in WriterState
    BY DEF Inv, WriterOK, WriterState, Points
  <2> QED  BY <2>1, <2>2 DEF Inv, WriterOK, Exporting, Goto
<1>2. /\ writer'[r].pc \in {"idle", "posted"}
      /\ \A k \in Replicas : k # r => writer'[k] = writer[k]
  BY DEF Inv, WriterOK, WriterState, Exporting, Goto, Idle
<1>3. LockOK'
  BY <1>2 DEF Inv, LockOK, Locked, Exporting
<1> QED  BY <1>1, <1>2, <1>3, StepOfHolder DEF Exporting

(* The two ways a replica is interrupted. *)
LEMMA PartKeepsLinked ==
  ASSUME Inv, NEW r \in Replicas, MaybePart(r)
  PROVE  UNCHANGED files \/ (writer[r].pc \in Locked /\ FilesOK' /\ ForksAreMisreads')
<1>1. CASE UNCHANGED files
  BY <1>1
<1>2. CASE writer[r].pc = "append" /\ Written(Garbled)
  <2>1. Garbled \in LineType
    BY DEF Garbled, LineType
  <2>2. FilesOK' /\ ForksAreMisreads'
    BY <1>2, <2>1, WrittenKeepsLinked DEF Inv
  <2> QED  BY <1>2, <2>2 DEF Locked
<1> QED  BY <1>1, <1>2 DEF MaybePart

LEMMA ReleaseKeepsLock ==
  ASSUME Inv, NEW r \in Replicas, Release(r), writer'[r].pc = "idle",
         \A k \in Replicas : k # r => writer'[k] = writer[k]
  PROVE  LockOK'
BY DEF Inv, LockOK, Release, Locked

LEMMA FailWriteStep == ASSUME Inv, NEW r \in Replicas, FailWrite(r)  PROVE Inv'
<1>1. WriterOK'
  BY DEF Inv, WriterOK, FailWrite, Idle, WriterState, Points, Locked
<1>2. /\ writer'[r].pc = "idle"
      /\ \A k \in Replicas : k # r => writer'[k] = writer[k]
  BY DEF Inv, WriterOK, FailWrite, Idle, WriterState, Points, Locked
<1>3. LockOK'
  BY <1>2, ReleaseKeepsLock DEF FailWrite
<1> QED  BY <1>1, <1>2, <1>3, PartKeepsLinked, StepOfHolder DEF FailWrite

LEMMA CrashStep == ASSUME Inv, NEW r \in Replicas, Crash(r)  PROVE Inv'
<1>1. WriterOK'
  <2>1. <<>> \in Seq(Nat)
    OBVIOUS
  <2> QED  BY <2>1 DEF Inv, WriterOK, Crash, Idle, WriterState, Points, Locked
<1>2. /\ writer'[r].pc = "idle"
      /\ \A k \in Replicas : k # r => writer'[k] = writer[k]
  BY DEF Inv, WriterOK, Crash, Idle, WriterState, Points, Locked
<1>3. LockOK'
  BY <1>2, ReleaseKeepsLock DEF Crash
<1> QED  BY <1>1, <1>2, <1>3, PartKeepsLinked, StepOfHolder DEF Crash

(* What one replica does to the log. *)
LogStep(r) ==
  \/ Request(r) \/ Take(r) \/ Lock(r) \/ Rotate(r) \/ Sign(r) \/ AppendLine(r) \/ EndLine(r)
  \/ Exporting(r) \/ FailRotate(r) \/ SignUnread(r) \/ FailWrite(r) \/ Crash(r)

LEMMA NextInv ==
  ASSUME Inv, UNCHANGED vars \/ \E r \in Replicas : LogStep(r)
  PROVE  Inv'
<1>1. CASE UNCHANGED vars
  <2>1. UNCHANGED <<made, queue, dropped, writer, holder>> /\ UNCHANGED files
    BY <1>1 DEF vars, files
  <2>2. WriterOK' /\ LockOK' /\ SignedLast'
    BY <2>1, UntouchedFiles DEF Inv, WriterOK, LockOK, SignedLast
  <2> QED  BY <2>1, <2>2, UntouchedFiles DEF Inv
<1>2. CASE \E r \in Replicas : LogStep(r)
  BY <1>2, TakeStep, LockStep, RotateStep, SignStep, AppendStep, EndStep, ExportStep,
     RequestStep, FailRotateStep, SignUnreadStep, FailWriteStep, CrashStep DEF LogStep
<1> QED  BY <1>1, <1>2

LEMMA NextIsLogStep == [Next]_vars => UNCHANGED vars \/ \E r \in Replicas : LogStep(r)
<1> SUFFICES ASSUME NEW r \in Replicas, Export(r)  PROVE Exporting(r)
  BY DEF Next, Write, LogStep
<1> QED  BY DEF Export, Exporting

(* Through errors, torn lines, crashes and rotations, every readable       *)
(* record names the readable record before it, unless a segment could not  *)
(* be read when it was signed (audit.rs:183, audit.rs:207).                *)
THEOREM OnlyMisreadsFork == Spec => []ForksAreMisreads
<1>1. Inv => ForksAreMisreads
  BY DEF Inv
<1>2. Inv /\ [Next]_vars => Inv'
  BY NextInv, NextIsLogStep
<1> QED  BY <1>1, <1>2, InitInv, PTL DEF Spec

-----------------------------------------------------------------------------
(***************************************************************************)
(* Counting.  Counters that differ at one replica only differ in what they *)
(* come to by what that replica has counted.                               *)
(***************************************************************************)
LEMMA TallyDef ==
  ASSUME NEW f, NEW p
  PROVE  p \in Tally(f) <=> \E k \in Replicas : \E i \in 1 .. f[k] : p = <<k, i>>
BY DEF Tally

LEMMA CountedAtOne ==
  ASSUME NEW f \in [Replicas -> Nat], NEW g \in [Replicas -> Nat], NEW r \in Replicas,
         \A k \in Replicas : k # r => f[k] = g[k],
         g[r] <= f[r]
  PROVE  /\ IsFiniteSet(Tally(f)) <=> IsFiniteSet(Tally(g))
         /\ IsFiniteSet(Tally(g)) =>
              /\ Cardinality(Tally(g)) \in Nat
              /\ Cardinality(Tally(f)) = Cardinality(Tally(g)) + (f[r] - g[r])
<1> DEFINE more == {r} \X (g[r] + 1 .. f[r])
<1>1. Tally(g) \cap more = {}
  <2> SUFFICES ASSUME NEW p \in Tally(g), p \in more  PROVE FALSE
    OBVIOUS
  <2>1. PICK k \in Replicas : \E i \in 1 .. g[k] : p = <<k, i>>
    BY TallyDef
  <2>2. PICK i \in 1 .. g[k] : p = <<k, i>>
    BY <2>1
  <2>3. PICK j \in g[r] + 1 .. f[r] : p = <<r, j>>
    OBVIOUS
  <2>4. k = r /\ i = j
    BY <2>2, <2>3
  <2> QED  BY <2>2, <2>3, <2>4
<1>2. Tally(f) = Tally(g) \cup more
  <2>1. ASSUME NEW p \in Tally(f)  PROVE p \in Tally(g) \cup more
    <3>0. PICK k \in Replicas : \E i \in 1 .. f[k] : p = <<k, i>>
      BY <2>1, TallyDef
    <3>1. PICK i \in 1 .. f[k] : p = <<k, i>>
      BY <3>0
    <3>2. CASE k = r /\ i > g[r]
      <4>1. i \in g[r] + 1 .. f[r]
        BY <3>2, <3>1
      <4> QED  BY <4>1, <3>1, <3>2
    <3>3. CASE ~(k = r /\ i > g[r])
      <4>1. i \in 1 .. g[k]
        BY <3>3, <3>1
      <4> QED  BY <4>1, <3>1, TallyDef
    <3> QED  BY <3>2, <3>3
  <2>2. ASSUME NEW p \in Tally(g)  PROVE p \in Tally(f)
    <3>0. PICK k \in Replicas : \E i \in 1 .. g[k] : p = <<k, i>>
      BY <2>2, TallyDef
    <3>1. PICK i \in 1 .. g[k] : p = <<k, i>>
      BY <3>0
    <3>2. i \in 1 .. f[k]
      BY <3>1
    <3> QED  BY <3>1, <3>2, TallyDef
  <2>3. ASSUME NEW p \in more  PROVE p \in Tally(f)
    <3>1. PICK j \in g[r] + 1 .. f[r] : p = <<r, j>>
      BY <2>3
    <3>2. j \in 1 .. f[r]
      BY <3>1
    <3> QED  BY <3>1, <3>2, TallyDef
  <2> HIDE DEF more
  <2> QED  BY <2>1, <2>2, <2>3
<1>3. IsFiniteSet(more) /\ Cardinality(more) = f[r] - g[r]
  <2>1. g[r] + 1 \in Int /\ f[r] \in Int /\ g[r] \in Int
    OBVIOUS
  <2>2. /\ IsFiniteSet(g[r] + 1 .. f[r])
        /\ Cardinality(g[r] + 1 .. f[r]) = IF g[r] + 1 > f[r] THEN 0 ELSE f[r] - (g[r] + 1) + 1
    BY <2>1, FS_Interval
  <2>3. Cardinality(g[r] + 1 .. f[r]) = f[r] - g[r]
    BY <2>1, <2>2
  <2>4. IsFiniteSet({r}) /\ Cardinality({r}) = 1
    BY FS_Singleton
  <2> DEFINE n == Cardinality(g[r] + 1 .. f[r])
  <2>5. IsFiniteSet(more) /\ Cardinality(more) = Cardinality({r}) * n
    BY <2>2, <2>4, FS_Product
  <2>6. n \in Int
    BY <2>1, <2>3
  <2> HIDE DEF n, more
  <2>7. Cardinality(more) = n
    BY <2>4, <2>5, <2>6
  <2> QED  BY <2>3, <2>5, <2>7 DEF n
<1> HIDE DEF more
<1>4. ASSUME IsFiniteSet(Tally(f))  PROVE IsFiniteSet(Tally(g))
  BY <1>2, <1>4, FS_Subset
<1>5. ASSUME IsFiniteSet(Tally(g))
      PROVE  /\ IsFiniteSet(Tally(f)) /\ Cardinality(Tally(g)) \in Nat
             /\ Cardinality(Tally(f)) = Cardinality(Tally(g)) + (f[r] - g[r])
  <2>1. Cardinality(Tally(g)) \in Nat
    BY <1>5, FS_CardinalityType
  <2>2. IsFiniteSet(Tally(g) \cup more)
    BY <1>3, <1>5, FS_Union
  <2>3. /\ Cardinality(Tally(g) \cup more)
             = Cardinality(Tally(g)) + Cardinality(more) - Cardinality(Tally(g) \cap more)
    BY <1>3, <1>5, FS_Union
  <2>4. Cardinality(Tally(g) \cap more) = 0
    BY <1>1, FS_EmptySet
  <2> QED  BY <1>2, <1>3, <2>1, <2>2, <2>3, <2>4
<1> QED  BY <1>4, <1>5

LEMMA NothingCounted ==
  ASSUME NEW f, \A k \in Replicas : f[k] = 0
  PROVE  IsFiniteSet(Tally(f)) /\ Cardinality(Tally(f)) = 0
<1>1. Tally(f) = {}
  BY TallyDef
<1> QED  BY <1>1, FS_EmptySet

-----------------------------------------------------------------------------
(* What the rest of the log's state is.                                    *)
LogTyped ==
  /\ drops \in Nat /\ reported \in Nat /\ failures \in Nat
  /\ \A r \in Replicas : Len(queue[r]) <= Capacity
  /\ holder \in Replicas \cup {None}

LEMMA TypedLogStep ==
  ASSUME Inv, LogTyped, UNCHANGED vars \/ \E r \in Replicas : LogStep(r)
  PROVE  LogTyped'
<1>1. CASE UNCHANGED vars
  BY <1>1 DEF vars, LogTyped
<1>2. ASSUME NEW r \in Replicas, LogStep(r)  PROVE LogTyped'
  <2>1. writer[r] \in WriterState /\ queue[r] \in Seq(Nat) /\ \A k \in Replicas : queue[k] \in Seq(Nat)
    BY DEF Inv, WriterOK
  <2>2. CASE Request(r)
    <3>1. \A k \in Replicas : Len(queue'[k]) <= Capacity
      <4>1. CASE Len(queue[r]) < Capacity
        <5>1. queue' = [queue EXCEPT ![r] = Append(queue[r], made + 1)]
          BY <2>2, <4>1 DEF Request
        <5>2. Len(Append(queue[r], made + 1)) = Len(queue[r]) + 1 /\ Len(queue[r]) \in Nat
          BY <2>1
        <5>3. \A k \in Replicas : queue'[k] = IF k = r THEN Append(queue[r], made + 1) ELSE queue[k]
          BY <5>1 DEF Inv, WriterOK
        <5>4. Len(queue'[r]) <= Capacity
          <6>1. PICK q : q = Append(queue[r], made + 1)
            OBVIOUS
          <6>2. queue'[r] = q
            BY <5>3, <6>1
          <6>3. Len(q) = Len(queue[r]) + 1
            BY <5>2, <6>1
          <6> QED  BY <4>1, <5>2, <6>2, <6>3, AuditAssumption
        <5>5. \A k \in Replicas : k # r => Len(queue'[k]) <= Capacity
          BY <5>3 DEF LogTyped
        <5> QED  BY <5>4, <5>5
      <4>2. CASE ~(Len(queue[r]) < Capacity)
        BY <2>2, <4>2 DEF Request, LogTyped
      <4> QED  BY <4>1, <4>2
    <3> QED  BY <2>2, <3>1 DEF Request, LogTyped
  <2>3. CASE Take(r)
    <3>1. \A k \in Replicas : queue'[k] = IF k = r THEN Tail(queue[r]) ELSE queue[k]
      BY <2>3 DEF Take, Inv, WriterOK
    <3>2. Len(Tail(queue[r])) = Len(queue[r]) - 1 /\ Len(queue[r]) \in Nat
      BY <2>1, <2>3 DEF Take
    <3>3. Len(queue'[r]) <= Capacity
      <4>1. PICK q : q = Tail(queue[r])
        OBVIOUS
      <4>2. queue'[r] = q
        BY <3>1, <4>1
      <4>3. Len(q) = Len(queue[r]) - 1 /\ Len(queue[r]) <= Capacity
        BY <3>2, <4>1 DEF LogTyped
      <4> QED  BY <3>2, <4>2, <4>3, AuditAssumption
    <3>4. \A k \in Replicas : k # r => Len(queue'[k]) <= Capacity
      BY <3>1 DEF LogTyped
    <3> QED  BY <2>3, <3>3, <3>4 DEF Take, LogTyped
  <2>4. CASE EndLine(r)
    BY <2>1, <2>4 DEF EndLine, LogTyped, WriterState
  <2>5. CASE Crash(r)
    <3>1. \A k \in Replicas : queue'[k] = IF k = r THEN <<>> ELSE queue[k]
      BY <2>5 DEF Crash, Inv, WriterOK
    <3>2. \A k \in Replicas : Len(queue'[k]) <= Capacity
      BY <3>1, AuditAssumption DEF LogTyped
    <3> QED  BY <2>5, <3>2 DEF Crash, Release, LogTyped
  <2>6. CASE Lock(r) \/ Rotate(r) \/ Sign(r) \/ AppendLine(r) \/ Exporting(r) \/ FailRotate(r) \/ FailWrite(r)
    BY <2>6 DEF Lock, Rotate, Sign, AppendLine, Exporting, FailRotate, FailWrite, Release, LogTyped
  <2>7. CASE SignUnread(r)
    <3>1. Unread(r)
      BY <2>7, SignsUnread
    <3> QED  BY <3>1 DEF Unread, LogTyped
  <2> QED  BY <1>2, <2>2, <2>3, <2>4, <2>5, <2>6, <2>7 DEF LogStep
<1> QED  BY <1>1, <1>2

-----------------------------------------------------------------------------
(* A drop is counted, taken over by a record, and reported.                *)
Reporting(w) == w.pc \notin {"export", "posted"}

DropsKept ==
  failures = 0 =>
    IsFiniteSet(Tally(StillToReport)) /\ reported + Cardinality(Tally(StillToReport)) = drops

ToReport(d, w) == d + IF Reporting(w) THEN w.missed ELSE 0

LEMMA StillToReportType ==
  ASSUME Inv, Inv'
  PROVE  /\ StillToReport \in [Replicas -> Nat] /\ StillToReport' \in [Replicas -> Nat]
         /\ \A k \in Replicas : /\ StillToReport[k] = ToReport(dropped[k], writer[k])
                                /\ StillToReport'[k] = ToReport(dropped'[k], writer'[k])
<1>1. \A k \in Replicas : dropped[k] \in Nat /\ dropped'[k] \in Nat
                            /\ writer[k].missed \in Nat /\ writer'[k].missed \in Nat
  BY DEF Inv, WriterOK, WriterState
<1>2. \A k \in Replicas : ToReport(dropped[k], writer[k]) \in Nat /\ ToReport(dropped'[k], writer'[k]) \in Nat
  BY <1>1 DEF ToReport
<1>3. StillToReport = [k \in Replicas |-> ToReport(dropped[k], writer[k])]
  BY DEF StillToReport, ToReport, Reporting
<1>4. StillToReport' = [k \in Replicas |-> ToReport(dropped'[k], writer'[k])]
  BY DEF StillToReport, ToReport, Reporting
<1> QED  BY <1>2, <1>3, <1>4

(* A step of r that does not fail, and how it changes the two histories.   *)
LEMMA OneReports ==
  ASSUME Inv, Inv', LogTyped, LogTyped', DropsKept, NEW r \in Replicas, failures' = failures,
         \A k \in Replicas : k # r => dropped'[k] = dropped[k] /\ writer'[k] = writer[k],
         StillToReport'[r] - StillToReport[r] = (drops' - drops) - (reported' - reported)
  PROVE  DropsKept'
<1> DEFINE f == StillToReport
           g == StillToReport'
<1>1. f \in [Replicas -> Nat] /\ g \in [Replicas -> Nat]
  BY StillToReportType
<1>2. \A k \in Replicas : k # r => f[k] = g[k]
  BY StillToReportType
<1>3. drops \in Nat /\ drops' \in Nat /\ reported \in Nat /\ reported' \in Nat
  BY DEF LogTyped
<1> SUFFICES ASSUME failures = 0
             PROVE  IsFiniteSet(Tally(g)) /\ reported' + Cardinality(Tally(g)) = drops'
  BY DEF DropsKept, Tally
<1>4. IsFiniteSet(Tally(f)) /\ reported + Cardinality(Tally(f)) = drops
  BY DEF DropsKept
<1>5. g[r] - f[r] = (drops' - drops) - (reported' - reported)
  OBVIOUS
<1> HIDE DEF f, g
<1>6. CASE f[r] <= g[r]
  <2>1. /\ IsFiniteSet(Tally(g)) <=> IsFiniteSet(Tally(f))
        /\ IsFiniteSet(Tally(f)) => /\ Cardinality(Tally(f)) \in Nat
                                    /\ Cardinality(Tally(g)) = Cardinality(Tally(f)) + (g[r] - f[r])
    BY <1>1, <1>2, <1>6, CountedAtOne
  <2> QED  BY <1>1, <1>3, <1>4, <1>5, <2>1
<1>7. CASE g[r] <= f[r]
  <2>1. /\ IsFiniteSet(Tally(f)) <=> IsFiniteSet(Tally(g))
        /\ IsFiniteSet(Tally(g)) => /\ Cardinality(Tally(g)) \in Nat
                                    /\ Cardinality(Tally(f)) = Cardinality(Tally(g)) + (f[r] - g[r])
    BY <1>1, <1>2, <1>7, CountedAtOne
  <2> QED  BY <1>1, <1>3, <1>4, <1>5, <2>1
<1> QED  BY <1>1, <1>6, <1>7

LEMMA UnreportedKept ==
  ASSUME Inv, Inv', DropsKept, NEW r \in Replicas, UNCHANGED <<drops, reported, failures>>,
         \A k \in Replicas : k # r => dropped'[k] = dropped[k] /\ writer'[k] = writer[k],
         ToReport(dropped'[r], writer'[r]) = ToReport(dropped[r], writer[r])
  PROVE  DropsKept'
<1>1. StillToReport' = StillToReport
  BY StillToReportType
<1> QED  BY <1>1 DEF DropsKept, Tally

LEMMA DropsKeptStep ==
  ASSUME Inv, LogTyped, DropsKept, UNCHANGED vars \/ \E r \in Replicas : LogStep(r)
  PROVE  DropsKept'
<1>1. Inv' /\ LogTyped'
  BY NextInv, TypedLogStep
<1>2. CASE UNCHANGED vars
  BY <1>2 DEF vars, DropsKept, Tally, StillToReport
<1>3. ASSUME NEW r \in Replicas, LogStep(r)  PROVE DropsKept'
  <2>1. \A k \in Replicas : writer[k] \in WriterState /\ writer'[k] \in WriterState
                              /\ dropped[k] \in Nat /\ dropped'[k] \in Nat
    BY <1>1 DEF Inv, WriterOK
  <2>2. \A k \in Replicas :
          /\ StillToReport[k] = ToReport(dropped[k], writer[k])
          /\ StillToReport'[k] = ToReport(dropped'[k], writer'[k])
    BY <1>1, StillToReportType
  <2>3. CASE FailRotate(r) \/ FailWrite(r) \/ Crash(r)
    BY <2>3 DEF FailRotate, FailWrite, Crash, LogTyped, DropsKept
  <2>4. CASE Request(r)
    <3>1. CASE Len(queue[r]) < Capacity
      BY <1>1, <2>2, <2>4, <3>1, UnreportedKept DEF Request
    <3>2. CASE ~(Len(queue[r]) < Capacity)
      <4>1. /\ \A k \in Replicas : dropped'[k] = IF k = r THEN dropped[k] + 1 ELSE dropped[k]
            /\ drops' = drops + 1 /\ UNCHANGED <<writer, reported, failures>>
        BY <2>4, <3>2 DEF Request, Inv, WriterOK
      <4>2. ToReport(dropped'[r], writer'[r]) - ToReport(dropped[r], writer[r]) = 1
        BY <2>1, <4>1 DEF ToReport, WriterState
      <4>3. (drops' - drops) - (reported' - reported) = 1
        BY <4>1 DEF LogTyped
      <4> QED  BY <1>1, <2>2, <4>1, <4>2, <4>3, OneReports
    <3> QED  BY <3>1, <3>2
  <2>5. CASE Take(r)
    <3>1. /\ \A k \in Replicas : dropped'[k] = IF k = r THEN 0 ELSE dropped[k]
          /\ UNCHANGED <<drops, reported, failures>> /\ writer[r].pc = "idle"
      BY <2>5 DEF Take, Inv, WriterOK
    <3>2. /\ writer'[r].pc = "lock" /\ writer'[r].missed = writer[r].missed + dropped[r]
          /\ \A k \in Replicas : k # r => writer'[k] = writer[k]
      BY <2>5 DEF Take, Inv, WriterOK, WriterState
    <3>3. ToReport(dropped'[r], writer'[r]) = ToReport(dropped[r], writer[r])
      BY <2>1, <3>1, <3>2 DEF ToReport, WriterState, Reporting
    <3> QED  BY <1>1, <2>2, <3>1, <3>2, <3>3, UnreportedKept
  <2>6. CASE EndLine(r)
    <3>1. /\ writer[r].pc = "end" /\ reported' = reported + writer[r].missed
          /\ UNCHANGED <<dropped, drops, failures>>
      BY <2>6 DEF EndLine
    <3>2. writer'[r].pc = "export" /\ \A k \in Replicas : k # r => writer'[k] = writer[k]
      BY <2>6 DEF EndLine, Goto, Inv, WriterOK, WriterState
    <3>3. ToReport(dropped'[r], writer'[r]) - ToReport(dropped[r], writer[r]) = 0 - writer[r].missed
      BY <2>1, <3>1, <3>2 DEF ToReport, WriterState, Reporting
    <3>4. (drops' - drops) - (reported' - reported) = 0 - writer[r].missed
      BY <2>1, <3>1 DEF LogTyped, WriterState
    <3> QED  BY <1>1, <2>2, <3>1, <3>2, <3>3, <3>4, OneReports
  <2>7. CASE Exporting(r)
    <3>1. /\ writer[r].pc \in {"export", "posted"} /\ UNCHANGED <<dropped, drops, reported, failures>>
      BY <2>7 DEF Exporting
    <3>2. /\ writer'[r].pc = "posted" \/ writer'[r].missed = 0
          /\ \A k \in Replicas : k # r => writer'[k] = writer[k]
      BY <2>7 DEF Exporting, Goto, Idle, Inv, WriterOK, WriterState
    <3>3. ToReport(dropped'[r], writer'[r]) = ToReport(dropped[r], writer[r])
      BY <2>1, <3>1, <3>2 DEF ToReport, WriterState, Reporting
    <3> QED  BY <1>1, <2>2, <3>1, <3>2, <3>3, UnreportedKept
  <2>8. CASE Lock(r) \/ Rotate(r) \/ Sign(r) \/ AppendLine(r)
    <3>1. /\ writer[r].pc \in {"lock", "rotate", "sign", "append"}
          /\ UNCHANGED <<dropped, drops, reported, failures>>
      BY <2>8 DEF Lock, Rotate, Sign, AppendLine
    <3>2. /\ writer'[r].pc \in Locked /\ writer'[r].missed = writer[r].missed
          /\ \A k \in Replicas : k # r => writer'[k] = writer[k]
      BY <2>8 DEF Lock, Rotate, Sign, AppendLine, Goto, Inv, WriterOK, WriterState, Locked
    <3>3. ToReport(dropped'[r], writer'[r]) = ToReport(dropped[r], writer[r])
      BY <2>1, <3>1, <3>2 DEF ToReport, WriterState, Reporting, Locked
    <3> QED  BY <1>1, <2>2, <3>1, <3>2, <3>3, UnreportedKept
  <2>9. CASE SignUnread(r)
    <3>1. Unread(r)
      BY <2>9, SignsUnread
    <3>2. CASE failures' = failures + 1
      BY <3>2 DEF LogTyped, DropsKept
    <3>3. CASE failures' = failures
      <4>1. ToReport(dropped'[r], writer'[r]) = ToReport(dropped[r], writer[r])
        BY <3>1 DEF Unread, ToReport, Reporting
      <4> QED  BY <1>1, <3>1, <3>3, <4>1, UnreportedKept DEF Unread
    <3> QED  BY <3>1, <3>2, <3>3 DEF Unread
  <2> QED  BY <1>3, <2>3, <2>4, <2>5, <2>6, <2>7, <2>8, <2>9 DEF LogStep
<1> QED  BY <1>2, <1>3

LEMMA InitLog == Init => LogTyped /\ DropsKept
<1> SUFFICES ASSUME Init  PROVE LogTyped /\ DropsKept
  OBVIOUS
<1>1. LogTyped
  BY AuditAssumption DEF Init, LogTyped
<1>2. \A k \in Replicas : StillToReport[k] = 0
  BY DEF Init, StillToReport, Idle
<1>3. IsFiniteSet(Tally(StillToReport)) /\ Cardinality(Tally(StillToReport)) = 0
  BY <1>2, NothingCounted
<1> QED  BY <1>1, <1>3 DEF Init, DropsKept

-----------------------------------------------------------------------------
(***************************************************************************)
(* The replicas with their collector implement the log.                    *)
(***************************************************************************)
(* What a writer is doing, as the log sees it. *)
Abs(w) == IF w.pc = "posted" THEN [w EXCEPT !.pc = "export"] ELSE w

Mapped == [r \in Replicas |-> IF writer[r].pc = "posted" THEN [writer[r] EXCEPT !.pc = "export"]
                                                         ELSE writer[r]]

(* A writer's state is a record of these fields. *)
State(pc, rec, missed, prev) == [pc |-> pc, rec |-> rec, missed |-> missed, prev |-> prev]

Shaped(w) == w = State(w.pc, w.rec, w.missed, w.prev)

Shape == writer = [r \in Replicas |-> writer[r]] /\ \A r \in Replicas : Shaped(writer[r])

LEMMA StateShaped ==
  ASSUME NEW pc, NEW rec, NEW missed, NEW prev
  PROVE  /\ Shaped(State(pc, rec, missed, prev))
         /\ State(pc, rec, missed, prev).pc = pc
         /\ State(pc, rec, missed, prev).rec = rec
         /\ State(pc, rec, missed, prev).missed = missed
         /\ State(pc, rec, missed, prev).prev = prev
BY DEF Shaped, State

LEMMA ExceptShaped ==
  ASSUME NEW w, Shaped(w), NEW pc
  PROVE  [w EXCEPT !.pc = pc] = State(pc, w.rec, w.missed, w.prev)
<1>1. w = [pc |-> w.pc, rec |-> w.rec, missed |-> w.missed, prev |-> w.prev]
  BY DEF Shaped, State
<1>2. [[pc |-> w.pc, rec |-> w.rec, missed |-> w.missed, prev |-> w.prev] EXCEPT !.pc = pc]
        = [pc |-> pc, rec |-> w.rec, missed |-> w.missed, prev |-> w.prev]
  OBVIOUS
<1> QED  BY <1>1, <1>2 DEF State

LEMMA TakenShaped ==
  ASSUME NEW w, Shaped(w), NEW rec, NEW total
  PROVE  [w EXCEPT !.pc = "lock", !.rec = rec, !.missed = total] = State("lock", rec, total, w.prev)
<1> DEFINE v1 == [w EXCEPT !.pc = "lock"]
           v2 == [v1 EXCEPT !.rec = rec]
           v3 == [v2 EXCEPT !.missed = total]
<1>1. v1 = [pc |-> "lock", rec |-> w.rec, missed |-> w.missed, prev |-> w.prev]
  BY ExceptShaped DEF State
<1>2. v2 = [pc |-> "lock", rec |-> rec, missed |-> w.missed, prev |-> w.prev]
  <2> HIDE DEF v1
  <2> QED  BY <1>1
<1>3. v3 = [pc |-> "lock", rec |-> rec, missed |-> total, prev |-> w.prev]
  <2> HIDE DEF v2
  <2> QED  BY <1>2
<1> QED  BY <1>3 DEF State

LEMMA SignedShaped ==
  ASSUME NEW w, Shaped(w), NEW prev
  PROVE  [w EXCEPT !.pc = "append", !.prev = prev] = State("append", w.rec, w.missed, prev)
<1> DEFINE v1 == [w EXCEPT !.pc = "append"]
           v2 == [v1 EXCEPT !.prev = prev]
<1>1. v1 = [pc |-> "append", rec |-> w.rec, missed |-> w.missed, prev |-> w.prev]
  BY ExceptShaped DEF State
<1>2. v2 = [pc |-> "append", rec |-> w.rec, missed |-> w.missed, prev |-> prev]
  <2> HIDE DEF v1
  <2> QED  BY <1>1
<1> QED  BY <1>2 DEF State

LEMMA AbsState ==
  ASSUME NEW w, Shaped(w)
  PROVE  /\ w.pc # "posted" => Abs(w) = w
         /\ w.pc = "posted" => Abs(w) = State("export", w.rec, w.missed, w.prev)
         /\ Abs(w).pc = (IF w.pc = "posted" THEN "export" ELSE w.pc)
BY ExceptShaped, StateShaped DEF Abs

(* A step of one writer, from a state and to a state. *)
LEMMA OneWriter ==
  ASSUME Shape, NEW r \in Replicas, NEW w, Shaped(w), writer' = [writer EXCEPT ![r] = w]
  PROVE  /\ Shape'
         /\ Mapped[r] = Abs(writer[r])
         /\ Mapped' = [Mapped EXCEPT ![r] = Abs(w)]
<1>1. writer' = [k \in Replicas |-> IF k = r THEN w ELSE writer[k]]
  BY DEF Shape
<1>2. Shape'
  BY <1>1 DEF Shape
<1>3. Mapped = [k \in Replicas |-> Abs(writer[k])]
  BY DEF Mapped, Abs
<1>4. Mapped' = [k \in Replicas |-> Abs(writer'[k])]
  BY DEF Mapped, Abs
<1>5. Mapped' = [k \in Replicas |-> IF k = r THEN Abs(w) ELSE Abs(writer[k])]
  BY <1>1, <1>4
<1> QED  BY <1>2, <1>3, <1>5

(* Where only the step of the program changes. *)
LEMMA OneGoto ==
  ASSUME Shape, NEW r \in Replicas, NEW pc, Goto(r, pc),
         writer[r].pc # "posted", pc # "posted"
  PROVE  /\ Shape'
         /\ Mapped[r] = writer[r]
         /\ Mapped' = [Mapped EXCEPT ![r].pc = pc]
<1> DEFINE w == [writer[r] EXCEPT !.pc = pc]
<1>1. w = State(pc, writer[r].rec, writer[r].missed, writer[r].prev)
  BY ExceptShaped DEF Shape
<1>2. writer' = [writer EXCEPT ![r] = w]
  BY DEF Goto
<1>3. Shaped(w) /\ w.pc = pc
  BY <1>1, StateShaped
<1>4. Mapped[r] = writer[r] /\ Abs(w) = w
  <2> HIDE DEF w
  <2> QED  BY <1>2, <1>3, OneWriter, AbsState DEF Shape
<1>5. Shape' /\ Mapped' = [Mapped EXCEPT ![r] = w]
  <2> HIDE DEF w
  <2> QED  BY <1>2, <1>3, <1>4, OneWriter
<1> QED  BY <1>4, <1>5

LEMMA Unmoved ==
  ASSUME Shape, UNCHANGED writer
  PROVE  Shape' /\ Mapped' = Mapped
BY DEF Shape, Mapped

-----------------------------------------------------------------------------
(* Each action, and what it is to the log. *)

LEMMA RequestMaps ==
  ASSUME Shape, NEW r \in Replicas, Request(r)
  PROVE  Shape' /\ AsLog!Request(r)
<1>1. Shape' /\ Mapped' = Mapped
  BY Unmoved DEF Request
<1> QED  BY <1>1 DEF Request, AsLog!Request, Mapped, files, AsLog!files

LEMMA TakeMaps ==
  ASSUME Shape, NEW r \in Replicas, Take(r)
  PROVE  Shape' /\ AsLog!Take(r)
<1> DEFINE w == [writer[r] EXCEPT !.pc = "lock", !.rec = Head(queue[r]), !.missed = @ + dropped[r]]
<1>1. writer' = [writer EXCEPT ![r] = w]
  BY DEF Take
<1>2. w = State("lock", Head(queue[r]), writer[r].missed + dropped[r], writer[r].prev)
  BY TakenShaped DEF Shape
<1>3. Shaped(w) /\ w.pc = "lock"
  BY <1>2, StateShaped
<1>4. Mapped[r] = writer[r] /\ Abs(w) = w
  <2> HIDE DEF w
  <2> QED  BY <1>1, <1>3, OneWriter, AbsState DEF Shape, Take
<1>5. Shape' /\ Mapped' = [Mapped EXCEPT ![r] = w]
  <2> HIDE DEF w
  <2> QED  BY <1>1, <1>3, <1>4, OneWriter
<1>6. Mapped' = [Mapped EXCEPT ![r].pc = "lock", ![r].rec = Head(queue[r]), ![r].missed = @ + dropped[r]]
  BY <1>4, <1>5
<1> QED  BY <1>4, <1>5, <1>6 DEF Take, AsLog!Take, Mapped, files, AsLog!files

LEMMA LockMaps ==
  ASSUME Shape, NEW r \in Replicas, Lock(r)
  PROVE  Shape' /\ AsLog!Lock(r)
<1>1. Shape' /\ Mapped[r] = writer[r] /\ Mapped' = [Mapped EXCEPT ![r].pc = "rotate"]
  BY OneGoto DEF Lock
<1> QED  BY <1>1 DEF Lock, AsLog!Lock, AsLog!Goto, Mapped, files, AsLog!files

LEMMA RotateMaps ==
  ASSUME Shape, NEW r \in Replicas, Rotate(r)
  PROVE  Shape' /\ AsLog!Rotate(r)
<1>1. Shape' /\ Mapped[r] = writer[r] /\ Mapped' = [Mapped EXCEPT ![r].pc = "sign"]
  BY OneGoto DEF Rotate
<1> QED  BY <1>1 DEF Rotate, AsLog!Rotate, AsLog!Goto, Mapped, files, AsLog!files

LEMMA FailRotateMaps ==
  ASSUME Shape, NEW r \in Replicas, FailRotate(r)
  PROVE  Shape' /\ AsLog!FailRotate(r)
<1>1. Shape' /\ Mapped[r] = writer[r] /\ Mapped' = [Mapped EXCEPT ![r].pc = "sign"]
  BY OneGoto DEF FailRotate
<1> QED  BY <1>1 DEF FailRotate, AsLog!FailRotate, AsLog!Goto, Mapped, files, AsLog!files

LEMMA SignMaps ==
  ASSUME Shape, NEW r \in Replicas, Sign(r)
  PROVE  Shape' /\ AsLog!Sign(r)
<1> DEFINE w == [writer[r] EXCEPT !.pc = "append", !.prev = LastHmac(Retained)]
<1>1. writer' = [writer EXCEPT ![r] = w]
  BY DEF Sign
<1>2. w = State("append", writer[r].rec, writer[r].missed, LastHmac(Retained))
  BY SignedShaped DEF Shape
<1>3. Shaped(w) /\ w.pc = "append"
  BY <1>2, StateShaped
<1>4. Mapped[r] = writer[r] /\ Abs(w) = w
  <2> HIDE DEF w
  <2> QED  BY <1>1, <1>3, OneWriter, AbsState DEF Shape, Sign
<1>5. Shape' /\ Mapped' = [Mapped EXCEPT ![r] = w]
  <2> HIDE DEF w
  <2> QED  BY <1>1, <1>3, <1>4, OneWriter
<1>6. Mapped' = [Mapped EXCEPT ![r].pc = "append", ![r].prev = AsLog!LastHmac(AsLog!Retained)]
  <2>1. AsLog!LastHmac(AsLog!Retained) = LastHmac(Retained)
    BY DEF AsLog!LastHmac, AsLog!Retained, AsLog!Readable, AsLog!LastReadable,
           LastHmac, Retained, Readable, LastReadable
  <2> QED  BY <1>4, <1>5, <2>1
<1> QED  BY <1>4, <1>5, <1>6 DEF Sign, AsLog!Sign, Mapped, files, AsLog!files

LEMMA SignUnreadMaps ==
  ASSUME Shape, NEW r \in Replicas, SignUnread(r)
  PROVE  Shape' /\ AsLog!SignUnread(r)
<1>1. PICK old \in {backup, <<>>}, log \in {current, <<>>} :
        /\ LastHmac(old \o log) # LastHmac(Retained)
        /\ writer' = [writer EXCEPT ![r].pc = "append", ![r].prev = LastHmac(old \o log)]
        /\ \/ (old = backup \/ Torn(backup)) /\ (log = current \/ Torn(current)) /\ UNCHANGED failures
           \/ failures < MaxFailures /\ failures' = failures + 1
  BY DEF SignUnread
<1> PICK prev : prev = LastHmac(old \o log)
  OBVIOUS
<1> DEFINE w == [writer[r] EXCEPT !.pc = "append", !.prev = prev]
<1>2. writer' = [writer EXCEPT ![r] = w]
  BY <1>1
<1>3. w = State("append", writer[r].rec, writer[r].missed, prev)
  BY SignedShaped DEF Shape
<1>4. Shaped(w) /\ w.pc = "append"
  BY <1>3, StateShaped
<1>5. Mapped[r] = writer[r] /\ Abs(w) = w
  <2> HIDE DEF w
  <2> QED  BY <1>2, <1>4, OneWriter, AbsState DEF Shape, SignUnread
<1>6. Shape' /\ Mapped' = [Mapped EXCEPT ![r] = w]
  <2> HIDE DEF w
  <2> QED  BY <1>2, <1>4, <1>5, OneWriter
<1>7. Mapped' = [Mapped EXCEPT ![r].pc = "append", ![r].prev = prev]
  BY <1>5, <1>6
<1>8. /\ AsLog!LastHmac(old \o log) = LastHmac(old \o log)
      /\ AsLog!LastHmac(AsLog!Retained) = LastHmac(Retained)
      /\ AsLog!Torn(backup) = Torn(backup) /\ AsLog!Torn(current) = Torn(current)
  BY DEF AsLog!LastHmac, AsLog!Retained, AsLog!Readable, AsLog!LastReadable, AsLog!Torn,
         LastHmac, Retained, Readable, LastReadable, Torn
<1>9. Mapped[r].pc = "sign" /\ Mapped[r].rec = writer[r].rec
  BY <1>5 DEF SignUnread
<1>10. /\ misread' = misread \cup {Mapped[r].rec}
       /\ UNCHANGED <<made, queue, dropped, holder, current, backup, unended, drops, reported>>
  BY <1>9 DEF SignUnread
<1> QED  BY <1>1, <1>6, <1>7, <1>8, <1>9, <1>10 DEF AsLog!SignUnread, Mapped

LEMMA AppendMaps ==
  ASSUME Shape, NEW r \in Replicas, AppendLine(r)
  PROVE  Shape' /\ AsLog!AppendLine(r)
<1>1. Shape' /\ Mapped[r] = writer[r] /\ Mapped' = [Mapped EXCEPT ![r].pc = "end"]
  BY OneGoto DEF AppendLine
<1> QED  BY <1>1 DEF AppendLine, AsLog!AppendLine, AsLog!Goto, Written, AsLog!Written,
                    Garbled, AsLog!Garbled, Mapped

LEMMA EndMaps ==
  ASSUME Shape, NEW r \in Replicas, EndLine(r)
  PROVE  Shape' /\ AsLog!EndLine(r)
<1>1. Shape' /\ Mapped[r] = writer[r] /\ Mapped' = [Mapped EXCEPT ![r].pc = "export"]
  BY OneGoto DEF EndLine
<1> QED  BY <1>1 DEF EndLine, AsLog!EndLine, AsLog!Goto, Mapped

(* A writer that stops waiting has exported its event, as far as the log   *)
(* is concerned.                                                           *)
LEMMA ReturnMaps ==
  ASSUME Shape, NEW r \in Replicas, NEW missed, writer' = [writer EXCEPT ![r] = Idle(missed)]
  PROVE  /\ Shape'
         /\ Mapped[r] = Abs(writer[r])
         /\ Mapped' = [Mapped EXCEPT ![r] = Idle(missed)]
<1>1. Idle(missed) = State("idle", 0, missed, 0)
  BY DEF Idle, State
<1>2. Shaped(Idle(missed)) /\ Idle(missed).pc = "idle"
  BY <1>1, StateShaped
<1>3. Abs(Idle(missed)) = Idle(missed)
  BY <1>2, AbsState
<1> QED  BY <1>2, <1>3, OneWriter

LEMMA GivenUpMaps ==
  ASSUME Shape, NEW r \in Replicas, writer[r].pc \in {"export", "posted"},
         writer' = [writer EXCEPT ![r] = Idle(0)],
         UNCHANGED <<made, queue, dropped, holder, files, drops, reported, failures>>
  PROVE  Shape' /\ AsLog!Export(r)
<1>1. Shape' /\ Mapped[r] = Abs(writer[r]) /\ Mapped' = [Mapped EXCEPT ![r] = Idle(0)]
  BY ReturnMaps
<1>2. Mapped[r].pc = "export"
  BY <1>1, AbsState DEF Shape
<1> QED  BY <1>1, <1>2 DEF AsLog!Export, Mapped, files, AsLog!files, Idle, AsLog!Idle

LEMMA PostedMaps ==
  ASSUME Shape, NEW r \in Replicas, Posted(r)
  PROVE  Shape' /\ UNCHANGED AsLog!vars
<1> DEFINE w == [writer[r] EXCEPT !.pc = "posted"]
<1>1. writer' = [writer EXCEPT ![r] = w]
  BY DEF Posted, Goto
<1>2. w = State("posted", writer[r].rec, writer[r].missed, writer[r].prev)
  BY ExceptShaped DEF Shape
<1>3. Shaped(w) /\ w.pc = "posted" /\ w.rec = writer[r].rec /\ w.missed = writer[r].missed /\ w.prev = writer[r].prev
  BY <1>2, StateShaped
<1>4. Abs(w) = writer[r] /\ Mapped[r] = writer[r]
  <2> HIDE DEF w
  <2>1. Abs(w) = State("export", writer[r].rec, writer[r].missed, writer[r].prev)
    BY <1>3, AbsState
  <2>2. writer[r] = State("export", writer[r].rec, writer[r].missed, writer[r].prev)
    BY DEF Shape, Shaped, Posted
  <2>3. Mapped[r] = writer[r]
    BY <1>1, <1>3, OneWriter, AbsState DEF Shape, Posted
  <2> QED  BY <2>1, <2>2, <2>3
<1>5. Shape' /\ Mapped' = [Mapped EXCEPT ![r] = Abs(w)]
  <2> HIDE DEF w
  <2> QED  BY <1>1, <1>3, OneWriter
<1>6. Mapped' = Mapped
  BY <1>4, <1>5 DEF Mapped
<1> QED  BY <1>5, <1>6 DEF Posted, AsLog!vars, Mapped, files

LEMMA FailWriteMaps ==
  ASSUME Shape, NEW r \in Replicas, FailWrite(r)
  PROVE  Shape' /\ AsLog!FailWrite(r)
<1>1. /\ Shape' /\ Mapped[r] = Abs(writer[r])
      /\ Mapped' = [Mapped EXCEPT ![r] = Idle(writer[r].missed)]
  BY ReturnMaps DEF FailWrite
<1>2. Mapped[r] = writer[r]
  BY <1>1, AbsState DEF Shape, FailWrite
<1> QED  BY <1>1, <1>2 DEF FailWrite, AsLog!FailWrite, MaybePart, AsLog!MaybePart, Written, AsLog!Written,
           Garbled, AsLog!Garbled, Release, AsLog!Release, files, AsLog!files, Idle, AsLog!Idle, Mapped

LEMMA CrashMaps ==
  ASSUME Shape, NEW r \in Replicas, Crash(r)
  PROVE  Shape' /\ AsLog!Crash(r)
<1>1. /\ Shape' /\ Mapped[r] = Abs(writer[r])
      /\ Mapped' = [Mapped EXCEPT ![r] = Idle(0)]
  BY ReturnMaps DEF Crash
<1>2. writer[r].pc = "append" => Mapped[r].pc = "append"
  BY <1>1, AbsState DEF Shape
<1> QED  BY <1>1, <1>2 DEF Crash, AsLog!Crash, MaybePart, AsLog!MaybePart, Written, AsLog!Written,
           Garbled, AsLog!Garbled, Release, AsLog!Release, files, AsLog!files, Idle, AsLog!Idle, Mapped

LEMMA StutterMaps ==
  ASSUME Shape, UNCHANGED vars
  PROVE  Shape' /\ UNCHANGED AsLog!vars
<1>1. Shape' /\ Mapped' = Mapped
  BY Unmoved DEF vars
<1> QED  BY <1>1 DEF vars, AsLog!vars, Mapped

-----------------------------------------------------------------------------
LEMMA InitMaps == CollectorInit => Shape /\ AsLog!Init
<1> SUFFICES ASSUME CollectorInit PROVE Shape /\ AsLog!Init
  OBVIOUS
<1>1. Idle(0) = State("idle", 0, 0, 0)
  BY DEF Idle, State
<1>2. Shaped(Idle(0)) /\ Idle(0).pc = "idle"
  BY <1>1, StateShaped
<1>3. writer = [r \in Replicas |-> Idle(0)]
  BY DEF CollectorInit, Init
<1>4. Mapped = [r \in Replicas |-> Idle(0)]
  BY <1>2, <1>3 DEF Mapped
<1> QED  BY <1>2, <1>3, <1>4 DEF CollectorInit, Init, AsLog!Init, Shape, Mapped, Idle, AsLog!Idle

LEMMA StepMaps ==
  ASSUME Shape, [CollectorNext]_allVars
  PROVE  Shape' /\ [AsLog!Next]_(AsLog!vars)
<1>1. CASE UNCHANGED vars
  BY <1>1, StutterMaps
<1>2. ASSUME NEW r \in Replicas, LogWrite(r)  PROVE Shape' /\ AsLog!Write(r)
  BY <1>2, TakeMaps, LockMaps, RotateMaps, SignMaps, AppendMaps, EndMaps DEF LogWrite, AsLog!Write
<1>3. ASSUME NEW r \in Replicas, WriterStep(r)  PROVE Shape' /\ [AsLog!Next]_(AsLog!vars)
  <2>1. CASE LogWrite(r)
    BY <1>2, <2>1 DEF AsLog!Next
  <2>2. CASE Posted(r)
    BY <2>2, PostedMaps
  <2>3. CASE Delivered(r) \/ GiveUp(r)
    <3>1. Shape' /\ AsLog!Export(r)
      BY <2>3, GivenUpMaps DEF Delivered, GiveUp
    <3> QED  BY <3>1 DEF AsLog!Next, AsLog!Write
  <2> QED  BY <1>3, <2>1, <2>2, <2>3 DEF WriterStep
<1>4. ASSUME NEW r \in Replicas, LogOther(r) \/ ReplicaCrash(r)
      PROVE  Shape' /\ [AsLog!Next]_(AsLog!vars)
  BY <1>4, RequestMaps, FailRotateMaps, SignUnreadMaps, FailWriteMaps, CrashMaps DEF LogOther, ReplicaCrash, AsLog!Next
<1>5. CASE Admit \/ CollectorCrash \/ \E e \in Events : Accept(e) \/ WorkerStep(e) \/ FailStore(e)
  <2>1. UNCHANGED vars
    BY <1>5 DEF Admit, CollectorCrash, Accept, WorkerStep, LockStore, AppendEvent, EndEvent,
                Answer, Leave, FailStore, Counted
  <2> QED  BY <2>1, <1>1
<1>6. CASE UNCHANGED allVars
  BY <1>1, <1>6 DEF allVars
<1> QED  BY <1>3, <1>4, <1>5, <1>6 DEF CollectorNext

(* Posting, its failures and the collector's leave the log alone           *)
(* (audit.rs:85): to the log, each step is one of its own or none.         *)
THEOREM CollectorImplementsLog == CollectorSpec => ImplementsLog
<1>1. Shape /\ [CollectorNext]_allVars => Shape' /\ [AsLog!Next]_(AsLog!vars)
  BY StepMaps
<1> QED  BY <1>1, InitMaps, PTL DEF CollectorSpec, ImplementsLog

-----------------------------------------------------------------------------
(* Each step of the system is one of a replica's on the log, or leaves the *)
(* log's own variables alone.                                              *)
LEMMA PostingExports ==
  ASSUME NEW r \in Replicas, Posted(r) \/ Delivered(r) \/ GiveUp(r)
  PROVE  Exporting(r)
BY DEF Posted, Delivered, GiveUp, Exporting

(* What the collector does alone. *)
CollectorSide ==
  \/ \E e \in Events : Accept(e) \/ WorkerStep(e) \/ FailStore(e)
  \/ Admit
  \/ CollectorCrash

LEMMA CollectorSideIsAlone == CollectorSide => UNCHANGED vars /\ UNCHANGED postVars
BY DEF CollectorSide, Admit, CollectorCrash, Accept, WorkerStep, LockStore, AppendEvent, EndEvent,
       Answer, Leave, FailStore, Counted

LEMMA StepsOfTheLog ==
  ASSUME [CollectorNext]_allVars
  PROVE  UNCHANGED vars \/ \E r \in Replicas : LogStep(r)
<1>1. CASE CollectorSide
  BY <1>1, CollectorSideIsAlone
<1>2. CASE UNCHANGED allVars
  BY <1>2 DEF allVars
<1>3. ASSUME NEW r \in Replicas, WriterStep(r) \/ LogOther(r) \/ ReplicaCrash(r)
      PROVE  LogStep(r)
  BY <1>3, PostingExports DEF WriterStep, LogWrite, LogOther, ReplicaCrash, LogStep
<1> QED  BY <1>1, <1>2, <1>3 DEF CollectorNext, CollectorSide

-----------------------------------------------------------------------------
(* Sequences without repetition.                                           *)
Elements(s) == {s[i] : i \in DOMAIN s}

Distinct(s) == \A i, j \in DOMAIN s : s[i] = s[j] => i = j

LEMMA ElementsDef ==
  ASSUME NEW s \in Seq(Nat), NEW x
  PROVE  x \in Elements(s) <=> \E i \in 1 .. Len(s) : x = s[i]
BY DEF Elements

LEMMA TailElements ==
  ASSUME NEW s \in Seq(Nat), s # <<>>
  PROVE  /\ Elements(s) = Elements(Tail(s)) \cup {Head(s)}
         /\ Distinct(s) => Distinct(Tail(s)) /\ Head(s) \notin Elements(Tail(s))
<1>1. /\ Tail(s) \in Seq(Nat) /\ Len(Tail(s)) = Len(s) - 1 /\ Len(s) \in Nat \ {0} /\ Head(s) = s[1]
      /\ \A i \in 1 .. Len(s) - 1 : Tail(s)[i] = s[i + 1]
  OBVIOUS
<1> DEFINE t == Tail(s)
<1>2. Elements(s) \subseteq Elements(t) \cup {Head(s)}
  <2> SUFFICES ASSUME NEW i \in 1 .. Len(s)  PROVE s[i] \in Elements(t) \cup {Head(s)}
    BY ElementsDef
  <2>1. CASE i = 1
    BY <1>1, <2>1
  <2>2. CASE i # 1
    <3>1. i - 1 \in 1 .. Len(s) - 1 /\ (i - 1) + 1 = i
      BY <2>2, <1>1
    <3>2. t[i - 1] = s[i] /\ i - 1 \in 1 .. Len(t)
      BY <3>1, <1>1
    <3>3. t \in Seq(Nat)
      BY <1>1
    <3> HIDE DEF t
    <3> QED  BY <3>2, <3>3, ElementsDef
  <2> QED  BY <2>1, <2>2
<1>3. Elements(t) \cup {Head(s)} \subseteq Elements(s)
  <2>1. Head(s) \in Elements(s)
    <3>1. 1 \in 1 .. Len(s)
      BY <1>1
    <3> QED  BY <3>1, <1>1, ElementsDef
  <2>2. ASSUME NEW i \in 1 .. Len(t)  PROVE t[i] \in Elements(s)
    <3>1. i \in 1 .. Len(s) - 1 /\ i + 1 \in 1 .. Len(s)
      BY <1>1
    <3> QED  BY <3>1, <1>1, ElementsDef
  <2>3. t \in Seq(Nat)
    BY <1>1
  <2> HIDE DEF t
  <2>4. ASSUME NEW x \in Elements(t)  PROVE x \in Elements(s)
    <3>1. PICK i \in 1 .. Len(t) : x = t[i]
      BY <2>3, ElementsDef
    <3> QED  BY <2>2, <3>1
  <2> QED  BY <2>1, <2>4
<1>4. ASSUME Distinct(s)  PROVE Distinct(t)
  <2>1. DOMAIN t = 1 .. Len(s) - 1 /\ DOMAIN s = 1 .. Len(s)
    BY <1>1
  <2> SUFFICES ASSUME NEW i \in 1 .. Len(s) - 1, NEW j \in 1 .. Len(s) - 1, t[i] = t[j]  PROVE i = j
    BY <2>1 DEF Distinct
  <2>2. s[i + 1] = s[j + 1] /\ i + 1 \in DOMAIN s /\ j + 1 \in DOMAIN s
    BY <1>1, <2>1
  <2>3. i + 1 = j + 1
    BY <1>4, <2>2 DEF Distinct
  <2> QED  BY <2>3
<1>5. ASSUME Distinct(s), Head(s) \in Elements(t)  PROVE FALSE
  <2>1. PICK i \in 1 .. Len(t) : Head(s) = t[i]
    <3>1. t \in Seq(Nat)
      BY <1>1
    <3> HIDE DEF t
    <3> QED  BY <3>1, <1>5, ElementsDef
  <2>2. i \in 1 .. Len(s) - 1 /\ i + 1 \in DOMAIN s /\ 1 \in DOMAIN s /\ i + 1 # 1
    BY <1>1
  <2>3. s[i + 1] = s[1]
    BY <1>1, <2>1, <2>2
  <2> QED  BY <1>5, <2>2, <2>3 DEF Distinct
<1> QED  BY <1>2, <1>3, <1>4, <1>5

LEMMA AppendElements ==
  ASSUME NEW s \in Seq(Nat), NEW x \in Nat
  PROVE  /\ Elements(Append(s, x)) = Elements(s) \cup {x}
         /\ Distinct(s) /\ x \notin Elements(s) => Distinct(Append(s, x))
<1> DEFINE t == Append(s, x)
           n == Len(s)
<1>1. /\ t \in Seq(Nat) /\ n \in Nat /\ Len(t) = n + 1 /\ DOMAIN t = 1 .. n + 1 /\ DOMAIN s = 1 .. n
      /\ t[n + 1] = x /\ \A i \in 1 .. n : t[i] = s[i]
  OBVIOUS
<1> HIDE DEF t, n
<1>2. \A i \in 1 .. n + 1 : i = n + 1 \/ i \in 1 .. n
  BY <1>1
<1>3. \A i \in 1 .. n : i \in 1 .. n + 1 /\ i # n + 1
  BY <1>1
<1>4. n + 1 \in 1 .. n + 1
  BY <1>1
<1>5. Elements(t) = Elements(s) \cup {x}
  BY <1>1, <1>2, <1>3, <1>4 DEF Elements
<1>6. ASSUME Distinct(s), x \notin Elements(s)  PROVE Distinct(t)
  <2> SUFFICES ASSUME NEW i \in 1 .. n + 1, NEW j \in 1 .. n + 1, t[i] = t[j]  PROVE i = j
    BY <1>1 DEF Distinct
  <2>1. \A k \in 1 .. n : s[k] # x
    BY <1>1, <1>6 DEF Elements
  <2> QED  BY <1>1, <1>2, <1>6, <2>1 DEF Distinct
<1> QED  BY <1>5, <1>6 DEF t

LEMMA NoElements == Elements(<<>>) = {} /\ Distinct(<<>>)
BY DEF Elements, Distinct

LEMMA ElementsFinite ==
  ASSUME NEW s \in Seq(Nat)
  PROVE  IsFiniteSet(Elements(s)) /\ Cardinality(Elements(s)) <= Len(s)
<1>1. s \in Surjection(1 .. Len(s), Elements(s))
  <2>1. s \in [1 .. Len(s) -> Elements(s)]
    BY DEF Elements
  <2>2. \A y \in Elements(s) : \E i \in 1 .. Len(s) : s[i] = y
    BY DEF Elements
  <2> QED  BY <2>1, <2>2 DEF Surjection
<1>2. IsFiniteSet(1 .. Len(s)) /\ Cardinality(1 .. Len(s)) = Len(s)
  <2>1. Len(s) \in Nat /\ 1 \in Int /\ Len(s) \in Int
    OBVIOUS
  <2>2. /\ IsFiniteSet(1 .. Len(s))
        /\ Cardinality(1 .. Len(s)) = IF 1 > Len(s) THEN 0 ELSE Len(s) - 1 + 1
    BY <2>1, FS_Interval
  <2> QED  BY <2>1, <2>2
<1>3. IsFiniteSet(Elements(s)) /\ Cardinality(Elements(s)) <= Cardinality(1 .. Len(s))
  BY <1>1, <1>2, FS_Surjection
<1> QED  BY <1>2, <1>3

-----------------------------------------------------------------------------
(***************************************************************************)
(* No record is in two places: each is queued once or in one writer's      *)
(* hands, until it is delivered or given up, and the collector has heard   *)
(* of those only that have been posted.                                    *)
(***************************************************************************)
Busy(r) == writer[r].pc # "idle"

Held(r) == Elements(queue[r]) \cup (IF Busy(r) THEN {writer[r].rec} ELSE {})

HeldOnce ==
  /\ made <= MaxRequests /\ delivered \cup undelivered \subseteq 1 .. made
  /\ \A r \in Replicas :
       /\ Distinct(queue[r])
       /\ Busy(r) => writer[r].rec \notin Elements(queue[r])
       /\ Held(r) \subseteq 1 .. made
       /\ Held(r) \cap (delivered \cup undelivered) = {}
       /\ \A s \in Replicas : r # s => Held(r) \cap Held(s) = {}
  /\ \A e \in Events : conn[e] # "none" =>
       /\ e <= made
       /\ \A r \in Replicas : e \in Held(r) => writer[r].pc = "posted" /\ writer[r].rec = e

(* A step of r that takes nothing new.                                     *)
LEMMA HeldKept ==
  ASSUME Inv, HeldOnce, NEW r \in Replicas, UNCHANGED made,
         \A k \in Replicas : k # r => queue'[k] = queue[k] /\ writer'[k] = writer[k],
         Distinct(queue'[r]), Busy(r)' => writer'[r].rec \notin Elements(queue'[r]),
         Held(r)' \subseteq Held(r),
         delivered' \cup undelivered' \subseteq delivered \cup undelivered \cup (Held(r) \ Held(r)'),
         \A e \in Events : conn'[e] # "none" =>
           \/ conn[e] # "none" /\ (e \in Held(r)' => writer'[r].pc = "posted" /\ writer'[r].rec = e)
           \/ e = writer[r].rec /\ Busy(r) /\ writer'[r].pc = "posted" /\ writer'[r].rec = e
  PROVE  HeldOnce'
<1>1. \A k \in Replicas : k # r => Held(k)' = Held(k) /\ (Busy(k)' <=> Busy(k))
  BY DEF Held, Busy
<1>2. \A k \in Replicas : Held(k)' \subseteq Held(k)
  BY <1>1
<1>3. \A k \in Replicas : /\ Distinct(queue[k])'
                          /\ (Busy(k) => writer[k].rec \notin Elements(queue[k]))'
  BY <1>1 DEF HeldOnce
<1>4. \A k \in Replicas : Held(k)' \subseteq 1 .. made'
  BY <1>2 DEF HeldOnce
<1>5. \A k, s \in Replicas : k # s => Held(k)' \cap Held(s)' = {}
  BY <1>2 DEF HeldOnce
<1>6. \A k \in Replicas : Held(k)' \cap (delivered' \cup undelivered') = {}
  <2>1. Held(r)' \cap (delivered' \cup undelivered') = {}
    BY <1>2 DEF HeldOnce
  <2>2. \A k \in Replicas : k # r => Held(k)' \cap Held(r) = {}
    BY <1>2 DEF HeldOnce
  <2>3. \A k \in Replicas : k # r => Held(k)' \cap (delivered' \cup undelivered') = {}
    BY <1>2, <2>2 DEF HeldOnce
  <2> QED  BY <2>1, <2>3
<1>7. ASSUME NEW e \in Events, conn'[e] # "none"
      PROVE  /\ e <= made'
             /\ \A k \in Replicas : e \in Held(k)' => writer'[k].pc = "posted" /\ writer'[k].rec = e
  <2>1. CASE conn[e] # "none" /\ (e \in Held(r)' => writer'[r].pc = "posted" /\ writer'[r].rec = e)
    BY <1>1, <2>1 DEF HeldOnce
  <2>2. CASE e = writer[r].rec /\ Busy(r) /\ writer'[r].pc = "posted" /\ writer'[r].rec = e
    <3>1. e \in Held(r)
      BY <2>2 DEF Held
    <3>2. e \in 1 .. made
      BY <3>1 DEF HeldOnce
    <3>3. \A k \in Replicas : k # r => e \notin Held(k)'
      BY <1>2, <3>1 DEF HeldOnce
    <3> QED  BY <2>2, <3>2, <3>3
  <2> QED  BY <1>7, <2>1, <2>2
<1>8. made' <= MaxRequests /\ delivered' \cup undelivered' \subseteq 1 .. made'
  BY DEF HeldOnce
<1> QED  BY <1>3, <1>4, <1>5, <1>6, <1>7, <1>8 DEF HeldOnce

LEMMA RequestHeld ==
  ASSUME Inv, HeldOnce, NEW r \in Replicas, Request(r), UNCHANGED <<delivered, undelivered, conn>>
  PROVE  HeldOnce'
<1>1. /\ made \in Nat /\ made' = made + 1 /\ made < MaxRequests /\ queue[r] \in Seq(Nat)
      /\ writer' = writer
  BY DEF Inv, WriterOK, Request
<1>2. PICK q : /\ \A k \in Replicas : queue'[k] = IF k = r THEN q ELSE queue[k]
               /\ Elements(q) \subseteq Elements(queue[r]) \cup {made + 1}
               /\ Distinct(q)
  <2>1. CASE Len(queue[r]) < Capacity
    <3>1. \A k \in Replicas : queue'[k] = IF k = r THEN Append(queue[r], made + 1) ELSE queue[k]
      BY <2>1 DEF Request, Inv, WriterOK
    <3>2. made + 1 \notin Elements(queue[r])
      <4>1. Elements(queue[r]) \subseteq 1 .. made
        BY DEF HeldOnce, Held
      <4>2. made + 1 \notin 1 .. made
        BY <1>1
      <4> QED  BY <4>1, <4>2
    <3>3. /\ Elements(Append(queue[r], made + 1)) = Elements(queue[r]) \cup {made + 1}
          /\ Distinct(Append(queue[r], made + 1))
      BY <1>1, <3>2, AppendElements DEF HeldOnce
    <3> QED  BY <3>1, <3>3
  <2>2. CASE ~(Len(queue[r]) < Capacity)
    BY <2>2 DEF Request, HeldOnce
  <2> QED  BY <2>1, <2>2
<1>3. /\ \A k \in Replicas : k # r => Held(k)' = Held(k)
      /\ Held(r)' \subseteq Held(r) \cup {made + 1}
      /\ \A k \in Replicas : Busy(k)' <=> Busy(k)
  BY <1>1, <1>2 DEF Held, Busy
<1>4. \A k \in Replicas : Held(k) \subseteq 1 .. made
  BY DEF HeldOnce
<1>5. \A n \in 1 .. made : n \in 1 .. made + 1 /\ n # made + 1
  BY <1>1
<1>6. made + 1 \in 1 .. made + 1
  BY <1>1
<1>7. \A k \in Replicas : Held(k)' \subseteq 1 .. made'
  BY <1>1, <1>3, <1>4, <1>5, <1>6
<1>8. \A k, s \in Replicas : k # s => Held(k)' \cap Held(s)' = {}
  BY <1>3, <1>4, <1>5 DEF HeldOnce
<1>9. \A k \in Replicas : /\ Distinct(queue'[k])
                          /\ Busy(k)' => writer'[k].rec \notin Elements(queue'[k])
  <2>1. Busy(r) => writer[r].rec \in 1 .. made /\ writer[r].rec \notin Elements(queue[r])
    BY DEF HeldOnce, Held
  <2>2. Busy(r) => writer[r].rec \notin Elements(q)
    BY <1>2, <1>5, <2>1
  <2> QED  BY <1>1, <1>2, <1>3, <2>2 DEF HeldOnce
<1>10. \A k \in Replicas : Held(k)' \cap (delivered \cup undelivered) = {}
  <2>1. made + 1 \notin delivered \cup undelivered
    BY <1>5 DEF HeldOnce
  <2> QED  BY <1>3, <2>1 DEF HeldOnce
<1>11. ASSUME NEW e \in Events, conn'[e] # "none"
       PROVE  /\ e <= made'
              /\ \A k \in Replicas : e \in Held(k)' => writer'[k].pc = "posted" /\ writer'[k].rec = e
  <2>1. conn[e] # "none"
    BY <1>11
  <2>2. e <= made /\ e # made + 1
    BY <1>1, <2>1 DEF HeldOnce, Events
  <2> QED  BY <1>1, <1>3, <2>1, <2>2 DEF HeldOnce, Events
<1>12. made' <= MaxRequests /\ delivered' \cup undelivered' \subseteq 1 .. made'
  <2>1. MaxRequests \in Nat
    BY AuditAssumption
  <2> QED  BY <1>1, <1>5, <2>1 DEF HeldOnce
<1> QED  BY <1>7, <1>8, <1>9, <1>10, <1>11, <1>12 DEF HeldOnce

LEMMA TakeHeld ==
  ASSUME Inv, HeldOnce, NEW r \in Replicas, Take(r), UNCHANGED <<delivered, undelivered, conn>>
  PROVE  HeldOnce'
<1>1. /\ queue[r] \in Seq(Nat) /\ queue[r] # <<>> /\ ~Busy(r) /\ UNCHANGED made
      /\ \A k \in Replicas : queue'[k] = IF k = r THEN Tail(queue[r]) ELSE queue[k]
  BY DEF Take, Busy, Inv, WriterOK
<1>2. /\ writer'[r].pc = "lock" /\ writer'[r].rec = Head(queue[r])
      /\ \A k \in Replicas : k # r => writer'[k] = writer[k]
  BY DEF Take, Inv, WriterOK, WriterState
<1>3. /\ Elements(queue[r]) = Elements(queue'[r]) \cup {writer'[r].rec}
      /\ Distinct(queue'[r]) /\ writer'[r].rec \notin Elements(queue'[r])
  BY <1>1, <1>2, TailElements DEF HeldOnce
<1>4. Held(r) = Elements(queue[r]) /\ Held(r)' = Elements(queue[r])
  BY <1>1, <1>2, <1>3 DEF Held, Busy
<1>5. \A e \in Events : conn[e] # "none" => e \notin Held(r)
  BY <1>1 DEF HeldOnce, Busy
<1>6. \A e \in Events : conn'[e] # "none" => conn[e] # "none" /\ e \notin Held(r)'
  BY <1>4, <1>5
<1> QED  BY <1>1, <1>2, <1>3, <1>4, <1>6, HeldKept

(* The steps that keep the record in hand; only the last two may be of a   *)
(* record the collector has heard of.                                      *)
LEMMA MidHeld ==
  ASSUME Inv, HeldOnce, NEW r \in Replicas, UNCHANGED <<made, queue, delivered, undelivered>>,
         \A k \in Replicas : k # r => writer'[k] = writer[k],
         writer[r].pc \notin {"idle", "posted"}, writer'[r].pc # "idle", writer'[r].rec = writer[r].rec,
         \A e \in Events : conn'[e] # "none" =>
           \/ conn[e] # "none"
           \/ writer'[r].pc = "posted" /\ e = writer[r].rec
  PROVE  HeldOnce'
<1>1. Busy(r) /\ Busy(r)' /\ Held(r)' = Held(r)
  BY DEF Busy, Held
<1>2. \A e \in Events : conn[e] # "none" => e \notin Held(r)
  BY DEF HeldOnce
<1>3. Distinct(queue'[r]) /\ writer'[r].rec \notin Elements(queue'[r])
  BY <1>1 DEF HeldOnce
<1>4. \A e \in Events : conn'[e] # "none" =>
        \/ conn[e] # "none" /\ e \notin Held(r)'
        \/ e = writer[r].rec /\ writer'[r].pc = "posted" /\ writer'[r].rec = e
  BY <1>1, <1>2
<1> QED  BY <1>1, <1>3, <1>4, HeldKept

(* The writer is done with its record, or gives up everything.             *)
LEMMA ReturnHeld ==
  ASSUME Inv, HeldOnce, NEW r \in Replicas, NEW missed, UNCHANGED made,
         \A k \in Replicas : k # r => queue'[k] = queue[k],
         writer' = [writer EXCEPT ![r] = Idle(missed)],
         queue'[r] \in {queue[r], <<>>}, UNCHANGED conn,
         delivered' \cup undelivered' \subseteq
           delivered \cup undelivered \cup {writer[r].rec},
         UNCHANGED <<delivered, undelivered>> \/ Busy(r)
  PROVE  HeldOnce'
<1>1. ~Busy(r)' /\ \A k \in Replicas : k # r => writer'[k] = writer[k]
  BY DEF Inv, WriterOK, Busy, Idle
<1>2. Elements(queue'[r]) \subseteq Elements(queue[r]) /\ Distinct(queue'[r])
  BY NoElements DEF HeldOnce
<1>3. Held(r)' \subseteq Elements(queue[r]) /\ Elements(queue[r]) \subseteq Held(r)
  BY <1>1, <1>2 DEF Held
<1>4. delivered' \cup undelivered' \subseteq delivered \cup undelivered \cup (Held(r) \ Held(r)')
  <2>1. CASE UNCHANGED <<delivered, undelivered>>
    BY <2>1
  <2>2. CASE Busy(r)
    <3>1. writer[r].rec \in Held(r) \ Held(r)'
      BY <1>3, <2>2 DEF Held, HeldOnce
    <3> QED  BY <3>1
  <2> QED  BY <2>1, <2>2
<1>5. \A e \in Events : conn'[e] # "none" => conn[e] # "none" /\ e \notin Held(r)'
  <2> SUFFICES ASSUME NEW e \in Events, conn[e] # "none", e \in Held(r)'  PROVE FALSE
    OBVIOUS
  <2>1. e \in Elements(queue[r]) /\ e \in Held(r)
    BY <1>3
  <2>2. Busy(r) /\ writer[r].rec = e
    BY <2>1 DEF HeldOnce, Busy
  <2> QED  BY <2>1, <2>2 DEF HeldOnce
<1> QED  BY <1>1, <1>2, <1>3, <1>4, <1>5, HeldKept

LEMMA CollectorHeld ==
  ASSUME HeldOnce, UNCHANGED <<vars, postVars>>,
         \A e \in Events : conn'[e] # "none" => conn[e] # "none"
  PROVE  HeldOnce'
<1>1. UNCHANGED <<made, queue, writer, delivered, undelivered>>
  BY DEF vars, postVars
<1>2. \A r \in Replicas : Held(r)' = Held(r) /\ (Busy(r)' <=> Busy(r))
  BY <1>1 DEF Held, Busy
<1> QED  BY <1>1, <1>2 DEF HeldOnce

LEMMA InitHeld == CollectorInit => HeldOnce
<1> SUFFICES ASSUME CollectorInit  PROVE HeldOnce
  OBVIOUS
<1>1. \A r \in Replicas : queue[r] = <<>> /\ writer[r].pc = "idle"
  BY DEF CollectorInit, Init, Idle
<1>2. \A r \in Replicas : Held(r) = {} /\ ~Busy(r)
  BY <1>1, NoElements DEF Held, Busy
<1>3. made = 0 /\ delivered \cup undelivered = {} /\ \A e \in Events : conn[e] = "none"
  BY DEF CollectorInit, Init
<1>4. 0 <= MaxRequests
  BY AuditAssumption
<1> QED  BY <1>1, <1>2, <1>3, <1>4, NoElements DEF HeldOnce

-----------------------------------------------------------------------------
(***************************************************************************)
(* The collector's types, and that the shared count is that of the         *)
(* workers.                                                                *)
(***************************************************************************)
Workers == {e \in Events : conn[e] \in Working}

StoreTyped == store \in Seq(Nat) /\ cut \in BOOLEAN /\ (cut => store # <<>>)

Typed ==
  /\ remote_failed \in [Replicas -> Nat]
  /\ conn \in [Events -> {"none", "arrived", "closed"} \cup Working]
  /\ accepting \in [event : Events \cup {None}, count : 0 .. MaxConnections]
  /\ accepting.event # None => conn[accepting.event] = "arrived"
  /\ ingest \in Events \cup {None}
  /\ \A e \in Events : ingest = e <=> conn[e] \in Storing
  /\ StoreTyped
  /\ acked \subseteq {e \in Events : conn[e] \in {"leaving", "closed"}}
  /\ delivered \subseteq acked /\ undelivered \subseteq Events

Counts == active = Cardinality(Workers) /\ active <= MaxConnections

LEMMA EventsFinite == Events \in SUBSET Nat /\ IsFiniteSet(Events) /\ None \notin Events
<1>1. MaxRequests \in Int
  BY AuditAssumption
<1> QED  BY <1>1, FS_Interval, AuditAssumption DEF Events

LEMMA SomeEventsFinite ==
  ASSUME NEW W, W \subseteq Events
  PROVE  IsFiniteSet(W) /\ Cardinality(W) \in Nat
BY EventsFinite, FS_Subset, FS_CardinalityType

(* One connection moves. *)
LEMMA Moved ==
  ASSUME Typed, NEW e \in Events, NEW pc, Move(e, pc)
  PROVE  \A d \in Events : conn'[d] = IF d = e THEN pc ELSE conn[d]
BY DEF Typed, Move

LEMMA HeldEvent ==
  ASSUME Inv, HeldOnce, NEW r \in Replicas, Busy(r)
  PROVE  writer[r].rec \in Events
<1>1. writer[r].rec \in 1 .. made /\ made <= MaxRequests /\ made \in Nat
  BY DEF HeldOnce, Held, Inv, WriterOK
<1> QED  BY <1>1, AuditAssumption DEF Events

LEMMA PostedIsNew ==
  ASSUME Inv, HeldOnce, NEW r \in Replicas, writer[r].pc = "export"
  PROVE  writer[r].rec \in Events /\ conn[writer[r].rec] = "none"
<1>1. Busy(r) /\ writer[r].rec \in Held(r)
  BY DEF Busy, Held
<1>2. writer[r].rec \in Events
  BY <1>1, HeldEvent
<1> QED  BY <1>1, <1>2 DEF HeldOnce

LEMMA SameWorkers ==
  ASSUME Counts, UNCHANGED active,
         \A e \in Events : conn'[e] \in Working <=> conn[e] \in Working
  PROVE  Counts'
<1>1. Workers' = Workers
  BY DEF Workers
<1> QED  BY <1>1 DEF Counts

(* The steps of the replicas, as far as the collector notices.             *)
LEMMA ReplicaTyped ==
  ASSUME Inv, HeldOnce, Typed, Counts, NEW r \in Replicas,
         WriterStep(r) \/ LogOther(r) \/ ReplicaCrash(r)
  PROVE  Typed' /\ Counts'
<1>1. CASE UNCHANGED <<ingestVars, postVars, conn>>
  <2>1. Typed'
    BY <1>1 DEF ingestVars, postVars, Typed, StoreTyped
  <2>2. Counts'
    BY <1>1, SameWorkers DEF ingestVars
  <2> QED  BY <2>1, <2>2
<1>2. CASE Posted(r)
  <2>1. /\ writer[r].rec \in Events /\ conn[writer[r].rec] = "none"
        /\ \A d \in Events : conn'[d] = IF d = writer[r].rec THEN "arrived" ELSE conn[d]
        /\ UNCHANGED <<ingestVars, postVars>>
    BY <1>2, PostedIsNew, Moved DEF Posted
  <2>2. conn' \in [Events -> {"none", "arrived", "closed"} \cup Working]
    BY <1>2 DEF Posted, Move, Typed
  <2>3. Typed'
    BY <2>1, <2>2 DEF ingestVars, postVars, Typed, Storing, StoreTyped
  <2>4. Counts'
    BY <2>1, SameWorkers DEF ingestVars, Working, Storing
  <2> QED  BY <2>3, <2>4
<1>3. CASE Delivered(r)
  <2>1. /\ writer[r].rec \in acked /\ delivered' = delivered \cup {writer[r].rec}
        /\ UNCHANGED <<ingestVars, conn, remote_failed, undelivered>>
    BY <1>3 DEF Delivered
  <2>2. Counts'
    BY <2>1, SameWorkers DEF ingestVars
  <2> QED  BY <2>1, <2>2 DEF Typed, ingestVars, StoreTyped
<1>4. CASE GiveUp(r)
  <2>1. writer[r].rec \in Events
    BY <1>4, HeldEvent DEF GiveUp, Busy
  <2>2. /\ undelivered' = undelivered \cup {writer[r].rec} /\ UNCHANGED <<ingestVars, conn, delivered>>
        /\ remote_failed' \in [Replicas -> Nat]
    BY <1>4 DEF GiveUp, Typed
  <2>3. Counts'
    BY <2>2, SameWorkers DEF ingestVars
  <2> QED  BY <2>1, <2>2, <2>3 DEF Typed, ingestVars, StoreTyped
<1>5. CASE ReplicaCrash(r)
  <2>1. /\ remote_failed' \in [Replicas -> Nat] /\ UNCHANGED <<ingestVars, conn, delivered, undelivered>>
    BY <1>5 DEF ReplicaCrash, Typed
  <2>2. Counts'
    BY <2>1, SameWorkers DEF ingestVars
  <2> QED  BY <2>1, <2>2 DEF Typed, ingestVars, StoreTyped
<1> QED  BY <1>1, <1>2, <1>3, <1>4, <1>5 DEF WriterStep, LogWrite, LogOther

LEMMA AcceptorTyped ==
  ASSUME Typed, Counts, Admit \/ \E e \in Events : Accept(e)
  PROVE  Typed' /\ Counts'
<1>1. ASSUME NEW e \in Events, Accept(e)  PROVE Typed' /\ Counts'
  <2>1. /\ accepting' = [event |-> e, count |-> active] /\ conn[e] = "arrived"
        /\ UNCHANGED <<postVars, conn, active, ingest, store, cut, acked>>
    BY <1>1 DEF Accept
  <2>2. active \in 0 .. MaxConnections
    BY SomeEventsFinite, CollectorAssumption DEF Counts, Workers
  <2>3. Counts'
    BY <2>1, SameWorkers
  <2> QED  BY <2>1, <2>2, <2>3 DEF Typed, postVars, StoreTyped
<1>2. CASE Admit
  <2>1. /\ accepting.event \in Events /\ conn[accepting.event] = "arrived"
        /\ UNCHANGED <<postVars, ingest, store, cut, acked>>
        /\ NotAccepting \in [event : Events \cup {None}, count : 0 .. MaxConnections]
        /\ NotAccepting.event = None
    BY <1>2, CollectorAssumption DEF Admit, Typed, NotAccepting
  <2> DEFINE e == accepting.event
  <2>2. CASE Refused
    <3>1. /\ \A d \in Events : conn'[d] = IF d = e THEN "closed" ELSE conn[d]
          /\ accepting' = NotAccepting /\ UNCHANGED active
      BY <2>1, <2>2, Moved DEF Refused
    <3>2. conn' \in [Events -> {"none", "arrived", "closed"} \cup Working]
      BY <2>2 DEF Refused, Move, Typed
    <3>3. Counts'
      BY <2>1, <3>1, SameWorkers DEF Working, Storing
    <3> QED  BY <2>1, <3>1, <3>2, <3>3 DEF Typed, postVars, Storing, StoreTyped
  <2>3. CASE active = accepting.count /\ accepting.count < MaxConnections /\ Admitted
    <3>1. /\ \A d \in Events : conn'[d] = IF d = e THEN "admitted" ELSE conn[d]
          /\ accepting' = NotAccepting /\ active' = active + 1
      BY <2>1, <2>3, Moved DEF Admitted
    <3>2. conn' \in [Events -> {"none", "arrived", "closed"} \cup Working]
      BY <2>3 DEF Admitted, Move, Typed, Working
    <3>3. Workers' = Workers \cup {e} /\ e \notin Workers /\ Workers \subseteq Events
      BY <2>1, <3>1 DEF Workers, Working, Storing
    <3>4. Cardinality(Workers') = Cardinality(Workers) + 1 /\ Cardinality(Workers) \in Nat
      BY <3>3, SomeEventsFinite, FS_AddElement
    <3>5. active < MaxConnections /\ MaxConnections \in Nat /\ active = Cardinality(Workers)
      BY <2>3, CollectorAssumption DEF Counts
    <3>6. active' <= MaxConnections
      BY <3>1, <3>4, <3>5
    <3>7. Counts'
      BY <3>1, <3>4, <3>5, <3>6 DEF Counts
    <3> QED  BY <2>1, <3>1, <3>2, <3>7 DEF Typed, postVars, Storing, StoreTyped
  <2>4. CASE accepting' = [accepting EXCEPT !.count = active] /\ UNCHANGED <<active, conn>>
    <3>1. active \in 0 .. MaxConnections
      BY SomeEventsFinite, CollectorAssumption DEF Counts, Workers
    <3>2. /\ accepting' \in [event : Events \cup {None}, count : 0 .. MaxConnections]
          /\ accepting'.event = e
      BY <2>4, <3>1 DEF Typed
    <3>3. Counts'
      BY <2>4, SameWorkers
    <3> QED  BY <2>1, <2>4, <3>2, <3>3 DEF Typed, postVars, StoreTyped
  <2> QED  BY <1>2, <2>2, <2>3, <2>4 DEF Admit
<1> QED  BY <1>1, <1>2

LEMMA WroteTyped ==
  ASSUME StoreTyped, NEW line \in Nat, Wrote(line)
  PROVE  StoreTyped'
<1>1. CASE cut
  <2>1. store \in Seq(Nat) /\ store # <<>>
    BY <1>1 DEF StoreTyped
  <2>2. /\ [store EXCEPT ![Len(store)] = 0] \in Seq(Nat)
        /\ [store EXCEPT ![Len(store)] = 0] # <<>>
    BY <2>1
  <2> QED  BY <1>1, <2>2 DEF Wrote, StoreTyped
<1>2. CASE ~cut
  <2>1. Append(store, line) \in Seq(Nat) /\ Append(store, line) # <<>>
    BY DEF StoreTyped
  <2> QED  BY <1>2, <2>1 DEF Wrote, StoreTyped
<1> QED  BY <1>1, <1>2 DEF StoreTyped

LEMMA MaybeCutTyped ==
  ASSUME StoreTyped, NEW e, MaybeCut(e)
  PROVE  StoreTyped'
<1>1. CASE UNCHANGED <<store, cut>>
  BY <1>1 DEF StoreTyped
<1>2. CASE Wrote(0)
  BY <1>2, WroteTyped
<1>3. CASE cut' = FALSE /\ UNCHANGED store
  BY <1>3 DEF StoreTyped
<1> QED  BY <1>1, <1>2, <1>3 DEF MaybeCut

(* One worker's step, which keeps it at work.                              *)
LEMMA WorkerTyped ==
  ASSUME Typed, Counts, NEW e \in Events, WorkerStep(e) \/ FailStore(e)
  PROVE  Typed' /\ Counts'
<1>1. UNCHANGED <<accepting, remote_failed, delivered, undelivered>>
  BY DEF WorkerStep, LockStore, AppendEvent, EndEvent, Answer, Leave, FailStore, Counted, postVars
<1>2. conn[e] \in Working
  BY DEF WorkerStep, LockStore, AppendEvent, EndEvent, Answer, Leave, FailStore, Working, Storing
<1>3. PICK pc : pc \in Storing \cup {"stored", "leaving", "closed"} /\ Move(e, pc)
  BY DEF WorkerStep, LockStore, AppendEvent, EndEvent, Answer, Leave, FailStore, Storing
<1>4. \A d \in Events : conn'[d] = IF d = e THEN pc ELSE conn[d]
  BY <1>3, Moved
<1>5. conn' \in [Events -> {"none", "arrived", "closed"} \cup Working]
  BY <1>3 DEF Move, Typed, Working, Storing
<1>6. accepting.event # None => conn'[accepting.event] = "arrived"
  BY <1>2, <1>4 DEF Typed, Working, Storing
<1>7. StoreTyped'
  <2>1. e \in Nat /\ StoreTyped
    BY EventsFinite DEF Typed
  <2>2. CASE AppendEvent(e)
    BY <2>1, <2>2, WroteTyped DEF AppendEvent
  <2>3. CASE FailStore(e)
    BY <2>1, <2>3, MaybeCutTyped DEF FailStore
  <2>4. CASE EndEvent(e)
    <3>1. cut' = FALSE /\ UNCHANGED store
      BY <2>4 DEF EndEvent
    <3> QED  BY <2>1, <3>1 DEF StoreTyped
  <2>5. CASE LockStore(e) \/ Answer(e) \/ Leave(e)
    <3>1. UNCHANGED <<store, cut>>
      BY <2>5 DEF LockStore, Answer, Leave
    <3> QED  BY <2>1, <3>1 DEF StoreTyped
  <2> QED  BY <2>2, <2>3, <2>4, <2>5 DEF WorkerStep
<1>8. ingest' \in Events \cup {None} /\ \A d \in Events : ingest' = d <=> conn'[d] \in Storing
  <2>1. \A d \in Events : d # None
    BY EventsFinite
  <2> QED  BY <1>4, <2>1 DEF Typed, WorkerStep, LockStore, AppendEvent, EndEvent, Answer, Leave,
             FailStore, UnlockStore, Storing, Move
<1>9. /\ acked' \subseteq {d \in Events : conn'[d] \in {"leaving", "closed"}}
      /\ acked \subseteq acked'
  BY <1>4 DEF Typed, WorkerStep, LockStore, AppendEvent, EndEvent, Answer, Leave, FailStore,
              Storing, Move
<1>10. Typed'
  BY <1>1, <1>5, <1>6, <1>7, <1>8, <1>9 DEF Typed
<1>11. Counts'
  <2>1. CASE Leave(e)
    <3>1. \A d \in Events : conn'[d] = IF d = e THEN "closed" ELSE conn[d]
      BY <2>1, Moved DEF Leave
    <3>2. Workers' = Workers \ {e} /\ e \in Workers
      BY <1>2, <3>1 DEF Workers, Working, Storing
    <3>3. /\ Cardinality(Workers') = Cardinality(Workers) - 1
          /\ Cardinality(Workers) \in Nat
      BY <3>2, SomeEventsFinite, FS_RemoveElement DEF Workers
    <3> QED  BY <2>1, <3>3, CollectorAssumption DEF Leave, Counts
  <2>2. CASE ~Leave(e)
    <3>1. UNCHANGED active /\ conn'[e] \in Working
      BY <1>4, <2>2 DEF WorkerStep, LockStore, AppendEvent, EndEvent, Answer, FailStore, Move, Working,
         Storing, Typed
    <3> QED  BY <1>2, <1>4, <3>1, SameWorkers
  <2> QED  BY <2>1, <2>2
<1> QED  BY <1>10, <1>11

LEMMA CrashTyped ==
  ASSUME Typed, Counts, CollectorCrash
  PROVE  Typed' /\ Counts'
<1>1. /\ conn' = [e \in Events |-> IF conn[e] = "none" THEN "none" ELSE "closed"]
      /\ accepting' = NotAccepting /\ active' = 0 /\ ingest' = None /\ acked' = acked
      /\ UNCHANGED <<remote_failed, delivered, undelivered>>
  BY DEF CollectorCrash, Counted, postVars
<1>2. StoreTyped'
  BY MaybeCutTyped DEF CollectorCrash, Typed, StoreTyped
<1>3. accepting' \in [event : Events \cup {None}, count : 0 .. MaxConnections] /\ accepting'.event = None
  BY <1>1, CollectorAssumption DEF NotAccepting
<1>4. \A e \in Events : conn'[e] \notin Working /\ conn'[e] \notin Storing /\ e # None
  BY <1>1, EventsFinite DEF Working, Storing
<1>5. Counts'
  <2>1. Workers' = {}
    BY <1>4 DEF Workers
  <2>2. Cardinality({}) = 0
    BY FS_EmptySet
  <2> QED  BY <1>1, <2>1, <2>2, CollectorAssumption DEF Counts
<1> QED  BY <1>1, <1>2, <1>3, <1>4, <1>5 DEF Typed

LEMMA HeldStep ==
  ASSUME Inv, HeldOnce, Typed, [CollectorNext]_allVars
  PROVE  HeldOnce'
<1>1. CASE UNCHANGED allVars
  BY <1>1, CollectorHeld DEF allVars
<1>2. CASE CollectorSide
  <2>1. \A e \in Events : conn'[e] # "none" => conn[e] # "none"
    <3>1. CASE CollectorCrash
      BY <3>1 DEF CollectorCrash
    <3>2. ASSUME NEW e \in Events, NEW pc, conn[e] # "none", Move(e, pc)
          PROVE  \A d \in Events : conn'[d] # "none" => conn[d] # "none"
      BY <3>2 DEF Typed, Move
    <3>3. CASE Admit
      <4>1. accepting.event \in Events /\ conn[accepting.event] # "none"
        BY <3>3 DEF Admit, Typed
      <4> QED  BY <3>2, <3>3, <4>1 DEF Admit, Refused, Admitted
    <3>4. ASSUME NEW e \in Events, Accept(e) \/ WorkerStep(e) \/ FailStore(e)
          PROVE  \A d \in Events : conn'[d] # "none" => conn[d] # "none"
      <4>1. CASE Accept(e)
        BY <4>1 DEF Accept
      <4>2. CASE WorkerStep(e) \/ FailStore(e)
        <5>1. conn[e] # "none" /\ \E pc : Move(e, pc)
          BY <4>2 DEF WorkerStep, LockStore, AppendEvent, EndEvent, Answer, Leave, FailStore, Storing
        <5> QED  BY <3>2, <5>1
      <4> QED  BY <3>4, <4>1, <4>2
    <3> QED  BY <1>2, <3>1, <3>3, <3>4 DEF CollectorSide
  <2> QED  BY <1>2, <2>1, CollectorSideIsAlone, CollectorHeld
<1>3. ASSUME NEW r \in Replicas, WriterStep(r) \/ LogOther(r) \/ ReplicaCrash(r)
      PROVE  HeldOnce'
  <2>1. CASE Request(r) /\ UNCHANGED <<postVars, conn>>
    BY <2>1, RequestHeld DEF postVars
  <2>2. CASE Take(r) /\ UNCHANGED <<postVars, conn>>
    BY <2>2, TakeHeld DEF postVars
  <2>3. CASE /\ Lock(r) \/ Rotate(r) \/ Sign(r) \/ AppendLine(r) \/ EndLine(r) \/ FailRotate(r)
             /\ UNCHANGED <<postVars, conn>>
    <3>1. /\ writer[r].pc \notin {"idle", "posted"} /\ UNCHANGED <<made, queue>>
      BY <2>3 DEF Lock, Rotate, Sign, AppendLine, EndLine, FailRotate
    <3>2. /\ writer'[r].pc # "idle" /\ writer'[r].rec = writer[r].rec
          /\ \A k \in Replicas : k # r => writer'[k] = writer[k]
      BY <2>3 DEF Lock, Rotate, Sign, AppendLine, EndLine, FailRotate, Goto, Inv, WriterOK, WriterState
    <3> QED  BY <2>3, <3>1, <3>2, MidHeld DEF postVars
  <2>4. CASE Posted(r)
    <3>1. writer[r].pc = "export" /\ UNCHANGED <<made, queue, delivered, undelivered>>
      BY <2>4 DEF Posted, postVars
    <3>2. /\ writer'[r].pc = "posted" /\ writer'[r].rec = writer[r].rec
          /\ \A k \in Replicas : k # r => writer'[k] = writer[k]
      BY <2>4 DEF Posted, Goto, Inv, WriterOK, WriterState
    <3>3. \A e \in Events : conn'[e] # "none" => conn[e] # "none" \/ e = writer[r].rec
      BY <2>4 DEF Posted, Move
    <3> QED  BY <3>1, <3>2, <3>3, MidHeld
  <2>5. CASE Delivered(r) \/ GiveUp(r)
    <3>1. /\ Busy(r) /\ UNCHANGED <<made, queue, conn>> /\ writer' = [writer EXCEPT ![r] = Idle(0)]
          /\ delivered' \cup undelivered' \subseteq delivered \cup undelivered \cup {writer[r].rec}
      BY <2>5 DEF Delivered, GiveUp, Busy
    <3> QED  BY <3>1, ReturnHeld
  <2>6. CASE FailWrite(r) /\ UNCHANGED <<postVars, conn>>
    <3>1. /\ UNCHANGED <<made, queue, conn, delivered, undelivered>>
          /\ writer' = [writer EXCEPT ![r] = Idle(writer[r].missed)]
      BY <2>6 DEF FailWrite, postVars
    <3> QED  BY <3>1, ReturnHeld
  <2>7. CASE ReplicaCrash(r)
    <3>1. \A k \in Replicas : queue'[k] = IF k = r THEN <<>> ELSE queue[k]
      BY <2>7 DEF ReplicaCrash, Crash, Inv, WriterOK
    <3> QED  BY <2>7, <3>1, ReturnHeld DEF ReplicaCrash, Crash
  <2>8. CASE SignUnread(r) /\ UNCHANGED <<postVars, conn>>
    <3>1. Unread(r)
      BY <2>8, SignsUnread
    <3> QED  BY <2>8, <3>1, MidHeld DEF Unread, postVars
  <2> QED  BY <1>3, <2>1, <2>2, <2>3, <2>4, <2>5, <2>6, <2>7, <2>8 DEF WriterStep, LogWrite, LogOther
<1> QED  BY <1>1, <1>2, <1>3 DEF CollectorNext, CollectorSide

LEMMA TypedStep ==
  ASSUME Inv, HeldOnce, Typed, Counts, [CollectorNext]_allVars
  PROVE  Typed' /\ Counts'
<1>1. CASE UNCHANGED allVars
  <2>1. Typed'
    BY <1>1 DEF allVars, ingestVars, postVars, Typed, StoreTyped
  <2>2. Counts'
    BY <1>1, SameWorkers DEF allVars, ingestVars
  <2> QED  BY <2>1, <2>2
<1> QED  BY <1>1, ReplicaTyped, AcceptorTyped, WorkerTyped, CrashTyped DEF CollectorNext

LEMMA InitTyped == CollectorInit => Typed /\ Counts
<1> SUFFICES ASSUME CollectorInit  PROVE Typed /\ Counts
  OBVIOUS
<1>1. \A e \in Events : conn[e] = "none" /\ e # None
  BY EventsFinite DEF CollectorInit
<1>2. <<>> \in Seq(Nat) /\ NotAccepting \in [event : Events \cup {None}, count : 0 .. MaxConnections]
        /\ NotAccepting.event = None
  BY CollectorAssumption DEF NotAccepting
<1>3. Typed
  BY <1>1, <1>2 DEF CollectorInit, Typed, StoreTyped, Storing
<1>4. Workers = {}
  BY <1>1 DEF Workers, Working, Storing
<1> QED  BY <1>3, <1>4, FS_EmptySet, CollectorAssumption DEF CollectorInit, Counts

-----------------------------------------------------------------------------
(* The log and its collector together.                                     *)
Safe == Inv /\ LogTyped /\ DropsKept /\ HeldOnce /\ Typed /\ Counts

LEMMA InitSafe == CollectorInit => Safe
BY InitInv, InitLog, InitHeld, InitTyped DEF CollectorInit, Safe

LEMMA NextSafe == Safe /\ [CollectorNext]_allVars => Safe'
<1> SUFFICES ASSUME Safe, [CollectorNext]_allVars  PROVE Safe'
  OBVIOUS
<1>1. UNCHANGED vars \/ \E r \in Replicas : LogStep(r)
  BY StepsOfTheLog
<1>2. Inv' /\ LogTyped' /\ DropsKept'
  BY <1>1, NextInv, TypedLogStep, DropsKeptStep DEF Safe
<1>3. HeldOnce' /\ Typed' /\ Counts'
  BY HeldStep, TypedStep DEF Safe
<1> QED  BY <1>2, <1>3 DEF Safe

LEMMA SafeLogTyped == Safe => AsLog!TypeOK
<1> SUFFICES ASSUME Safe  PROVE AsLog!TypeOK
  OBVIOUS
<1> DEFINE W == [r \in Replicas |-> IF writer[r].pc = "posted" THEN [writer[r] EXCEPT !.pc = "export"]
                                                               ELSE writer[r]]
<1>1. \A r \in Replicas : writer[r] \in WriterState
  BY DEF Safe, Inv, WriterOK
<1>2. ASSUME NEW r \in Replicas
      PROVE  /\ W[r] \in [pc : {"idle", "lock", "rotate", "sign", "append", "end", "export"},
                          rec : Nat, missed : Nat, prev : Nat]
             /\ W[r].pc \in {"rotate", "sign", "append", "end"} => holder = r
  <2>1. CASE writer[r].pc = "posted"
    BY <1>1, <2>1 DEF WriterState
  <2>2. CASE writer[r].pc # "posted"
    BY <1>1, <2>2 DEF WriterState, Points, Locked, Safe, Inv, LockOK
  <2> QED  BY <2>1, <2>2
<1>3. W \in [Replicas -> [pc : {"idle", "lock", "rotate", "sign", "append", "end", "export"},
                          rec : Nat, missed : Nat, prev : Nat]]
  <2> SUFFICES ASSUME NEW r \in Replicas
               PROVE  (IF writer[r].pc = "posted" THEN [writer[r] EXCEPT !.pc = "export"] ELSE writer[r])
                        \in [pc : {"idle", "lock", "rotate", "sign", "append", "end", "export"},
                             rec : Nat, missed : Nat, prev : Nat]
    OBVIOUS
  <2> QED  BY <1>2
<1>4. AsLog!LineType = LineType
  BY DEF AsLog!LineType, LineType
<1> HIDE DEF W
<1>5. /\ W \in [Replicas -> [pc : {"idle", "lock", "rotate", "sign", "append", "end", "export"},
                             rec : Nat, missed : Nat, prev : Nat]]
      /\ \A r \in Replicas : W[r].pc \in {"rotate", "sign", "append", "end"} => holder = r
  BY <1>2, <1>3
<1> QED  BY <1>4, <1>5 DEF W, AsLog!TypeOK, Safe, Inv, FilesOK, WriterOK, LogTyped

(* The shared count is that of the workers and keeps to its limit, though  *)
(* workers lower it while the acceptor swaps it (main.rs:593, 720).        *)
THEOREM CollectorTypesCorrect == CollectorSpec => []CollectorTypeOK
<1>1. Safe => CollectorTypeOK
  <2> SUFFICES ASSUME Safe  PROVE CollectorTypeOK
    OBVIOUS
  <2>1. AsLog!TypeOK
    BY SafeLogTyped
  <2>2. acked \subseteq Events
    BY DEF Safe, Typed
  <2> QED  BY <2>1, <2>2 DEF Safe, Typed, StoreTyped, Counts, Workers, CollectorTypeOK
<1> QED  BY <1>1, InitSafe, NextSafe, PTL DEF CollectorSpec

(* Every drop is reported by one record, or waits to be (audit.rs:8).      *)
THEOREM DropsAreReported == CollectorSpec => []DropsReported
<1>1. Safe => DropsReported
  BY DEF Safe, DropsKept, DropsReported
<1> QED  BY <1>1, InitSafe, NextSafe, PTL DEF CollectorSpec

(* Whatever becomes of the posts, the collector and its answers, the chain *)
(* forks at misread records only (audit.rs:85, audit.rs:207).              *)
THEOREM OnlyMisreadsForkHere == CollectorSpec => []ForksAreMisreads
<1>1. Safe => ForksAreMisreads
  BY DEF Safe, Inv
<1> QED  BY <1>1, InitSafe, NextSafe, PTL DEF CollectorSpec

-----------------------------------------------------------------------------
(***************************************************************************)
(* Where the records are.                                                  *)
(***************************************************************************)
LEMMA QueuedDef ==
  ASSUME NEW q, NEW x
  PROVE  x \in UNION {{q[r][i] : i \in DOMAIN q[r]} : r \in Replicas}
           <=> \E r \in Replicas : x \in Elements(q[r])
BY DEF Elements

LEMMA Places ==
  ASSUME Inv, HeldOnce
  PROVE  /\ Queued \subseteq 1 .. made /\ InHand \subseteq 1 .. made /\ Kept \subseteq 1 .. made
         /\ Queued \cap InHand = {}
         /\ (Queued \cup InHand) \cap (delivered \cup undelivered) = {}
         /\ \A r \in Replicas : Busy(r) => writer[r].rec \in InHand
         /\ \A S \in SUBSET (1 .. made) : IsFiniteSet(S) /\ Cardinality(S) \in Nat
<1>1. \A x \in Queued : \E r \in Replicas : x \in Elements(queue[r]) /\ x \in Held(r)
  BY QueuedDef DEF Queued, Held
<1>2. \A x \in InHand : \E r \in Replicas : Busy(r) /\ x = writer[r].rec /\ x \in Held(r)
  BY DEF InHand, Busy, Held
<1>3. Queued \subseteq 1 .. made /\ InHand \subseteq 1 .. made
  BY <1>1, <1>2 DEF HeldOnce
<1>4. Kept \subseteq 1 .. made
  BY <1>3 DEF HeldOnce, Kept
<1>5. Queued \cap InHand = {}
  <2> SUFFICES ASSUME NEW x \in Queued, x \in InHand  PROVE FALSE
    OBVIOUS
  <2>1. PICK r \in Replicas : x \in Elements(queue[r]) /\ x \in Held(r)
    BY <1>1
  <2>2. PICK s \in Replicas : Busy(s) /\ x = writer[s].rec /\ x \in Held(s)
    BY <1>2
  <2>3. CASE r = s
    BY <2>1, <2>2, <2>3 DEF HeldOnce
  <2>4. CASE r # s
    BY <2>1, <2>2, <2>4 DEF HeldOnce
  <2> QED  BY <2>3, <2>4
<1>6. (Queued \cup InHand) \cap (delivered \cup undelivered) = {}
  BY <1>1, <1>2 DEF HeldOnce
<1>7. \A r \in Replicas : Busy(r) => writer[r].rec \in InHand
  BY HeldEvent DEF InHand, Busy
<1>8. \A S \in SUBSET (1 .. made) : IsFiniteSet(S) /\ Cardinality(S) \in Nat
  <2>1. made \in Int
    BY DEF Inv, WriterOK
  <2>2. IsFiniteSet(1 .. made)
    BY <2>1, FS_Interval
  <2> QED  BY <2>2, FS_Subset, FS_CardinalityType
<1> QED  BY <1>3, <1>4, <1>5, <1>6, <1>7, <1>8

(***************************************************************************)
(* The accounts.                                                           *)
(***************************************************************************)
Losses == failures * (Capacity + 1)

AtLeast == made <= Cardinality(Kept) + drops + Losses

Exactly ==
  failures = 0 =>
    /\ IsFiniteSet(Tally(remote_failed))
    /\ made = Cardinality(Queued) + Cardinality(InHand) + Cardinality(delivered)
                + Cardinality(Tally(remote_failed)) + drops

LEMMA LossesType ==
  ASSUME LogTyped
  PROVE  Losses \in Nat
BY AuditAssumption DEF Losses, LogTyped

LEMMA FailureLosses ==
  ASSUME LogTyped, failures' = failures + 1
  PROVE  Losses' = Losses + Capacity + 1
<1>1. \A f, c \in Nat : (f + 1) * (c + 1) = f * (c + 1) + c + 1
  OBVIOUS
<1> QED  BY <1>1, AuditAssumption DEF Losses, LogTyped

(* Nothing is lost or found.                                               *)
LEMMA SameAccounts ==
  ASSUME AtLeast, Exactly, UNCHANGED <<made, delivered, undelivered, remote_failed, drops, failures>>,
         Queued' = Queued, InHand' = InHand
  PROVE  AtLeast' /\ Exactly'
<1>1. Kept' = Kept /\ Tally(remote_failed') = Tally(remote_failed)
  BY DEF Kept
<1>2. AtLeast'
  BY <1>1 DEF AtLeast, Losses
<1>3. Exactly'
  BY <1>1 DEF Exactly, Tally
<1> QED  BY <1>2, <1>3

LEMMA SameQueues ==
  ASSUME UNCHANGED queue
  PROVE  Queued' = Queued
BY DEF Queued

LEMMA SameHands ==
  ASSUME \A k \in Replicas : (Busy(k)' <=> Busy(k)) /\ writer'[k].rec = writer[k].rec
  PROVE  InHand' = InHand
BY DEF InHand, Busy

LEMMA RequestAccounts ==
  ASSUME Inv, LogTyped, HeldOnce, AtLeast, Exactly, NEW r \in Replicas, Request(r),
         UNCHANGED <<delivered, undelivered, remote_failed>>
  PROVE  AtLeast' /\ Exactly'
<1>1. /\ made \in Nat /\ made' = made + 1 /\ drops \in Nat /\ Losses \in Nat /\ Losses' = Losses
      /\ queue[r] \in Seq(Nat) /\ InHand' = InHand /\ UNCHANGED failures
  BY LossesType, SameHands DEF Inv, WriterOK, LogTyped, Request, Losses, Busy
<1>2. /\ Queued \subseteq 1 .. made /\ Kept \subseteq 1 .. made /\ made + 1 \notin 1 .. made
      /\ \A S \in SUBSET (1 .. made) : IsFiniteSet(S) /\ Cardinality(S) \in Nat
      /\ InHand \subseteq 1 .. made /\ delivered \subseteq 1 .. made
  BY <1>1, Places DEF HeldOnce
<1>3. failures = 0 => Cardinality(Tally(remote_failed)) \in Nat
  BY FS_CardinalityType DEF Exactly
<1>4. CASE Len(queue[r]) < Capacity
  <2>1. \A k \in Replicas : queue'[k] = IF k = r THEN Append(queue[r], made + 1) ELSE queue[k]
    BY <1>4 DEF Request, Inv, WriterOK
  <2>2. Elements(queue'[r]) = Elements(queue[r]) \cup {made + 1}
    BY <1>1, <2>1, AppendElements
  <2>3. \A x : x \in Queued' <=> \E k \in Replicas : x \in Elements(queue'[k])
    BY QueuedDef DEF Queued
  <2>4. \A x : x \in Queued <=> \E k \in Replicas : x \in Elements(queue[k])
    BY QueuedDef DEF Queued
  <2>5. Queued' = Queued \cup {made + 1}
    BY <2>1, <2>2, <2>3, <2>4
  <2>6. Kept' = Kept \cup {made + 1}
    BY <1>1, <2>5 DEF Kept
  <2>7. /\ Cardinality(Kept') = Cardinality(Kept) + 1 /\ Cardinality(Kept) \in Nat
        /\ Cardinality(Queued') = Cardinality(Queued) + 1 /\ Cardinality(Queued) \in Nat
        /\ Cardinality(InHand) \in Nat /\ Cardinality(delivered) \in Nat
    BY <1>2, <2>5, <2>6, FS_AddElement
  <2>8. drops' = drops
    BY <1>4 DEF Request
  <2>9. AtLeast'
    BY <1>1, <2>7, <2>8 DEF AtLeast
  <2>10. Exactly'
    BY <1>1, <1>3, <2>7, <2>8 DEF Exactly, Tally
  <2> QED  BY <2>9, <2>10
<1>5. CASE ~(Len(queue[r]) < Capacity)
  <2>1. drops' = drops + 1 /\ Queued' = Queued
    BY <1>5, SameQueues DEF Request
  <2>2. Kept' = Kept
    BY <1>1, <2>1 DEF Kept
  <2>3. /\ Cardinality(Kept) \in Nat /\ Cardinality(Queued) \in Nat
        /\ Cardinality(InHand) \in Nat /\ Cardinality(delivered) \in Nat
    BY <1>2
  <2>4. AtLeast'
    BY <1>1, <2>1, <2>2, <2>3 DEF AtLeast
  <2>5. Exactly'
    BY <1>1, <1>3, <2>1, <2>3 DEF Exactly, Tally
  <2> QED  BY <2>4, <2>5
<1> QED  BY <1>4, <1>5

LEMMA TakeAccounts ==
  ASSUME Inv, LogTyped, HeldOnce, HeldOnce', AtLeast, Exactly, NEW r \in Replicas, Take(r),
         UNCHANGED <<delivered, undelivered, remote_failed>>
  PROVE  AtLeast' /\ Exactly'
<1>1. /\ queue[r] \in Seq(Nat) /\ queue[r] # <<>> /\ ~Busy(r)
      /\ UNCHANGED <<made, drops, failures>>
      /\ \A k \in Replicas : queue'[k] = IF k = r THEN Tail(queue[r]) ELSE queue[k]
  BY DEF Take, Busy, Inv, WriterOK
<1> PICK h : h = Head(queue[r])
  OBVIOUS
<1>2. /\ writer'[r].pc = "lock" /\ writer'[r].rec = h
      /\ \A k \in Replicas : k # r => writer'[k] = writer[k]
  BY DEF Take, Inv, WriterOK, WriterState
<1>3. /\ Elements(queue[r]) = Elements(queue'[r]) \cup {h}
      /\ h \notin Elements(queue'[r])
  BY <1>1, TailElements DEF HeldOnce
<1>4. \A x : x \in Queued' <=> \E k \in Replicas : x \in Elements(queue'[k])
  BY QueuedDef DEF Queued
<1>5. \A x : x \in Queued <=> \E k \in Replicas : x \in Elements(queue[k])
  BY QueuedDef DEF Queued
<1>6. \A k \in Replicas : k # r => h \notin Elements(queue[k])
  BY <1>3 DEF HeldOnce, Held
<1>7. Queued' = Queued \ {h} /\ h \in Queued
  BY <1>1, <1>3, <1>4, <1>5, <1>6
<1>8. h \in Events
  <2>1. h \in 1 .. made /\ made <= MaxRequests /\ made \in Nat /\ MaxRequests \in Nat
    BY <1>3, AuditAssumption DEF HeldOnce, Held, Inv, WriterOK
  <2> QED  BY <2>1 DEF Events
<1>9. InHand' = InHand \cup {h} /\ h \notin InHand
  <2>1. InHand' = InHand \cup {h}
    BY <1>1, <1>2, <1>8 DEF InHand, Busy
  <2> QED  BY <2>1, <1>7, Places
<1>10. /\ Cardinality(Queued') = Cardinality(Queued) - 1 /\ Cardinality(Queued) \in Nat
       /\ Cardinality(InHand') = Cardinality(InHand) + 1 /\ Cardinality(InHand) \in Nat
       /\ Cardinality(delivered) \in Nat
  BY <1>7, <1>9, Places, FS_AddElement, FS_RemoveElement DEF HeldOnce
<1>11. AtLeast'
  <2>1. Kept' = Kept
    BY <1>7, <1>9 DEF Kept
  <2> QED  BY <1>1, <2>1 DEF AtLeast, Losses
<1>12. Exactly'
  <2>1. failures = 0 => Cardinality(Tally(remote_failed)) \in Nat
    BY FS_CardinalityType DEF Exactly
  <2>2. drops \in Nat /\ made \in Nat
    BY DEF LogTyped, Inv, WriterOK
  <2> QED  BY <1>1, <1>10, <2>1, <2>2 DEF Exactly, Tally
<1> QED  BY <1>11, <1>12

(* A writer is done with its record.                                       *)
LEMMA HandsEmptied ==
  ASSUME Inv, HeldOnce, NEW r \in Replicas, ~Busy(r)',
         \A k \in Replicas : k # r => writer'[k] = writer[k]
  PROVE  InHand' = InHand \ (IF Busy(r) THEN {writer[r].rec} ELSE {})
<1>1. \A k \in Replicas : k # r /\ Busy(k) /\ Busy(r) => writer[k].rec # writer[r].rec
  BY DEF HeldOnce, Held
<1> QED  BY <1>1 DEF InHand, Busy

LEMMA DoneAccounts ==
  ASSUME Inv, LogTyped, HeldOnce, Typed, AtLeast, Exactly, NEW r \in Replicas, Delivered(r) \/ GiveUp(r)
  PROVE  AtLeast' /\ Exactly'
<1>1. /\ Busy(r) /\ UNCHANGED <<made, queue, drops, failures>>
      /\ writer' = [writer EXCEPT ![r] = Idle(0)]
      /\ delivered' \cup undelivered' = delivered \cup undelivered \cup {writer[r].rec}
  BY DEF Delivered, GiveUp, Busy
<1>2. ~Busy(r)' /\ \A k \in Replicas : k # r => writer'[k] = writer[k]
  BY <1>1 DEF Inv, WriterOK, Busy, Idle
<1>3. InHand' = InHand \ {writer[r].rec} /\ writer[r].rec \in InHand /\ Queued' = Queued
  BY <1>1, <1>2, HandsEmptied, Places, SameQueues
<1>4. /\ Cardinality(InHand') = Cardinality(InHand) - 1 /\ Cardinality(InHand) \in Nat
      /\ Cardinality(Queued) \in Nat /\ Cardinality(delivered) \in Nat
  BY <1>3, Places, FS_RemoveElement DEF HeldOnce
<1>5. AtLeast'
  <2>1. Kept' = Kept
    BY <1>1, <1>3 DEF Kept
  <2> QED  BY <1>1, <2>1 DEF AtLeast, Losses
<1>6. drops \in Nat /\ made \in Nat
  BY DEF LogTyped, Inv, WriterOK
<1>7. CASE Delivered(r)
  <2>1. /\ delivered' = delivered \cup {writer[r].rec} /\ UNCHANGED remote_failed
        /\ writer[r].rec \notin delivered
    BY <1>3, <1>7, Places DEF Delivered
  <2>2. Cardinality(delivered') = Cardinality(delivered) + 1
    BY <2>1, Places, FS_AddElement DEF HeldOnce
  <2>3. failures = 0 => Cardinality(Tally(remote_failed)) \in Nat
    BY FS_CardinalityType DEF Exactly
  <2>4. Exactly'
    BY <1>1, <1>3, <1>4, <1>6, <2>1, <2>2, <2>3 DEF Exactly, Tally
  <2> QED  BY <1>5, <2>4
<1>8. CASE GiveUp(r)
  <2>1. /\ remote_failed \in [Replicas -> Nat] /\ UNCHANGED delivered
        /\ remote_failed' = [remote_failed EXCEPT ![r] = remote_failed[r] + 1]
    BY <1>8 DEF GiveUp, Typed
  <2> PICK g : g = remote_failed'
    OBVIOUS
  <2>2. /\ g \in [Replicas -> Nat] /\ g[r] = remote_failed[r] + 1 /\ remote_failed[r] \in Nat
        /\ \A k \in Replicas : k # r => g[k] = remote_failed[k]
    BY <2>1
  <2>3. /\ IsFiniteSet(Tally(g)) <=> IsFiniteSet(Tally(remote_failed))
        /\ IsFiniteSet(Tally(remote_failed)) =>
             /\ Cardinality(Tally(remote_failed)) \in Nat
             /\ Cardinality(Tally(g)) = Cardinality(Tally(remote_failed)) + (g[r] - remote_failed[r])
    <3>1. remote_failed[r] <= g[r]
      BY <2>2
    <3> QED  BY <2>1, <2>2, <3>1, CountedAtOne
  <2>4. failures = 0 => /\ IsFiniteSet(Tally(g)) /\ Cardinality(Tally(remote_failed)) \in Nat
                        /\ Cardinality(Tally(g)) = Cardinality(Tally(remote_failed)) + 1
    BY <2>2, <2>3 DEF Exactly
  <2>5. Tally(remote_failed)' = Tally(g)
    BY DEF Tally
  <2>6. Exactly'
    BY <1>1, <1>3, <1>4, <1>6, <2>1, <2>4, <2>5 DEF Exactly
  <2> QED  BY <1>5, <2>6
<1> QED  BY <1>7, <1>8

(* A failure loses a queue and the record in hand at most.                 *)
LEMMA FailureAccounts ==
  ASSUME Inv, LogTyped, HeldOnce, HeldOnce', AtLeast, NEW r \in Replicas, failures' = failures + 1,
         UNCHANGED <<made, drops>>,
         delivered \subseteq delivered', undelivered \subseteq undelivered',
         Queued \subseteq Queued' \cup Elements(queue[r]),
         InHand \subseteq InHand' \cup {writer[r].rec},
         Kept' \subseteq 1 .. made
  PROVE  AtLeast' /\ Exactly'
<1>1. failures \in Nat /\ failures' # 0 /\ made \in Nat /\ drops \in Nat /\ Losses \in Nat
      /\ Capacity \in Nat /\ Losses' = Losses + Capacity + 1
  BY LossesType, FailureLosses, AuditAssumption DEF LogTyped, Inv, WriterOK
<1>2. Exactly'
  BY <1>1 DEF Exactly
<1> DEFINE L == Elements(queue[r]) \cup {writer[r].rec}
<1>3. IsFiniteSet(L) /\ Cardinality(L) \in Nat /\ Cardinality(L) <= Capacity + 1
  <2>1. queue[r] \in Seq(Nat) /\ Len(queue[r]) <= Capacity
    BY DEF Inv, WriterOK, LogTyped
  <2>2. IsFiniteSet(Elements(queue[r])) /\ Cardinality(Elements(queue[r])) <= Len(queue[r])
    BY <2>1, ElementsFinite
  <2>3. /\ IsFiniteSet(L) /\ Cardinality(Elements(queue[r])) \in Nat
        /\ Cardinality(L) = IF writer[r].rec \in Elements(queue[r]) THEN Cardinality(Elements(queue[r]))
                              ELSE Cardinality(Elements(queue[r])) + 1
    BY <2>2, FS_AddElement, FS_CardinalityType
  <2>4. Len(queue[r]) \in Nat
    BY <2>1
  <2> HIDE DEF L
  <2> QED  BY <1>1, <2>1, <2>2, <2>3, <2>4
<1>4. Kept \subseteq Kept' \cup L
  BY DEF Kept
<1>5. /\ IsFiniteSet(Kept') /\ Cardinality(Kept') \in Nat
      /\ IsFiniteSet(Kept) /\ Cardinality(Kept) \in Nat
  BY Places
<1> HIDE DEF L
<1>6. Cardinality(Kept) <= Cardinality(Kept') + Cardinality(L)
  <2>1. /\ IsFiniteSet(Kept' \cup L)
        /\ Cardinality(Kept' \cup L) = Cardinality(Kept') + Cardinality(L) - Cardinality(Kept' \cap L)
    BY <1>3, <1>5, FS_Union
  <2>2. Cardinality(Kept' \cap L) \in Nat
    BY <1>5, FS_Intersection, FS_CardinalityType
  <2>3. Cardinality(Kept) <= Cardinality(Kept' \cup L)
    BY <1>4, <2>1, FS_Subset
  <2> QED  BY <1>3, <1>5, <2>1, <2>2, <2>3
<1>7. AtLeast'
  BY <1>1, <1>3, <1>5, <1>6 DEF AtLeast
<1> QED  BY <1>2, <1>7

-----------------------------------------------------------------------------
LEMMA FailureStep ==
  ASSUME Inv, LogTyped, HeldOnce, HeldOnce', AtLeast, NEW r \in Replicas,
         FailRotate(r) \/ FailWrite(r) \/ Crash(r), UNCHANGED <<delivered, undelivered>>
  PROVE  AtLeast' /\ Exactly'
<1>1. failures' = failures + 1 /\ UNCHANGED <<made, drops>>
  BY DEF FailRotate, FailWrite, Crash
<1>2. Kept \subseteq 1 .. made
  BY Places
<1>3. CASE FailRotate(r)
  <2>1. Queued' = Queued
    BY <1>3, SameQueues DEF FailRotate
  <2>2. InHand' = InHand
    <3>1. \A k \in Replicas : (Busy(k)' <=> Busy(k)) /\ writer'[k].rec = writer[k].rec
      BY <1>3 DEF FailRotate, Goto, Busy, Inv, WriterOK, WriterState
    <3> QED  BY <3>1, SameHands
  <2>3. Kept' = Kept
    BY <2>1, <2>2 DEF Kept
  <2> QED  BY <1>1, <1>2, <2>1, <2>2, <2>3, FailureAccounts
<1>4. ASSUME NEW missed, writer' = [writer EXCEPT ![r] = Idle(missed)]
      PROVE  InHand' \subseteq InHand /\ InHand \subseteq InHand' \cup {writer[r].rec}
  <2>1. ~Busy(r)' /\ \A k \in Replicas : k # r => writer'[k] = writer[k]
    BY <1>4 DEF Inv, WriterOK, Busy, Idle
  <2> QED  BY <2>1, HandsEmptied
<1>5. CASE FailWrite(r)
  <2>1. Queued' = Queued
    BY <1>5, SameQueues DEF FailWrite
  <2>2. InHand' \subseteq InHand /\ InHand \subseteq InHand' \cup {writer[r].rec}
    BY <1>4, <1>5 DEF FailWrite
  <2>3. Kept' \subseteq Kept
    BY <2>1, <2>2 DEF Kept
  <2> QED  BY <1>1, <1>2, <2>1, <2>2, <2>3, FailureAccounts
<1>6. CASE Crash(r)
  <2>1. \A k \in Replicas : queue'[k] = IF k = r THEN <<>> ELSE queue[k]
    BY <1>6 DEF Crash, Inv, WriterOK
  <2>2. \A x : x \in Queued' <=> \E k \in Replicas : x \in Elements(queue'[k])
    BY QueuedDef DEF Queued
  <2>3. \A x : x \in Queued <=> \E k \in Replicas : x \in Elements(queue[k])
    BY QueuedDef DEF Queued
  <2>4. Queued' \subseteq Queued /\ Queued \subseteq Queued' \cup Elements(queue[r])
    BY <2>1, <2>2, <2>3, NoElements
  <2>5. InHand' \subseteq InHand /\ InHand \subseteq InHand' \cup {writer[r].rec}
    BY <1>4, <1>6 DEF Crash
  <2>6. Kept' \subseteq Kept
    BY <2>4, <2>5 DEF Kept
  <2> QED  BY <1>1, <1>2, <2>4, <2>5, <2>6, FailureAccounts
<1> QED  BY <1>3, <1>5, <1>6

LEMMA InHandStill ==
  ASSUME Inv, NEW r \in Replicas,
         Lock(r) \/ Rotate(r) \/ Sign(r) \/ AppendLine(r) \/ EndLine(r) \/ Posted(r)
  PROVE  \A k \in Replicas : (Busy(k)' <=> Busy(k)) /\ writer'[k].rec = writer[k].rec
<1>1. /\ writer[r].pc # "idle" /\ writer'[r].pc # "idle" /\ writer'[r].rec = writer[r].rec
      /\ \A k \in Replicas : k # r => writer'[k] = writer[k]
  <2>1. CASE Posted(r)
    BY <2>1 DEF Posted, Goto, Inv, WriterOK, WriterState
  <2>2. CASE Lock(r) \/ Rotate(r) \/ Sign(r) \/ AppendLine(r) \/ EndLine(r)
    BY <2>2 DEF Lock, Rotate, Sign, AppendLine, EndLine, Goto, Inv, WriterOK, WriterState
  <2> QED  BY <2>1, <2>2
<1> QED  BY <1>1 DEF Busy

LEMMA AccountsStep ==
  ASSUME Safe, Safe', AtLeast, Exactly, [CollectorNext]_allVars
  PROVE  AtLeast' /\ Exactly'
<1> USE DEF Safe
<1>1. CASE CollectorSide \/ UNCHANGED allVars
  <2>1. UNCHANGED vars /\ UNCHANGED postVars
    BY <1>1, CollectorSideIsAlone DEF allVars
  <2>2. Queued' = Queued /\ InHand' = InHand
    BY <2>1 DEF vars, Queued, InHand
  <2> QED  BY <2>1, <2>2, SameAccounts DEF vars, postVars
<1>2. ASSUME NEW r \in Replicas, WriterStep(r) \/ LogOther(r) \/ ReplicaCrash(r)
      PROVE  AtLeast' /\ Exactly'
  <2>1. CASE Request(r) /\ UNCHANGED postVars
    BY <2>1, RequestAccounts DEF postVars
  <2>2. CASE Take(r) /\ UNCHANGED postVars
    BY <2>2, TakeAccounts DEF postVars
  <2>3. CASE /\ \/ Lock(r) \/ Rotate(r) \/ Sign(r) \/ AppendLine(r) \/ EndLine(r)
                \/ Posted(r)
             /\ UNCHANGED postVars
    <3>1. UNCHANGED <<made, queue, drops, failures>>
      BY <2>3 DEF Lock, Rotate, Sign, AppendLine, EndLine, Posted
    <3>2. \A k \in Replicas : (Busy(k)' <=> Busy(k)) /\ writer'[k].rec = writer[k].rec
      BY <2>3, InHandStill
    <3>3. Queued' = Queued /\ InHand' = InHand
      BY <3>1, <3>2, SameQueues, SameHands
    <3> QED  BY <2>3, <3>1, <3>3, SameAccounts DEF postVars
  <2>4. CASE Delivered(r) \/ GiveUp(r)
    BY <2>4, DoneAccounts
  <2>5. CASE (FailRotate(r) \/ FailWrite(r)) /\ UNCHANGED postVars
    BY <2>5, FailureStep DEF postVars
  <2>6. CASE ReplicaCrash(r)
    BY <2>6, FailureStep DEF ReplicaCrash
  <2>7. CASE SignUnread(r) /\ UNCHANGED postVars
    <3>1. Unread(r)
      BY <2>7, SignsUnread
    <3>2. Queued' = Queued
      BY <3>1, SameQueues DEF Unread
    <3>3. \A k \in Replicas : (Busy(k)' <=> Busy(k)) /\ writer'[k].rec = writer[k].rec
      BY <3>1 DEF Unread, Busy
    <3>4. InHand' = InHand
      BY <3>3, SameHands
    <3>5. CASE failures' = failures
      BY <2>7, <3>1, <3>2, <3>4, <3>5, SameAccounts DEF Unread, postVars
    <3>6. CASE failures' = failures + 1
      <4>1. Kept \subseteq 1 .. made /\ Kept' = Kept
        BY <2>7, <3>2, <3>4, Places DEF Kept, postVars
      <4> QED  BY <2>7, <3>1, <3>2, <3>4, <3>6, <4>1, FailureAccounts DEF Unread, postVars
    <3> QED  BY <3>1, <3>5, <3>6 DEF Unread
  <2> QED  BY <1>2, <2>1, <2>2, <2>3, <2>4, <2>5, <2>6, <2>7 DEF WriterStep, LogWrite, LogOther, Posted
<1> QED  BY <1>1, <1>2 DEF CollectorNext, CollectorSide

LEMMA InitAccounts == CollectorInit => AtLeast /\ Exactly
<1> SUFFICES ASSUME CollectorInit  PROVE AtLeast /\ Exactly
  OBVIOUS
<1>1. made = 0 /\ drops = 0 /\ failures = 0 /\ delivered = {} /\ undelivered = {}
  BY DEF CollectorInit, Init
<1>2. Queued = {} /\ InHand = {}
  BY DEF CollectorInit, Init, Queued, InHand, Idle
<1>3. remote_failed \in [Replicas -> Nat] /\ \A r \in Replicas : remote_failed[r] = 0
  BY DEF CollectorInit
<1>4. Tally(remote_failed) = {} /\ IsFiniteSet({}) /\ Cardinality({}) = 0
  BY <1>3, FS_EmptySet, NothingCounted
<1>5. Kept = {}
  BY <1>1, <1>2 DEF Kept
<1>6. Losses \in Nat
  BY <1>1, AuditAssumption DEF Losses
<1> QED  BY <1>1, <1>2, <1>4, <1>5, <1>6 DEF AtLeast, Exactly

(* Every record is queued, in hand, with the collector or counted, and a   *)
(* failure loses no more than a queue and the record in hand (audit.rs:8,  *)
(* audit.rs:77, audit.rs:110).                                             *)
THEOREM RecordsAreAccounted == CollectorSpec => []RecordsAccounted
<1>1. AtLeast /\ Exactly => RecordsAccounted
  BY DEF AtLeast, Exactly, Losses, RecordsAccounted, RemoteFailed
<1>2. Safe /\ [CollectorNext]_allVars => Safe'
  BY NextSafe
<1>3. Safe /\ Safe' /\ AtLeast /\ Exactly /\ [CollectorNext]_allVars => (AtLeast /\ Exactly)'
  BY AccountsStep
<1> HIDE DEF Safe
<1> QED  BY <1>1, <1>2, <1>3, InitSafe, InitAccounts, PTL DEF CollectorSpec

-----------------------------------------------------------------------------
(***************************************************************************)
(* The store.  Each failure spoils at most one line that is answered for,  *)
(* or leaves one behind that the next event continues, and shares.         *)
(***************************************************************************)
Past == {"end", "stored", "leaving", "closed"}

LastLine == store[Len(store)]

Once(s) == \A i, j \in DOMAIN s : s[i] = s[j] /\ s[i] # 0 => i = j

(* The line that was left without its end by a worker that is gone.        *)
Spoilable == cut /\ \A e \in Events : conn[e] # "end"

(* What is answered for, or will be, and is not there.                     *)
Doomed == {e \in Events : (e \in acked \/ conn[e] \in {"end", "stored"}) /\ e \notin Elements(store)}

Within == faults \in Nat /\ Cardinality(Doomed) + (IF Spoilable THEN 1 ELSE 0) <= faults

Lines ==
  /\ Once(store)
  /\ \A e \in Elements(store) \ {0} : e \in Events /\ conn[e] \in Past
  /\ \A e \in Events : conn[e] = "end" => cut /\ LastLine \in {0, e}
  /\ Spoilable => LastLine = 0 \/ (LastLine \notin acked /\ conn[LastLine] \in {"leaving", "closed"})

LEMMA SpoiltLine ==
  ASSUME NEW s \in Seq(Nat), s # <<>>
  PROVE  /\ [s EXCEPT ![Len(s)] = 0] \in Seq(Nat)
         /\ Elements([s EXCEPT ![Len(s)] = 0]) \subseteq Elements(s) \cup {0}
         /\ Elements(s) \subseteq Elements([s EXCEPT ![Len(s)] = 0]) \cup {s[Len(s)]}
         /\ [s EXCEPT ![Len(s)] = 0][Len([s EXCEPT ![Len(s)] = 0])] = 0
         /\ Once(s) => Once([s EXCEPT ![Len(s)] = 0])
<1> PICK n : n = Len(s)
  OBVIOUS
<1> PICK t : t = [s EXCEPT ![Len(s)] = 0]
  OBVIOUS
<1>1. /\ t \in Seq(Nat) /\ n \in Nat \ {0} /\ Len(t) = n /\ DOMAIN s = 1 .. n /\ DOMAIN t = 1 .. n
      /\ t[n] = 0 /\ \A i \in 1 .. n : i # n => t[i] = s[i]
  OBVIOUS
<1>2. Elements(t) \subseteq Elements(s) \cup {0}
  BY <1>1 DEF Elements
<1>3. Elements(s) \subseteq Elements(t) \cup {s[n]}
  BY <1>1 DEF Elements
<1>4. Once(s) => Once(t)
  BY <1>1 DEF Once
<1> QED  BY <1>1, <1>2, <1>3, <1>4

LEMMA LongerOnce ==
  ASSUME NEW s \in Seq(Nat), NEW x \in Nat, Once(s), x = 0 \/ x \notin Elements(s)
  PROVE  /\ Once(Append(s, x))
         /\ Append(s, x)[Len(Append(s, x))] = x
<1> PICK n : n = Len(s)
  OBVIOUS
<1> PICK t : t = Append(s, x)
  OBVIOUS
<1>1. /\ n \in Nat /\ Len(t) = n + 1 /\ DOMAIN t = 1 .. n + 1 /\ DOMAIN s = 1 .. n
      /\ t[n + 1] = x /\ \A i \in 1 .. n : t[i] = s[i]
  OBVIOUS
<1>2. \A i \in 1 .. n + 1 : i = n + 1 \/ i \in 1 .. n
  BY <1>1
<1>3. x # 0 => \A i \in 1 .. n : s[i] # x
  BY <1>1 DEF Elements
<1>4. Once(t)
  <2> SUFFICES ASSUME NEW i \in DOMAIN t, NEW j \in DOMAIN t, t[i] = t[j], t[i] # 0  PROVE i = j
    BY DEF Once
  <2> QED  BY <1>1, <1>2, <1>3 DEF Once
<1> QED  BY <1>1, <1>4

(* What a write does to the lines.                                         *)
LEMMA WroteLines ==
  ASSUME StoreTyped, Once(store), NEW line \in Nat, Wrote(line), line = 0 \/ line \notin Elements(store)
  PROVE  /\ cut' /\ Once(store')
         /\ cut => /\ LastLine' = 0 /\ Elements(store') \subseteq Elements(store) \cup {0}
                   /\ Elements(store) \subseteq Elements(store') \cup {LastLine}
         /\ ~cut => LastLine' = line /\ Elements(store') = Elements(store) \cup {line}
<1>1. CASE cut
  BY <1>1, SpoiltLine DEF Wrote, StoreTyped, LastLine
<1>2. CASE ~cut
  BY <1>2, LongerOnce, AppendElements DEF Wrote, StoreTyped, LastLine
<1> QED  BY <1>1, <1>2 DEF Wrote, StoreTyped

LEMMA WithinKept ==
  ASSUME Within,
         \/ Doomed' \subseteq Doomed /\ faults' = faults /\ (Spoilable' => Spoilable)
         \/ Doomed' \subseteq Doomed /\ faults' = faults + 1
         \/ \E e : Doomed' \subseteq Doomed \cup {e} /\ Spoilable /\ ~Spoilable' /\ faults' = faults
  PROVE  Within'
<1>1. IsFiniteSet(Doomed) /\ Cardinality(Doomed) \in Nat
  BY SomeEventsFinite DEF Doomed
<1>2. faults \in Nat
  BY DEF Within
<1>3. ASSUME Doomed' \subseteq Doomed
      PROVE  Cardinality(Doomed') <= Cardinality(Doomed) /\ Cardinality(Doomed') \in Nat
  BY <1>1, <1>3, FS_Subset, FS_CardinalityType
<1>4. ASSUME NEW e, Doomed' \subseteq Doomed \cup {e}
      PROVE  Cardinality(Doomed') <= Cardinality(Doomed) + 1 /\ Cardinality(Doomed') \in Nat
  <2>1. /\ IsFiniteSet(Doomed \cup {e})
        /\ Cardinality(Doomed \cup {e}) = IF e \in Doomed THEN Cardinality(Doomed) ELSE Cardinality(Doomed) + 1
    BY <1>1, FS_AddElement
  <2>2. Cardinality(Doomed') <= Cardinality(Doomed \cup {e}) /\ Cardinality(Doomed') \in Nat
    BY <1>4, <2>1, FS_Subset, FS_CardinalityType
  <2> QED  BY <1>1, <2>1, <2>2
<1> HIDE DEF Doomed, Spoilable
<1>5. CASE Doomed' \subseteq Doomed /\ faults' = faults /\ (Spoilable' => Spoilable)
  BY <1>1, <1>2, <1>3, <1>5 DEF Within
<1>6. CASE Doomed' \subseteq Doomed /\ faults' = faults + 1
  BY <1>1, <1>2, <1>3, <1>6 DEF Within
<1>7. CASE \E e : Doomed' \subseteq Doomed \cup {e} /\ Spoilable /\ ~Spoilable' /\ faults' = faults
  BY <1>1, <1>2, <1>4, <1>7 DEF Within
<1> QED  BY <1>5, <1>6, <1>7

(* Connections move that are not yet, or no longer, with the store.        *)
LEMMA ConnMoves ==
  ASSUME Typed, Lines, Within, UNCHANGED <<store, cut, acked, faults>>,
         \A d \in Events : \/ conn'[d] = conn[d]
                           \/ conn[d] \in {"none", "arrived", "admitted"} /\ conn'[d] \notin {"end", "stored"}
                           \/ conn[d] = "leaving" /\ conn'[d] = "closed"
  PROVE  Lines' /\ Within'
<1>1. /\ LastLine' = LastLine
      /\ \A d \in Events : conn[d] = "end" <=> conn'[d] = "end"
      /\ \A d \in Events : conn[d] = "stored" <=> conn'[d] = "stored"
      /\ \A d \in Events : conn[d] \in {"leaving", "closed"} => conn'[d] \in {"leaving", "closed"}
  BY DEF LastLine
<1>2. Spoilable' <=> Spoilable
  BY <1>1 DEF Spoilable
<1>3. Doomed' = Doomed
  BY <1>1 DEF Doomed
<1>4. Within'
  BY <1>2, <1>3, WithinKept
<1>5. \A e \in Elements(store) \ {0} : e \in Events /\ conn'[e] \in Past
  BY <1>1 DEF Lines, Past
<1>6. cut => LastLine \in Elements(store)
  <2>1. cut => store \in Seq(Nat) /\ store # <<>>
    BY DEF Typed, StoreTyped
  <2>2. cut => Len(store) \in 1 .. Len(store)
    BY <2>1
  <2> QED  BY <2>1, <2>2, ElementsDef DEF LastLine
<1>7. Spoilable => LastLine = 0 \/ (LastLine \notin acked /\ conn'[LastLine] \in {"leaving", "closed"})
  BY <1>1, <1>6 DEF Lines, Spoilable
<1> QED  BY <1>1, <1>2, <1>4, <1>5, <1>7 DEF Lines

(* An event's line.                                                        *)
LEMMA AppendStored ==
  ASSUME Typed, Lines, Within, NEW e \in Events, AppendEvent(e)
  PROVE  Lines' /\ Within'
<1>1. /\ conn[e] = "append" /\ Wrote(e) /\ UNCHANGED <<acked, faults>>
      /\ \A d \in Events : conn'[d] = IF d = e THEN "end" ELSE conn[d]
  BY Moved DEF AppendEvent
<1>2. e \in Nat /\ e # 0 /\ e \notin Elements(store)
  BY <1>1 DEF Lines, Past, Events
<1>3. \A d \in Events : conn[d] # "end"
  BY <1>1 DEF Typed, Storing
<1>4. /\ cut' /\ Once(store')
      /\ cut => /\ LastLine' = 0 /\ Elements(store') \subseteq Elements(store) \cup {0}
                /\ Elements(store) \subseteq Elements(store') \cup {LastLine}
      /\ ~cut => LastLine' = e /\ Elements(store') = Elements(store) \cup {e}
  BY <1>1, <1>2, WroteLines DEF Typed, Lines
<1>5. ~Spoilable' /\ (cut <=> Spoilable)
  BY <1>1, <1>3 DEF Spoilable
<1>6. \A d \in Elements(store') \ {0} : d \in Events /\ conn'[d] \in Past
  BY <1>1, <1>4 DEF Lines, Past
<1>7. Lines'
  BY <1>1, <1>3, <1>4, <1>5, <1>6 DEF Lines
<1>8. Within'
  <2>1. CASE cut
    <3>1. LastLine = 0 \/ (LastLine \notin acked /\ conn[LastLine] \in {"leaving", "closed"})
      BY <1>5, <2>1 DEF Lines
    <3>2. Doomed' \subseteq Doomed \cup {e}
      <4> SUFFICES ASSUME NEW d \in Events, d # e, d \in acked \/ conn[d] \in {"end", "stored"},
                          d \notin Elements(store')
                   PROVE  d \notin Elements(store)
        BY <1>1 DEF Doomed
      <4>1. d # 0
        BY DEF Events
      <4> QED  BY <1>4, <2>1, <3>1, <4>1
    <3> QED  BY <1>1, <1>5, <2>1, <3>2, WithinKept
  <2>2. CASE ~cut
    <3>1. Doomed' \subseteq Doomed
      BY <1>1, <1>4, <2>2 DEF Doomed
    <3> QED  BY <1>1, <1>5, <3>1, WithinKept
  <2> QED  BY <2>1, <2>2
<1> QED  BY <1>7, <1>8

LEMMA EndStored ==
  ASSUME Typed, Lines, Within, NEW e \in Events, EndEvent(e) \/ Answer(e)
  PROVE  Lines' /\ Within'
<1>1. CASE EndEvent(e)
  <2>1. /\ conn[e] = "end" /\ ~cut' /\ UNCHANGED <<store, acked, faults>>
        /\ \A d \in Events : conn'[d] = IF d = e THEN "stored" ELSE conn[d]
    BY <1>1, Moved DEF EndEvent
  <2>2. \A d \in Events : conn'[d] # "end"
    BY <2>1 DEF Typed, Storing
  <2>3. ~Spoilable' /\ Doomed' \subseteq Doomed
    BY <2>1 DEF Spoilable, Doomed
  <2>4. Within'
    BY <2>1, <2>3, WithinKept
  <2> QED  BY <2>1, <2>2, <2>3, <2>4 DEF Lines, Past
<1>2. CASE Answer(e)
  <2>1. /\ conn[e] = "stored" /\ UNCHANGED <<store, cut, faults>> /\ acked' = acked \cup {e}
        /\ \A d \in Events : conn'[d] = IF d = e THEN "leaving" ELSE conn[d]
    BY <1>2, Moved DEF Answer
  <2>2. (Spoilable' <=> Spoilable) /\ Doomed' \subseteq Doomed
    BY <2>1 DEF Spoilable, Doomed
  <2>3. Within'
    BY <2>1, <2>2, WithinKept
  <2>4. LastLine' = LastLine
    BY <2>1 DEF LastLine
  <2>5. \A d \in Elements(store) \ {0} : d \in Events /\ conn'[d] \in Past
    BY <2>1 DEF Lines, Past
  <2>6. Spoilable => LastLine = 0 \/ (LastLine \notin acked' /\ conn'[LastLine] \in {"leaving", "closed"})
    <3> SUFFICES ASSUME Spoilable, LastLine # 0
                 PROVE  LastLine \notin acked' /\ conn'[LastLine] \in {"leaving", "closed"}
      OBVIOUS
    <3>1. LastLine \notin acked /\ conn[LastLine] \in {"leaving", "closed"} /\ LastLine # e
      BY <2>1 DEF Lines
    <3>2. LastLine \in Elements(store)
      <4>1. store \in Seq(Nat) /\ store # <<>>
        BY DEF Typed, StoreTyped, Spoilable
      <4>2. Len(store) \in 1 .. Len(store)
        BY <4>1
      <4> QED  BY <4>1, <4>2, ElementsDef DEF LastLine
    <3> QED  BY <2>1, <3>1, <3>2 DEF Lines
  <2> QED  BY <2>1, <2>2, <2>3, <2>4, <2>5, <2>6 DEF Lines
<1> QED  BY <1>1, <1>2

(* A failure of one worker, or of all of them.                             *)
LEMMA FaultStored ==
  ASSUME Typed, Lines, Within, UNCHANGED acked, faults' = faults + 1,
         \A d \in Events : conn'[d] = conn[d] \/ (conn[d] # "none" /\ conn'[d] \in {"leaving", "closed"}),
         NEW w, UNCHANGED <<store, cut>> \/ (w \in Events /\ MaybeCut(w) /\ conn'[w] \in {"leaving", "closed"})
  PROVE  Lines' /\ Within'
<1>1. \A d \in acked : conn[d] \in {"leaving", "closed"} /\ d \in Events /\ d # 0
  BY DEF Typed, Events
<1>2. CASE UNCHANGED <<store, cut>>
  <2>1. LastLine' = LastLine
    BY <1>2 DEF LastLine
  <2>2. Doomed' \subseteq Doomed
    BY <1>2 DEF Doomed
  <2>3. Within'
    BY <2>2, WithinKept
  <2>4. \A d \in Elements(store) \ {0} : d \in Events /\ conn'[d] \in Past
    BY DEF Lines, Past
  <2>5. Spoilable' => LastLine = 0 \/ (LastLine \notin acked /\ conn'[LastLine] \in {"leaving", "closed"})
    <3> SUFFICES ASSUME Spoilable', LastLine # 0
                 PROVE  LastLine \notin acked /\ conn'[LastLine] \in {"leaving", "closed"}
      OBVIOUS
    <3>1. CASE \E d \in Events : conn[d] = "end"
      <4>1. PICK d \in Events : conn[d] = "end"
        BY <3>1
      <4>2. LastLine = d /\ d \notin acked /\ conn'[d] # "end"
        BY <1>1, <4>1 DEF Lines, Spoilable
      <4> QED  BY <4>1, <4>2
    <3>2. CASE \A d \in Events : conn[d] # "end"
      <4>1. cut
        BY <1>2 DEF Spoilable
      <4>2. LastLine \notin acked /\ conn[LastLine] \in {"leaving", "closed"}
        BY <3>2, <4>1 DEF Lines, Spoilable
      <4>3. LastLine \in Elements(store)
        <5>1. store \in Seq(Nat) /\ store # <<>>
          BY <4>1 DEF Typed, StoreTyped
        <5>2. Len(store) \in 1 .. Len(store)
          BY <5>1
        <5> QED  BY <5>1, <5>2, ElementsDef DEF LastLine
      <4> QED  BY <4>2, <4>3 DEF Lines
    <3> QED  BY <3>1, <3>2
  <2>6. \A d \in Events : conn'[d] = "end" => cut /\ LastLine \in {0, d}
    BY DEF Lines
  <2> QED  BY <1>2, <2>1, <2>3, <2>4, <2>5, <2>6 DEF Lines
<1>3. ASSUME w \in Events, conn[w] \in Storing, conn'[w] \in {"leaving", "closed"}
      PROVE  \A d \in Events : conn'[d] # "end"
  BY <1>3 DEF Typed, Storing
<1>4. ASSUME w \in Events, conn'[w] \in {"leaving", "closed"}, conn[w] = "append", Wrote(0)
      PROVE  Lines' /\ Within'
  <2>1. /\ cut' /\ Once(store')
        /\ cut => /\ LastLine' = 0 /\ Elements(store') \subseteq Elements(store) \cup {0}
                  /\ Elements(store) \subseteq Elements(store') \cup {LastLine}
        /\ ~cut => LastLine' = 0 /\ Elements(store') = Elements(store) \cup {0}
    BY <1>4, WroteLines DEF Typed, Lines
  <2>2. \A d \in Events : conn[d] # "end" /\ conn'[d] # "end"
    BY <1>3, <1>4 DEF Typed, Storing
  <2>3. cut => LastLine = 0 \/ (LastLine \notin acked /\ conn[LastLine] \in {"leaving", "closed"})
    BY <2>2 DEF Lines, Spoilable
  <2>4. Doomed' \subseteq Doomed
    <3> SUFFICES ASSUME NEW d \in Events, d \in acked \/ conn[d] \in {"end", "stored"},
                        d \notin Elements(store')
                 PROVE  d \notin Elements(store)
      BY DEF Doomed
    <3>1. d # 0
      BY DEF Events
    <3> QED  BY <2>1, <2>3, <3>1
  <2>5. Within'
    BY <2>4, WithinKept
  <2>6. \A d \in Elements(store') \ {0} : d \in Events /\ conn'[d] \in Past
    BY <2>1 DEF Lines, Past
  <2> QED  BY <2>1, <2>2, <2>5, <2>6 DEF Lines
<1>5. ASSUME w \in Events, conn'[w] \in {"leaving", "closed"}, conn[w] = "end", ~cut', UNCHANGED store
      PROVE  Lines' /\ Within'
  <2>1. \A d \in Events : conn'[d] # "end"
    BY <1>3, <1>5 DEF Storing
  <2>2. ~Spoilable' /\ Doomed' \subseteq Doomed
    BY <1>5 DEF Spoilable, Doomed
  <2>3. Within'
    BY <2>2, WithinKept
  <2>4. \A d \in Elements(store) \ {0} : d \in Events /\ conn'[d] \in Past
    BY DEF Lines, Past
  <2> QED  BY <1>5, <2>1, <2>2, <2>3, <2>4 DEF Lines
<1> QED  BY <1>2, <1>4, <1>5 DEF MaybeCut

LEMMA StoreStep ==
  ASSUME Inv, HeldOnce, Typed, Lines, Within, [CollectorNext]_allVars
  PROVE  Lines' /\ Within'
<1>1. CASE UNCHANGED allVars
  BY <1>1, ConnMoves DEF allVars, ingestVars
<1>2. ASSUME NEW r \in Replicas, WriterStep(r) \/ LogOther(r) \/ ReplicaCrash(r)
      PROVE  Lines' /\ Within'
  <2>1. CASE Posted(r)
    <3>1. writer[r].rec \in Events /\ conn[writer[r].rec] = "none"
      BY <2>1, PostedIsNew DEF Posted
    <3>2. \A d \in Events : conn'[d] = IF d = writer[r].rec THEN "arrived" ELSE conn[d]
      BY <2>1, <3>1, Moved DEF Posted
    <3> QED  BY <2>1, <3>1, <3>2, ConnMoves DEF Posted, ingestVars
  <2>2. CASE UNCHANGED <<ingestVars, conn>>
    BY <2>2, ConnMoves DEF ingestVars
  <2> QED  BY <1>2, <2>1, <2>2 DEF WriterStep, LogWrite, LogOther, ReplicaCrash, Delivered, GiveUp
<1>3. ASSUME NEW e \in Events, Accept(e)  PROVE Lines' /\ Within'
  BY <1>3, ConnMoves DEF Accept
<1>4. ASSUME Admit  PROVE Lines' /\ Within'
  <2>1. /\ accepting.event \in Events /\ conn[accepting.event] = "arrived"
        /\ UNCHANGED <<store, cut, acked, faults>>
    BY <1>4 DEF Admit, Typed
  <2>2. \A d \in Events : conn'[d] = conn[d] \/ (conn[d] = "arrived" /\ conn'[d] \in {"closed", "admitted"})
    <3>1. CASE UNCHANGED conn
      BY <3>1
    <3>2. ASSUME NEW pc \in {"closed", "admitted"}, Move(accepting.event, pc)
          PROVE  \A d \in Events : conn'[d] = conn[d] \/ (conn[d] = "arrived" /\ conn'[d] \in {"closed", "admitted"})
      BY <2>1, <3>2, Moved
    <3> QED  BY <1>4, <3>1, <3>2 DEF Admit, Refused, Admitted
  <2> QED  BY <2>1, <2>2, ConnMoves
<1>5. ASSUME NEW e \in Events, WorkerStep(e)  PROVE Lines' /\ Within'
  <2>1. CASE LockStore(e)
    <3>1. conn[e] = "admitted" /\ \A d \in Events : conn'[d] = IF d = e THEN "append" ELSE conn[d]
      BY <2>1, Moved DEF LockStore
    <3> QED  BY <2>1, <3>1, ConnMoves DEF LockStore
  <2>2. CASE Leave(e)
    <3>1. conn[e] = "leaving" /\ \A d \in Events : conn'[d] = IF d = e THEN "closed" ELSE conn[d]
      BY <2>2, Moved DEF Leave
    <3> QED  BY <2>2, <3>1, ConnMoves DEF Leave
  <2> QED  BY <1>5, <2>1, <2>2, AppendStored, EndStored DEF WorkerStep
<1>6. ASSUME NEW e \in Events, FailStore(e)  PROVE Lines' /\ Within'
  <2>1. /\ conn[e] # "none" /\ MaybeCut(e) /\ UNCHANGED acked /\ faults' = faults + 1
        /\ \A d \in Events : conn'[d] = IF d = e THEN "leaving" ELSE conn[d]
    BY <1>6, Moved DEF FailStore, Counted, Storing
  <2>2. \A d \in Events : conn'[d] = conn[d] \/ (conn[d] # "none" /\ conn'[d] \in {"leaving", "closed"})
    BY <2>1
  <2> QED  BY <2>1, <2>2, FaultStored
<1>7. CASE CollectorCrash
  <2>1. /\ UNCHANGED acked /\ faults' = faults + 1
        /\ \A d \in Events : conn'[d] = IF conn[d] = "none" THEN "none" ELSE "closed"
    BY <1>7 DEF CollectorCrash, Counted
  <2>2. \/ UNCHANGED <<store, cut>>
        \/ ingest \in Events /\ MaybeCut(ingest) /\ conn'[ingest] \in {"leaving", "closed"}
    <3>1. CASE ingest = None
      BY <1>7, <3>1 DEF CollectorCrash
    <3>2. CASE ingest # None
      <4>1. ingest \in Events /\ conn[ingest] # "none" /\ MaybeCut(ingest)
        BY <1>7, <3>2 DEF CollectorCrash, Typed, Storing
      <4> QED  BY <2>1, <4>1
    <3> QED  BY <3>1, <3>2
  <2>3. \A d \in Events : conn'[d] = conn[d] \/ (conn[d] # "none" /\ conn'[d] \in {"leaving", "closed"})
    BY <2>1
  <2> QED  BY <2>1, <2>2, <2>3, FaultStored
<1> QED  BY <1>1, <1>2, <1>3, <1>4, <1>5, <1>6, <1>7 DEF CollectorNext

LEMMA InitStore == CollectorInit => Lines /\ Within
<1> SUFFICES ASSUME CollectorInit  PROVE Lines /\ Within
  OBVIOUS
<1>1. store = <<>> /\ ~cut /\ acked = {} /\ faults = 0 /\ \A e \in Events : conn[e] = "none"
  BY DEF CollectorInit
<1>2. Doomed = {} /\ ~Spoilable
  BY <1>1 DEF Doomed, Spoilable
<1>3. Within
  BY <1>1, <1>2, FS_EmptySet DEF Within
<1> QED  BY <1>1, <1>2, <1>3, NoElements DEF Lines, Once

LEMMA StoredOnce ==
  ASSUME Typed, Lines, NEW e \in Events, e \in Elements(store)
  PROVE  IsStored(e)
<1>1. PICK i \in DOMAIN store : store[i] = e
  BY DEF Elements
<1>2. e # 0
  BY DEF Events
<1>3. {j \in DOMAIN store : store[j] = e} = {i}
  BY <1>1, <1>2 DEF Lines, Once
<1> QED  BY <1>3, FS_Singleton DEF IsStored

(* An event answered 204 is in the store, once, but for those that a       *)
(* failed write has spoilt, one for each at most (audit.rs:412).           *)
THEOREM DeliveredAreStored == CollectorSpec => []DeliveredIsStored
<1>1. Safe /\ Lines /\ Within => DeliveredIsStored
  <2> SUFFICES ASSUME Safe, Lines, Within  PROVE DeliveredIsStored
    OBVIOUS
  <2>1. acked \subseteq Events /\ Typed
    BY DEF Safe, Typed
  <2>2. {e \in acked : ~IsStored(e)} \subseteq Doomed
    BY <2>1, StoredOnce DEF Doomed
  <2>3. IsFiniteSet(Doomed) /\ Cardinality(Doomed) \in Nat /\ Cardinality({e \in acked : ~IsStored(e)}) \in Nat
    BY <2>1, SomeEventsFinite DEF Doomed
  <2>4. Cardinality({e \in acked : ~IsStored(e)}) <= Cardinality(Doomed)
    BY <2>2, <2>3, FS_Subset
  <2> HIDE DEF Doomed, Spoilable
  <2>5. Cardinality(Doomed) <= faults
    BY <2>3 DEF Within
  <2>6. faults \in Nat
    BY DEF Within
  <2> QED  BY <2>3, <2>4, <2>5, <2>6 DEF DeliveredIsStored
<1>2. Safe /\ Lines /\ Within /\ [CollectorNext]_allVars => Lines' /\ Within'
  BY StoreStep DEF Safe
<1>3. Safe /\ [CollectorNext]_allVars => Safe'
  BY NextSafe
<1> QED  BY <1>1, <1>2, <1>3, InitSafe, InitStore, PTL DEF CollectorSpec

=============================================================================
