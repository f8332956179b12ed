-------------------------- MODULE AdmissionProofs --------------------------
(***************************************************************************)
(* The limiter's buckets behave as if they were refilled as time passes    *)
(* and never forgotten, no client is granted more than its burst and its   *)
(* rate, and the limit on connections is kept: for any rate, capacity,     *)
(* number of clients and of threads.                                       *)
(***************************************************************************)
EXTENDS Admission, FiniteSetTheorems, TLAPS

Bucket == [tokens : Nat, last : Nat]

(* Buckets hold at most the capacity, as of no later than now. *)
BucketsOK ==
  /\ now \in Nat
  /\ buckets \in [Clients -> Bucket \cup {None}]
  /\ \A c \in Clients : buckets[c] # None =>
       buckets[c].tokens <= Capacity /\ buckets[c].last <= now

Busy == {h \in Handlers : handler[h].pc # "idle"}

HandlersOK ==
  /\ accepting \in Clients \cup {None}
  /\ handler \in [Handlers -> {Idle} \cup
       [pc : {"check", "serve", "served", "refused"}, client : Clients]]

(* The count is exact, and the accepting thread has read a count that only *)
(* it raises.                                                              *)
CountOK ==
  /\ live \in Nat
  /\ live = Cardinality(Busy)
  /\ live <= MaxConnections
  /\ accepting # None => live < MaxConnections

(* What a client was granted and still may be granted. *)
SpentOK ==
  /\ spent \in [Clients -> Nat]
  /\ \A c \in Clients : spent[c] + Level(c) <= Capacity + Rate * now

Inv == BucketsOK /\ HandlersOK /\ CountOK /\ SpentOK

-----------------------------------------------------------------------------
(* Arithmetic of the refill. *)

LEMMA TimesMonotone ==
  ASSUME NEW m \in Nat, NEW n \in Nat, NEW r \in Nat, m <= n
  PROVE  m * r <= n * r
<1> DEFINE d == n - m
<1>1. d \in Nat /\ n = m + d
  OBVIOUS
<1>2. n * r = m * r + d * r
  BY <1>1
<1>3. d * r \in Nat /\ m * r \in Nat
  BY <1>1
<1> QED  BY <1>2, <1>3

LEMMA TimesSucc ==
  ASSUME NEW n \in Nat, NEW r \in Nat
  PROVE  (n + 1) * r = n * r + r /\ r * (n + 1) = r * n + r /\ n * r \in Nat /\ r * n \in Nat
OBVIOUS

(* What a bucket holds is a number between nothing and the capacity. *)
LEMMA RefilledType ==
  ASSUME BucketsOK, NEW b \in Bucket \cup {None}, b # None => b.last <= now
  PROVE  Refilled(b) \in Nat /\ Refilled(b) <= Capacity
<1>1. CASE b = None
  BY <1>1, AdmissionAssumption DEF Refilled
<1>2. CASE b # None
  <2>1. b.tokens \in Nat /\ now - b.last \in Nat
    BY <1>2 DEF Bucket, BucketsOK
  <2>2. (now - b.last) * Rate \in Nat
    BY <2>1, AdmissionAssumption
  <2> QED  BY <1>2, <2>1, <2>2, AdmissionAssumption DEF Refilled, Filled
<1> QED  BY <1>1, <1>2

LEMMA LevelType ==
  ASSUME BucketsOK, NEW c \in Clients
  PROVE  Level(c) \in Nat /\ Level(c) <= Capacity
BY RefilledType DEF BucketsOK, Level

(* Purging is not noticed: an idle bucket is full, as a new one is. *)
LEMMA PurgeUnnoticed ==
  ASSUME BucketsOK
  PROVE  /\ Purged \in [Clients -> Bucket \cup {None}]
         /\ \A c \in Clients : /\ Refilled(Purged[c]) = Level(c)
                               /\ Purged[c] # None => Purged[c] = buckets[c]
<1>1. Purged \in [Clients -> Bucket \cup {None}]
  BY DEF BucketsOK, Purged
<1>2. ASSUME NEW c \in Clients
      PROVE  /\ Refilled(Purged[c]) = Level(c)
             /\ Purged[c] # None => Purged[c] = buckets[c]
  <2>1. \/ Purged[c] = buckets[c]
        \/ Purged[c] = None /\ buckets[c] # None /\ ~(now - buckets[c].last < PurgeAge)
    BY DEF Purged, BucketsOK
  <2>2. CASE Purged[c] = buckets[c]
    BY <2>2 DEF Level
  <2>3. CASE Purged[c] = None /\ buckets[c] # None /\ ~(now - buckets[c].last < PurgeAge)
    <3> DEFINE age == now - buckets[c].last
    <3>1. age \in Nat /\ PurgeAge <= age /\ buckets[c].tokens \in Nat
      BY <2>3, AdmissionAssumption DEF BucketsOK, Bucket
    <3>2. PurgeAge * Rate <= age * Rate
      BY <3>1, TimesMonotone, AdmissionAssumption
    <3>3. age * Rate \in Nat /\ PurgeAge * Rate \in Nat
      BY <3>1, AdmissionAssumption
    <3>4. ~(buckets[c].tokens + age * Rate < Capacity)
      BY <3>1, <3>2, <3>3, AdmissionAssumption
    <3>5. Level(c) = Capacity
      BY <2>3, <3>4 DEF Level, Refilled, Filled
    <3> QED  BY <2>3, <3>5 DEF Refilled
  <2> QED  BY <2>1, <2>2, <2>3
<1> QED  BY <1>1, <1>2

(* As time passes every bucket's level rises by the rate, up to the limit. *)
LEMMA LevelAfterTick ==
  ASSUME BucketsOK, now' = now + 1, buckets' = buckets, NEW c \in Clients
  PROVE  Level(c)' = Filled(Level(c) + Rate)
<1>1. CASE buckets[c] = None
  BY <1>1, AdmissionAssumption DEF Level, Refilled, Filled
<1>2. CASE buckets[c] # None
  <2> DEFINE age == now - buckets[c].last
             t == buckets[c].tokens
  <2>1. age \in Nat /\ t \in Nat /\ now' - buckets[c].last = age + 1
    BY <1>2 DEF BucketsOK, Bucket
  <2>2. (age + 1) * Rate = age * Rate + Rate /\ age * Rate \in Nat
    BY <2>1, TimesSucc, AdmissionAssumption
  <2>3. Level(c) = Filled(t + age * Rate)
    BY <1>2 DEF Level, Refilled
  <2>4. Level(c)' = Filled(t + (age + 1) * Rate)
    BY <1>2, <2>1 DEF Level, Refilled, Filled
  <2>5. Level(c)' = Filled(t + age * Rate + Rate)
    BY <2>1, <2>2, <2>4, AdmissionAssumption
  <2> HIDE DEF age, t
  <2> QED  BY <2>1, <2>2, <2>3, <2>5, AdmissionAssumption DEF Filled
<1> QED  BY <1>1, <1>2

(* What a call of `check_and_consume` does to the levels. *)
LEMMA LevelAfterConsume ==
  ASSUME BucketsOK, spent \in [Clients -> Nat], now' = now,
         NEW c \in Clients, NEW cost \in Nat, Consume(c, cost)
  PROVE  /\ BucketsOK'
         /\ \A d \in Clients : d # c => Level(d)' = Level(d)
         /\ Level(c) >= cost => /\ Level(c)' = Level(c) - cost
                                /\ spent' = [spent EXCEPT ![c] = @ + cost]
         /\ ~(Level(c) >= cost) => Level(c)' = Level(c) /\ spent' = spent
<1> DEFINE left == IF Level(c) >= cost THEN Level(c) - cost ELSE Level(c)
<1>1. /\ Purged \in [Clients -> Bucket \cup {None}]
      /\ \A d \in Clients : /\ Refilled(Purged[d]) = Level(d)
                            /\ Purged[d] # None => Purged[d] = buckets[d]
  BY PurgeUnnoticed
<1>2. /\ buckets' = [Purged EXCEPT ![c] = [tokens |-> left, last |-> now]]
      /\ spent' = IF Level(c) >= cost THEN [spent EXCEPT ![c] = @ + cost] ELSE spent
  BY <1>1 DEF Consume
<1>3. left \in Nat /\ left <= Capacity
  BY LevelType, AdmissionAssumption
<1>4. now \in Nat
  BY DEF BucketsOK
<1>5. buckets'[c] = [tokens |-> left, last |-> now] /\ buckets'[c] \in Bucket /\ buckets'[c] # None
  BY <1>1, <1>2, <1>3, <1>4, AdmissionAssumption DEF Bucket
<1>6. \A d \in Clients : d # c => buckets'[d] = Purged[d]
  BY <1>1, <1>2
<1>7. BucketsOK'
  <2>1. buckets' \in [Clients -> Bucket \cup {None}]
    BY <1>1, <1>2, <1>5
  <2>2. ASSUME NEW d \in Clients, buckets'[d] # None
        PROVE  buckets'[d].tokens <= Capacity /\ buckets'[d].last <= now
    <3>1. CASE d = c
      BY <3>1, <1>3, <1>4, <1>5
    <3>2. CASE d # c
      BY <3>2, <2>2, <1>1, <1>6 DEF BucketsOK
    <3> QED  BY <3>1, <3>2
  <2> QED  BY <2>1, <2>2, <1>4 DEF BucketsOK
<1>8. Level(c)' = left
  <2>1. (now - now) * Rate = 0
    BY <1>4, AdmissionAssumption
  <2>2. Level(c)' = Filled(left + (now - now) * Rate)
    BY <1>5 DEF Level, Refilled, Filled
  <2> HIDE DEF left
  <2> QED  BY <2>1, <2>2, <1>3, AdmissionAssumption DEF Filled
<1>9. \A d \in Clients : d # c => Level(d)' = Level(d)
  BY <1>1, <1>6 DEF Level, Refilled, Filled
<1> QED  BY <1>2, <1>7, <1>8, <1>9

-----------------------------------------------------------------------------
(* The inductive invariant. *)

LEMMA BusyFinite == IsFiniteSet(Busy) /\ Cardinality(Busy) \in Nat
<1>1. IsFiniteSet(Busy)
  BY FS_Subset, AdmissionAssumption DEF Busy
<1> QED  BY <1>1, FS_CardinalityType

LEMMA InitInv == Init => Inv
<1> SUFFICES ASSUME Init  PROVE Inv
  OBVIOUS
<1>1. BucketsOK /\ HandlersOK
  BY DEF Init, BucketsOK, HandlersOK
<1>2. CountOK
  <2>1. Busy = {}
    BY DEF Init, Busy, Idle
  <2> QED  BY <2>1, FS_EmptySet, AdmissionAssumption DEF Init, CountOK
<1>3. SpentOK
  <2>1. \A c \in Clients : spent[c] = 0 /\ Level(c) = Capacity
    BY DEF Init, Level, Refilled
  <2>2. Rate * 0 = 0
    BY AdmissionAssumption
  <2> QED  BY <2>1, <2>2, AdmissionAssumption DEF Init, SpentOK
<1> QED  BY <1>1, <1>2, <1>3 DEF Inv

LEMMA TickStep ==
  ASSUME Inv, Tick
  PROVE  Inv'
<1>1. now' = now + 1 /\ UNCHANGED <<buckets, live, accepting, handler, spent>>
  BY DEF Tick
<1>2. BucketsOK'
  BY <1>1 DEF Inv, BucketsOK, Bucket
<1>3. HandlersOK' /\ CountOK'
  BY <1>1 DEF Inv, HandlersOK, CountOK, Busy
<1>4. SpentOK'
  <2>1. ASSUME NEW c \in Clients
        PROVE  spent[c] + Level(c)' <= Capacity + Rate * (now + 1)
    <3>1. Level(c)' = Filled(Level(c) + Rate) /\ Level(c) \in Nat
      BY <1>1, LevelAfterTick, LevelType DEF Inv
    <3>2. Level(c)' <= Level(c) + Rate /\ Level(c)' \in Nat
      BY <3>1, AdmissionAssumption DEF Filled
    <3>3. Rate * (now + 1) = Rate * now + Rate /\ Rate * now \in Nat
      BY TimesSucc, AdmissionAssumption DEF Inv, BucketsOK
    <3>4. spent[c] \in Nat /\ spent[c] + Level(c) <= Capacity + Rate * now
      BY DEF Inv, SpentOK
    <3> QED  BY <3>1, <3>2, <3>3, <3>4, AdmissionAssumption
  <2> QED  BY <1>1, <2>1 DEF Inv, SpentOK
<1> QED  BY <1>2, <1>3, <1>4 DEF Inv

(* A step of a thread that asks the limiter. *)
LEMMA ConsumeStep ==
  ASSUME Inv, NEW h \in Handlers, NEW pc \in {"serve", "served", "refused"}, NEW cost \in Nat,
         NEW c \in Clients, Consume(c, cost),
         handler[h] = [pc |-> handler[h].pc, client |-> c], handler[h].pc # "idle",
         handler' = [handler EXCEPT ![h].pc = pc],
         UNCHANGED <<now, live, accepting>>
  PROVE  Inv'
<1>1. handler[h] \in [pc : {"check", "serve", "served", "refused"}, client : Clients]
  BY DEF Inv, HandlersOK, Idle
<1>2. HandlersOK'
  BY <1>1 DEF Inv, HandlersOK
<1>3. CountOK'
  <2>1. Busy' = Busy
    BY <1>1 DEF Inv, HandlersOK, Busy
  <2> QED  BY <2>1 DEF Inv, CountOK
<1>4. /\ BucketsOK'
      /\ \A d \in Clients : d # c => Level(d)' = Level(d)
      /\ Level(c) >= cost => Level(c)' = Level(c) - cost /\ spent' = [spent EXCEPT ![c] = @ + cost]
      /\ ~(Level(c) >= cost) => Level(c)' = Level(c) /\ spent' = spent
  BY LevelAfterConsume DEF Inv, SpentOK
<1>5. SpentOK'
  <2>1. spent' \in [Clients -> Nat]
    BY <1>4 DEF Inv, SpentOK
  <2>2. ASSUME NEW d \in Clients
        PROVE  spent'[d] + Level(d)' = spent[d] + Level(d)
    <3>1. CASE d # c
      <4>1. spent'[d] = spent[d]
        BY <3>1, <1>4 DEF Inv, SpentOK
      <4> QED  BY <3>1, <4>1, <1>4
    <3>2. CASE d = c
      <4>1. Level(c) \in Nat /\ spent[c] \in Nat
        BY LevelType DEF Inv, SpentOK
      <4>2. spent'[c] + Level(c)' = spent[c] + Level(c)
        <5>1. CASE Level(c) >= cost
          <6>1. spent'[c] = spent[c] + cost
            BY <5>1, <1>4 DEF Inv, SpentOK
          <6>2. Level(c)' = Level(c) - cost
            BY <5>1, <1>4
          <6> QED  BY <6>1, <6>2, <4>1
        <5>2. CASE ~(Level(c) >= cost)
          BY <5>2, <1>4
        <5> QED  BY <5>1, <5>2
      <4> QED  BY <3>2, <4>2
    <3> QED  BY <3>1, <3>2
  <2> QED  BY <2>1, <2>2 DEF Inv, SpentOK
<1> QED  BY <1>2, <1>3, <1>4, <1>5 DEF Inv

(* A thread that is not idle has a client. *)
LEMMA BusyHasClient ==
  ASSUME Inv, NEW h \in Handlers, handler[h].pc # "idle"
  PROVE  \E c \in Clients : handler[h] = [pc |-> handler[h].pc, client |-> c]
BY DEF Inv, HandlersOK, Idle

LEMMA CheckStep ==
  ASSUME Inv, NEW h \in Handlers, Check(h)
  PROVE  Inv'
<1>1. PICK c \in Clients : handler[h] = [pc |-> handler[h].pc, client |-> c]
  BY BusyHasClient DEF Check
<1>2. handler[h].client = c /\ handler[h].pc # "idle"
  BY <1>1 DEF Check
<1>3. CASE Refilled(Purged[c]) >= 1
  <2>1. /\ Consume(c, 1) /\ UNCHANGED <<now, live, accepting>>
        /\ handler' = [handler EXCEPT ![h].pc = "serve"]
    BY <1>2, <1>3 DEF Check
  <2> QED  BY <1>1, <1>2, <2>1, ConsumeStep
<1>4. CASE ~(Refilled(Purged[c]) >= 1)
  <2>1. /\ Consume(c, 1) /\ UNCHANGED <<now, live, accepting>>
        /\ handler' = [handler EXCEPT ![h].pc = "refused"]
    BY <1>2, <1>4 DEF Check
  <2> QED  BY <1>1, <1>2, <2>1, ConsumeStep
<1> QED  BY <1>3, <1>4

LEMMA PenalizeStep ==
  ASSUME Inv, NEW h \in Handlers, Penalize(h)
  PROVE  Inv'
<1>1. PICK c \in Clients : handler[h] = [pc |-> handler[h].pc, client |-> c]
  BY BusyHasClient DEF Penalize
<1>2. handler[h].client = c /\ handler[h].pc # "idle"
  BY <1>1 DEF Penalize
<1>3. /\ Consume(c, Penalty) /\ UNCHANGED <<now, live, accepting>>
      /\ handler' = [handler EXCEPT ![h].pc = "served"]
  BY <1>2 DEF Penalize
<1> QED  BY <1>1, <1>2, <1>3, ConsumeStep, AdmissionAssumption

(* The limiter is not asked: levels and grants stay. *)
LEMMA LimiterUntouched ==
  ASSUME Inv, UNCHANGED <<now, buckets, spent>>
  PROVE  BucketsOK' /\ SpentOK' /\ \A c \in Clients : Level(c)' = Level(c)
<1>1. BucketsOK'
  BY DEF Inv, BucketsOK
<1>2. \A c \in Clients : Level(c)' = Level(c)
  BY DEF Level, Refilled, Filled
<1> QED  BY <1>1, <1>2 DEF Inv, SpentOK

LEMMA AcceptStep ==
  ASSUME Inv, NEW c \in Clients, Accept(c)
  PROVE  Inv'
<1>1. HandlersOK' /\ CountOK'
  BY DEF Inv, HandlersOK, CountOK, Busy, Accept
<1> QED  BY <1>1, LimiterUntouched DEF Inv, Accept

(* Only this step raises the count, and since it was read below the limit *)
(* it can only have been lowered.                                          *)
LEMMA SpawnStep ==
  ASSUME Inv, NEW h \in Handlers, Spawn(h)
  PROVE  Inv'
<1>1. HandlersOK'
  BY DEF Inv, HandlersOK, Spawn
<1>2. Busy' = Busy \cup {h} /\ h \notin Busy
  BY DEF Inv, HandlersOK, Busy, Spawn, Idle
<1>3. Cardinality(Busy') = Cardinality(Busy) + 1
  BY <1>2, BusyFinite, FS_AddElement
<1>4. CountOK'
  BY <1>3, AdmissionAssumption DEF Inv, CountOK, Spawn
<1> QED  BY <1>1, <1>4, LimiterUntouched DEF Inv, Spawn

LEMMA FinishStep ==
  ASSUME Inv, NEW h \in Handlers, Finish(h)
  PROVE  Inv'
<1>1. HandlersOK'
  BY DEF Inv, HandlersOK, Finish
<1>2. Busy' = Busy \ {h} /\ h \in Busy
  BY DEF Inv, HandlersOK, Busy, Finish, Idle
<1>3. Cardinality(Busy') = Cardinality(Busy) - 1 /\ Cardinality(Busy') \in Nat
  <2>1. Cardinality(Busy \ {h}) = Cardinality(Busy) - 1 /\ IsFiniteSet(Busy \ {h})
    BY <1>2, BusyFinite, FS_RemoveElement
  <2> QED  BY <1>2, <2>1, FS_CardinalityType
<1>4. CountOK'
  BY <1>3, AdmissionAssumption DEF Inv, CountOK, Finish
<1> QED  BY <1>1, <1>4, LimiterUntouched DEF Inv, Finish

LEMMA NextInv == Inv /\ [Next]_vars => Inv'
<1> SUFFICES ASSUME Inv, [Next]_vars  PROVE Inv'
  OBVIOUS
<1>1. CASE UNCHANGED vars
  <2>1. HandlersOK' /\ CountOK'
    BY <1>1 DEF Inv, HandlersOK, CountOK, Busy, vars
  <2> QED  BY <1>1, <2>1, LimiterUntouched DEF Inv, vars
<1>2. CASE Next
  BY <1>2, TickStep, AcceptStep, SpawnStep, CheckStep, PenalizeStep, FinishStep DEF Next
<1> QED  BY <1>1, <1>2

LEMMA InvAlways == Spec => []Inv
BY InitInv, NextInv, PTL DEF Spec

-----------------------------------------------------------------------------
(* Results. *)

(* The variables of the limiter and of the accepting thread keep their     *)
(* types; no bucket is overdrawn or overfull (security.rs:139).            *)
THEOREM TypeCorrect == Spec => []TypeOK
<1>1. Inv => TypeOK
  <2> SUFFICES ASSUME Inv  PROVE TypeOK
    OBVIOUS
  <2>1. buckets \in [Clients -> [tokens : 0 .. Capacity, last : 0 .. now] \cup {None}]
    <3>1. ASSUME NEW c \in Clients
          PROVE  buckets[c] \in [tokens : 0 .. Capacity, last : 0 .. now] \cup {None}
      BY AdmissionAssumption DEF Inv, BucketsOK, Bucket
    <3> QED  BY <3>1 DEF Inv, BucketsOK
  <2> QED  BY <2>1 DEF TypeOK, Inv, BucketsOK, HandlersOK, CountOK, SpentOK
<1> QED  BY <1>1, InvAlways, PTL

(* No client is granted more than its burst and its rate, although idle    *)
(* buckets are forgotten and start full again (security.rs:130).           *)
THEOREM RateIsBounded == Spec => []RateBound
<1>1. Inv => RateBound
  <2> SUFFICES ASSUME Inv, NEW c \in Clients  PROVE spent[c] <= Capacity + Rate * now
    BY DEF RateBound
  <2>1. Level(c) \in Nat /\ spent[c] \in Nat /\ Rate * now \in Nat
    BY LevelType, TimesSucc, AdmissionAssumption DEF Inv, SpentOK, BucketsOK
  <2>2. spent[c] + Level(c) <= Capacity + Rate * now
    BY DEF Inv, SpentOK
  <2> QED  BY <2>1, <2>2, AdmissionAssumption
<1> QED  BY <1>1, InvAlways, PTL

(* Never more than MAX_CONNECTIONS requests at a time, although the count  *)
(* is read and raised in two steps (main.rs:527, 538).                     *)
THEOREM LimitIsKept == Spec => []WithinLimit
<1>1. Inv => WithinLimit
  BY DEF Inv, CountOK, WithinLimit, Busy
<1> QED  BY <1>1, InvAlways, PTL

(* Buckets refilled when they are asked and purged when they are many      *)
(* behave as if they were refilled as time passes and kept for ever        *)
(* (security.rs:125-148).                                                  *)
THEOREM BucketsAsPromised == Spec => LazyIsEager
<1> DEFINE levels == [c \in Clients |-> Level(c)]
           Costs == {1, Penalty}
<1>1. Init => Promise!Init
  BY DEF Init, Promise!Init, Level, Refilled
<1>2. ASSUME Inv, [Next]_vars
      PROVE  [Promise!Refill \/ \E c \in Clients, cost \in Costs : Promise!Take(c, cost)]_levels
  <2>1. CASE Tick
    <3>1. levels' = [c \in Clients |-> Filled(levels[c] + Rate)]
      BY <1>2, <2>1, LevelAfterTick DEF Inv, Tick
    <3>2. Promise!Refill
      BY <3>1 DEF Promise!Refill, Promise!Filled, Filled
    <3> QED  BY <3>2
  <2>2. ASSUME UNCHANGED <<now, buckets, spent>>
        PROVE  levels' = levels
    BY <1>2, <2>2, LimiterUntouched
  <2>3. ASSUME NEW c \in Clients, NEW cost \in Costs, now' = now, Consume(c, cost)
        PROVE  levels' = levels \/ Promise!Take(c, cost)
    <3>1. cost \in Nat
      BY AdmissionAssumption
    <3>2. /\ \A d \in Clients : d # c => Level(d)' = Level(d)
          /\ Level(c) >= cost => Level(c)' = Level(c) - cost
          /\ ~(Level(c) >= cost) => Level(c)' = Level(c)
      BY <1>2, <2>3, <3>1, LevelAfterConsume DEF Inv, SpentOK
    <3>3. CASE Level(c) >= cost
      <4>1. levels' = [levels EXCEPT ![c] = @ - cost]
        BY <3>2, <3>3
      <4>2. levels[c] >= cost
        BY <3>3
      <4> QED  BY <4>1, <4>2 DEF Promise!Take
    <3>4. CASE ~(Level(c) >= cost)
      BY <3>2, <3>4
    <3> QED  BY <3>3, <3>4
  <2>4. CASE \E c \in Clients : Accept(c)
    BY <2>2, <2>4 DEF Accept
  <2>5. CASE \E h \in Handlers : Spawn(h) \/ Finish(h)
    BY <2>2, <2>5 DEF Spawn, Finish
  <2>6. ASSUME NEW h \in Handlers, Check(h) \/ Penalize(h)
        PROVE  levels' = levels \/ \E c \in Clients, cost \in Costs : Promise!Take(c, cost)
    <3>1. PICK c \in Clients : handler[h] = [pc |-> handler[h].pc, client |-> c]
      BY <1>2, <2>6, BusyHasClient DEF Check, Penalize
    <3>2. PICK cost \in Costs : now' = now /\ Consume(c, cost)
      BY <2>6, <3>1 DEF Check, Penalize
    <3> HIDE DEF levels
    <3> QED  BY <2>3, <3>2
  <2>7. CASE UNCHANGED vars
    BY <2>2, <2>7 DEF vars
  <2> QED  BY <1>2, <2>1, <2>4, <2>5, <2>6, <2>7 DEF Next
<1> QED  BY <1>1, <1>2, InvAlways, PTL DEF Spec, LazyIsEager, Promise!Spec
=============================================================================
