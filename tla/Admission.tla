----------------------------- MODULE Admission -----------------------------
(***************************************************************************)
(* Who is let in: the accepting thread and its count of connections        *)
(* (`main` and `Live` in src/main.rs) and the rate limiter that each       *)
(* request thread asks (`RateLimiter` in src/security.rs).                 *)
(*                                                                         *)
(* Time is counted in ticks, and `Rate` tokens are refilled in a tick; the *)
(* rounding of floating point numbers is left out.  `check_and_consume`    *)
(* holds the limiter's lock from the clock reading to its end and is one   *)
(* step.                                                                   *)
(***************************************************************************)
EXTENDS Integers, FiniteSets

CONSTANTS
  Clients,         \* addresses
  Handlers,        \* request threads
  MaxConnections,  \* MAX_CONNECTIONS, 64
  Rate, Capacity,  \* --rate-limit, and twice that
  Penalty,         \* tokens for a failed sign-on, 5
  MaxEntries,      \* buckets kept before idle ones are purged, 10,000
  PurgeAge,        \* the time after which a bucket is idle, 300 s
  MaxTime,         \* bound on the clock
  None

(* The capacity is two seconds' worth of tokens, so an idle bucket is full. *)
ASSUME AdmissionAssumption ==
  /\ Rate \in Nat /\ Capacity \in Nat /\ PurgeAge \in Nat
  /\ Capacity <= PurgeAge * Rate
  /\ Penalty \in Nat /\ MaxEntries \in Nat /\ MaxConnections \in Nat \ {0} /\ MaxTime \in Nat
  /\ IsFiniteSet(Handlers)
  /\ None \notin [tokens : Nat, last : Nat] /\ None \notin Clients

VARIABLES
  now,         \* the clock
  buckets,     \* each client's tokens and the time of its last request, or None
  live,        \* active_conns
  accepting,   \* the client whose connection the accepting thread counts next
  handler,     \* what each request thread is doing
  spent        \* history: the tokens each client was granted

vars == <<now, buckets, live, accepting, handler, spent>>

Idle == [pc |-> "idle", client |-> None]

-----------------------------------------------------------------------------
(* The limiter. *)

Filled(n) == IF n < Capacity THEN n ELSE Capacity

(* Mutant: no upper limit. *)
RefilledUnlimited(bucket) ==
  IF bucket = None THEN Capacity ELSE bucket.tokens + (now - bucket.last) * Rate

(* What a bucket holds once it is refilled for the time that passed. *)
Refilled(bucket) ==
  IF bucket = None THEN Capacity ELSE Filled(bucket.tokens + (now - bucket.last) * Rate)

Level(c) == Refilled(buckets[c])

(* Mutant: all buckets are forgotten when there are too many. *)
PurgedAll ==
  IF Cardinality({c \in Clients : buckets[c] # None}) > MaxEntries
    THEN [c \in Clients |-> None]
    ELSE buckets

Purged ==
  IF Cardinality({c \in Clients : buckets[c] # None}) > MaxEntries
    THEN [c \in Clients |-> IF buckets[c] # None /\ now - buckets[c].last < PurgeAge
                              THEN buckets[c] ELSE None]
    ELSE buckets

(* Mutant: a refused request leaves the time of the last one. *)
ConsumeKeepingTime(c, cost) ==
  LET tokens  == Refilled(Purged[c])
      granted == tokens >= cost
      last    == IF granted \/ Purged[c] = None THEN now ELSE Purged[c].last
  IN  /\ buckets' = [Purged EXCEPT ![c] =
           [tokens |-> IF granted THEN tokens - cost ELSE tokens, last |-> last]]
      /\ spent' = IF granted THEN [spent EXCEPT ![c] = @ + cost] ELSE spent

(* `check_and_consume`: a request that is refused takes nothing. *)
Consume(c, cost) ==
  LET tokens  == Refilled(Purged[c])
      granted == tokens >= cost
  IN  /\ buckets' = [Purged EXCEPT ![c] =
           [tokens |-> IF granted THEN tokens - cost ELSE tokens, last |-> now]]
      /\ spent' = IF granted THEN [spent EXCEPT ![c] = @ + cost] ELSE spent

-----------------------------------------------------------------------------
Tick ==
  /\ now < MaxTime
  /\ now' = now + 1
  /\ UNCHANGED <<buckets, live, accepting, handler, spent>>

(* Mutant: one more is admitted. *)
AcceptAtLimit(c) ==
  /\ accepting = None
  /\ live <= MaxConnections
  /\ accepting' = c
  /\ UNCHANGED <<now, buckets, live, handler, spent>>

(* The accepting thread reads the count.  At the limit it answers 503 and  *)
(* goes on to the next connection, which changes nothing.                  *)
Accept(c) ==
  /\ accepting = None
  /\ live < MaxConnections
  /\ accepting' = c
  /\ UNCHANGED <<now, buckets, live, handler, spent>>

(* It raises the count and starts a thread. *)
Spawn(h) ==
  /\ accepting # None
  /\ handler[h] = Idle
  /\ live' = live + 1
  /\ handler' = [handler EXCEPT ![h] = [pc |-> "check", client |-> accepting]]
  /\ accepting' = None
  /\ UNCHANGED <<now, buckets, spent>>

(* The first thing a request does is to ask the limiter; refused, it is    *)
(* answered 429.                                                           *)
Check(h) ==
  /\ handler[h].pc = "check"
  /\ Consume(handler[h].client, 1)
  /\ handler' = [handler EXCEPT ![h].pc =
       IF Refilled(Purged[handler[h].client]) >= 1 THEN "serve" ELSE "refused"]
  /\ UNCHANGED <<now, live, accepting>>

(* A sign-on that failed; whether the penalty was granted is not asked. *)
Penalize(h) ==
  /\ handler[h].pc = "serve"
  /\ Consume(handler[h].client, Penalty)
  /\ handler' = [handler EXCEPT ![h].pc = "served"]
  /\ UNCHANGED <<now, live, accepting>>

(* Mutant: the answer 429 returns without lowering the count. *)
FinishServed(h) ==
  /\ handler[h].pc \in {"serve", "served", "refused"}
  /\ handler' = [handler EXCEPT ![h] = Idle]
  /\ live' = IF handler[h].pc = "refused" THEN live ELSE live - 1
  /\ UNCHANGED <<now, buckets, accepting, spent>>

(* The request is over, by whatever return or panic: `Live` is dropped. *)
Finish(h) ==
  /\ handler[h].pc \in {"serve", "served", "refused"}
  /\ handler' = [handler EXCEPT ![h] = Idle]
  /\ live' = live - 1
  /\ UNCHANGED <<now, buckets, accepting, spent>>

Init ==
  /\ now = 0
  /\ buckets = [c \in Clients |-> None]
  /\ live = 0
  /\ accepting = None
  /\ handler = [h \in Handlers |-> Idle]
  /\ spent = [c \in Clients |-> 0]

Next ==
  \/ Tick
  \/ \E c \in Clients : Accept(c)
  \/ \E h \in Handlers : Spawn(h) \/ Check(h) \/ Penalize(h) \/ Finish(h)

(* Reads and writes of a connection time out (main.rs:542), so a request    *)
(* ends.                                                                    *)
Fairness == \A h \in Handlers : WF_vars(Check(h)) /\ WF_vars(Finish(h))

Spec == Init /\ [][Next]_vars /\ Fairness

-----------------------------------------------------------------------------
(* Properties. *)

(* Buckets hold between nothing and the capacity, as of a time that is     *)
(* over (security.rs:139).                                                 *)
TypeOK ==
  /\ now \in Nat /\ live \in Nat
  /\ buckets \in [Clients -> [tokens : 0 .. Capacity, last : 0 .. now] \cup {None}]
  /\ accepting \in Clients \cup {None}
  /\ handler \in [Handlers -> {Idle} \cup
       [pc : {"check", "serve", "served", "refused"}, client : Clients]]
  /\ spent \in [Clients -> Nat]

(* A client is granted its burst and its rate and no more, although idle   *)
(* buckets are forgotten and start full again (security.rs:130).           *)
RateBound == \A c \in Clients : spent[c] <= Capacity + Rate * now

(* The limiter's buckets, refilled when they are asked and purged when     *)
(* they are many, behave as if they were refilled as time passes and kept  *)
(* for ever (security.rs:125-148).                                         *)
Promise == INSTANCE TokenBucket WITH
  level <- [c \in Clients |-> Level(c)], Costs <- {1, Penalty}

LazyIsEager == Promise!Spec

(* No more than MAX_CONNECTIONS requests are served at a time, although    *)
(* the count is read and raised in two steps (main.rs:527, 538).           *)
WithinLimit == Cardinality({h \in Handlers : handler[h].pc # "idle"}) <= MaxConnections

(* However requests end, the limit is not reached for ever (main.rs:720). *)
CapacityReturns == (live >= MaxConnections) ~> (live < MaxConnections)

=============================================================================
