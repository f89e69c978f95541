---------------------------- MODULE TenantLimiter ----------------------------
(***************************************************************************)
(* The concurrency counter of a tenant in Redis, which bounds the scans,   *)
(* the streams or the remediation jobs that run at once                    *)
(* (core/rate_limit/tenant_limiter.py).                                    *)
(*                                                                         *)
(* A client is admitted when INCR gave it a value within the limit,        *)
(* otherwise it takes its increment back.  A release is a DECR, and a      *)
(* DELETE if nothing remained.  The EXPIRE that follows INCR is left out:  *)
(* the key may expire at any moment.                                       *)
(***************************************************************************)
EXTENDS Integers, FiniteSets

CONSTANTS
  Clients,   \* tasks that ask for a slot
  Limit,     \* the limit of the tenant's plan
  MaxLost    \* bound on crashes and Redis errors

ASSUME ClientsAssumption == IsFiniteSet(Clients)
ASSUME LimitAssumption == Limit \in Nat \ {0} /\ MaxLost \in Nat

VARIABLES
  counter,   \* the key's value, 0 when there is no key
  client,    \* where each client is in acquiring or releasing
  lost       \* increments whose client died or met a Redis error

limiter == <<counter, client, lost>>

\* refused: the increment is to be taken back; emptied: DECR left nothing, and
\* DELETE is next.
ClientStages == {"out", "held", "refused", "emptied"}
Counting == {c \in Clients : client[c] \in {"held", "refused"}}

LimiterTypeOK ==
  /\ counter \in Int
  /\ client \in [Clients -> ClientStages]
  /\ lost \in 0 .. MaxLost

LimiterInit ==
  /\ counter = 0
  /\ client = [c \in Clients |-> "out"]
  /\ lost = 0

Enters(c, stage) == client' = [client EXCEPT ![c] = stage]

FaultyAnswer == IF counter < Limit THEN "held" ELSE "out"
Answer == IF counter < Limit THEN "held" ELSE "refused"

Incr(c) ==
  /\ client[c] = "out"
  /\ counter' = counter + 1
  /\ Enters(c, Answer)
  /\ UNCHANGED lost

Decr(c) ==
  /\ client[c] \in {"held", "refused"}
  /\ counter' = counter - 1
  /\ Enters(c, IF counter' <= 0 THEN "emptied" ELSE "out")
  /\ UNCHANGED lost

Delete(c) ==
  /\ client[c] = "emptied"
  /\ counter' = 0
  /\ Enters(c, "out")
  /\ UNCHANGED lost

\* A command raises RedisError: the client is refused, or its release is
\* swallowed, and an increment it had made stays.
StoreFails(c) ==
  /\ client[c] # "out"
  /\ lost < MaxLost
  /\ lost' = lost + 1
  /\ Enters(c, "out")
  /\ UNCHANGED counter

KeyExpires ==
  /\ counter # 0
  /\ counter' = 0
  /\ UNCHANGED <<client, lost>>

LimiterStep(c) == (client[c] = "refused" /\ Decr(c)) \/ Delete(c)

LimiterNext == KeyExpires \/ \E c \in Clients : Incr(c) \/ Decr(c) \/ Delete(c) \/ StoreFails(c)

LimiterSpec == LimiterInit /\ [][LimiterNext]_limiter

\* The counter never exceeds the increments that clients have made and not
\* taken back, plus those that a crash or a Redis error left behind, whatever
\* DELETE and expiry do between an INCR and its DECR: nobody is refused on
\* account of a slot that was given back.  (Nothing bounds it from below: a
\* DELETE that follows another client's INCR forgets that client.)
NoPhantomSlots == counter <= Cardinality(Counting) + lost
=============================================================================
