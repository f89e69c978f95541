-------------------------- MODULE EventBackboneProofs --------------------------
(***************************************************************************)
(* Theorems about the composition of the producers with a consumer group,  *)
(* for every value of its constants, proved with TLAPS.  A step of the     *)
(* producers leaves the group alone and lets its topic grow; a step of the *)
(* group leaves the producers alone.  So the inductive invariants of the   *)
(* two parts hold together, and the lemmas of EventConsumerProofs serve    *)
(* here for the topic log["events"].                                       *)
(***************************************************************************)
EXTENDS EventBackbone, EventProducerProofs

GP == INSTANCE EventConsumerProofs WITH log <- log["events"], MaxLog <- 0

-----------------------------------------------------------------------------
(* The log of the producers only grows.                                    *)

LEMMA DrainGrows ==
    ASSUME TypeOK, NEW p \in Pods, Drain(p) PROVE LogGrows
  <1>1. ASSUME NEW i \in daemon[p].rows, Store(RowRecord(i)) PROVE LogGrows
    <2>1. i \in DOMAIN wal
      BY DEF TypeOK
    <2>2. RowRecord(i) \in Record
      BY <2>1, RowTyped
    <2> QED BY <1>1, <2>2, StoreGrows
  <1>2. CASE UNCHANGED log
    BY <1>2, SameLogGrows
  <1> QED BY <1>1, <1>2 DEF Drain, DrainRead, DrainSend, DrainFails, DrainCommit

LEMMA ProducerLogGrows == ASSUME TypeOK, ProducerNext PROVE LogGrows
  <1>1. CASE Deliver
    <2>1. PICK r \in inFlight : Store(r)
      BY <1>1 DEF Deliver
    <2>2. r \in Record
      BY <2>1 DEF TypeOK
    <2> QED BY <2>1, <2>2, StoreGrows
  <1>2. CASE UNCHANGED log
    BY <1>2, SameLogGrows
  <1>3. ASSUME NEW e \in Events, Call(e) PROVE UNCHANGED log
    BY <1>3 DEF Call, Send, Acknowledged, TimeOut, WriteWal, WalFails, LastResort
  <1>4. ASSUME NEW p \in Pods, Restart(p) PROVE UNCHANGED log
    BY <1>4 DEF Restart
  <1> QED BY <1>1, <1>2, <1>3, <1>4, DrainGrows DEF ProducerNext, BrokerToggles, Drop

-----------------------------------------------------------------------------
(* What the group sees of it.                                              *)

LEMMA TopicOK == ASSUME TypeOK PROVE GP!LogOK
  <1>1. log["events"] \in Seq(Record)
    BY DEF TypeOK, Topics
  <1>2. /\ Len(log["events"]) \in Nat
        /\ DOMAIN log["events"] = 1 .. Len(log["events"])
        /\ \A k \in DOMAIN log["events"] : log["events"][k] \in Record
    BY <1>1, ElementOfSeq, LenProperties
  <1> QED BY <1>2 DEF GP!LogOK, Record

LEMMA TopicOKNext == TypeOK' => GP!LogOK'
  BY TopicOK, PTL

LEMMA TopicGrows ==
    ASSUME TypeOK, ProducerNext, UNCHANGED groupVars PROVE GP!LogGrows
  <1>1. GP!LogOK'
    <2>1. TypeOK'
      BY TypeStep
    <2> QED BY <2>1, TopicOKNext
  <1>2. \A k \in DOMAIN log["events"] :
          k \in DOMAIN log'["events"] /\ log'["events"][k] = log["events"][k]
    BY ProducerLogGrows DEF LogGrows, Topics
  <1> QED BY <1>1, <1>2 DEF GP!LogGrows, groupVars, GP!groupVars

(***************************************************************************)
(* EventBackbone takes the actions of the group from EventConsumer, the     *)
(* lemmas come from EventConsumerProofs, which extends it: both say the     *)
(* same.                                                                    *)
(***************************************************************************)
LEMMA SameInit == Group!GroupInit <=> GP!GroupInit
  BY DEF Group!GroupInit, GP!GroupInit, Group!Polling, GP!Polling

LEMMA SameNext == Group!GroupNext <=> GP!GroupNext
  <1> SUFFICES ASSUME NEW w \in Workers
               PROVE  Group!Assign(w) \/ Group!Handle(w) \/ Group!Crash(w)
                        <=> GP!Assign(w) \/ GP!Handle(w) \/ GP!Crash(w)
    BY DEF Group!GroupNext, GP!GroupNext
  <1>1. Group!Assign(w) <=> GP!Assign(w)
    BY DEF Group!Assign, Group!Mishap, GP!Assign, GP!Mishap
  <1>2. Group!Poll(w) <=> GP!Poll(w)
    BY DEF Group!Poll, GP!Poll
  <1>3. Group!Refuse(w) <=> GP!Refuse(w)
    BY DEF Group!Refuse, Group!EventOf, Group!EntersStage, GP!Refuse,
           GP!EventOf, GP!EntersStage
  <1>4. Group!Skip(w) <=> GP!Skip(w)
    BY DEF Group!Skip, Group!AlreadyProcessed, Group!EventOf,
           Group!EntersStage, GP!Skip, GP!AlreadyProcessed, GP!EventOf,
           GP!EntersStage
  <1>5. Group!Insert(w) <=> GP!Insert(w)
    BY DEF Group!Insert, Group!AlreadyProcessed, Group!KeyHeld,
           Group!EventOf, Group!EntersStage, GP!Insert, GP!AlreadyProcessed,
           GP!KeyHeld, GP!EventOf, GP!EntersStage
  <1>6. Group!CommitEffect(w) <=> GP!CommitEffect(w)
    BY DEF Group!CommitEffect, Group!Effect, Group!EventOf,
           Group!EntersStage, GP!CommitEffect, GP!Effect, GP!EventOf,
           GP!EntersStage
  <1>7. Group!FailAttempt(w) <=> GP!FailAttempt(w)
    BY DEF Group!FailAttempt, Group!Effect, Group!EventOf, Group!Retry,
           Group!Retried, GP!FailAttempt, GP!Effect, GP!EventOf, GP!Retry,
           GP!Retried
  <1>8. Group!CommitOffset(w) <=> GP!CommitOffset(w)
    BY DEF Group!CommitOffset, Group!CommittedBy, Group!NextMessage,
           Group!Advanced, Group!Polling, GP!CommitOffset, GP!CommittedBy,
           GP!NextMessage, GP!Advanced, GP!Polling
  <1>9. Group!OffsetFails(w) <=> GP!OffsetFails(w)
    BY DEF Group!OffsetFails, Group!Mishap, Group!Retry, Group!Retried,
           GP!OffsetFails, GP!Mishap, GP!Retry, GP!Retried
  <1>10. Group!DeadLetter(w) <=> GP!DeadLetter(w)
    BY DEF Group!DeadLetter, Group!EventOf, Group!EntersStage,
           GP!DeadLetter, GP!EventOf, GP!EntersStage
  <1>11. Group!AbandonBatch(w) <=> GP!AbandonBatch(w)
    BY DEF Group!AbandonBatch, Group!Mishap, Group!EmptyHand, Group!InHand,
           Group!Polling, GP!AbandonBatch, GP!Mishap, GP!EmptyHand,
           GP!InHand, GP!Polling
  <1>12. Group!Crash(w) <=> GP!Crash(w)
    BY DEF Group!Crash, Group!Mishap, Group!EmptyHand, Group!InHand,
           Group!Polling, GP!Crash, GP!Mishap, GP!EmptyHand, GP!InHand,
           GP!Polling
  <1> QED BY <1>1, <1>2, <1>3, <1>4, <1>5, <1>6, <1>7, <1>8, <1>9, <1>10, <1>11, <1>12
      DEF Group!Handle, GP!Handle

-----------------------------------------------------------------------------
(* The parts together.                                                     *)

\* What the producers and the group keep, each alone.
BackboneInv == DurableInv /\ GP!OnceInv /\ GP!AccountInv

LEMMA BackboneStart == BackboneInit => BackboneInv
  <1> SUFFICES ASSUME BackboneInit PROVE BackboneInv
    OBVIOUS
  <1>1. DurableInv /\ TypeOK
    BY DurableInit, TypeInit DEF BackboneInit
  <1>2. GP!LogOK /\ GP!GroupInit
    BY <1>1, TopicOK, SameInit DEF BackboneInit
  <1>3. GP!OnceInv
    BY <1>2, GroupAssumption, GP!OnceStart
  <1>4. GP!AccountInv
    BY <1>2, GroupAssumption, GP!AccountStart
  <1> QED BY <1>1, <1>3, <1>4 DEF BackboneInv

LEMMA DurableSame == DurableInv /\ UNCHANGED vars => DurableInv'
  BY DurableStep

LEMMA BackboneStep ==
    BackboneInv /\ [BackboneNext]_<<vars, groupVars>> => BackboneInv'
  <1> SUFFICES ASSUME BackboneInv, [BackboneNext]_<<vars, groupVars>>
               PROVE  BackboneInv'
    OBVIOUS
  <1> USE DEF BackboneInv
  <1>1. TypeOK
    BY DEF DurableInv
  <1>2. CASE ProducerNext /\ UNCHANGED groupVars
    <2>1. DurableInv'
      BY <1>2, DurableStep
    <2>2. GP!LogGrows
      BY <1>1, <1>2, TopicGrows
    <2>3. GP!OnceInv'
      BY <2>2, GroupAssumption, GP!OnceGrows
    <2>4. GP!AccountInv'
      BY <2>2, GroupAssumption, GP!AccountGrows
    <2> QED BY <2>1, <2>3, <2>4
  <1>3. CASE UNCHANGED vars /\ Group!GroupNext
    <2>1. GP!GroupNext
      BY <1>3, SameNext
    <2>2. GP!OnceInv'
      BY <2>1, GroupAssumption, GP!GroupOnce
    <2>3. GP!AccountInv'
      BY <2>1, GroupAssumption, GP!GroupAccount
    <2> QED BY <1>3, <2>2, <2>3, DurableSame
  <1>4. CASE UNCHANGED <<vars, groupVars>>
    <2>1. GP!LogGrows
      <3>1. GP!LogOK /\ UNCHANGED log /\ UNCHANGED groupVars
        BY <1>1, <1>4, TopicOK DEF vars
      <3> QED BY <3>1 DEF GP!LogGrows, GP!LogOK, groupVars, GP!groupVars
    <2>2. GP!OnceInv'
      BY <2>1, GroupAssumption, GP!OnceGrows
    <2>3. GP!AccountInv'
      BY <2>1, GroupAssumption, GP!AccountGrows
    <2> QED BY <1>4, <2>2, <2>3, DurableSame
  <1> QED BY <1>2, <1>3, <1>4 DEF BackboneNext

LEMMA BackboneKeeps == BackboneSpec => []BackboneInv
  BY BackboneStart, BackboneStep, PTL DEF BackboneSpec

\* However many copies of an event the publishers, the late deliveries of their
\* clients and the overlapping passes of the daemons put into the topic, the
\* group commits its business effect at most once.
THEOREM EffectOnce == BackboneSpec => []EffectAtMostOnce
  <1>1. BackboneInv => EffectAtMostOnce
    BY DEF BackboneInv, GP!OnceInv, GP!AppliedAtMostOnce,
           EffectAtMostOnce, Group!AppliedAtMostOnce
  <1> QED BY <1>1, BackboneKeeps, PTL

\* The rest of what the parts promise alone holds of the two together: what a
\* publish accepted is kept, and a message below the committed offset of the
\* group is handled, in a hand, or was lost from one.
THEOREM KeptEndToEnd == BackboneSpec => [](AcceptedIsDurable /\ Group!CommittedIsAccountedFor)
  <1>1. BackboneInv => Group!CommittedIsAccountedFor
    BY DEF BackboneInv, GP!AccountInv, GP!CommittedIsAccountedFor, GP!AccountedFor,
           GP!Handled, GP!InHand, Group!CommittedIsAccountedFor, Group!AccountedFor,
           Group!Handled, Group!InHand
  <1>2. BackboneInv => AcceptedIsDurable
    BY DEF BackboneInv, DurableInv
  <1> QED BY <1>1, <1>2, BackboneKeeps, PTL
=============================================================================
