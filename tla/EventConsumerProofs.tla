-------------------------- MODULE EventConsumerProofs --------------------------
(***************************************************************************)
(* Theorems about EventConsumer for every number of events, workers,       *)
(* messages, attempts and mishaps, proved with TLAPS.                      *)
(***************************************************************************)
EXTENDS EventConsumer, SequenceTheorems, TLAPS

-----------------------------------------------------------------------------
(* Types.  A step gives one worker a new state and keeps the others, so    *)
(* what a worker's state must satisfy is stated for one state.             *)

Valid(v) ==
  /\ v \in WorkerState
  /\ v.stage = "poll" <=> v.current .. v.last = {}
  /\ v.current .. v.last \subseteq DOMAIN log
  /\ v.position <= Len(log)

WorkersOK ==
  /\ worker \in [Workers -> WorkerState]
  /\ \A w \in Workers : Valid(worker[w])

\* What the group needs of the log.  A topic of EventProducer has it too, where
\* a record says more than its event.
LogOK ==
  /\ Len(log) \in Nat
  /\ DOMAIN log = 1 .. Len(log)
  /\ \A k \in DOMAIN log : log[k].event \in Events

RestOK ==
  /\ LogOK
  /\ committed \in 0 .. Len(log)
  /\ owner \in Workers \cup {NoWorker}
  /\ processed \subseteq Events
  /\ applied \in [Events -> Nat]
  /\ dead \subseteq Events
  /\ dropped \subseteq DOMAIN log
  /\ mishaps \in 0 .. MaxMishaps

LEMMA LogDomain ==
    ASSUME RestOK
    PROVE  /\ Len(log) \in Nat
           /\ DOMAIN log = 1 .. Len(log)
           /\ \A k \in DOMAIN log : log[k].event \in Events
  BY DEF RestOK, LogOK

LEMMA MessagesOK ==
    ASSUME NEW m \in Seq([event : Events])
    PROVE  /\ Len(m) \in Nat
           /\ DOMAIN m = 1 .. Len(m)
           /\ \A k \in DOMAIN m : m[k].event \in Events
  <1>1. \A k \in DOMAIN m : m[k] \in [event : Events]
    BY ElementOfSeq, LenProperties
  <1> QED BY <1>1

\* CTypeOK but for what else a message is.
Shape == RestOK /\ WorkersOK

LEMMA TypeParts == CTypeOK <=> Shape /\ log \in Seq([event : Events])
  <1>1. (\A w \in Workers : Valid(worker[w])) <=>
          \A w \in Workers : /\ worker[w] \in WorkerState
                             /\ worker[w].stage = "poll" <=> InHand(w) = {}
                             /\ InHand(w) \subseteq DOMAIN log
                             /\ worker[w].position <= Len(log)
    BY DEF Valid, InHand
  <1> QED BY <1>1, MessagesOK DEF CTypeOK, Shape, RestOK, LogOK, WorkersOK

LEMMA TypePartsNext == CTypeOK' <=> Shape' /\ (log \in Seq([event : Events]))'
  BY TypeParts, PTL

LEMMA OneWorkerMoves ==
    ASSUME WorkersOK, NEW w \in Workers, NEW v, Valid(v), UNCHANGED log,
           worker' = [worker EXCEPT ![w] = v]
    PROVE  WorkersOK'
  <1>1. v \in WorkerState
    BY DEF Valid
  <1>2. worker' \in [Workers -> WorkerState]
    BY <1>1 DEF WorkersOK
  <1>3. ASSUME NEW u \in Workers PROVE Valid(worker[u])'
    <2>1. worker'[u] = IF u = w THEN v ELSE worker[u]
      BY DEF WorkersOK
    <2>2. Valid(worker'[u])
      BY <2>1 DEF WorkersOK
    <2> QED BY <2>2 DEF Valid
  <1> QED BY <1>2, <1>3 DEF WorkersOK

LEMMA PollingValid ==
    ASSUME RestOK, NEW n \in Nat, n <= Len(log) PROVE Valid(Polling(n))
  BY DEF Valid, Polling, WorkerState, WorkerStages

\* The current message of a worker that has one is in the log.
LEMMA CurrentInHand ==
    ASSUME RestOK, NEW v, Valid(v), v.stage # "poll"
    PROVE  /\ v.current \in v.current .. v.last
           /\ v.current \in DOMAIN log
           /\ v.current <= v.last
           /\ log[v.current].event \in Events
  <1>1. v.current \in Nat /\ v.last \in Nat
    BY DEF Valid, WorkerState
  <1>2. v.current <= v.last
    BY <1>1 DEF Valid
  <1>3. v.current \in v.current .. v.last
    BY <1>1, <1>2
  <1>4. v.current \in DOMAIN log
    BY <1>3 DEF Valid
  <1> QED BY <1>2, <1>3, <1>4, LogDomain

LEMMA StageValid ==
    ASSUME NEW v, Valid(v), v.stage # "poll",
           NEW n \in Nat, NEW stage \in WorkerStages \ {"poll"}
    PROVE  Valid([v EXCEPT !.attempt = n, !.stage = stage])
  BY DEF Valid, WorkerState

LEMMA EntersStageTyped ==
    ASSUME RestOK, WorkersOK, NEW w \in Workers, NEW stage \in WorkerStages \ {"poll"},
           worker[w].stage # "poll", EntersStage(w, stage), UNCHANGED log
    PROVE  WorkersOK'
  <1> DEFINE v == [worker[w] EXCEPT !.stage = stage]
  <1>1. Valid(worker[w]) /\ worker[w] \in WorkerState
    BY DEF WorkersOK
  <1>2. Valid(v)
    BY <1>1 DEF Valid, WorkerState
  <1>3. worker' = [worker EXCEPT ![w] = v]
    BY DEF EntersStage, WorkersOK
  <1> HIDE DEF v
  <1> QED BY <1>2, <1>3, OneWorkerMoves

LEMMA RetryTyped ==
    ASSUME WorkersOK, NEW w \in Workers, worker[w].stage # "poll", Retry(w), UNCHANGED log
    PROVE  WorkersOK'
  <1> DEFINE v == worker[w]
  <1>1. Valid(v) /\ v \in WorkerState
    BY DEF WorkersOK
  <1>2. Valid([v EXCEPT !.stage = "refused"])
    BY <1>1 DEF Valid, WorkerState, WorkerStages
  <1>3. v.attempt + 1 \in Nat
    BY <1>1 DEF WorkerState
  <1>4. ASSUME NEW n \in Nat
        PROVE  Valid([v EXCEPT !.attempt = n, !.stage = "attempt"])
    BY <1>1, StageValid DEF WorkerStages
  <1>5. Valid(Retried(v))
    BY <1>2, <1>3, <1>4 DEF Retried
  <1> QED BY <1>5, OneWorkerMoves DEF Retry

LEMMA NextMessageTyped ==
    ASSUME RestOK, WorkersOK, NEW w \in Workers, worker[w].stage # "poll",
           NextMessage(w), UNCHANGED log
    PROVE  WorkersOK'
  <1> DEFINE v == worker[w]
  <1>1. Valid(v) /\ v \in WorkerState
    BY DEF WorkersOK
  <1>2. v.current \in Nat /\ v.last \in Nat /\ v.current + 1 \in Nat
    BY <1>1 DEF WorkerState
  <1>3. ASSUME NEW n \in Nat, n = v.current + 1, v.current < v.last
        PROVE  Valid([v EXCEPT !.current = n, !.attempt = 1, !.stage = "attempt"])
    <2>1. n <= v.last /\ n .. v.last \subseteq v.current .. v.last
      BY <1>2, <1>3
    <2>2. [v EXCEPT !.current = n, !.attempt = 1, !.stage = "attempt"] \in WorkerState
      BY <1>1 DEF WorkerState, WorkerStages
    <2>3. n .. v.last # {}
      BY <1>2, <2>1
    <2> QED BY <1>1, <2>1, <2>2, <2>3 DEF Valid, WorkerState
  <1>4. Valid(Polling(v.position))
    <2>1. v.position \in Nat /\ v.position <= Len(log)
      BY <1>1 DEF Valid, WorkerState
    <2> QED BY <2>1, PollingValid
  <1>5. Valid(Advanced(v))
    BY <1>2, <1>3, <1>4 DEF Advanced
  <1> QED BY <1>5, OneWorkerMoves DEF NextMessage

LEMMA EmptyHandTyped ==
    ASSUME RestOK, WorkersOK, NEW w \in Workers, EmptyHand(w), UNCHANGED log
    PROVE  WorkersOK' /\ dropped' \subseteq DOMAIN log
  <1>1. Valid(worker[w]) /\ worker[w] \in WorkerState
    BY DEF WorkersOK
  <1>2. worker[w].position \in Nat /\ worker[w].position <= Len(log)
    BY <1>1 DEF Valid, WorkerState
  <1>3. worker' = [worker EXCEPT ![w] = Polling(worker[w].position)]
    BY DEF EmptyHand
  <1>4. WorkersOK'
    BY <1>2, <1>3, PollingValid, OneWorkerMoves
  <1>5. dropped' \subseteq DOMAIN log
    BY <1>1 DEF EmptyHand, InHand, Valid, RestOK
  <1> QED BY <1>4, <1>5

LEMMA PollTyped ==
    ASSUME RestOK, WorkersOK, NEW w \in Workers, Poll(w) PROVE WorkersOK'
  <1>1. PICK n \in 1 .. MaxRecords :
           /\ worker[w].position + n <= Len(log)
           /\ worker' = [worker EXCEPT ![w] =
                [position |-> worker[w].position + n,
                 current |-> worker[w].position + 1,
                 last |-> worker[w].position + n, attempt |-> 1, stage |-> "attempt"]]
    BY DEF Poll
  <1>2. worker[w].position \in Nat /\ n \in Nat \ {0}
    BY BoundsAssumption DEF WorkersOK, WorkerState
  <1>3. ASSUME NEW first \in Nat, NEW last \in Nat,
               first = worker[w].position + 1, last = worker[w].position + n
        PROVE  Valid([position |-> last, current |-> first, last |-> last,
                      attempt |-> 1, stage |-> "attempt"])
    <2>1. first <= last /\ last <= Len(log) /\ 1 <= first
      BY <1>1, <1>2, <1>3
    <2>2. first .. last # {} /\ first .. last \subseteq 1 .. Len(log)
      <3>1. Len(log) \in Nat
        BY LogDomain
      <3>2. first \in first .. last
        BY <2>1
      <3>3. first .. last \subseteq 1 .. Len(log)
        BY <2>1, <3>1
      <3> QED BY <3>2, <3>3
    <2>3. first .. last \subseteq DOMAIN log
      BY <2>2, LogDomain
    <2> QED BY <2>1, <2>2, <2>3 DEF Valid, WorkerState, WorkerStages
  <1>4. worker[w].position + 1 \in Nat /\ worker[w].position + n \in Nat
    BY <1>2
  <1>5. Valid([position |-> worker[w].position + n, current |-> worker[w].position + 1,
               last |-> worker[w].position + n, attempt |-> 1, stage |-> "attempt"])
    BY <1>3, <1>4
  <1> QED BY <1>1, <1>5, OneWorkerMoves DEF Poll

LEMMA AssignTyped ==
    ASSUME RestOK, WorkersOK, NEW w \in Workers, Assign(w) PROVE WorkersOK'
  <1> DEFINE v == [worker[w] EXCEPT !.position = committed]
  <1>1. Valid(worker[w])
    BY DEF WorkersOK
  <1>2. committed \in Nat /\ committed <= Len(log)
    BY DEF RestOK
  <1>3. Valid(v)
    BY <1>1, <1>2 DEF Valid, WorkerState
  <1>4. worker' = [worker EXCEPT ![w] = v]
    BY DEF Assign, WorkersOK
  <1> HIDE DEF v
  <1> QED BY <1>3, <1>4, OneWorkerMoves DEF Assign

\* Somebody publishes: the messages there are keep their place.
LogGrows ==
  /\ LogOK'
  /\ \A k \in DOMAIN log : k \in DOMAIN log' /\ log'[k] = log[k]
  /\ UNCHANGED groupVars

LEMMA ProduceGrows ==
    ASSUME log \in Seq([event : Events]), NEW e \in Events, Produce(e)
    PROVE  LogGrows /\ log' \in Seq([event : Events])
  <1>1. log' = Append(log, [event |-> e]) /\ UNCHANGED groupVars
    BY DEF Produce
  <1>2. log' \in Seq([event : Events])
    BY <1>1
  <1>3. LogOK'
    BY <1>2, MessagesOK DEF LogOK
  <1>4. \A k \in DOMAIN log : k \in DOMAIN log' /\ log'[k] = log[k]
    BY <1>1
  <1> QED BY <1>1, <1>2, <1>3, <1>4 DEF LogGrows

LEMMA ShapeGrows == ASSUME Shape, LogGrows PROVE Shape'
  <1>1. RestOK /\ WorkersOK /\ UNCHANGED groupVars
    BY DEF Shape, LogGrows
  <1>2. /\ Len(log) \in Nat /\ Len(log') \in Nat
        /\ DOMAIN log = 1 .. Len(log) /\ DOMAIN log' = 1 .. Len(log')
        /\ DOMAIN log \subseteq DOMAIN log'
    BY <1>1, LogDomain DEF LogGrows, LogOK
  <1>3. Len(log) <= Len(log')
    BY <1>2
  <1>4. RestOK'
    BY <1>1, <1>2, <1>3 DEF RestOK, groupVars, LogGrows
  <1>5. ASSUME NEW w \in Workers PROVE Valid(worker[w])'
    <2>1. Valid(worker[w]) /\ worker'[w] = worker[w] /\ worker[w].position \in Nat
      BY <1>1 DEF WorkersOK, groupVars, WorkerState
    <2> QED BY <1>2, <1>3, <2>1 DEF Valid
  <1> QED BY <1>1, <1>4, <1>5 DEF Shape, WorkersOK, groupVars

LEMMA MishapTyped == ASSUME RestOK, Mishap PROVE mishaps' \in 0 .. MaxMishaps
  BY BoundsAssumption DEF RestOK, Mishap

LEMMA EffectTyped ==
    ASSUME RestOK, WorkersOK, NEW w \in Workers, worker[w].stage # "poll", Effect(w)
    PROVE  processed' \subseteq Events /\ applied' \in [Events -> Nat]
  <1>1. EventOf(w) \in Events
    BY CurrentInHand DEF WorkersOK, EventOf
  <1> QED BY <1>1 DEF RestOK, Effect

LEMMA ShapeInit == ASSUME GroupInit, LogOK PROVE Shape
  <1>1. RestOK
    BY BoundsAssumption DEF GroupInit, RestOK, LogOK
  <1>2. Valid(Polling(0))
    BY <1>1, PollingValid DEF RestOK, LogOK
  <1>3. worker = [w \in Workers |-> Polling(0)]
    BY DEF GroupInit
  <1>4. WorkersOK
    BY <1>2, <1>3 DEF WorkersOK, Valid
  <1> QED BY <1>1, <1>4 DEF Shape

LEMMA CTypeInit == CInit => CTypeOK
  <1> SUFFICES ASSUME CInit PROVE CTypeOK
    OBVIOUS
  <1>1. log \in Seq([event : Events]) /\ GroupInit
    BY DEF CInit
  <1> QED BY <1>1, MessagesOK, ShapeInit, TypeParts DEF LogOK

\* What the steps of the group leave alone or change, for the types.
LEMMA HandleTyped ==
    ASSUME RestOK, WorkersOK, NEW w \in Workers, Handle(w)
    PROVE  RestOK' /\ WorkersOK'
  <1>1. CASE Poll(w)
    BY <1>1, PollTyped DEF Poll, RestOK, LogOK
  <1>2. CASE Refuse(w)
    BY <1>2, EntersStageTyped DEF Refuse, RestOK, LogOK, WorkerStages
  <1>3. CASE Skip(w)
    BY <1>3, EntersStageTyped DEF Skip, RestOK, LogOK, WorkerStages
  <1>4. CASE Insert(w)
    BY <1>4, EntersStageTyped DEF Insert, RestOK, LogOK, WorkerStages
  <1>5. CASE CommitEffect(w)
    <2>1. processed' \subseteq Events /\ applied' \in [Events -> Nat]
      BY <1>5, EffectTyped DEF CommitEffect
    <2>2. WorkersOK'
      BY <1>5, EntersStageTyped DEF CommitEffect, WorkerStages
    <2> QED BY <1>5, <2>1, <2>2 DEF CommitEffect, RestOK, LogOK
  <1>6. CASE FailAttempt(w)
    <2>1. processed' \subseteq Events /\ applied' \in [Events -> Nat]
      BY <1>6, EffectTyped DEF FailAttempt, RestOK, LogOK
    <2>2. WorkersOK'
      BY <1>6, RetryTyped DEF FailAttempt
    <2> QED BY <1>6, <2>1, <2>2 DEF FailAttempt, RestOK, LogOK
  <1>7. CASE CommitOffset(w)
    <2>1. worker[w].position \in Nat /\ worker[w].position <= Len(log)
      BY DEF WorkersOK, Valid, WorkerState
    <2>2. committed' \in 0 .. Len(log)
      BY <1>7, <2>1, LogDomain DEF CommitOffset, CommittedBy, RestOK, LogOK
    <2>3. WorkersOK'
      BY <1>7, NextMessageTyped DEF CommitOffset
    <2> QED BY <1>7, <2>2, <2>3 DEF CommitOffset, RestOK, LogOK
  <1>8. CASE OffsetFails(w)
    <2>1. WorkersOK' /\ mishaps' \in 0 .. MaxMishaps
      BY <1>8, RetryTyped, MishapTyped DEF OffsetFails
    <2> QED BY <1>8, <2>1 DEF OffsetFails, RestOK, LogOK
  <1>9. CASE DeadLetter(w)
    <2>1. EventOf(w) \in Events
      BY <1>9, CurrentInHand DEF DeadLetter, WorkersOK, EventOf
    <2>2. WorkersOK'
      BY <1>9, EntersStageTyped DEF DeadLetter, WorkerStages
    <2> QED BY <1>9, <2>1, <2>2 DEF DeadLetter, RestOK, LogOK
  <1>10. CASE AbandonBatch(w)
    <2>1. WorkersOK' /\ dropped' \subseteq DOMAIN log /\ mishaps' \in 0 .. MaxMishaps
      BY <1>10, EmptyHandTyped, MishapTyped DEF AbandonBatch
    <2> QED BY <1>10, <2>1 DEF AbandonBatch, RestOK, LogOK
  <1> QED BY <1>1, <1>2, <1>3, <1>4, <1>5, <1>6, <1>7, <1>8, <1>9, <1>10 DEF Handle

LEMMA GroupTyped == ASSUME Shape, GroupNext PROVE Shape'
  <1>1. RestOK /\ WorkersOK
    BY DEF Shape
  <1>2. ASSUME NEW w \in Workers, Assign(w) PROVE RestOK' /\ WorkersOK'
    <2>1. WorkersOK' /\ mishaps' \in 0 .. MaxMishaps
      BY <1>1, <1>2, AssignTyped, MishapTyped DEF Assign, RestOK
    <2> QED BY <1>1, <1>2, <2>1 DEF Assign, RestOK, LogOK
  <1>3. ASSUME NEW w \in Workers, Handle(w) PROVE RestOK' /\ WorkersOK'
    BY <1>1, <1>3, HandleTyped
  <1>4. ASSUME NEW w \in Workers, Crash(w) PROVE RestOK' /\ WorkersOK'
    <2>1. WorkersOK' /\ dropped' \subseteq DOMAIN log /\ mishaps' \in 0 .. MaxMishaps
      BY <1>1, <1>4, EmptyHandTyped, MishapTyped DEF Crash
    <2> QED BY <1>1, <1>4, <2>1 DEF Crash, RestOK, LogOK
  <1> QED BY <1>2, <1>3, <1>4 DEF GroupNext, Shape

LEMMA GroupKeepsLog == GroupNext => UNCHANGED log
  BY DEF GroupNext, Assign, Handle, Crash, Poll, Refuse, Skip, Insert, CommitEffect, FailAttempt,
         CommitOffset, OffsetFails, DeadLetter, AbandonBatch

LEMMA CTypeStep == CTypeOK /\ [CNext]_cvars => CTypeOK'
  <1> SUFFICES ASSUME CTypeOK, [CNext]_cvars PROVE CTypeOK'
    OBVIOUS
  <1>1. Shape /\ log \in Seq([event : Events])
    BY TypeParts
  <1>2. ASSUME NEW e \in Events, Produce(e) PROVE CTypeOK'
    BY <1>1, <1>2, ProduceGrows, ShapeGrows, TypePartsNext
  <1>3. CASE GroupNext
    BY <1>1, <1>3, GroupTyped, GroupKeepsLog, TypePartsNext
  <1>4. CASE UNCHANGED cvars
    BY <1>4 DEF cvars, groupVars, CTypeOK, InHand
  <1> QED BY <1>2, <1>3, <1>4 DEF CNext

\* Every reachable state has the declared types: what is in a hand, committed
\* or fetched is in the log.
THEOREM ConsumerTypes == CSpec => []CTypeOK
  BY CTypeInit, CTypeStep, PTL DEF CSpec

-----------------------------------------------------------------------------
(* What a step does to the worker that takes it. *)

SameHand(w) ==
  /\ worker'[w].position = worker[w].position
  /\ worker'[w].current = worker[w].current
  /\ worker'[w].last = worker[w].last

Others(w) == \A u \in Workers \ {w} : worker'[u] = worker[u]

LEMMA EntersShape ==
    ASSUME WorkersOK, NEW w \in Workers, NEW stage, EntersStage(w, stage)
    PROVE  Others(w) /\ SameHand(w) /\ worker'[w].stage = stage
  <1>1. worker[w] \in WorkerState
    BY DEF WorkersOK
  <1>2. worker'[w] = [worker[w] EXCEPT !.stage = stage] /\ Others(w)
    BY DEF EntersStage, WorkersOK, Others
  <1> QED BY <1>1, <1>2 DEF SameHand, WorkerState

LEMMA RetryShape ==
    ASSUME WorkersOK, NEW w \in Workers, Retry(w)
    PROVE  Others(w) /\ SameHand(w) /\ worker'[w].stage \in {"attempt", "refused"}
  <1>1. worker[w] \in WorkerState
    BY DEF WorkersOK
  <1>2. worker'[w] = Retried(worker[w]) /\ Others(w)
    BY DEF Retry, WorkersOK, Others
  <1> QED BY <1>1, <1>2 DEF SameHand, WorkerState, Retried

LEMMA NextShape ==
    ASSUME WorkersOK, NEW w \in Workers, NextMessage(w)
    PROVE  /\ Others(w)
           /\ worker'[w].position = worker[w].position
           /\ worker'[w].stage \in {"attempt", "poll"}
           /\ \A k \in InHand(w) : k = worker[w].current \/ k \in InHand(w)'
  <1> DEFINE v == worker[w]
  <1>1. v \in WorkerState /\ v.current \in Nat /\ v.last \in Nat
    BY DEF WorkersOK, WorkerState
  <1>2. worker'[w] = Advanced(v) /\ Others(w)
    BY DEF NextMessage, WorkersOK, Others
  <1>3. CASE v.current < v.last
    <2>1. /\ worker'[w].current = v.current + 1
          /\ worker'[w].last = v.last
          /\ worker'[w].position = v.position
          /\ worker'[w].stage = "attempt"
      BY <1>1, <1>2, <1>3 DEF Advanced, WorkerState
    <2>2. \A k \in v.current .. v.last : k = v.current \/ k \in (v.current + 1) .. v.last
      BY <1>1
    <2> QED BY <1>2, <2>1, <2>2 DEF InHand
  <1>4. CASE ~(v.current < v.last)
    <2>1. worker'[w].position = v.position /\ worker'[w].stage = "poll"
      BY <1>2, <1>4 DEF Advanced, Polling
    <2>2. \A k \in v.current .. v.last : k = v.current
      BY <1>1, <1>4
    <2> QED BY <1>2, <2>1, <2>2 DEF InHand
  <1> QED BY <1>3, <1>4

LEMMA EmptyShape ==
    ASSUME WorkersOK, NEW w \in Workers, EmptyHand(w)
    PROVE  /\ Others(w)
           /\ worker'[w].position = worker[w].position
           /\ worker'[w].stage = "poll"
           /\ dropped' = dropped \cup InHand(w)
  BY DEF EmptyHand, WorkersOK, Others, Polling

LEMMA PollShape ==
    ASSUME RestOK, WorkersOK, NEW w \in Workers, Poll(w)
    PROVE  /\ Others(w)
           /\ worker'[w].stage = "attempt"
           /\ worker[w].stage = "poll"
           /\ \A k \in 1 .. worker'[w].position :
                k \in 1 .. worker[w].position \/ k \in InHand(w)'
  <1>1. PICK n \in 1 .. MaxRecords :
           worker' = [worker EXCEPT ![w] =
                [position |-> worker[w].position + n,
                 current |-> worker[w].position + 1,
                 last |-> worker[w].position + n, attempt |-> 1, stage |-> "attempt"]]
    BY DEF Poll
  <1>2. worker[w].position \in Nat /\ n \in Nat
    BY BoundsAssumption DEF WorkersOK, WorkerState
  <1>3. /\ worker'[w].position = worker[w].position + n
        /\ worker'[w].current = worker[w].position + 1
        /\ worker'[w].last = worker[w].position + n
        /\ worker'[w].stage = "attempt"
        /\ Others(w)
    BY <1>1 DEF WorkersOK, Others
  <1>4. \A k \in 1 .. (worker[w].position + n) :
          \/ k \in 1 .. worker[w].position
          \/ k \in (worker[w].position + 1) .. (worker[w].position + n)
    BY <1>2
  <1> QED BY <1>3, <1>4 DEF InHand, Poll

LEMMA AssignShape ==
    ASSUME WorkersOK, NEW w \in Workers, Assign(w)
    PROVE  /\ Others(w)
           /\ worker'[w].position = committed
           /\ worker'[w].stage = worker[w].stage
           /\ worker'[w].current = worker[w].current
           /\ worker'[w].last = worker[w].last
  <1>1. worker[w] \in WorkerState
    BY DEF WorkersOK
  <1>2. worker'[w] = [worker[w] EXCEPT !.position = committed] /\ Others(w)
    BY DEF Assign, WorkersOK, Others
  <1> QED BY <1>1, <1>2 DEF WorkerState

-----------------------------------------------------------------------------
(* The business effect.  A worker whose transaction is open holds the key  *)
(* of its event alone, and nobody has committed it.                        *)

OpenIsFresh ==
  \A w \in Workers : worker[w].stage = "open" =>
    /\ EventOf(w) \notin processed
    /\ \A v \in Workers \ {w} : worker[v].stage = "open" => EventOf(v) # EventOf(w)

OnceInv == Shape /\ OpenIsFresh /\ AppliedAtMostOnce

\* Nothing is opened or committed: open transactions stay fresh.
LEMMA FreshStays ==
    ASSUME OpenIsFresh, UNCHANGED <<log, processed>>,
           \A u \in Workers : worker'[u].stage = "open" =>
             worker[u].stage = "open" /\ worker'[u].current = worker[u].current
    PROVE  OpenIsFresh'
  BY DEF OpenIsFresh, EventOf

LEMMA EffectOnce ==
    ASSUME OnceInv, NEW w \in Workers, worker[w].stage = "open", Effect(w),
           UNCHANGED log, Others(w), worker'[w].stage # "open"
    PROVE  OpenIsFresh' /\ AppliedAtMostOnce'
  <1>1. EventOf(w) \in Events /\ EventOf(w) \notin processed
    BY CurrentInHand DEF OnceInv, Shape, OpenIsFresh, WorkersOK, EventOf
  <1>2. OpenIsFresh'
    <2> SUFFICES ASSUME NEW u \in Workers, worker'[u].stage = "open"
                 PROVE  /\ EventOf(u)' \notin processed'
                        /\ \A v \in Workers \ {u} :
                             worker'[v].stage = "open" => EventOf(v)' # EventOf(u)'
      BY DEF OpenIsFresh
    <2>1. u # w /\ \A v \in Workers \ {w} : EventOf(v)' = EventOf(v)
      BY DEF Others, EventOf
    <2>2. EventOf(u) # EventOf(w) /\ EventOf(u) \notin processed
      BY <2>1 DEF Others, OnceInv, OpenIsFresh
    <2> QED BY <2>1, <2>2 DEF Effect, Others, OnceInv, OpenIsFresh
  <1>3. AppliedAtMostOnce'
    <2> SUFFICES ASSUME NEW e \in Events
                 PROVE  applied'[e] <= (IF e \in processed' THEN 1 ELSE 0)
      BY DEF AppliedAtMostOnce
    <2>1. applied[e] \in Nat /\ applied[e] <= (IF e \in processed THEN 1 ELSE 0)
      BY DEF OnceInv, Shape, RestOK, AppliedAtMostOnce
    <2>2. applied'[e] = IF e = EventOf(w) THEN applied[e] + 1 ELSE applied[e]
      BY DEF OnceInv, Shape, RestOK, Effect
    <2> QED BY <1>1, <2>1, <2>2 DEF Effect
  <1> QED BY <1>2, <1>3

LEMMA OnceGrows == ASSUME OnceInv, LogGrows PROVE OnceInv'
  <1>1. RestOK /\ WorkersOK /\ OpenIsFresh /\ AppliedAtMostOnce /\ UNCHANGED groupVars
    BY DEF OnceInv, Shape, LogGrows
  <1>2. ASSUME NEW w \in Workers, worker[w].stage = "open" PROVE EventOf(w)' = EventOf(w)
    <2>1. worker[w].current \in DOMAIN log
      BY <1>1, <1>2, CurrentInHand DEF WorkersOK
    <2> QED BY <1>1, <2>1 DEF LogGrows, groupVars, EventOf
  <1>3. OpenIsFresh'
    BY <1>1, <1>2 DEF OpenIsFresh, groupVars
  <1> QED BY <1>1, <1>3, ShapeGrows DEF OnceInv, groupVars, AppliedAtMostOnce

LEMMA GroupOnce == ASSUME OnceInv, GroupNext PROVE OnceInv'
  <1>1. /\ RestOK /\ WorkersOK /\ OpenIsFresh /\ AppliedAtMostOnce
        /\ Shape'
    BY GroupTyped DEF OnceInv, Shape
  <1>2. ASSUME UNCHANGED <<log, processed, applied>>,
               \A u \in Workers : worker'[u].stage = "open" =>
                 worker[u].stage = "open" /\ worker'[u].current = worker[u].current
        PROVE  OnceInv'
    BY <1>1, <1>2, FreshStays DEF OnceInv, AppliedAtMostOnce
  <1>4. ASSUME NEW w \in Workers, Assign(w) PROVE OnceInv'
    BY <1>1, <1>2, <1>4, AssignShape DEF Assign, Others
  <1>5. ASSUME NEW w \in Workers, Crash(w) PROVE OnceInv'
    BY <1>1, <1>2, <1>5, EmptyShape DEF Crash, Others
  <1>6. ASSUME NEW w \in Workers, Handle(w) PROVE OnceInv'
    <2>1. CASE Poll(w)
      BY <1>1, <1>2, <2>1, PollShape DEF Poll, Others
    <2>2. CASE Refuse(w)
      BY <1>1, <1>2, <2>2, EntersShape DEF Refuse, Others
    <2>3. CASE Skip(w)
      BY <1>1, <1>2, <2>3, EntersShape DEF Skip, Others
    <2>4. CASE Insert(w)
      <3>1. Others(w) /\ SameHand(w) /\ EventOf(w) \notin processed /\ ~KeyHeld(w)
        BY <1>1, <2>4, EntersShape DEF Insert, AlreadyProcessed
      <3>2. \A u \in Workers : EventOf(u)' = EventOf(u)
        BY <2>4, <3>1 DEF Insert, Others, SameHand, EventOf
      <3>3. OpenIsFresh'
        BY <1>1, <2>4, <3>1, <3>2 DEF Insert, OpenIsFresh, Others, KeyHeld
      <3> QED BY <1>1, <2>4, <3>3 DEF Insert, OnceInv, AppliedAtMostOnce
    <2>5. CASE CommitEffect(w)
      BY <1>1, <2>5, EntersShape, EffectOnce DEF CommitEffect, OnceInv
    <2>6. CASE FailAttempt(w)
      <3>1. Others(w) /\ worker'[w].stage # "open"
        BY <1>1, <2>6, RetryShape DEF FailAttempt
      <3>2. CASE UNCHANGED <<processed, applied>>
        BY <1>2, <2>6, <3>1, <3>2 DEF FailAttempt, Others
      <3>3. CASE worker[w].stage = "open" /\ Effect(w)
        BY <1>1, <2>6, <3>1, <3>3, EffectOnce DEF FailAttempt, OnceInv
      <3> QED BY <2>6, <3>2, <3>3 DEF FailAttempt
    <2>7. CASE CommitOffset(w)
      BY <1>1, <1>2, <2>7, NextShape DEF CommitOffset, Others
    <2>8. CASE OffsetFails(w)
      BY <1>1, <1>2, <2>8, RetryShape DEF OffsetFails, Others
    <2>9. CASE DeadLetter(w)
      BY <1>1, <1>2, <2>9, EntersShape DEF DeadLetter, Others
    <2>10. CASE AbandonBatch(w)
      BY <1>1, <1>2, <2>10, EmptyShape DEF AbandonBatch, Others
    <2> QED BY <1>6, <2>1, <2>2, <2>3, <2>4, <2>5, <2>6, <2>7, <2>8, <2>9, <2>10 DEF Handle
  <1> QED BY <1>4, <1>5, <1>6 DEF GroupNext

LEMMA OnceStart == ASSUME GroupInit, LogOK PROVE OnceInv
  BY ShapeInit DEF GroupInit, OnceInv, OpenIsFresh, AppliedAtMostOnce, Polling

\* Whatever is redelivered, retried, or handled by a member that has lost the
\* partition, the effect of an event is committed at most once.
THEOREM AppliedOnce == CSpec => []AppliedAtMostOnce
  <1> DEFINE IInv == CTypeOK /\ OnceInv
  <1>1. CInit => IInv
    BY CTypeInit, MessagesOK, OnceStart DEF CInit, CTypeOK, LogOK
  <1>2. ASSUME IInv, [CNext]_cvars PROVE IInv'
    <2>1. CTypeOK' /\ log \in Seq([event : Events])
      BY <1>2, CTypeStep DEF CTypeOK
    <2>2. ASSUME NEW e \in Events, Produce(e) PROVE OnceInv'
      BY <1>2, <2>1, <2>2, ProduceGrows, OnceGrows
    <2>3. CASE UNCHANGED cvars
      BY <1>2, <2>1, <2>3, TypePartsNext
         DEF cvars, groupVars, OnceInv, OpenIsFresh, EventOf, AppliedAtMostOnce
    <2> QED BY <1>2, <2>1, <2>2, <2>3, GroupOnce DEF CNext
  <1>3. IInv => AppliedAtMostOnce
    BY DEF OnceInv
  <1> QED BY <1>1, <1>2, <1>3, PTL DEF CSpec

-----------------------------------------------------------------------------
(* The offset.  A commit copies the owner's fetch position, so the account *)
(* is kept up to that position; what leaves a hand one by one is handled.  *)

DoneIsHandled ==
  \A w \in Workers : worker[w].stage \in {"done", "deadLettered"} =>
    EventOf(w) \in processed \cup dead

FetchedIsAccountedFor ==
  \A w \in Workers : owner = w => \A k \in 1 .. worker[w].position : AccountedFor(k)

AccountInv ==
  Shape /\ DoneIsHandled /\ FetchedIsAccountedFor /\ CommittedIsAccountedFor

Grows ==
  /\ processed \subseteq processed' /\ dead \subseteq dead' /\ dropped \subseteq dropped'
  /\ \A k \in DOMAIN log : k \in DOMAIN log' /\ log'[k] = log[k]

HandsAccounted ==
  \A u \in Workers : \A k \in InHand(u) :
    k \in InHand(u)' \/ Handled(k)' \/ k \in dropped'

LEMMA AccountStays ==
    ASSUME Grows, HandsAccounted, NEW k, AccountedFor(k) PROVE AccountedFor(k)'
  <1>1. CASE Handled(k)
    BY <1>1 DEF Grows, Handled, AccountedFor
  <1>2. CASE k \in dropped
    BY <1>2 DEF Grows, AccountedFor
  <1>3. ASSUME NEW u \in Workers, k \in InHand(u) PROVE AccountedFor(k)'
    BY <1>3 DEF HandsAccounted, AccountedFor
  <1> QED BY <1>1, <1>2, <1>3 DEF AccountedFor

\* A step that keeps the positions, the owner and the offset, or commits an
\* owner's position, or lets the partition go, keeps the account.
LEMMA PositionsStay ==
    ASSUME AccountInv, Shape', Grows, HandsAccounted, DoneIsHandled',
           \A u \in Workers : worker'[u].position = worker[u].position,
           owner' = owner \/ owner' = NoWorker,
           committed' = committed \/ \E u \in Workers : owner = u /\ committed' = worker[u].position
    PROVE  AccountInv'
  <1>1. ASSUME NEW k \in 1 .. committed' PROVE AccountedFor(k)'
    BY AccountStays DEF AccountInv, CommittedIsAccountedFor, FetchedIsAccountedFor
  <1>2. ASSUME NEW u \in Workers, owner' = u, NEW k \in 1 .. worker'[u].position
        PROVE  AccountedFor(k)'
    BY <1>2, AccountStays, NoWorkerAssumption DEF AccountInv, FetchedIsAccountedFor
  <1> QED BY <1>1, <1>2 DEF AccountInv, CommittedIsAccountedFor, FetchedIsAccountedFor

\* One worker moves on with the same hand: the others' are as they were.
LEMMA SameHandAccounted ==
    ASSUME NEW w \in Workers, Others(w), SameHand(w)
    PROVE  /\ HandsAccounted
           /\ \A u \in Workers : worker'[u].position = worker[u].position
           /\ \A u \in Workers : worker'[u].current = worker[u].current
  BY DEF Others, SameHand, HandsAccounted, InHand

LEMMA DoneStays ==
    ASSUME AccountInv, Grows,
           \A u \in Workers : worker'[u].stage \in {"done", "deadLettered"} =>
             /\ worker'[u].current = worker[u].current
             /\ worker[u].stage # "poll"
             /\ \/ worker[u].stage = worker'[u].stage
                \/ EventOf(u) \in processed' \cup dead'
    PROVE  DoneIsHandled'
  <1> SUFFICES ASSUME NEW u \in Workers, worker'[u].stage \in {"done", "deadLettered"}
               PROVE  EventOf(u)' \in processed' \cup dead'
    BY DEF DoneIsHandled
  <1>1. worker[u].current \in DOMAIN log
    BY CurrentInHand DEF AccountInv, Shape, WorkersOK
  <1>2. EventOf(u)' = EventOf(u)
    BY <1>1 DEF Grows, EventOf
  <1>3. EventOf(u) \in processed \cup dead \/ EventOf(u) \in processed' \cup dead'
    BY DEF AccountInv, DoneIsHandled
  <1> QED BY <1>2, <1>3 DEF Grows

LEMMA AccountHandle ==
    ASSUME AccountInv, Shape', NEW w \in Workers, Handle(w) PROVE AccountInv'
  <1>1. RestOK /\ WorkersOK /\ UNCHANGED <<log, owner>>
    BY DEF AccountInv, Shape, Handle, Poll, Refuse, Skip, Insert, CommitEffect,
       FailAttempt, CommitOffset, OffsetFails, DeadLetter, AbandonBatch
  <1>2. Grows
    BY <1>1 DEF Handle, Poll, Refuse, Skip, Insert, CommitEffect, Effect,
       FailAttempt, CommitOffset, OffsetFails, DeadLetter, AbandonBatch, EmptyHand, Grows
  <1>3. ASSUME Others(w), SameHand(w), UNCHANGED committed, worker[w].stage # "poll",
               worker'[w].stage \in {"done", "deadLettered"} =>
                 EventOf(w) \in processed' \cup dead'
        PROVE  AccountInv'
    <2>1. DoneIsHandled'
      <3> SUFFICES ASSUME NEW u \in Workers, worker'[u].stage \in {"done", "deadLettered"}
                   PROVE  /\ worker'[u].current = worker[u].current
                          /\ worker[u].stage # "poll"
                          /\ \/ worker[u].stage = worker'[u].stage
                             \/ EventOf(u) \in processed' \cup dead'
        BY <1>2, DoneStays
      <3> QED BY <1>3 DEF Others, SameHand
    <2> QED BY <1>1, <1>2, <1>3, <2>1, SameHandAccounted, PositionsStay
  <1>4. CASE Refuse(w)
    BY <1>1, <1>3, <1>4, EntersShape DEF Refuse
  <1>5. CASE Skip(w)
    BY <1>1, <1>3, <1>5, EntersShape DEF Skip, AlreadyProcessed
  <1>6. CASE Insert(w)
    BY <1>1, <1>3, <1>6, EntersShape DEF Insert
  <1>7. CASE CommitEffect(w)
    BY <1>1, <1>3, <1>7, EntersShape DEF CommitEffect, Effect
  <1>8. CASE FailAttempt(w)
    BY <1>1, <1>3, <1>8, RetryShape DEF FailAttempt
  <1>9. CASE OffsetFails(w)
    BY <1>1, <1>3, <1>9, RetryShape DEF OffsetFails
  <1>10. CASE DeadLetter(w)
    BY <1>1, <1>3, <1>10, EntersShape DEF DeadLetter
  <1>11. CASE Poll(w)
    <2>1. /\ Others(w) /\ worker'[w].stage = "attempt" /\ InHand(w) = {}
          /\ \A k \in 1 .. worker'[w].position :
               k \in 1 .. worker[w].position \/ k \in InHand(w)'
      BY <1>1, <1>11, PollShape DEF AccountInv, WorkersOK, Valid, InHand, Poll
    <2>2. HandsAccounted
      BY <2>1 DEF HandsAccounted, Others, InHand
    <2>3. DoneIsHandled'
      BY <1>1, <1>11, <2>1 DEF AccountInv, DoneIsHandled, EventOf, Others, Poll
    <2>4. CommittedIsAccountedFor'
      BY <1>2, <1>11, <2>2, AccountStays DEF AccountInv, CommittedIsAccountedFor, Poll
    <2>5. ASSUME NEW u \in Workers, owner' = u, NEW k \in 1 .. worker'[u].position
          PROVE  AccountedFor(k)'
      <3>1. u = w
        BY <1>11, <2>5 DEF Poll
      <3>2. CASE k \in 1 .. worker[w].position
        BY <1>2, <1>11, <2>2, <3>2, AccountStays DEF AccountInv, FetchedIsAccountedFor, Poll
      <3>3. CASE k \in InHand(w)'
        BY <3>3 DEF AccountedFor
      <3> QED BY <2>1, <2>5, <3>1, <3>2, <3>3
    <2> QED BY <2>3, <2>4, <2>5 DEF AccountInv, FetchedIsAccountedFor
  <1>12. CASE CommitOffset(w)
    <2>1. /\ Others(w) /\ worker'[w].position = worker[w].position
          /\ worker'[w].stage \in {"attempt", "poll"}
          /\ \A k \in InHand(w) : k = worker[w].current \/ k \in InHand(w)'
      BY <1>1, <1>12, NextShape DEF CommitOffset
    <2>2. ASSUME NEW k, k = worker[w].current PROVE Handled(k)'
      <3>1. worker[w].current \in DOMAIN log
        BY <1>1, <1>12, CurrentInHand DEF WorkersOK, CommitOffset
      <3>2. log[worker[w].current].event \in processed \cup dead
        BY <1>12 DEF AccountInv, DoneIsHandled, EventOf, CommitOffset
      <3> QED BY <1>1, <1>12, <2>2, <3>1, <3>2 DEF Handled, CommitOffset
    <2>3. HandsAccounted
      <3> SUFFICES ASSUME NEW u \in Workers, NEW k \in InHand(u)
                   PROVE  k \in InHand(u)' \/ Handled(k)'
        BY DEF HandsAccounted
      <3>1. CASE u = w
        BY <2>1, <2>2, <3>1
      <3>2. CASE u # w
        BY <2>1, <3>2 DEF Others, InHand
      <3> QED BY <3>1, <3>2
    <2>4. \A u \in Workers : worker'[u].position = worker[u].position
      BY <2>1 DEF Others
    <2>5. DoneIsHandled'
      BY <1>1, <1>12, <2>1 DEF AccountInv, DoneIsHandled, EventOf, Others, CommitOffset
    <2>6. committed' = committed \/ (owner = w /\ committed' = worker[w].position)
      BY <1>12 DEF CommitOffset, CommittedBy
    <2> QED BY <1>1, <1>2, <2>3, <2>4, <2>5, <2>6, PositionsStay
  <1>13. CASE AbandonBatch(w)
    <2>1. /\ Others(w) /\ worker'[w].position = worker[w].position
          /\ worker'[w].stage = "poll" /\ dropped' = dropped \cup InHand(w)
      BY <1>1, <1>13, EmptyShape DEF AbandonBatch
    <2>2. HandsAccounted
      BY <2>1 DEF HandsAccounted, Others, InHand
    <2>3. DoneIsHandled'
      BY <1>1, <1>13, <2>1 DEF AccountInv, DoneIsHandled, EventOf, Others, AbandonBatch
    <2>4. \A u \in Workers : worker'[u].position = worker[u].position
      BY <2>1 DEF Others
    <2> QED BY <1>1, <1>2, <1>13, <2>2, <2>3, <2>4, PositionsStay DEF AbandonBatch
  <1> QED BY <1>4, <1>5, <1>6, <1>7, <1>8, <1>9, <1>10, <1>11, <1>12, <1>13 DEF Handle

LEMMA AccountGrows == ASSUME AccountInv, LogGrows PROVE AccountInv'
  <1>1. Shape /\ Shape' /\ UNCHANGED groupVars
    BY ShapeGrows DEF AccountInv, LogGrows
  <1>2. Grows
    BY <1>1 DEF LogGrows, groupVars, Grows
  <1>3. HandsAccounted
    BY <1>1 DEF groupVars, HandsAccounted, InHand
  <1>4. DoneIsHandled'
    BY <1>1, <1>2, DoneStays DEF groupVars
  <1> QED BY <1>1, <1>2, <1>3, <1>4, PositionsStay DEF groupVars

LEMMA GroupAccount == ASSUME AccountInv, GroupNext PROVE AccountInv'
  <1>1. RestOK /\ WorkersOK /\ Shape'
    BY GroupTyped DEF AccountInv, Shape
  <1>3. ASSUME NEW w \in Workers, Assign(w) PROVE AccountInv'
    <2>1. /\ Others(w) /\ worker'[w].position = committed
          /\ worker'[w].stage = worker[w].stage
          /\ worker'[w].current = worker[w].current
          /\ worker'[w].last = worker[w].last
      BY <1>1, <1>3, AssignShape
    <2>2. Grows /\ HandsAccounted
      BY <1>3, <2>1 DEF Assign, Grows, HandsAccounted, Others, InHand
    <2>3. DoneIsHandled'
      BY <1>3, <2>1 DEF AccountInv, DoneIsHandled, EventOf, Others, Assign
    <2>4. CommittedIsAccountedFor'
      BY <1>3, <2>2, AccountStays DEF AccountInv, CommittedIsAccountedFor, Assign
    <2>5. FetchedIsAccountedFor'
      BY <1>3, <2>1, <2>4 DEF FetchedIsAccountedFor, CommittedIsAccountedFor, Assign
    <2> QED BY <1>1, <2>3, <2>4, <2>5 DEF AccountInv
  <1>4. ASSUME NEW w \in Workers, Handle(w) PROVE AccountInv'
    BY <1>1, <1>4, AccountHandle
  <1>5. ASSUME NEW w \in Workers, Crash(w) PROVE AccountInv'
    <2>1. /\ Others(w) /\ worker'[w].position = worker[w].position
          /\ worker'[w].stage = "poll" /\ dropped' = dropped \cup InHand(w)
      BY <1>1, <1>5, EmptyShape DEF Crash
    <2>2. Grows /\ HandsAccounted
      BY <1>5, <2>1 DEF Crash, Grows, HandsAccounted, Others, InHand
    <2>3. DoneIsHandled'
      BY <1>5, <2>1 DEF AccountInv, DoneIsHandled, EventOf, Others, Crash
    <2>4. \A u \in Workers : worker'[u].position = worker[u].position
      BY <2>1 DEF Others
    <2> QED BY <1>1, <1>5, <2>2, <2>3, <2>4, PositionsStay DEF Crash
  <1> QED BY <1>3, <1>4, <1>5 DEF GroupNext

LEMMA AccountStart == ASSUME GroupInit, LogOK PROVE AccountInv
  BY ShapeInit, NoWorkerAssumption
  DEF GroupInit, AccountInv, DoneIsHandled, FetchedIsAccountedFor,
      CommittedIsAccountedFor, Polling

LEMMA AccountKeeps == CSpec => [](CTypeOK /\ AccountInv)
  <1> DEFINE IInv == CTypeOK /\ AccountInv
  <1>1. CInit => IInv
    BY CTypeInit, MessagesOK, AccountStart DEF CInit, CTypeOK, LogOK
  <1>2. ASSUME IInv, [CNext]_cvars PROVE IInv'
    <2>1. CTypeOK' /\ log \in Seq([event : Events])
      BY <1>2, CTypeStep DEF CTypeOK
    <2>2. ASSUME NEW e \in Events, Produce(e) PROVE AccountInv'
      BY <1>2, <2>1, <2>2, ProduceGrows, AccountGrows
    <2>3. CASE UNCHANGED cvars
      BY <1>2, <2>1, <2>3, TypePartsNext
         DEF cvars, groupVars, AccountInv, DoneIsHandled, FetchedIsAccountedFor,
             CommittedIsAccountedFor, AccountedFor, Handled, InHand, EventOf
    <2> QED BY <1>2, <2>1, <2>2, <2>3, GroupAccount DEF CNext
  <1> QED BY <1>1, <1>2, PTL DEF CSpec

\* What the committed offset covers is handled, in a hand, or was lost from one.
THEOREM OffsetAccounted == CSpec => []CommittedIsAccountedFor
  <1>1. AccountInv => CommittedIsAccountedFor
    BY DEF AccountInv
  <1> QED BY <1>1, AccountKeeps, PTL

-----------------------------------------------------------------------------
(* CommitFollowsProcessing is false of batches.  It is true of a consumer  *)
(* that fetches one message at a time, until it loses one in a mishap.     *)

Settled(k) == Handled(k) \/ k \in dropped

OneAtATimeInv ==
  /\ \A k \in 1 .. committed : Settled(k)
  /\ \A w \in Workers : worker[w].stage # "poll" => worker[w].current = worker[w].last
  /\ \A w \in Workers : owner = w =>
       \A k \in 1 .. worker[w].position :
         Settled(k) \/ (worker[w].stage # "poll" /\ k = worker[w].current)
  /\ dropped # {} => mishaps # 0

LEMMA SettledStays == ASSUME Grows, NEW k, Settled(k) PROVE Settled(k)'
  BY DEF Grows, Settled, Handled

\* A worker goes on with the message in its hand.
LEMMA SameMessage ==
    ASSUME OneAtATimeInv, Grows, NEW w \in Workers, Others(w), SameHand(w),
           worker[w].stage # "poll", worker'[w].stage # "poll",
           UNCHANGED <<committed, owner, dropped>>, mishaps # 0 => mishaps' # 0
    PROVE  OneAtATimeInv'
  <1>1. \A k \in 1 .. committed : Settled(k)'
    BY SettledStays DEF OneAtATimeInv
  <1>2. ASSUME NEW u \in Workers, owner = u, NEW k \in 1 .. worker'[u].position
        PROVE  Settled(k)' \/ (worker'[u].stage # "poll" /\ k = worker'[u].current)
    BY <1>2, SettledStays DEF OneAtATimeInv, Others, SameHand
  <1>3. \A u \in Workers : worker'[u].stage # "poll" => worker'[u].current = worker'[u].last
    BY DEF OneAtATimeInv, Others, SameHand
  <1> QED BY <1>1, <1>2, <1>3 DEF OneAtATimeInv

\* A worker ends up with nothing in hand, and what it had is settled.
LEMMA NothingInHand ==
    ASSUME OneAtATimeInv, Grows, NEW w \in Workers, Others(w),
           worker'[w].stage = "poll", worker'[w].position = worker[w].position,
           NEW m, m = worker[w].current, worker[w].stage # "poll" => Settled(m)',
           owner' = owner \/ owner' = NoWorker,
           committed' = committed \/ (owner = w /\ committed' = worker[w].position),
           dropped' # {} => mishaps' # 0
    PROVE  OneAtATimeInv'
  <1>1. \A k \in 1 .. committed' : Settled(k)'
    BY SettledStays DEF OneAtATimeInv
  <1>2. ASSUME NEW u \in Workers, owner' = u, NEW k \in 1 .. worker'[u].position
        PROVE  Settled(k)' \/ (worker'[u].stage # "poll" /\ k = worker'[u].current)
    BY <1>2, SettledStays, NoWorkerAssumption DEF OneAtATimeInv, Others
  <1>3. \A u \in Workers : worker'[u].stage # "poll" => worker'[u].current = worker'[u].last
    BY DEF OneAtATimeInv, Others
  <1> QED BY <1>1, <1>2, <1>3 DEF OneAtATimeInv

LEMMA OneAtATimeHandle ==
    ASSUME MaxRecords = 1, Shape, DoneIsHandled, OneAtATimeInv, NEW w \in Workers, Handle(w)
    PROVE  OneAtATimeInv'
  <1>1. RestOK /\ WorkersOK /\ UNCHANGED <<log, owner>> /\ mishaps \in Nat
    BY DEF Shape, RestOK, Handle, Poll, Refuse, Skip, Insert, CommitEffect,
       FailAttempt, CommitOffset, OffsetFails, DeadLetter, AbandonBatch
  <1>2. Grows
    BY <1>1 DEF Handle, Poll, Refuse, Skip, Insert, CommitEffect, Effect,
       FailAttempt, CommitOffset, OffsetFails, DeadLetter, AbandonBatch, EmptyHand, Grows
  <1>3. CASE Refuse(w) \/ Skip(w) \/ Insert(w) \/ CommitEffect(w) \/ DeadLetter(w)
    <2>1. PICK stage \in WorkerStages \ {"poll"} : EntersStage(w, stage)
      BY <1>3 DEF Refuse, Skip, Insert, CommitEffect, DeadLetter, WorkerStages
    <2>2. worker[w].stage # "poll" /\ UNCHANGED <<committed, dropped, mishaps>>
      BY <1>3 DEF Refuse, Skip, Insert, CommitEffect, DeadLetter
    <2> QED BY <1>1, <1>2, <2>1, <2>2, EntersShape, SameMessage
  <1>4. CASE FailAttempt(w) \/ OffsetFails(w)
    <2>1. /\ worker[w].stage # "poll" /\ Retry(w) /\ UNCHANGED <<committed, dropped>>
          /\ mishaps' = mishaps \/ mishaps' = mishaps + 1
      BY <1>4 DEF FailAttempt, OffsetFails, Mishap
    <2>2. mishaps # 0 => mishaps' # 0
      BY <1>1, <2>1
    <2>3. Others(w) /\ SameHand(w) /\ worker'[w].stage # "poll"
      BY <1>1, <2>1, RetryShape
    <2> QED BY <1>1, <1>2, <2>1, <2>2, <2>3, SameMessage
  <1>5. CASE CommitOffset(w)
    <2>1. Others(w) /\ worker'[w].position = worker[w].position
      BY <1>1, <1>5, NextShape DEF CommitOffset
    <2>2. worker[w].current = worker[w].last /\ worker[w].stage \in {"done", "deadLettered"}
      BY <1>5 DEF OneAtATimeInv, CommitOffset
    <2>3. worker'[w].stage = "poll"
      <3>1. worker[w].current \in Nat /\ ~(worker[w].current < worker[w].last)
        BY <1>1, <2>2 DEF WorkersOK, WorkerState
      <3> QED BY <1>1, <1>5, <3>1 DEF CommitOffset, NextMessage, Advanced, Polling, WorkersOK
    <2>4. PICK m : m = worker[w].current
      OBVIOUS
    <2>7. Settled(m)'
      <3>1. m \in DOMAIN log
        BY <1>1, <2>2, <2>4, CurrentInHand DEF WorkersOK
      <3>2. log[m].event \in processed \cup dead
        BY <2>2, <2>4 DEF DoneIsHandled, EventOf
      <3>3. Settled(m)
        BY <3>1, <3>2 DEF Settled, Handled
      <3> QED BY <1>2, <3>3, SettledStays
    <2>5. /\ committed' = committed \/ (owner = w /\ committed' = worker[w].position)
          /\ UNCHANGED <<dropped, mishaps>>
      BY <1>5 DEF CommitOffset, CommittedBy
    <2>6. dropped' # {} => mishaps' # 0
      BY <2>5 DEF OneAtATimeInv
    <2> QED BY <1>1, <1>2, <2>1, <2>3, <2>4, <2>5, <2>6, <2>7, NothingInHand
  <1>6. CASE AbandonBatch(w)
    <2>1. /\ Others(w) /\ worker'[w].position = worker[w].position
          /\ worker'[w].stage = "poll" /\ dropped' = dropped \cup InHand(w)
      BY <1>1, <1>6, EmptyShape DEF AbandonBatch
    <2>2. PICK m : m = worker[w].current /\ m \in InHand(w)
      BY <1>1, <1>6, CurrentInHand DEF AbandonBatch, WorkersOK, InHand
    <2>3. Settled(m)'
      BY <2>1, <2>2 DEF Settled
    <2>4. committed' = committed /\ mishaps' # 0
      BY <1>1, <1>6 DEF AbandonBatch, Mishap
    <2> QED BY <1>1, <1>2, <2>1, <2>2, <2>3, <2>4, NothingInHand
  <1>7. CASE Poll(w)
    <2>1. /\ worker' = [worker EXCEPT ![w] =
               [position |-> worker[w].position + 1, current |-> worker[w].position + 1,
                last |-> worker[w].position + 1, attempt |-> 1, stage |-> "attempt"]]
          /\ owner = w /\ worker[w].stage = "poll" /\ UNCHANGED <<committed, dropped, mishaps>>
      BY <1>7 DEF Poll
    <2>2. /\ Others(w) /\ worker'[w].stage = "attempt"
          /\ worker'[w].position = worker[w].position + 1
          /\ worker'[w].current = worker[w].position + 1
          /\ worker'[w].last = worker[w].position + 1
          /\ worker[w].position \in Nat
      BY <1>1, <2>1 DEF WorkersOK, WorkerState, Others
    <2>3. \A k \in 1 .. committed : Settled(k)'
      BY <1>2, SettledStays DEF OneAtATimeInv
    <2>4. ASSUME NEW k \in 1 .. worker'[w].position PROVE Settled(k)' \/ k = worker'[w].current
      <3>1. k = worker'[w].current \/ k \in 1 .. worker[w].position
        BY <2>2
      <3> QED BY <1>2, <2>1, <3>1, SettledStays DEF OneAtATimeInv
    <2>5. \A u \in Workers : worker'[u].stage # "poll" => worker'[u].current = worker'[u].last
      BY <2>2 DEF OneAtATimeInv, Others
    <2> QED BY <1>1, <2>1, <2>2, <2>3, <2>4, <2>5 DEF OneAtATimeInv
  <1> QED BY <1>3, <1>4, <1>5, <1>6, <1>7 DEF Handle

LEMMA OneAtATimeStep ==
    ASSUME MaxRecords = 1, CTypeOK, AccountInv, OneAtATimeInv, [CNext]_cvars
    PROVE  OneAtATimeInv'
  <1>1. Shape /\ DoneIsHandled /\ RestOK /\ WorkersOK /\ log \in Seq([event : Events])
    BY TypeParts DEF AccountInv, Shape
  <1>2. mishaps \in Nat
    BY <1>1 DEF RestOK
  <1>3. ASSUME Grows, UNCHANGED groupVars PROVE OneAtATimeInv'
    <2>1. \A k : Settled(k) => Settled(k)'
      BY <1>3, SettledStays
    <2> QED BY <1>3, <2>1 DEF OneAtATimeInv, groupVars
  <1>4. ASSUME NEW e \in Events, Produce(e) PROVE OneAtATimeInv'
    BY <1>1, <1>3, <1>4, ProduceGrows DEF LogGrows, Grows, groupVars
  <1>5. CASE UNCHANGED cvars
    BY <1>3, <1>5 DEF cvars, groupVars, Grows
  <1>6. ASSUME NEW w \in Workers, Assign(w) PROVE OneAtATimeInv'
    <2>1. /\ Others(w) /\ worker'[w].position = committed
          /\ worker'[w].stage = worker[w].stage
          /\ worker'[w].current = worker[w].current
          /\ worker'[w].last = worker[w].last
      BY <1>1, <1>6, AssignShape
    <2>2. /\ Grows /\ owner' = w /\ UNCHANGED <<committed, dropped>>
          /\ mishaps' = mishaps \/ mishaps' = mishaps + 1
      BY <1>6 DEF Assign, Grows, Mishap
    <2>3. \A k \in 1 .. committed : Settled(k)'
      BY <2>2, SettledStays DEF OneAtATimeInv
    <2>4. dropped' # {} => mishaps' # 0
      BY <1>2, <2>2 DEF OneAtATimeInv
    <2>5. \A u \in Workers : worker'[u].stage # "poll" => worker'[u].current = worker'[u].last
      BY <2>1 DEF OneAtATimeInv, Others
    <2> QED BY <2>1, <2>2, <2>3, <2>4, <2>5 DEF OneAtATimeInv
  <1>7. ASSUME NEW w \in Workers, Crash(w) PROVE OneAtATimeInv'
    <2>1. /\ Others(w) /\ worker'[w].position = worker[w].position
          /\ worker'[w].stage = "poll" /\ dropped' = dropped \cup InHand(w)
      BY <1>1, <1>7, EmptyShape DEF Crash
    <2>2. PICK m : m = worker[w].current /\ (worker[w].stage # "poll" => m \in InHand(w))
      BY <1>1, CurrentInHand DEF WorkersOK, InHand
    <2>3. worker[w].stage # "poll" => Settled(m)'
      BY <2>1, <2>2 DEF Settled
    <2>4. Grows /\ committed' = committed /\ mishaps' # 0 /\ (owner' = owner \/ owner' = NoWorker)
      BY <1>2, <1>7, <2>1 DEF Crash, Mishap, Grows
    <2> QED BY <2>1, <2>2, <2>3, <2>4, NothingInHand
  <1>8. ASSUME NEW w \in Workers, Handle(w) PROVE OneAtATimeInv'
    BY <1>1, <1>8, OneAtATimeHandle
  <1> QED BY <1>4, <1>5, <1>6, <1>7, <1>8 DEF CNext, GroupNext

\* A consumer that fetched one message at a time (max_records=1 in consumer_base.py)
\* would commit after processing, as its comment says: what its offset covers is
\* handled or was lost in a mishap, and all of it is handled until the first one.
THEOREM OneAtATime ==
    MaxRecords = 1 =>
      (CSpec => /\ [](\A k \in 1 .. committed : Handled(k) \/ k \in dropped)
                /\ [](mishaps = 0 => CommitFollowsProcessing))
  <1> SUFFICES ASSUME MaxRecords = 1
               PROVE  CSpec => /\ [](\A k \in 1 .. committed : Handled(k) \/ k \in dropped)
                               /\ [](mishaps = 0 => CommitFollowsProcessing)
    OBVIOUS
  <1>1. CInit => OneAtATimeInv
    BY NoWorkerAssumption DEF CInit, GroupInit, OneAtATimeInv, Polling
  <1>2. CTypeOK /\ AccountInv /\ OneAtATimeInv /\ [CNext]_cvars => OneAtATimeInv'
    BY OneAtATimeStep
  <1>3. OneAtATimeInv => /\ \A k \in 1 .. committed : Handled(k) \/ k \in dropped
                         /\ mishaps = 0 => CommitFollowsProcessing
    BY DEF OneAtATimeInv, Settled, CommitFollowsProcessing
  <1> QED BY <1>1, <1>2, <1>3, AccountKeeps, PTL DEF CSpec
=============================================================================
