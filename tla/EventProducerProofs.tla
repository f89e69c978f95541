-------------------------- MODULE EventProducerProofs --------------------------
(***************************************************************************)
(* Theorems about EventProducer for every number of events, pods, retries  *)
(* and faults, proved with TLAPS.                                          *)
(***************************************************************************)
EXTENDS EventProducer, SequenceTheorems, TLAPS

-----------------------------------------------------------------------------
(* Types. *)

LEMMA RecordTyped ==
    ASSUME TypeOK, NEW e \in Events PROVE RecordOf(e) \in Record
  <1>1. publication[e] \in Publication
    BY DEF TypeOK
  <1> QED BY <1>1 DEF RecordOf, Publication, Record

LEMMA RowTyped ==
    ASSUME TypeOK, NEW i \in DOMAIN wal PROVE RowRecord(i) \in Record
  <1>1. wal[i] \in WalRow /\ i \in Nat
    BY DEF TypeOK
  <1> QED BY <1>1 DEF RowRecord, WalRow, Record

LEMMA TopicTyped == ASSUME NEW body PROVE Topic(body) \in Topics
  BY DEF Topic, Topics

LEMMA StoreTyped ==
    ASSUME TypeOK, NEW r \in Record, Store(r)
    PROVE  log' \in [Topics -> Seq(Record)]
  <1> DEFINE t == Topic(r.body)
  <1>1. t \in Topics
    BY TopicTyped
  <1>2. Append(log[t], r) \in Seq(Record)
    BY <1>1 DEF TypeOK
  <1>3. log' = [log EXCEPT ![t] = Append(log[t], r)]
    BY DEF Store
  <1> HIDE DEF t
  <1> QED BY <1>1, <1>2, <1>3 DEF TypeOK

LEMMA BecomesTyped ==
    ASSUME TypeOK, NEW e \in Events, NEW stage \in Stages, Becomes(e, stage)
    PROVE  publication' \in [Events -> Publication]
  <1>1. publication[e] \in Publication /\ publication \in [Events -> Publication]
    BY DEF TypeOK
  <1>2. [publication[e] EXCEPT !.stage = stage] \in Publication
    BY <1>1 DEF Publication
  <1>3. publication' = [publication EXCEPT ![e] = [publication[e] EXCEPT !.stage = stage]]
    BY <1>1 DEF Becomes, Publication
  <1> QED BY ONLY <1>1, <1>2, <1>3

LEMMA FaultTyped == ASSUME TypeOK, Fault PROVE faults' \in 0 .. MaxFaults
  BY LimitsAssumption DEF TypeOK, Fault

LEMMA AddTyped ==
    ASSUME TypeOK, NEW e \in Events, NEW body \in Bodies, AddToWal(e, body)
    PROVE  wal' \in Seq(WalRow)
  BY DEF TypeOK, AddToWal, WalRow

\* A pod's daemon knows rows of the log only.
DaemonTyped ==
  /\ daemon \in [Pods -> [active : BOOLEAN, rows : SUBSET Nat, sent : SUBSET Nat]]
  /\ \A p \in Pods : daemon[p].rows \cup daemon[p].sent \subseteq DOMAIN wal

LEMMA AddKeepsDaemons ==
    ASSUME TypeOK, NEW e \in Events, NEW body \in Bodies,
           AddToWal(e, body), UNCHANGED daemon
    PROVE  DaemonTyped'
  <1>1. DOMAIN wal \subseteq DOMAIN wal'
    BY DEF TypeOK, AddToWal
  <1> QED BY <1>1 DEF TypeOK, DaemonTyped

LEMMA TypeInit == Init => TypeOK
  BY LimitsAssumption
  DEF Init, TypeOK, Publication, Stages, Bodies, Idle

LEMMA TypeStep == TypeOK /\ [ProducerNext]_vars => TypeOK'
  <1> SUFFICES ASSUME TypeOK, [ProducerNext]_vars PROVE TypeOK'
    OBVIOUS
  <1>1. CASE BrokerToggles
    BY <1>1 DEF BrokerToggles, TypeOK
  <1>2. CASE Deliver
    <2>1. PICK r \in inFlight : Store(r) /\ inFlight' = inFlight \ {r}
      BY <1>2 DEF Deliver
    <2>2. log' \in [Topics -> Seq(Record)]
      BY <2>1, StoreTyped DEF TypeOK
    <2> QED BY <1>2, <2>1, <2>2 DEF Deliver, TypeOK
  <1>3. CASE Drop
    BY <1>3 DEF Drop, TypeOK
  <1>4. ASSUME NEW e \in Events, Call(e) PROVE TypeOK'
    <2>1. CASE Send(e)
      <3>1. publication' \in [Events -> Publication]
        BY <2>1, BecomesTyped DEF Send, Stages
      <3>2. inFlight' \subseteq Record
        BY <2>1, RecordTyped DEF Send, TypeOK
      <3> QED BY <2>1, <3>1, <3>2 DEF Send, TypeOK
    <2>2. CASE Acknowledged(e)
      BY <2>2, BecomesTyped DEF Acknowledged, TypeOK, Stages
    <2>3. CASE TimeOut(e)
      BY <2>3, BecomesTyped DEF TimeOut, TypeOK, Stages
    <2>4. CASE WriteWal(e)
      <3>1. publication[e].body \in Bodies
        BY DEF TypeOK, Publication
      <3>2. wal' \in Seq(WalRow)
        BY <2>4, <3>1, AddTyped DEF WriteWal
      <3>3. DaemonTyped'
        BY <2>4, <3>1, AddKeepsDaemons DEF WriteWal
      <3> QED BY <2>4, <3>2, <3>3, BecomesTyped DEF WriteWal, TypeOK, Stages, DaemonTyped
    <2>5. CASE WalFails(e)
      <3>1. publication[e] \in Publication
        BY DEF TypeOK
      <3>2. AfterFailure(e) \in Publication
        <4> DEFINE q == publication[e]
        <4>1. [q EXCEPT !.stage = "raised"] \in Publication
          BY <3>1 DEF Publication, Stages
        <4>2. [q EXCEPT !.stage = "lastResort"] \in Publication
          BY <3>1 DEF Publication, Stages
        <4>3. [q EXCEPT !.stage = "ready", !.try = @ + 1] \in Publication
          <5>1. q.try + 1 \in Nat
            BY <3>1 DEF Publication
          <5>2. ASSUME NEW t \in Nat
                PROVE  [q EXCEPT !.stage = "ready", !.try = t] \in Publication
            BY <3>1 DEF Publication, Stages
          <5> QED BY ONLY <5>1, <5>2
        <4>4. [q EXCEPT !.stage = "ready", !.body = "deadLetter"] \in Publication
          BY <3>1 DEF Publication, Stages, Bodies
        <4> QED BY <4>1, <4>2, <4>3, <4>4 DEF AfterFailure
      <3>3. wal' \in Seq(WalRow) /\ DaemonTyped' /\ faults' \in 0 .. MaxFaults
        <4>1. CASE UNCHANGED <<wal, faults>>
          BY <2>5, <4>1 DEF WalFails, TypeOK, DaemonTyped
        <4>2. CASE AddToWal(e, publication[e].body) /\ Fault
          BY <2>5, <3>1, <4>2, AddTyped, AddKeepsDaemons, FaultTyped DEF WalFails, Publication
        <4> QED BY <2>5, <4>1, <4>2 DEF WalFails
      <3>4. publication' \in [Events -> Publication]
        BY <2>5, <3>2 DEF WalFails, TypeOK
      <3> QED BY <2>5, <3>3, <3>4 DEF WalFails, TypeOK, DaemonTyped
    <2>6. CASE LastResort(e)
      <3>1. publication' \in [Events -> Publication]
        BY <2>6, BecomesTyped DEF LastResort, Stages
      <3>2. wal' \in Seq(WalRow) /\ DaemonTyped'
        <4>1. CASE AddToWal(e, "note")
          BY <2>6, <4>1, AddTyped, AddKeepsDaemons DEF LastResort, Bodies
        <4>2. CASE UNCHANGED wal
          BY <2>6, <4>2 DEF LastResort, TypeOK, DaemonTyped
        <4> QED BY <2>6, <4>1, <4>2 DEF LastResort
      <3>3. faults' \in 0 .. MaxFaults
        BY <2>6, FaultTyped DEF LastResort, TypeOK
      <3> QED BY <2>6, <3>1, <3>2, <3>3 DEF LastResort, TypeOK, DaemonTyped
    <2> QED BY <1>4, <2>1, <2>2, <2>3, <2>4, <2>5, <2>6 DEF Call
  <1>5. ASSUME NEW p \in Pods, Drain(p) PROVE TypeOK'
    <2>1. CASE DrainRead(p)
      <3>1. OldestPending \subseteq DOMAIN wal /\ DOMAIN wal \subseteq Nat
        BY DEF OldestPending, TypeOK
      <3>2. DaemonTyped'
        BY <2>1, <3>1 DEF DrainRead, TypeOK, DaemonTyped
      <3> QED BY <2>1, <3>2 DEF DrainRead, TypeOK, DaemonTyped
    <2>2. CASE DrainSend(p)
      <3>1. PICK i \in daemon[p].rows :
               /\ NextRow(p, i)
               /\ Store(RowRecord(i))
               /\ daemon' = [daemon EXCEPT ![p].rows = @ \ {i}, ![p].sent = @ \cup {i}]
        BY <2>2 DEF DrainSend
      <3>2. i \in DOMAIN wal /\ i \in Nat
        BY DEF TypeOK
      <3>3. log' \in [Topics -> Seq(Record)]
        BY <3>1, <3>2, RowTyped, StoreTyped
      <3>4. DaemonTyped'
        <4>1. daemon' \in [Pods -> [active : BOOLEAN, rows : SUBSET Nat, sent : SUBSET Nat]]
          <5>1. /\ daemon[p].rows \subseteq Nat
                /\ daemon \in [Pods -> [active : BOOLEAN, rows : SUBSET Nat, sent : SUBSET Nat]]
            BY DEF TypeOK
          <5>2. /\ daemon[p] \in [active : BOOLEAN, rows : SUBSET Nat, sent : SUBSET Nat]
                /\ daemon[p].rows \ {i} \in SUBSET Nat
                /\ daemon[p].sent \cup {i} \in SUBSET Nat
            BY <3>2, <5>1
          <5>3. daemon' = [daemon EXCEPT ![p] =
                  [daemon[p] EXCEPT !.rows = daemon[p].rows \ {i}, !.sent = daemon[p].sent \cup {i}]]
            BY <3>1, <5>1
          <5>4. [daemon[p] EXCEPT !.rows = daemon[p].rows \ {i}, !.sent = daemon[p].sent \cup {i}]
                  \in [active : BOOLEAN, rows : SUBSET Nat, sent : SUBSET Nat]
            BY <5>2
          <5> QED BY ONLY <5>1, <5>3, <5>4
        <4>2. \A q \in Pods : daemon'[q].rows \cup daemon'[q].sent
                                \subseteq daemon[q].rows \cup daemon[q].sent
          BY <3>1 DEF TypeOK
        <4> QED BY <2>2, <4>1, <4>2 DEF DrainSend, TypeOK, DaemonTyped
      <3> QED BY <2>2, <3>3, <3>4 DEF DrainSend, TypeOK, DaemonTyped
    <2>3. CASE DrainFails(p)
      <3>1. PICK i \in daemon[p].rows :
               \/ UNCHANGED <<log, faults>>
               \/ Store(RowRecord(i)) /\ Fault
        BY <2>3 DEF DrainFails
      <3>2. i \in DOMAIN wal
        BY DEF TypeOK
      <3>3. log' \in [Topics -> Seq(Record)] /\ faults' \in 0 .. MaxFaults
        BY <3>1, <3>2, RowTyped, StoreTyped, FaultTyped DEF TypeOK
      <3>4. DaemonTyped'
        <4>1. \A q \in Pods : daemon[q] \in [active : BOOLEAN, rows : SUBSET Nat, sent : SUBSET Nat]
          BY DEF TypeOK
        <4>2. \A q \in Pods : /\ daemon'[q].rows \subseteq daemon[q].rows
                             /\ daemon'[q].sent = daemon[q].sent
                             /\ daemon'[q] \in [active : BOOLEAN, rows : SUBSET Nat, sent : SUBSET Nat]
          BY <2>3, <4>1 DEF DrainFails, TypeOK
        <4>3. daemon' \in [Pods -> [active : BOOLEAN, rows : SUBSET Nat, sent : SUBSET Nat]]
          BY <2>3, <4>2 DEF DrainFails, TypeOK
        <4> QED BY <2>3, <4>2, <4>3 DEF DrainFails, TypeOK, DaemonTyped
      <3> QED BY <2>3, <3>3, <3>4 DEF DrainFails, TypeOK, DaemonTyped
    <2>4. CASE DrainCommit(p)
      <3>1. wal' \in Seq(WalRow) /\ DOMAIN wal' = DOMAIN wal
        <4>1. CASE UNCHANGED wal
          BY <4>1 DEF TypeOK
        <4>2. CASE wal' = [i \in DOMAIN wal |->
                             IF i \in daemon[p].sent
                             THEN [wal[i] EXCEPT !.status = "PUBLISHED"] ELSE wal[i]]
          <5>1. Len(wal) \in Nat /\ DOMAIN wal = 1 .. Len(wal)
            BY DEF TypeOK
          <5>2. \A i \in DOMAIN wal : wal[i] \in WalRow
            BY DEF TypeOK
          <5>3. \A i \in DOMAIN wal : wal'[i] \in WalRow
            BY <4>2, <5>2 DEF WalRow
          <5>4. wal' \in [1 .. Len(wal) -> WalRow]
            BY <4>2, <5>1, <5>3
          <5> QED BY <4>2, <5>1, <5>4, SeqDef
        <4> QED BY <2>4, <4>1, <4>2 DEF DrainCommit
      <3>2. faults' \in 0 .. MaxFaults
        BY <2>4, FaultTyped DEF DrainCommit, TypeOK
      <3>3. DaemonTyped'
        BY <2>4, <3>1 DEF DrainCommit, TypeOK, DaemonTyped, Idle
      <3> QED BY <2>4, <3>1, <3>2, <3>3 DEF DrainCommit, TypeOK, DaemonTyped
    <2> QED BY <1>5, <2>1, <2>2, <2>3, <2>4 DEF Drain
  <1>6. ASSUME NEW p \in Pods, Restart(p) PROVE TypeOK'
    <2>1. publication' \in [Events -> Publication]
      <3>1. ASSUME NEW e \in Events
            PROVE  /\ publication[e] \in Publication
                   /\ [publication[e] EXCEPT !.stage = "gone"] \in Publication
        BY DEF TypeOK, Publication, Stages
      <3> QED BY <1>6, <3>1 DEF Restart
    <2>2. DaemonTyped'
      BY <1>6 DEF Restart, TypeOK, DaemonTyped, Idle
    <2>3. connected' \subseteq Pods /\ faults' \in 0 .. MaxFaults
      BY <1>6, FaultTyped DEF Restart, TypeOK
    <2> QED BY <1>6, <2>1, <2>2, <2>3 DEF Restart, TypeOK, DaemonTyped
  <1>7. CASE UNCHANGED vars
    BY <1>7 DEF vars, TypeOK
  <1> QED BY <1>1, <1>2, <1>3, <1>4, <1>5, <1>6, <1>7 DEF ProducerNext

\* Every reachable state has the declared types.
THEOREM ProducerTypes == ProducerSpec => []TypeOK
  BY TypeInit, TypeStep, PTL DEF ProducerSpec
-----------------------------------------------------------------------------
(* Durability.  A row leaves PENDING only with a pass that sent it, so the *)
(* invariant adds that what a daemon has sent, and what is marked          *)
(* published, is in the log.                                               *)

RowLogged(i) == Logged(wal[i].event, {wal[i].body})

SentIsLogged == \A p \in Pods : \A i \in daemon[p].sent : RowLogged(i)

MarkedIsLogged == \A i \in DOMAIN wal : Pending(i) \/ RowLogged(i)

DurableInv == TypeOK /\ SentIsLogged /\ MarkedIsLogged /\ AcceptedIsDurable

\* The log only grows, and a row stays as it is unless it is in the log.
LogGrows ==
  \A t \in Topics : \A k \in DOMAIN log[t] :
    k \in DOMAIN log'[t] /\ log'[t][k] = log[t][k]

WalGrows ==
  \A i \in DOMAIN wal :
    /\ i \in DOMAIN wal'
    /\ wal'[i].event = wal[i].event
    /\ wal'[i].body = wal[i].body
    /\ Pending(i) => Pending(i)' \/ RowLogged(i)

LEMMA LoggedStays ==
    ASSUME LogGrows, NEW e, NEW bodies, Logged(e, bodies) PROVE Logged(e, bodies)'
  BY DEF LogGrows, Logged

LEMMA KeptStays ==
    ASSUME LogGrows, WalGrows, NEW e, NEW bodies, Kept(e, bodies)
    PROVE  Kept(e, bodies)'
  <1>1. CASE Logged(e, bodies)
    BY <1>1, LoggedStays DEF Kept
  <1>2. ASSUME NEW i \in DOMAIN wal,
               Pending(i), wal[i].event = e, wal[i].body \in bodies
        PROVE  Kept(e, bodies)'
    <2>1. CASE Pending(i)'
      BY <1>2, <2>1 DEF WalGrows, Kept
    <2>2. CASE RowLogged(i)
      <3>1. Logged(e, bodies)
        BY <1>2, <2>2 DEF RowLogged, Logged
      <3> QED BY <3>1, LoggedStays DEF Kept
    <2> QED BY <1>2, <2>1, <2>2 DEF WalGrows
  <1> QED BY <1>1, <1>2 DEF Kept

LEMMA StoreGrows ==
    ASSUME TypeOK, NEW r \in Record, Store(r)
    PROVE  LogGrows /\ Logged(r.event, {r.body})'
  <1> DEFINE t == Topic(r.body)
  <1>1. t \in Topics /\ log[t] \in Seq(Record)
    BY TopicTyped DEF TypeOK
  <1>2. log'[t] = Append(log[t], r) /\ \A u \in Topics \ {t} : log'[u] = log[u]
    BY <1>1 DEF TypeOK, Store
  <1> HIDE DEF t
  <1>3. /\ Len(log[t]) \in Nat
        /\ DOMAIN log[t] = 1 .. Len(log[t])
        /\ DOMAIN log'[t] = 1 .. (Len(log[t]) + 1)
        /\ log'[t][Len(log[t]) + 1] = r
        /\ \A k \in DOMAIN log[t] : log'[t][k] = log[t][k]
    BY <1>1, <1>2
  <1>4. LogGrows
    BY <1>2, <1>3 DEF LogGrows
  <1>5. Logged(r.event, {r.body})'
    BY <1>1, <1>3 DEF Logged
  <1> QED BY <1>4, <1>5

LEMMA AddGrows ==
    ASSUME TypeOK, NEW e \in Events, NEW body \in Bodies, AddToWal(e, body)
    PROVE  /\ WalGrows
           /\ \E i \in DOMAIN wal' : /\ Pending(i)'
                                     /\ wal'[i].event = e
                                     /\ wal'[i].body = body
           /\ \A i \in DOMAIN wal' : i \in DOMAIN wal \/ Pending(i)'
  <1> DEFINE n == Len(wal) + 1
             row == [event |-> e, body |-> body, status |-> "PENDING"]
  <1>1. wal \in Seq(WalRow) /\ wal' = Append(wal, row)
    BY DEF TypeOK, AddToWal
  <1> HIDE DEF row
  <1>2. /\ Len(wal) \in Nat
        /\ DOMAIN wal = 1 .. Len(wal)
        /\ DOMAIN wal' = 1 .. n
        /\ wal'[n] = row
        /\ \A i \in DOMAIN wal : wal'[i] = wal[i]
    BY <1>1
  <1>3. row.event = e /\ row.body = body /\ row.status = "PENDING"
    BY DEF row
  <1>4. WalGrows
    BY <1>2 DEF WalGrows, Pending
  <1>5. n \in DOMAIN wal' /\ \A i \in DOMAIN wal' : i \in DOMAIN wal \/ i = n
    BY <1>2
  <1> QED BY <1>2, <1>3, <1>4, <1>5 DEF Pending

\* What each step does to the log and the rows is enough for the two parts
\* about rows, and for what was accepted before the step.
LEMMA RowsStay ==
    ASSUME DurableInv, LogGrows, WalGrows,
           \A p \in Pods : \A i \in daemon'[p].sent : i \in daemon[p].sent \/ RowLogged(i)',
           \A i \in DOMAIN wal' : i \in DOMAIN wal \/ Pending(i)'
    PROVE  SentIsLogged' /\ MarkedIsLogged'
  <1>1. \A i \in DOMAIN wal : RowLogged(i) => RowLogged(i)'
    BY LoggedStays DEF RowLogged, WalGrows
  <1>2. SentIsLogged'
    <2> SUFFICES ASSUME NEW p \in Pods, NEW i \in daemon'[p].sent PROVE RowLogged(i)'
      BY DEF SentIsLogged
    <2>1. CASE i \in daemon[p].sent
      <3>1. i \in DOMAIN wal /\ RowLogged(i)
        BY <2>1 DEF DurableInv, SentIsLogged, TypeOK
      <3> QED BY <1>1, <3>1
    <2> QED BY <2>1
  <1>3. MarkedIsLogged'
    <2> SUFFICES ASSUME NEW i \in DOMAIN wal' PROVE Pending(i)' \/ RowLogged(i)'
      BY DEF MarkedIsLogged
    <2>1. CASE i \in DOMAIN wal
      <3>1. Pending(i) \/ RowLogged(i)
        BY <2>1 DEF DurableInv, MarkedIsLogged
      <3> QED BY <1>1, <2>1, <3>1 DEF WalGrows
    <2> QED BY <2>1
  <1> QED BY <1>2, <1>3

LEMMA AcceptedStays ==
    ASSUME DurableInv, LogGrows, WalGrows,
           \A e \in Events : Returned(e)' =>
              \/ Returned(e) /\ publication'[e].body = publication[e].body
              \/ Kept(e, {publication[e].body, "note"})'
    PROVE  AcceptedIsDurable'
  <1> SUFFICES ASSUME NEW e \in Events, Returned(e)'
               PROVE  Kept(e, {publication[e].body, "note"})'
    BY DEF AcceptedIsDurable
  <1>1. CASE Returned(e) /\ publication'[e].body = publication[e].body
    <2>1. Kept(e, {publication[e].body, "note"})
      BY <1>1 DEF DurableInv, AcceptedIsDurable
    <2> QED BY <1>1, <2>1, KeptStays
  <1> QED BY <1>1

\* A step of one call: the others stay as they are.
LEMMA OtherCalls ==
    ASSUME TypeOK, NEW e \in Events, NEW stage, Becomes(e, stage)
    PROVE  /\ \A f \in Events \ {e} : publication'[f] = publication[f]
           /\ publication'[e].body = publication[e].body
           /\ publication'[e].stage = stage
  <1>1. publication[e] \in Publication
    BY DEF TypeOK
  <1> QED BY <1>1 DEF TypeOK, Becomes, Publication

LEMMA SameLogGrows == ASSUME UNCHANGED log PROVE LogGrows
  BY DEF LogGrows

LEMMA SameWalGrows == ASSUME UNCHANGED wal PROVE WalGrows
  BY DEF WalGrows, Pending

LEMMA DurableInit == Init => DurableInv
  BY TypeInit
  DEF Init, DurableInv, SentIsLogged, MarkedIsLogged, AcceptedIsDurable, Returned, Idle

LEMMA CallKeepsDurable ==
    ASSUME DurableInv, TypeOK', NEW e \in Events, Call(e) PROVE DurableInv'
  <1> USE DEF DurableInv
  <1>1. CASE Send(e)
    <2>1. \A f \in Events : Returned(f)' =>
            Returned(f) /\ publication'[f].body = publication[f].body
      BY <1>1, OtherCalls DEF Send, Returned
    <2> QED BY <1>1, <2>1, SameLogGrows, SameWalGrows, RowsStay, AcceptedStays DEF Send
  <1>2. CASE Acknowledged(e)
    <2>1. LogGrows /\ WalGrows
      BY <1>2, SameLogGrows, SameWalGrows DEF Acknowledged
    <2>2. Kept(e, {publication[e].body, "note"})
      <3>1. RecordOf(e).event = e /\ RecordOf(e).body = publication[e].body
        BY DEF RecordOf
      <3>2. PICK k \in DOMAIN log[Topic(RecordOf(e).body)] :
               log[Topic(RecordOf(e).body)][k] = RecordOf(e)
        BY <1>2 DEF Acknowledged, Stored, Range
      <3> QED BY <3>1, <3>2, TopicTyped DEF Kept, Logged
    <2>3. Kept(e, {publication[e].body, "note"})'
      BY <1>2, <2>1, <2>2, KeptStays, OtherCalls DEF Acknowledged
    <2>4. \A f \in Events \ {e} : Returned(f)' =>
            Returned(f) /\ publication'[f].body = publication[f].body
      BY <1>2, OtherCalls DEF Acknowledged, Returned
    <2> QED BY <1>2, <2>1, <2>3, <2>4, RowsStay, AcceptedStays DEF Acknowledged
  <1>3. CASE TimeOut(e)
    <2>1. \A f \in Events : Returned(f)' =>
            Returned(f) /\ publication'[f].body = publication[f].body
      BY <1>3, OtherCalls DEF TimeOut, Returned
    <2> QED BY <1>3, <2>1, SameLogGrows, SameWalGrows, RowsStay, AcceptedStays DEF TimeOut
  <1>4. ASSUME NEW body \in {publication[e].body, "note"}, AddToWal(e, body),
               Becomes(e, "returned"), UNCHANGED <<log, daemon>>
        PROVE  DurableInv'
    <2>1. body \in Bodies /\ LogGrows
      BY <1>4, SameLogGrows DEF TypeOK, Publication, Bodies
    <2>2. WalGrows /\ \A i \in DOMAIN wal' : i \in DOMAIN wal \/ Pending(i)'
      BY <1>4, <2>1, AddGrows
    <2>3. Kept(e, {publication[e].body, "note"})'
      <3>1. publication'[e].body = publication[e].body
        BY <1>4, OtherCalls
      <3>2. PICK i \in DOMAIN wal' :
               Pending(i)' /\ wal'[i].event = e /\ wal'[i].body = body
        BY <1>4, <2>1, AddGrows
      <3> QED BY <3>1, <3>2 DEF Kept
    <2>4. \A f \in Events \ {e} : Returned(f)' =>
            Returned(f) /\ publication'[f].body = publication[f].body
      BY <1>4, OtherCalls DEF Returned
    <2>5. SentIsLogged' /\ MarkedIsLogged'
      BY <1>4, <2>1, <2>2, RowsStay
    <2> QED BY <2>1, <2>2, <2>3, <2>4, <2>5, AcceptedStays
  <1>5. CASE WriteWal(e)
    BY <1>4, <1>5 DEF WriteWal
  <1>6. CASE WalFails(e)
    <2>1. AfterFailure(e).stage # "returned"
      <3>1. publication[e] \in Publication
        BY DEF TypeOK
      <3> QED BY <3>1 DEF AfterFailure, Publication
    <2>2. \A f \in Events : Returned(f)' =>
            Returned(f) /\ publication'[f].body = publication[f].body
      BY <1>6, <2>1 DEF WalFails, Returned, TypeOK
    <2>3. WalGrows /\ \A i \in DOMAIN wal' : i \in DOMAIN wal \/ Pending(i)'
      <3>1. CASE UNCHANGED wal
        BY <3>1, SameWalGrows
      <3>2. CASE AddToWal(e, publication[e].body)
        <4>1. publication[e].body \in Bodies
          BY DEF TypeOK, Publication
        <4> QED BY <3>2, <4>1, AddGrows
      <3> QED BY <1>6, <3>1, <3>2 DEF WalFails
    <2> QED BY <1>6, <2>2, <2>3, SameLogGrows, RowsStay, AcceptedStays DEF WalFails
  <1>7. CASE LastResort(e)
    <2>1. CASE AddToWal(e, "note") /\ Becomes(e, "returned")
      BY <1>4, <1>7, <2>1 DEF LastResort
    <2>2. CASE Becomes(e, "raised")
      <3>1. \A f \in Events : Returned(f)' =>
              Returned(f) /\ publication'[f].body = publication[f].body
        BY <2>2, OtherCalls DEF Returned
      <3>2. WalGrows /\ \A i \in DOMAIN wal' : i \in DOMAIN wal \/ Pending(i)'
        <4>1. CASE UNCHANGED wal
          BY <4>1, SameWalGrows
        <4>2. CASE AddToWal(e, "note")
          BY <4>2, AddGrows DEF Bodies
        <4> QED BY <1>7, <4>1, <4>2 DEF LastResort
      <3> QED BY <1>7, <2>2, <3>1, <3>2, SameLogGrows, RowsStay, AcceptedStays DEF LastResort
    <2> QED BY <1>7, <2>1, <2>2 DEF LastResort
  <1> QED BY <1>1, <1>2, <1>3, <1>5, <1>6, <1>7 DEF Call

LEMMA DrainKeepsDurable ==
    ASSUME DurableInv, TypeOK', NEW p \in Pods, Drain(p) PROVE DurableInv'
  <1> USE DEF DurableInv
  <1>1. \A f \in Events : Returned(f)' =>
          Returned(f) /\ publication'[f].body = publication[f].body
    BY DEF Drain, DrainRead, DrainSend, DrainFails, DrainCommit, Returned
  <1>2. CASE DrainRead(p)
    <2>1. \A q \in Pods : daemon'[q].sent \subseteq daemon[q].sent
      BY <1>2 DEF DrainRead, TypeOK
    <2> QED BY <1>1, <1>2, <2>1, SameLogGrows, SameWalGrows, RowsStay, AcceptedStays
        DEF DrainRead
  <1>3. CASE DrainSend(p)
    <2>1. PICK i \in daemon[p].rows :
             /\ Store(RowRecord(i))
             /\ daemon' = [daemon EXCEPT ![p].rows = @ \ {i}, ![p].sent = @ \cup {i}]
      BY <1>3 DEF DrainSend
    <2>2. i \in DOMAIN wal
      BY DEF TypeOK
    <2>3. LogGrows /\ Logged(RowRecord(i).event, {RowRecord(i).body})'
      <3>1. RowRecord(i) \in Record
        BY <2>2, RowTyped
      <3>2. RowRecord(i).event \in Events /\ RowRecord(i)' = RowRecord(i)
        BY <1>3, <3>1 DEF Record, RowRecord, DrainSend
      <3> QED BY <2>1, <3>1, <3>2, StoreGrows
    <2>4. RowLogged(i)'
      BY <1>3, <2>3 DEF RowLogged, RowRecord, DrainSend
    <2>5. \A q \in Pods : \A j \in daemon'[q].sent : j \in daemon[q].sent \/ j = i
      BY <2>1 DEF TypeOK
    <2> QED BY <1>1, <1>3, <2>3, <2>4, <2>5, SameWalGrows, RowsStay, AcceptedStays
        DEF DrainSend
  <1>4. CASE DrainFails(p)
    <2>1. PICK i \in daemon[p].rows :
             UNCHANGED log \/ Store(RowRecord(i))
      BY <1>4 DEF DrainFails
    <2>2. i \in DOMAIN wal
      BY DEF TypeOK
    <2>3. LogGrows
      BY <2>1, <2>2, RowTyped, StoreGrows, SameLogGrows
    <2>4. \A q \in Pods : daemon'[q].sent \subseteq daemon[q].sent
      BY <1>4 DEF DrainFails, TypeOK
    <2> QED BY <1>1, <1>4, <2>3, <2>4, SameWalGrows, RowsStay, AcceptedStays
        DEF DrainFails
  <1>5. CASE DrainCommit(p)
    <2>1. \A q \in Pods : daemon'[q].sent \subseteq daemon[q].sent
      BY <1>5 DEF DrainCommit, TypeOK, Idle
    <2>2. WalGrows /\ DOMAIN wal' = DOMAIN wal
      <3>1. CASE UNCHANGED wal
        BY <3>1, SameWalGrows
      <3>2. CASE wal' = [i \in DOMAIN wal |->
                           IF i \in daemon[p].sent
                           THEN [wal[i] EXCEPT !.status = "PUBLISHED"] ELSE wal[i]]
        <4>1. ASSUME NEW i \in DOMAIN wal
              PROVE  /\ wal'[i].event = wal[i].event
                     /\ wal'[i].body = wal[i].body
                     /\ Pending(i) => Pending(i)' \/ RowLogged(i)
          <5>1. CASE i \in daemon[p].sent
            <6>1. RowLogged(i)
              BY <5>1 DEF SentIsLogged
            <6>2. wal[i] \in WalRow /\ wal'[i] = [wal[i] EXCEPT !.status = "PUBLISHED"]
              BY <3>2, <5>1 DEF TypeOK
            <6> QED BY <6>1, <6>2 DEF WalRow
          <5>2. CASE i \notin daemon[p].sent
            BY <3>2, <5>2 DEF Pending
          <5> QED BY <5>1, <5>2
        <4> QED BY <3>2, <4>1 DEF WalGrows
      <3> QED BY <1>5, <3>1, <3>2 DEF DrainCommit
    <2> QED BY <1>1, <1>5, <2>1, <2>2, SameLogGrows, RowsStay, AcceptedStays
        DEF DrainCommit
  <1> QED BY <1>2, <1>3, <1>4, <1>5 DEF Drain

LEMMA DurableStep == DurableInv /\ [ProducerNext]_vars => DurableInv'
  <1> SUFFICES ASSUME DurableInv, [ProducerNext]_vars PROVE DurableInv'
    OBVIOUS
  <1>1. TypeOK /\ TypeOK'
    BY TypeStep DEF DurableInv
  <1>2. CASE Deliver
    <2>1. PICK r \in inFlight : Store(r)
      BY <1>2 DEF Deliver
    <2>2. LogGrows
      BY <1>1, <2>1, StoreGrows DEF TypeOK
    <2> QED BY <1>1, <1>2, <2>2, SameWalGrows, RowsStay, AcceptedStays
        DEF Deliver, Returned, DurableInv
  <1>3. ASSUME UNCHANGED <<log, publication, wal, daemon>> PROVE DurableInv'
    BY <1>1, <1>3, SameLogGrows, SameWalGrows, RowsStay, AcceptedStays DEF Returned, DurableInv
  <1>4. ASSUME NEW p \in Pods, Restart(p) PROVE DurableInv'
    <2>1. \A q \in Pods : daemon'[q].sent \subseteq daemon[q].sent
      BY <1>1, <1>4 DEF Restart, TypeOK, Idle
    <2>2. \A f \in Events : Returned(f)' =>
            Returned(f) /\ publication'[f].body = publication[f].body
      <3> SUFFICES ASSUME NEW f \in Events, Returned(f)'
                   PROVE  publication'[f] = publication[f]
        BY DEF Returned
      <3>1. publication[f] \in Publication
        BY <1>1 DEF TypeOK
      <3> QED BY <1>4, <3>1 DEF Restart, Returned, Publication
    <2> QED BY <1>1, <1>4, <2>1, <2>2, SameLogGrows, SameWalGrows, RowsStay, AcceptedStays
        DEF Restart, DurableInv
  <1> QED BY <1>1, <1>2, <1>3, <1>4, CallKeepsDurable, DrainKeepsDurable
      DEF ProducerNext, BrokerToggles, Drop, vars

\* What a publish has accepted is never forgotten: its record is in the log or
\* in a row that a daemon will read.
THEOREM Durable == ProducerSpec => []AcceptedIsDurable
  <1>1. DurableInv => AcceptedIsDurable
    BY DEF DurableInv
  <1> QED BY <1>1, DurableInit, DurableStep, PTL DEF ProducerSpec
=============================================================================
