---------------------------- MODULE EventProducer ----------------------------
(***************************************************************************)
(* Publishing to Kafka with a write-ahead log (core/events/producer.py).   *)
(*                                                                         *)
(* publish hands a record to the client and waits five seconds; when that  *)
(* fails it writes a row to wal_events.  Giving up does not take the       *)
(* record back: the client may still deliver it.  Every pod runs a         *)
(* recovery daemon which reads pending rows, sends them one by one, and    *)
(* marks them published in one transaction at the end of its pass.         *)
(* publish_security_event retries publish and then dead-letters.           *)
(***************************************************************************)
EXTENDS Naturals, Sequences, FiniteSets, Functions

CONSTANTS
  Events,          \* what is published, each event once
  SecurityEvents,  \* those published by publish_security_event
  Oversized,       \* those whose record the client refuses to take
  Pods,            \* processes that run an EventProducer
  MaxRetries,      \* max_retries of publish_security_event
  DrainLimit,      \* the LIMIT of the daemon's query
  MaxFaults        \* bound on crashes, lost replies and failed commits

ASSUME EventsAssumption == SecurityEvents \subseteq Events /\ Oversized \subseteq Events
ASSUME LimitsAssumption == /\ MaxRetries \in Nat \ {0}
                           /\ DrainLimit \in Nat \ {0}
                           /\ MaxFaults \in Nat

(***************************************************************************)
(* A record is what one send carries: the event itself, the dead letter    *)
(* that wraps it, or the note {"failure": ...} that names no event.  A     *)
(* record drained from row i of the log has row i; try counts the calls of *)
(* publish made for an event.                                              *)
(***************************************************************************)
Bodies == {"event", "deadLetter", "note"}
Topics == {"events", "dlq"}
Topic(body) == IF body = "event" THEN "events" ELSE "dlq"
Record == [event : Events, body : Bodies, try : Nat, row : Nat]
WalRow == [event : Events, body : Bodies, status : {"PENDING", "PUBLISHED"}]

VARIABLES
  log,         \* what the broker has stored, a sequence of records per topic
  inFlight,    \* records handed to a client and not yet stored or given up
  publication, \* per event: the call that publishes it
  wal,         \* rows of wal_events, in the order of created_at
  daemon,      \* per pod: rows its recovery pass has still to send and has sent
  connected,   \* pods whose client started: _producer is not None
  brokerUp,    \* whether the broker can be reached
  faults       \* crashes, lost replies and failed commits so far

vars == <<log, inFlight, publication, wal, daemon, connected, brokerUp, faults>>

Stages == {"idle", "ready", "sending", "failed", "lastResort",
           "returned", "raised", "gone"}
Publication == [stage : Stages, pod : Pods, body : Bodies, try : Nat]
Idle == [active |-> FALSE, rows |-> {}, sent |-> {}]

TypeOK ==
  /\ log \in [Topics -> Seq(Record)]
  /\ inFlight \subseteq Record
  /\ publication \in [Events -> Publication]
  /\ wal \in Seq(WalRow)
  /\ daemon \in [Pods -> [active : BOOLEAN, rows : SUBSET Nat, sent : SUBSET Nat]]
  /\ \A p \in Pods : daemon[p].rows \cup daemon[p].sent \subseteq DOMAIN wal
  /\ connected \subseteq Pods
  /\ brokerUp \in BOOLEAN
  /\ faults \in 0 .. MaxFaults

Init ==
  /\ log = [t \in Topics |-> <<>>]
  /\ inFlight = {}
  /\ publication \in [Events -> [stage : {"idle"}, pod : Pods,
                                 body : {"event"}, try : {1}]]
  /\ wal = <<>>
  /\ daemon = [p \in Pods |-> Idle]
  /\ brokerUp \in BOOLEAN
  /\ connected = IF brokerUp THEN Pods ELSE {}
  /\ faults = 0

Fault == faults < MaxFaults /\ faults' = faults + 1

-----------------------------------------------------------------------------
(***************************************************************************)
(* The broker.                                                             *)
(***************************************************************************)
Store(r) == log' = [log EXCEPT ![Topic(r.body)] = Append(@, r)]

Stored(r) == r \in Range(log[Topic(r.body)])

BrokerToggles ==
  /\ brokerUp' = ~brokerUp
  /\ UNCHANGED <<log, inFlight, publication, wal, daemon, connected, faults>>

\* A record reaches the log, whether or not its publisher still waits for it.
Deliver ==
  /\ brokerUp
  /\ \E r \in inFlight : Store(r) /\ inFlight' = inFlight \ {r}
  /\ UNCHANGED <<publication, wal, daemon, connected, brokerUp, faults>>

\* The client's own deadline passes for a record.  While publish waits for it,
\* this is no more than TimeOut.
Drop ==
  /\ \E r \in inFlight : inFlight' = inFlight \ {r}
  /\ UNCHANGED <<log, publication, wal, daemon, connected, brokerUp, faults>>

-----------------------------------------------------------------------------
(***************************************************************************)
(* publish and publish_security_event.                                     *)
(***************************************************************************)
RecordOf(e) == [event |-> e, body |-> publication[e].body,
                try |-> publication[e].try, row |-> 0]

\* A record too large for the client never leaves it, however often it is sent;
\* a dead letter holds its event, so it is no smaller.
Refused(r) == r.event \in Oversized /\ r.body # "note"

Becomes(e, stage) == publication' = [publication EXCEPT ![e].stage = stage]

Send(e) ==
  /\ publication[e].stage \in {"idle", "ready"}
  /\ IF publication[e].pod \in connected /\ ~Refused(RecordOf(e))
     THEN Becomes(e, "sending") /\ inFlight' = inFlight \cup {RecordOf(e)}
     ELSE Becomes(e, "failed") /\ UNCHANGED inFlight
  /\ UNCHANGED <<log, wal, daemon, connected, brokerUp, faults>>

Acknowledged(e) ==
  /\ publication[e].stage = "sending"
  /\ Stored(RecordOf(e))
  /\ Becomes(e, "returned")
  /\ UNCHANGED <<log, inFlight, wal, daemon, connected, brokerUp, faults>>

\* wait_for gives up, or the client reports an error; the record may be in the
\* log, on its way there, or neither.
TimeOut(e) ==
  /\ publication[e].stage = "sending"
  /\ Becomes(e, "failed")
  /\ UNCHANGED <<log, inFlight, wal, daemon, connected, brokerUp, faults>>

AddToWal(e, body) ==
  wal' = Append(wal, [event |-> e, body |-> body, status |-> "PENDING"])

FaultyWriteWal(e) ==
  /\ publication[e].stage = "failed"
  /\ Becomes(e, "returned")
  /\ UNCHANGED <<log, inFlight, wal, daemon, connected, brokerUp, faults>>

WriteWal(e) ==
  /\ publication[e].stage = "failed"
  /\ AddToWal(e, publication[e].body)
  /\ Becomes(e, "returned")
  /\ UNCHANGED <<log, inFlight, daemon, connected, brokerUp, faults>>

\* What follows an exception of publish: a plain caller sees it; a security
\* event is tried again, then dead-lettered, then noted.
AfterFailure(e) ==
  LET p == publication[e] IN
  IF e \notin SecurityEvents THEN [p EXCEPT !.stage = "raised"]
  ELSE IF p.body # "event" THEN [p EXCEPT !.stage = "lastResort"]
  ELSE IF p.try < MaxRetries THEN [p EXCEPT !.stage = "ready", !.try = @ + 1]
  ELSE [p EXCEPT !.stage = "ready", !.body = "deadLetter"]

\* The write raises: the database is away, or the reply to the commit is lost.
WalFails(e) ==
  /\ publication[e].stage = "failed"
  /\ \/ UNCHANGED <<wal, faults>>
     \/ AddToWal(e, publication[e].body) /\ Fault
  /\ publication' = [publication EXCEPT ![e] = AfterFailure(e)]
  /\ UNCHANGED <<log, inFlight, daemon, connected, brokerUp>>

LastResort(e) ==
  /\ publication[e].stage = "lastResort"
  /\ \/ AddToWal(e, "note") /\ UNCHANGED faults /\ Becomes(e, "returned")
     \/ UNCHANGED <<wal, faults>> /\ Becomes(e, "raised")
     \/ AddToWal(e, "note") /\ Fault /\ Becomes(e, "raised")
  /\ UNCHANGED <<log, inFlight, daemon, connected, brokerUp>>

-----------------------------------------------------------------------------
(***************************************************************************)
(* The recovery daemon of pod p.  The status it sets is in its session     *)
(* only, until the commit at the end of the pass.                          *)
(***************************************************************************)
Pending(i) == wal[i].status = "PENDING"

FaultyOldestPending ==
  {i \in DOMAIN wal : /\ Pending(i) /\ wal[i].body = "event"
                      /\ Cardinality({j \in 1 .. i : Pending(j)}) <= DrainLimit}

OldestPending ==
  {i \in DOMAIN wal : /\ Pending(i)
                      /\ Cardinality({j \in 1 .. i : Pending(j)}) <= DrainLimit}

DrainRead(p) ==
  /\ p \in connected
  /\ ~daemon[p].active
  /\ OldestPending # {}
  /\ daemon' = [daemon EXCEPT ![p] =
                  [active |-> TRUE, rows |-> OldestPending, sent |-> {}]]
  /\ UNCHANGED <<log, inFlight, publication, wal, connected, brokerUp, faults>>

NextRow(p, i) == i \in daemon[p].rows /\ \A j \in daemon[p].rows : i <= j

FaultyRowRecord(i) ==
  [event |-> wal[i], body |-> wal[i].body, try |-> 0, row |-> i]

RowRecord(i) ==
  [event |-> wal[i].event, body |-> wal[i].body, try |-> 0, row |-> i]

DrainSend(p) ==
  /\ brokerUp
  /\ \E i \in daemon[p].rows :
        /\ NextRow(p, i)
        /\ ~Refused(wal[i])
        /\ Store(RowRecord(i))
        /\ daemon' = [daemon EXCEPT ![p].rows = @ \ {i}, ![p].sent = @ \cup {i}]
  /\ UNCHANGED <<inFlight, publication, wal, connected, brokerUp, faults>>

FaultyDrainFails(p) ==
  /\ \E i \in daemon[p].rows :
        /\ NextRow(p, i)
        /\ \/ (~brokerUp \/ Refused(wal[i])) /\ UNCHANGED <<log, faults>>
           \/ brokerUp /\ ~Refused(wal[i]) /\ Store(RowRecord(i)) /\ Fault
        /\ daemon' = [daemon EXCEPT ![p].rows = {}, ![p].sent = @ \cup {i}]
  /\ UNCHANGED <<inFlight, publication, wal, connected, brokerUp>>

\* The send raises and ends the pass.  The broker was away, or the client
\* refuses the record, now as in every pass to come, or the broker stored it
\* and the reply was lost.
DrainFails(p) ==
  /\ \E i \in daemon[p].rows :
        /\ NextRow(p, i)
        /\ \/ (~brokerUp \/ Refused(wal[i])) /\ UNCHANGED <<log, faults>>
           \/ brokerUp /\ ~Refused(wal[i]) /\ Store(RowRecord(i)) /\ Fault
  /\ daemon' = [daemon EXCEPT ![p].rows = {}]
  /\ UNCHANGED <<inFlight, publication, wal, connected, brokerUp>>

DrainCommit(p) ==
  /\ daemon[p].active
  /\ daemon[p].rows = {}
  /\ \/ /\ wal' = [i \in DOMAIN wal |->
                     IF i \in daemon[p].sent
                     THEN [wal[i] EXCEPT !.status = "PUBLISHED"] ELSE wal[i]]
        /\ UNCHANGED faults
     \/ UNCHANGED wal /\ Fault
  /\ daemon' = [daemon EXCEPT ![p] = Idle]
  /\ UNCHANGED <<log, inFlight, publication, connected, brokerUp>>

\* A pod dies or is stopped, and starts again.  start tries the broker once:
\* if that fails, _producer is None until the next start.
Restart(p) ==
  /\ Fault
  /\ publication' = [e \in Events |->
       IF publication[e].pod = p
            /\ publication[e].stage \in {"ready", "sending", "failed", "lastResort"}
       THEN [publication[e] EXCEPT !.stage = "gone"] ELSE publication[e]]
  /\ daemon' = [daemon EXCEPT ![p] = Idle]
  /\ connected' = IF brokerUp THEN connected \cup {p} ELSE connected \ {p}
  /\ UNCHANGED <<log, inFlight, wal, brokerUp>>

-----------------------------------------------------------------------------
Call(e) ==
  \/ Send(e) \/ Acknowledged(e) \/ TimeOut(e)
  \/ WriteWal(e) \/ WalFails(e) \/ LastResort(e)

Drain(p) == DrainRead(p) \/ DrainSend(p) \/ DrainFails(p) \/ DrainCommit(p)

ProducerNext ==
  \/ BrokerToggles \/ Deliver \/ Drop
  \/ \E e \in Events : Call(e)
  \/ \E p \in Pods : Drain(p) \/ Restart(p)

\* A call runs on once it has begun, and a daemon wakes up every ten seconds.
\* Nothing is assumed of the broker or of the client's late deliveries.
ProducerFairness ==
  /\ \A e \in Events : WF_vars(publication[e].stage # "idle" /\ Call(e))
  /\ \A p \in Pods : WF_vars(Drain(p))

ProducerSpec == Init /\ [][ProducerNext]_vars /\ ProducerFairness
-----------------------------------------------------------------------------
(***************************************************************************)
(* Properties.                                                             *)
(***************************************************************************)
Logged(e, bodies) ==
  \E t \in Topics : \E k \in DOMAIN log[t] :
    log[t][k].event = e /\ log[t][k].body \in bodies

Kept(e, bodies) ==
  \/ Logged(e, bodies)
  \/ \E i \in DOMAIN wal : Pending(i) /\ wal[i].event = e /\ wal[i].body \in bodies

Returned(e) == publication[e].stage = "returned"

\* When a publish has returned, its record is in the log or will be drained to
\* it, whatever crashes, time-outs and overlapping passes of daemons follow.
AcceptedIsDurable == \A e \in Events : Returned(e) => Kept(e, {publication[e].body, "note"})

\* A row of e is refused, or waits behind one that is.
Blocked(e) ==
  \E i, j \in DOMAIN wal :
    /\ j <= i /\ Pending(i) /\ Pending(j)
    /\ wal[i].event = e /\ Refused(wal[j])

\* Once the broker stays up and some pod has a client, what was accepted
\* reaches the log, unless a record that the client refuses stands at the head
\* of every pass before it.
AcceptedIsLogged ==
  <>[](brokerUp /\ connected # {}) =>
    \A e \in Events : Returned(e) ~> Logged(e, Bodies) \/ Blocked(e)

\* publish_security_event: "a failed security event is NEVER silently
\* discarded": when it returns, the event or its dead letter is kept.
NeverDiscarded ==
  \A e \in SecurityEvents : Returned(e) => Kept(e, {"event", "deadLetter"})
=============================================================================
