---------------------------- MODULE EventBackbone ----------------------------
(***************************************************************************)
(* The producers and one consumer group of the topic they write to.  The   *)
(* topic log["events"] is all they share: the group sees an event once per *)
(* record, and one event may arrive by a direct send that its publisher    *)
(* gave up, by the write-ahead log, and by the passes of several daemons.  *)
(***************************************************************************)
EXTENDS EventProducer

CONSTANTS Malformed, Workers, NoWorker, MaxRecords, MaxAttempts, MaxMishaps

ASSUME GroupAssumption == /\ Malformed \subseteq Events
                          /\ NoWorker \notin Workers
                          /\ MaxRecords \in Nat \ {0}
                          /\ MaxAttempts \in Nat \ {0}
                          /\ MaxMishaps \in Nat

VARIABLES committed, owner, worker, processed, applied, dead, dropped, mishaps

groupVars == <<committed, owner, worker, processed, applied, dead, dropped, mishaps>>

Group == INSTANCE EventConsumer WITH log <- log["events"], MaxLog <- 0

BackboneInit == Init /\ Group!GroupInit

BackboneNext ==
  \/ ProducerNext /\ UNCHANGED groupVars
  \/ UNCHANGED vars /\ Group!GroupNext

BackboneFairness ==
  /\ \A e \in Events :
       WF_<<vars, groupVars>>(publication[e].stage # "idle" /\ Call(e) /\ UNCHANGED groupVars)
  /\ \A p \in Pods : WF_<<vars, groupVars>>(Drain(p) /\ UNCHANGED groupVars)
  /\ \A w \in Workers : WF_<<vars, groupVars>>(UNCHANGED vars /\ Group!Handle(w))
  /\ WF_<<vars, groupVars>>(/\ UNCHANGED vars
                            /\ owner = NoWorker
                            /\ \E w \in Workers : Group!Assign(w))

BackboneSpec ==
  BackboneInit /\ [][BackboneNext]_<<vars, groupVars>> /\ BackboneFairness

-----------------------------------------------------------------------------
\* However many copies of an event reach the topic, the group commits its
\* business effect at most once.
EffectAtMostOnce == Group!AppliedAtMostOnce

Published(e) == Returned(e) /\ publication[e].body = "event"

\* Once the broker stays up and some pod has a client, a published event is
\* processed or dead-lettered by the group, unless a worker lost it or a record
\* that the client refuses blocks its row.
PublishedSettles ==
  <>[](brokerUp /\ connected # {}) =>
    \A e \in Events :
      Published(e) ~> (\/ e \in processed \cup dead
                       \/ Blocked(e)
                       \/ \E k \in dropped : log["events"][k].event = e)
=============================================================================
