---------------------------- MODULE GatewayProofs ----------------------------
(***************************************************************************)
(* The safety of Gateway, for any requests, texts, policies and limits.    *)
(*                                                                         *)
(* A step changes the record of one request, or the policy.  Good says of  *)
(* one record what the invariants need of it at each stage; Keeps reduces  *)
(* a step of a request to the record it writes, so that each action is     *)
(* looked at for that record only.                                         *)
(***************************************************************************)
EXTENDS Gateway, FiniteSetTheorems, TLAPS

Away == Over \cup {"idle"}
Undone == {"idle", "cache", "load", "store", "scan", "evaluate", "ready", "provider", "log",
           "slotting", "opened", "reading", "failed"}

\* The keyword was not blocked all the time.
Tolerated(q) == \E p \in q.inForce : "keyword" \notin p

Sent(q) ==
  /\ q.stage \in {"ready", "slotting", "opened"} /\ "keyword" \in Joined(q.prompt) => Tolerated(q)
  /\ (\E x \in q.sent : x.what = "keyword" /\ x.shape = "string") => Tolerated(q)
  /\ \A x \in q.sent : x.what = "entity" /\ x.role = "user"
       => x.shape = "parts" /\ "entity" \notin Joined(q.prompt)

Given(q) ==
  /\ \A x \in q.released : x.what = "entity" => x.place = "further" /\ ~q.stream
  /\ q.stage \in {"provider", "log"} => ~q.stream
  /\ q.stream => \A x \in q.reply : x.place = "first"
  /\ q.stage = "log" => \A x \in q.reply : x.what = "entity" => x.place = "further"
  /\ q.stage \in Undone => q.released = {}
  /\ q.stage \in Undone \cup {"yielded"} => q.verdicts = {}
  /\ \A v \in q.verdicts : v.text = q.released

\* What a session has loaded for the prompt; a route with a policy of its own asks
\* the cache only for the completion.
Loaded(q) ==
  /\ q.seen \subseteq q.inForce
  /\ q.stage \in {"cache", "load"} /\ q.route => q.outbound

Good(q) == Sent(q) /\ Given(q) /\ Loaded(q)

InForce(q, p) == q.stage \notin Away /\ ~q.route => p.all \in q.inForce

\* LimiterTypeOK apart, what an action preserves.
Typed ==
  /\ policy \in Policies
  /\ cached \subseteq Compiled /\ Cardinality(cached) <= 1
  /\ admin \in {"idle", "committed"}
  /\ updates \in 0 .. MaxUpdates
  /\ faults \in 0 .. MaxFaults

Requested ==
  /\ req \in [Requests -> Request]
  /\ \A r \in Requests : Good(req[r]) /\ InForce(req[r], policy)

IInv == Typed /\ LimiterTypeOK /\ Requested

-----------------------------------------------------------------------------
LEMMA BlankGood ==
  ASSUME NEW p, NEW stage \in {"idle", "ended", "leaked"}
  PROVE  LET q == [Blank EXCEPT !.stage = stage]
         IN  q \in Request /\ Good(q) /\ InForce(q, p)
<1> DEFINE q == [Blank EXCEPT !.stage = stage]
<1>1. q \in Request
  BY DEF Blank, Request, Stages, Verdict, Compiled, Prompt, Completion
<1>2. /\ q.sent = {} /\ q.released = {} /\ q.verdicts = {} /\ q.seen = {} /\ q.reply = {}
      /\ q.stage = stage
  BY DEF Blank
<1>3. Good(q) /\ InForce(q, p)
  BY <1>2 DEF Good, Sent, Given, Loaded, InForce, Away, Over
<1> QED
  BY <1>1, <1>3

LEMMA Start == Init => IInv
<1> SUFFICES ASSUME Init PROVE IInv
    OBVIOUS
<1>1. Blank = [Blank EXCEPT !.stage = "idle"]
  BY DEF Blank
<1>2. Requested
  BY <1>1, BlankGood DEF Requested, Init
<1>3. Cardinality({}) = 0
  BY FS_EmptySet
<1>4. Typed
  BY <1>3, GatewayAssumption DEF Typed, Init
<1>5. LimiterTypeOK
  BY LimitAssumption DEF Init, LimiterInit, LimiterTypeOK, ClientStages
<1> QED
  BY <1>2, <1>4, <1>5 DEF IInv

\* What a request forgets is nothing that the invariant says.
LEMMA RemainsGood ==
  ASSUME NEW q \in Request, NEW p, Good(q), InForce(q, p)
  PROVE  Remains(q) \in Request /\ Good(Remains(q)) /\ InForce(Remains(q), p)
<1>1. CASE q.stage \in Over
  <2>1. Remains(q) = [Blank EXCEPT !.stage = q.stage]
    BY <1>1 DEF Remains, Over, Scanning
  <2>2. PICK stage \in {"ended", "leaked"} : q.stage = stage
    BY <1>1 DEF Over
  <2> QED
    BY <2>1, <2>2, BlankGood
<1>2. CASE q.stage \in Scanning
  BY <1>2 DEF Remains, Over, Scanning
<1>3. CASE q.stage \notin Over \cup Scanning
  <2> DEFINE n == [q EXCEPT !.seen = {}, !.compiled = {}, !.outbound = FALSE,
                            !.reply = IF q.stage = "log" THEN @ ELSE {}]
  <2>1. Remains(q) = n
    BY <1>3 DEF Remains
  <2>2. n \in Request
    BY DEF Request, Compiled, Completion
  <2>3. Sent(n) /\ Given(n) /\ Loaded(n) /\ InForce(n, p)
    BY <1>3 DEF Request, Good, Sent, Given, Loaded, InForce, Tolerated, Scanning
  <2> QED
    BY <2>1, <2>2, <2>3 DEF Good
<1> QED
  BY <1>1, <1>2, <1>3

\* A step that gives request r the record q keeps Requested if q is good.
LEMMA Keeps ==
  ASSUME IInv, NEW r \in Requests, NEW q \in Request, Good(q), InForce(q, policy),
         Becomes(r, q), policy' = policy
  PROVE  Requested'
BY RemainsGood DEF IInv, Requested, Becomes

\* What the commands of the counter preserve.
LEMMA Counted ==
  ASSUME LimiterTypeOK, NEW c \in Clients,
         Incr(c) \/ Decr(c) \/ Delete(c) \/ StoreFails(c) \/ KeyExpires \/ UNCHANGED limiter
  PROVE  LimiterTypeOK'
<1> USE LimitAssumption DEF LimiterTypeOK, ClientStages, Enters
<1>1. CASE Incr(c)
  BY <1>1 DEF Incr, Answer
<1>2. CASE Decr(c) \/ Delete(c)
  BY <1>2 DEF Decr, Delete
<1>3. CASE StoreFails(c) \/ KeyExpires \/ UNCHANGED limiter
  BY <1>3 DEF StoreFails, KeyExpires, limiter
<1> QED
  BY <1>1, <1>2, <1>3

LEMMA NextFault == ASSUME IInv, Fault PROVE faults' \in 0 .. MaxFaults
BY GatewayAssumption, LimitAssumption DEF IInv, Typed, LimiterTypeOK, Fault, MayFail

Others == <<policy, cached, admin, updates, limiter>>

\* A step of one request that touches nothing else but the count of failures.
LEMMA Moves ==
  ASSUME IInv, NEW r \in Requests, NEW q \in Request, Good(q), InForce(q, policy),
         Becomes(r, q), UNCHANGED Others, UNCHANGED faults \/ Fault
  PROVE  IInv'
<1>1. Requested'
  BY Keeps DEF Others
<1>2. Typed' /\ LimiterTypeOK'
  BY NextFault DEF IInv, Typed, LimiterTypeOK, Others, limiter
<1> QED
  BY <1>1, <1>2 DEF IInv

\* The record of a request on its way.
LEMMA Record ==
  ASSUME IInv, NEW r \in Requests
  PROVE  req[r] \in Request /\ Good(req[r]) /\ InForce(req[r], policy)
BY DEF IInv, Requested

\* Stages between which a request moves without a further change.
LEMMA Stage ==
  ASSUME NEW q \in Request, NEW p, Good(q), InForce(q, p), q.stage \notin Away,
         NEW stage \in Stages \ {"idle", "cache"}, stage = "load" => q.stage = "cache",
         stage \in {"ready", "slotting", "opened"} /\ "keyword" \in Joined(q.prompt) => Tolerated(q),
         stage \in {"provider", "log"} => ~q.stream,
         stage = "log" => \A x \in q.reply : x.what = "entity" => x.place = "further",
         stage \in Undone => q.stage \in Undone,
         stage = "yielded" => q.stage \in Undone \cup {"yielded"}
  PROVE  LET n == [q EXCEPT !.stage = stage]
         IN  n \in Request /\ Good(n) /\ InForce(n, p)
<1> DEFINE n == [q EXCEPT !.stage = stage]
<1>1. n \in Request
  BY DEF Request
<1>2. Sent(n)
  BY DEF Request, Good, Sent, Tolerated
<1>3. Given(n)
  BY DEF Request, Good, Given, Undone
<1>4. Loaded(n) /\ InForce(n, p)
  BY DEF Request, Good, Loaded, InForce
<1> QED
  BY <1>1, <1>2, <1>3, <1>4 DEF Good

-----------------------------------------------------------------------------
LEMMA UpdateStep == ASSUME IInv, Update PROVE IInv'
<1>1. PICK p \in Policies : policy' = p /\ req' = [r \in Requests |->
            IF req[r].stage \in Over \cup {"idle"} THEN req[r]
            ELSE [req[r] EXCEPT !.inForce = @ \cup Applying(p, req[r].route)]]
  BY DEF Update
<1>2. Typed' /\ LimiterTypeOK'
  BY <1>1, GatewayAssumption DEF Update, IInv, Typed, LimiterTypeOK, limiter
<1>3. ASSUME NEW r \in Requests
      PROVE  req'[r] \in Request /\ Good(req'[r]) /\ InForce(req'[r], p)
  <2>1. req[r] \in Request /\ Good(req[r])
    BY Record
  <2>2. CASE req[r].stage \in Away
    BY <1>1, <2>1, <2>2 DEF Away, InForce
  <2>3. CASE req[r].stage \notin Away
    <3> DEFINE q == [req[r] EXCEPT !.inForce = @ \cup Applying(p, req[r].route)]
    <3>1. req'[r] = q
      BY <1>1, <2>3 DEF Away
    <3>2. Applying(p, req[r].route) \in SUBSET Compiled
      BY GatewayAssumption DEF Applying, TenantPolicies
    <3>3. q \in Request
      BY <2>1, <3>2 DEF Request
    <3>4. Sent(q) /\ Loaded(q)
      BY <2>1 DEF Request, Good, Sent, Loaded, Tolerated
    <3>5. Given(q) /\ InForce(q, p)
      BY <2>1 DEF Request, Good, Given, InForce, Applying
    <3> QED
      BY <3>1, <3>3, <3>4, <3>5 DEF Good
  <2> QED
    BY <2>2, <2>3
<1>4. Requested'
  BY <1>1, <1>3 DEF Requested
<1> QED
  BY <1>2, <1>4 DEF IInv

LEMMA InvalidateStep == ASSUME IInv, Invalidate PROVE IInv'
<1>1. Requested' /\ LimiterTypeOK'
  BY DEF IInv, Requested, LimiterTypeOK, limiter, Invalidate
<1>2. Cardinality({}) = 0
  BY FS_EmptySet
<1>3. Typed'
  BY <1>2, NextFault DEF IInv, Typed, Invalidate
<1> QED
  BY <1>1, <1>3 DEF IInv

LEMMA ReadCacheStep == ASSUME IInv, NEW r \in Requests, ReadCache(r) PROVE IInv'
<1>1. req[r] \in Request /\ Good(req[r]) /\ InForce(req[r], policy) /\ req[r].stage = "cache"
  BY Record DEF ReadCache, At
<1>2. CASE \E p \in cached :
             Becomes(r, [req[r] EXCEPT !.stage = "scan", !.compiled = p]) /\ UNCHANGED faults
  <2>1. PICK p \in cached :
               Becomes(r, [req[r] EXCEPT !.stage = "scan", !.compiled = p]) /\ UNCHANGED faults
    BY <1>2
  <2> DEFINE q == [req[r] EXCEPT !.stage = "scan", !.compiled = p]
  <2>2. q \in Request
    BY <1>1 DEF IInv, Typed, Request, Stages
  <2>3. Good(q) /\ InForce(q, policy)
    BY <1>1 DEF Request, Good, Sent, Given, Loaded, InForce, Tolerated, Away, Over, Undone
  <2> QED
    BY <2>1, <2>2, <2>3, Moves DEF ReadCache, Others
<1>3. CASE Proceed(r, "load") /\ (UNCHANGED faults \/ Fault)
  <2> DEFINE q == [req[r] EXCEPT !.stage = "load"]
  <2>1. q \in Request /\ Good(q) /\ InForce(q, policy)
    BY <1>1, Stage DEF Stages, Away, Over, Undone
  <2> QED
    BY <1>3, <2>1, Moves DEF ReadCache, Others, Proceed
<1> QED
  BY <1>2, <1>3 DEF ReadCache

LEMMA LoadStep == ASSUME IInv, NEW r \in Requests, Load(r) PROVE IInv'
<1>1. req[r] \in Request /\ Good(req[r]) /\ InForce(req[r], policy) /\ req[r].stage = "load"
  BY Record DEF Load, At
<1>2. policy.all \in Compiled /\ {} \in Compiled
  BY GatewayAssumption DEF IInv, Typed, TenantPolicies, Compiled
<1>3. CASE \E p \in Visible(r) :
             /\ Becomes(r, [req[r] EXCEPT !.stage = "store", !.compiled = p,
                                          !.seen = IF req[r].outbound THEN @ ELSE {p}])
             /\ UNCHANGED faults
  <2>1. PICK p \in Visible(r) :
               /\ Becomes(r, [req[r] EXCEPT !.stage = "store", !.compiled = p,
                                            !.seen = IF req[r].outbound THEN @ ELSE {p}])
               /\ UNCHANGED faults
    BY <1>3
  <2> DEFINE q == [req[r] EXCEPT !.stage = "store", !.compiled = p,
                                 !.seen = IF req[r].outbound THEN @ ELSE {p}]
  <2>2. p \in Compiled /\ (~req[r].outbound => p = policy.all)
    BY <1>2 DEF Visible, InTenant
  <2>3. q \in Request
    BY <1>1, <2>2 DEF Request, Stages
  <2>4. ~req[r].outbound => policy.all \in req[r].inForce
    BY <1>1 DEF Good, Loaded, InForce, Away, Over
  <2>5. Loaded(q)
    BY <1>1, <2>2, <2>4 DEF Request, Good, Loaded
  <2>6. Sent(q) /\ Given(q) /\ InForce(q, policy)
    BY <1>1 DEF Request, Good, Sent, Given, InForce, Tolerated, Away, Over, Undone
  <2>7. Good(q)
    BY <2>5, <2>6 DEF Good
  <2> QED
    BY <2>1, <2>3, <2>6, <2>7, Moves DEF Load, Others
<1>4. CASE \E dead \in Outcomes(r) :
             /\ Becomes(r, [req[r] EXCEPT !.stage = "scan", !.compiled = {}, !.dead = dead])
             /\ Fault
  <2>1. PICK dead \in Outcomes(r) :
               /\ Becomes(r, [req[r] EXCEPT !.stage = "scan", !.compiled = {}, !.dead = dead])
               /\ Fault
    BY <1>4
  <2> DEFINE q == [req[r] EXCEPT !.stage = "scan", !.compiled = {}, !.dead = dead]
  <2>2. dead \in BOOLEAN
    BY DEF Outcomes
  <2>3. q \in Request
    BY <1>1, <1>2, <2>2 DEF Request, Stages
  <2>4. Good(q) /\ InForce(q, policy)
    BY <1>1 DEF Request, Good, Sent, Given, Loaded, InForce, Tolerated, Away, Over, Undone
  <2> QED
    BY <2>1, <2>3, <2>4, Moves DEF Load, Others
<1> QED
  BY <1>3, <1>4 DEF Load

LEMMA StoreStep == ASSUME IInv, NEW r \in Requests, Store(r) PROVE IInv'
<1>1. req[r] \in Request /\ Good(req[r]) /\ InForce(req[r], policy) /\ req[r].stage = "store"
  BY Record DEF Store, At
<1> DEFINE q == [req[r] EXCEPT !.stage = "scan"]
<1>2. q \in Request /\ Good(q) /\ InForce(q, policy)
  BY <1>1, Stage DEF Stages, Away, Over, Undone
<1>3. Requested'
  BY <1>2, Keeps DEF Store, Proceed
<1>4. req[r].compiled \in Compiled
  BY <1>1 DEF Request
<1>5. Cardinality({req[r].compiled}) = 1
  BY FS_Singleton
<1>6. Typed' /\ LimiterTypeOK'
  BY <1>4, <1>5, NextFault DEF Store, Stored, IInv, Typed, LimiterTypeOK, limiter
<1> QED
  BY <1>3, <1>6 DEF IInv

-----------------------------------------------------------------------------
LEMMA BeginStep == ASSUME IInv, NEW r \in Requests, Begin(r) PROVE IInv'
<1>1. /\ policy.all \in Compiled /\ policy.own \subseteq Compiled /\ {} \in Compiled
      /\ Prompts \subseteq Prompt
  BY GatewayAssumption DEF IInv, Typed, TenantPolicies, Compiled
<1>2. PICK text \in Prompts, stream \in BOOLEAN :
        LET begun == [Blank EXCEPT !.prompt = text, !.stream = stream] IN
        \/ Becomes(r, [begun EXCEPT !.stage = "cache", !.inForce = {policy.all}])
        \/ \E p \in policy.own :
             Becomes(r, [begun EXCEPT !.stage = "scan", !.route = TRUE, !.compiled = p,
                                      !.seen = {p}, !.inForce = {p}])
        \/ policy.own = {} /\ Becomes(r, [Blank EXCEPT !.stage = "ended"])
  BY DEF Begin
<1> DEFINE begun == [Blank EXCEPT !.prompt = text, !.stream = stream]
<1>3. CASE Becomes(r, [begun EXCEPT !.stage = "cache", !.inForce = {policy.all}])
  <2> DEFINE q == [begun EXCEPT !.stage = "cache", !.inForce = {policy.all}]
  <2>1. q \in Request
    BY <1>1 DEF Blank, Request, Stages, Prompt, Completion
  <2>2. Good(q) /\ InForce(q, policy)
    BY DEF Blank, Good, Sent, Given, Loaded, InForce
  <2> QED
    BY <1>3, <2>1, <2>2, Moves DEF Begin, Others
<1>4. CASE \E p \in policy.own :
             Becomes(r, [begun EXCEPT !.stage = "scan", !.route = TRUE, !.compiled = p,
                                      !.seen = {p}, !.inForce = {p}])
  <2>1. PICK p \in policy.own :
             Becomes(r, [begun EXCEPT !.stage = "scan", !.route = TRUE, !.compiled = p,
                                      !.seen = {p}, !.inForce = {p}])
    BY <1>4
  <2> DEFINE q == [begun EXCEPT !.stage = "scan", !.route = TRUE, !.compiled = p,
                                !.seen = {p}, !.inForce = {p}]
  <2>2. q \in Request
    BY <1>1 DEF Blank, Request, Stages, Prompt, Completion
  <2>3. Good(q) /\ InForce(q, policy)
    BY DEF Blank, Good, Sent, Given, Loaded, InForce
  <2> QED
    BY <2>1, <2>2, <2>3, Moves DEF Begin, Others
<1>5. CASE Becomes(r, [Blank EXCEPT !.stage = "ended"])
  BY <1>5, BlankGood, Moves DEF Begin, Others
<1> QED
  BY <1>2, <1>3, <1>4, <1>5

LEMMA RefuseStep == ASSUME IInv, NEW r \in Requests, Refuse(r) PROVE IInv'
<1>1. req[r] \in Request /\ Good(req[r]) /\ InForce(req[r], policy) /\ req[r].stage \notin Away
  BY Record DEF Refuse, Away, Over
<1> DEFINE q == [req[r] EXCEPT !.stage = "ended"]
<1>2. q \in Request /\ Good(q) /\ InForce(q, policy)
  BY <1>1, Stage DEF Stages, Undone
<1> QED
  BY <1>2, Moves DEF Refuse, Proceed, Others

LEMMA ScanPromptStep == ASSUME IInv, NEW r \in Requests, ScanPrompt(r) PROVE IInv'
<1>1. req[r] \in Request /\ Good(req[r]) /\ InForce(req[r], policy) /\ req[r].stage = "scan"
  BY Record DEF ScanPrompt, At
<1> DEFINE q == [req[r] EXCEPT !.stage = "evaluate"]
<1>2. q \in Request /\ Good(q) /\ InForce(q, policy)
  BY <1>1, Stage DEF Stages, Away, Over, Undone
<1> QED
  BY <1>2, Moves DEF ScanPrompt, Proceed, Others

\* Whichever reading let the prompt pass was of policies in force since the
\* request began.
LEMMA EvaluateStep == ASSUME IInv, NEW r \in Requests, Evaluate(r) PROVE IInv'
<1>1. req[r] \in Request /\ Good(req[r]) /\ InForce(req[r], policy) /\ req[r].stage = "evaluate"
  BY Record DEF Evaluate, At
<1>2. PICK p \in Evaluated(r) : ~Blocks(p, Transformed(Joined(req[r].prompt)))
  BY DEF Evaluate
<1>3. p \in req[r].inForce
  BY <1>1, <1>2 DEF Evaluated, Good, Loaded, InForce, Away, Over
<1>4. "keyword" \in Joined(req[r].prompt) => "keyword" \notin p
  BY <1>2 DEF Blocks, Transformed
<1>5. "keyword" \in Joined(req[r].prompt) => Tolerated(req[r])
  BY <1>3, <1>4 DEF Tolerated
<1> DEFINE q == [req[r] EXCEPT !.stage = "ready"]
<1>6. q \in Request /\ Good(q) /\ InForce(q, policy)
  BY <1>1, <1>5, Stage DEF Stages, Undone, Away, Over
<1> QED
  BY <1>6, Moves DEF Evaluate, Proceed, Others

-----------------------------------------------------------------------------
LEMMA PayloadText ==
  ASSUME NEW q \in Request, Good(q), q.stage \in {"ready", "opened"},
         NEW stage \in {"provider", "reading", "failed", "raised"}, stage = "provider" => ~q.stream,
         NEW p, InForce(q, p)
  PROVE  LET n == [q EXCEPT !.stage = stage, !.sent = Payload(q.prompt)]
         IN  n \in Request /\ Good(n) /\ InForce(n, p)
<1> DEFINE text == q.prompt
           n == [q EXCEPT !.stage = stage, !.sent = Payload(text)]
<1>1. text \in Prompt
  BY DEF Request
<1>2. Joined(text) \subseteq Contents
  BY <1>1 DEF Joined, Prompt
<1>3. /\ Payload(text) \in Prompt
      /\ \A x \in Payload(text) : x.what = "entity" /\ x.role = "user"
           => x.shape = "parts" /\ "entity" \notin Joined(text)
      /\ \A x \in Payload(text) : x.what = "keyword" /\ x.shape = "string"
           => "keyword" \in Joined(text)
  <2>1. CASE "entity" \notin Joined(text)
    <3>1. Payload(text) = text
      BY <2>1 DEF Payload
    <3>2. \A x \in text : x.shape \in {"string", "parts"}
      BY <1>1 DEF Prompt
    <3>3. \A x \in text : x.shape = "string" => x.what \in Joined(text)
      BY DEF Joined
    <3> QED
      BY <1>1, <2>1, <3>1, <3>2, <3>3
  <2>2. CASE "entity" \in Joined(text)
    <3> DEFINE others == {x \in text : x.role = "other"}
               masked == {[what |-> c, role |-> "user", shape |-> "string"] :
                            c \in Transformed(Joined(text))}
    <3>1. Payload(text) = others \cup masked
      BY <2>2 DEF Payload
    <3>2. \A x \in masked : /\ x.what \in Joined(text) \ {"entity"}
                            /\ x = [what |-> x.what, role |-> "user", shape |-> "string"]
      BY DEF Transformed
    <3>3. masked \in Prompt
      BY <1>2, <3>2 DEF Prompt
    <3>4. others \in Prompt
      BY <1>1 DEF Prompt
    <3>5. \A x \in others : x.role = "other" /\ (x.shape = "string" => x.what \in Joined(text))
      BY DEF Joined
    <3>6. Payload(text) \in Prompt
      BY <3>1, <3>3, <3>4 DEF Prompt
    <3> QED
      BY <3>1, <3>2, <3>5, <3>6
  <2> QED
    BY <2>1, <2>2
<1>4. n \in Request
  BY <1>3 DEF Request, Stages
<1>5. "keyword" \in Joined(text) => Tolerated(q)
  BY DEF Good, Sent
<1>6. Sent(n)
  BY <1>3, <1>5 DEF Request, Sent, Tolerated
<1>7. Given(n) /\ Loaded(n) /\ InForce(n, p)
  BY DEF Request, Good, Given, Loaded, InForce, Away, Over, Undone
<1> QED
  BY <1>4, <1>6, <1>7 DEF Good

LEMMA ForwardStep == ASSUME IInv, NEW r \in Requests, Forward(r) PROVE IInv'
<1>1. /\ req[r] \in Request /\ Good(req[r]) /\ InForce(req[r], policy)
      /\ req[r].stage = "ready" /\ ~req[r].stream
  BY Record DEF Forward, At
<1> DEFINE q == [req[r] EXCEPT !.stage = "provider", !.sent = Payload(req[r].prompt)]
<1>2. q \in Request /\ Good(q) /\ InForce(q, policy)
  BY <1>1, PayloadText
<1> QED
  BY <1>2, Moves DEF Forward, Others

LEMMA AnsweredStep ==
  ASSUME IInv, NEW r \in Requests, NEW text \in Completion, Answered(r, text),
         req[r].stage \in {"provider", "reading"}, req[r].stream => \A x \in text : x.place = "first",
         UNCHANGED Others, UNCHANGED faults
  PROVE  IInv'
<1>1. req[r] \in Request /\ Good(req[r]) /\ InForce(req[r], policy)
  BY Record
<1> DEFINE q == [req[r] EXCEPT !.stage = "cache", !.outbound = TRUE, !.reply = text]
<1>2. q \in Request
  BY <1>1 DEF Request, Stages
<1>3. Good(q) /\ InForce(q, policy)
  BY <1>1 DEF Request, Good, Sent, Given, Loaded, InForce, Tolerated, Away, Over, Undone
<1> QED
  BY <1>2, <1>3, Moves DEF Answered

LEMMA AnswerStep == ASSUME IInv, NEW r \in Requests, ProviderAnswers(r) PROVE IInv'
<1>1. req[r] \in Request /\ Good(req[r]) /\ InForce(req[r], policy) /\ req[r].stage = "provider"
  BY Record DEF ProviderAnswers, At
<1>2. CASE \E text \in Completions : Answered(r, text)
  BY <1>1, <1>2, AnsweredStep, GatewayAssumption DEF ProviderAnswers, Others, Good, Given
<1>3. CASE \E text \in Completions \cup {{}} :
             First(text) = {} /\ Becomes(r, [req[r] EXCEPT !.stage = "log", !.reply = text])
  <2>1. PICK text \in Completions \cup {{}} :
             First(text) = {} /\ Becomes(r, [req[r] EXCEPT !.stage = "log", !.reply = text])
    BY <1>3
  <2> DEFINE q == [req[r] EXCEPT !.stage = "log", !.reply = text]
  <2>2. text \in Completion /\ \A x \in text : x.place = "further"
    BY <2>1, GatewayAssumption DEF First, Completion
  <2>3. q \in Request
    BY <1>1, <2>2 DEF Request, Stages
  <2>4. Good(q) /\ InForce(q, policy)
    BY <1>1, <2>2 DEF Request, Good, Sent, Given, Loaded, InForce, Tolerated, Away, Over, Undone
  <2> QED
    BY <2>1, <2>3, <2>4, Moves DEF ProviderAnswers, Others
<1>4. CASE Proceed(r, "ended")
  <2> DEFINE q == [req[r] EXCEPT !.stage = "ended"]
  <2>1. q \in Request /\ Good(q) /\ InForce(q, policy)
    BY <1>1, Stage DEF Stages, Undone, Away, Over
  <2> QED
    BY <1>4, <2>1, Moves DEF ProviderAnswers, Proceed, Others
<1>5. First({}) = {}
  BY DEF First
<1> QED
  BY <1>2, <1>3, <1>4, <1>5 DEF ProviderAnswers

LEMMA MaskedText ==
  ASSUME NEW text \in Completion
  PROVE  /\ Masked(text) \in Completion /\ Masked(text) \subseteq text
         /\ \A x \in Masked(text) : x.what = "entity" => x.place = "further"
BY DEF Masked, Completion

LEMMA ScanCompletionStep == ASSUME IInv, NEW r \in Requests, ScanCompletion(r) PROVE IInv'
<1>1. /\ req[r] \in Request /\ Good(req[r]) /\ InForce(req[r], policy)
      /\ req[r].stage = "scan" /\ ~req[r].stream
  BY Record DEF ScanCompletion, At
<1>2. PICK text \in Sanitized(r) : Becomes(r, [req[r] EXCEPT !.stage = "log", !.reply = text])
  BY DEF ScanCompletion
<1> DEFINE q == [req[r] EXCEPT !.stage = "log", !.reply = text]
<1>3. text = {} \/ text = Masked(req[r].reply)
  BY <1>2 DEF Sanitized
<1>4. req[r].reply \in Completion
  BY <1>1 DEF Request
<1>5. text \in Completion /\ \A x \in text : x.what = "entity" => x.place = "further"
  BY <1>3, <1>4, MaskedText DEF Completion
<1>6. q \in Request
  BY <1>1, <1>5 DEF Request, Stages
<1>7. Good(q) /\ InForce(q, policy)
  BY <1>1, <1>5 DEF Request, Good, Sent, Given, Loaded, InForce, Tolerated, Away, Over, Undone
<1> QED
  BY <1>2, <1>6, <1>7, Moves DEF ScanCompletion, Others

LEMMA LogStep == ASSUME IInv, NEW r \in Requests, Log(r) PROVE IInv'
<1>1. req[r] \in Request /\ Good(req[r]) /\ InForce(req[r], policy) /\ req[r].stage = "log"
  BY Record DEF Log, At
<1>2. CASE /\ Becomes(r, [req[r] EXCEPT !.stage = "closing", !.released = req[r].reply])
           /\ UNCHANGED faults
  <2> DEFINE q == [req[r] EXCEPT !.stage = "closing", !.released = req[r].reply]
  <2>1. q \in Request
    BY <1>1 DEF Request, Stages
  <2>2. Good(q) /\ InForce(q, policy)
    BY <1>1 DEF Request, Good, Sent, Given, Loaded, InForce, Tolerated, Away, Over, Undone
  <2> QED
    BY <1>2, <2>1, <2>2, Moves DEF Log, Others
<1>3. CASE Proceed(r, "ended") /\ (UNCHANGED faults \/ Fault)
  <2> DEFINE q == [req[r] EXCEPT !.stage = "ended"]
  <2>1. q \in Request /\ Good(q) /\ InForce(q, policy)
    BY <1>1, Stage DEF Stages, Away, Over, Undone
  <2> QED
    BY <1>3, <2>1, Moves DEF Log, Proceed, Others
<1> QED
  BY <1>2, <1>3 DEF Log

-----------------------------------------------------------------------------
LEMMA AskForSlotStep == ASSUME IInv, NEW r \in Requests, AskForSlot(r) PROVE IInv'
<1>1. req[r] \in Request /\ Good(req[r]) /\ InForce(req[r], policy) /\ req[r].stage = "ready"
  BY Record DEF AskForSlot, At
<1> DEFINE q == [req[r] EXCEPT !.stage = "slotting"]
<1>2. "keyword" \in Joined(req[r].prompt) => Tolerated(req[r])
  BY <1>1 DEF Good, Sent
<1>3. q \in Request /\ Good(q) /\ InForce(q, policy)
  BY <1>1, <1>2, Stage DEF Stages, Undone, Away, Over
<1>4. Requested'
  BY <1>3, Keeps DEF AskForSlot, Proceed
<1>5. LimiterTypeOK'
  BY Counted DEF AskForSlot, IInv, Requests
<1>6. Typed'
  BY NextFault DEF AskForSlot, IInv, Typed
<1> QED
  BY <1>4, <1>5, <1>6 DEF IInv

LEMMA LimitingStep == ASSUME IInv, NEW r \in Requests, Limiting(r) PROVE IInv'
<1>1. LimiterTypeOK'
  BY Counted DEF Limiting, LimiterStep, IInv, Requests
<1>2. Typed' /\ Requested'
  BY DEF Limiting, IInv, Typed, Requested
<1> QED
  BY <1>1, <1>2 DEF IInv

LEMMA SlotsExpireStep == ASSUME IInv, SlotsExpire PROVE IInv'
<1>1. LimiterTypeOK'
  BY DEF SlotsExpire, KeyExpires, IInv, LimiterTypeOK
<1>2. Typed' /\ Requested'
  BY DEF SlotsExpire, IInv, Typed, Requested
<1> QED
  BY <1>1, <1>2 DEF IInv

LEMMA AcquireStep == ASSUME IInv, NEW r \in Requests, Acquire(r) PROVE IInv'
<1>1. req[r] \in Request /\ Good(req[r]) /\ InForce(req[r], policy) /\ req[r].stage = "slotting"
  BY Record DEF Acquire, At
<1> DEFINE q == [req[r] EXCEPT !.stage = "opened"]
<1>2. "keyword" \in Joined(req[r].prompt) => Tolerated(req[r])
  BY <1>1 DEF Good, Sent
<1>3. q \in Request /\ Good(q) /\ InForce(q, policy)
  BY <1>1, <1>2, Stage DEF Stages, Undone, Away, Over
<1> QED
  BY <1>3, Moves DEF Acquire, Proceed, Others

\* A terminal event that names what was released leaves the invariant alone,
\* whether or not publishing it raises.
LEMMA Published ==
  ASSUME IInv, NEW r \in Requests, req[r].stage \notin Away,
         NEW kind \in {"completed", "failed"}, NEW text, text = req[r].released,
         NEW then \in {"raised", "closing", "ended"}, NEW except \in {"raised", "closing", "ended"},
         Publish(r, kind, text, then, except), UNCHANGED Others
  PROVE  IInv'
<1>1. req[r] \in Request /\ Good(req[r]) /\ InForce(req[r], policy)
  BY Record
<1>2. PICK v \in Doubtful(r, kind, text), stage \in {then, except} :
        /\ Becomes(r, [req[r] EXCEPT !.stage = stage, !.verdicts = v])
        /\ UNCHANGED faults \/ Fault
  BY DEF Publish, Doubtful
<1> DEFINE q == [req[r] EXCEPT !.stage = stage, !.verdicts = v]
<1>3. v \in SUBSET Verdict /\ \A x \in v : x.text = req[r].released
  BY <1>1, <1>2 DEF Doubtful, Recorded, Good, Given, Request, Verdict
<1>4. q \in Request
  BY <1>1, <1>3 DEF Request, Stages
<1>5. Good(q) /\ InForce(q, policy)
  BY <1>1, <1>3 DEF Request, Good, Sent, Given, Loaded, InForce, Tolerated, Away, Over, Undone
<1> QED
  BY <1>2, <1>4, <1>5, Moves

LEMMA AcquireRefusedStep == ASSUME IInv, NEW r \in Requests, AcquireRefused(r) PROVE IInv'
<1>1. Good(req[r]) /\ req[r].stage = "slotting" /\ req[r].released = {}
  BY Record DEF AcquireRefused, At, Good, Given, Undone
<1> QED
  BY <1>1, Published DEF AcquireRefused, Others, Away, Over

LEMMA AbandonStep == ASSUME IInv, NEW r \in Requests, Abandon(r) PROVE IInv'
<1>1. req[r] \in Request /\ Good(req[r]) /\ InForce(req[r], policy) /\ req[r].stage = "opened"
  BY Record DEF Abandon, At
<1> DEFINE q == [req[r] EXCEPT !.stage = "leaked"]
<1>2. q \in Request /\ Good(q) /\ InForce(q, policy)
  BY <1>1, Stage DEF Stages, Away, Over, Undone
<1> QED
  BY <1>2, Moves DEF Abandon, Proceed, Others

LEMMA OpenStep == ASSUME IInv, NEW r \in Requests, Open(r) PROVE IInv'
<1>1. req[r] \in Request /\ Good(req[r]) /\ InForce(req[r], policy) /\ req[r].stage = "opened"
  BY Record DEF Open, At
<1>2. PICK stage \in {"reading", "failed", "raised"} :
        Becomes(r, [req[r] EXCEPT !.stage = stage, !.sent = Payload(req[r].prompt)])
  BY DEF Open
<1> DEFINE q == [req[r] EXCEPT !.stage = stage, !.sent = Payload(req[r].prompt)]
<1>3. q \in Request /\ Good(q) /\ InForce(q, policy)
  BY <1>1, PayloadText
<1> QED
  BY <1>2, <1>3, Moves DEF Open, Others

LEMMA CollectStep == ASSUME IInv, NEW r \in Requests, Collect(r) PROVE IInv'
<1>1. req[r] \in Request /\ Good(req[r]) /\ InForce(req[r], policy) /\ req[r].stage = "reading"
  BY Record DEF Collect, At
<1>2. CASE \E text \in Completions : Answered(r, First(text))
  <2>1. PICK text \in Completions : Answered(r, First(text))
    BY <1>2
  <2>2. First(text) \in Completion /\ \A x \in First(text) : x.place = "first"
    BY GatewayAssumption DEF First, Completion
  <2> QED
    BY <1>1, <2>1, <2>2, AnsweredStep DEF Collect, Others
<1>3. CASE Proceed(r, "raised")
  <2> DEFINE q == [req[r] EXCEPT !.stage = "raised"]
  <2>1. q \in Request /\ Good(q) /\ InForce(q, policy)
    BY <1>1, Stage DEF Stages, Undone, Away, Over
  <2> QED
    BY <1>3, <2>1, Moves DEF Collect, Proceed, Others
<1> QED
  BY <1>2, <1>3 DEF Collect

LEMMA ScanStreamStep == ASSUME IInv, NEW r \in Requests, ScanStream(r) PROVE IInv'
<1>1. /\ req[r] \in Request /\ Good(req[r]) /\ InForce(req[r], policy)
      /\ req[r].stage = "scan" /\ req[r].stream
  BY Record DEF ScanStream, At
<1>2. CASE Becomes(r, [req[r] EXCEPT !.stage = "yielded", !.released = Masked(req[r].reply)])
  <2> DEFINE q == [req[r] EXCEPT !.stage = "yielded", !.released = Masked(req[r].reply)]
  <2>1. req[r].reply \in Completion /\ \A x \in req[r].reply : x.place = "first"
    BY <1>1 DEF Request, Good, Given
  <2>2. Masked(req[r].reply) \in Completion /\ \A x \in Masked(req[r].reply) : x.what # "entity"
    BY <2>1, MaskedText
  <2>3. q \in Request
    BY <1>1, <2>2 DEF Request, Stages
  <2>4. Good(q) /\ InForce(q, policy)
    BY <1>1, <2>2 DEF Request, Good, Sent, Given, Loaded, InForce, Tolerated, Away, Over, Undone
  <2> QED
    BY <1>2, <2>3, <2>4, Moves DEF ScanStream, Others
<1>3. CASE Proceed(r, "failed")
  <2> DEFINE q == [req[r] EXCEPT !.stage = "failed"]
  <2>1. q \in Request /\ Good(q) /\ InForce(q, policy)
    BY <1>1, Stage DEF Stages, Undone, Away, Over
  <2> QED
    BY <1>3, <2>1, Moves DEF ScanStream, Proceed, Others
<1> QED
  BY <1>2, <1>3 DEF ScanStream

LEMMA ReportStep ==
  ASSUME IInv, NEW r \in Requests, ReportFailure(r) \/ Complete(r) \/ Raised(r)
  PROVE  IInv'
<1>1. Good(req[r]) /\ req[r].stage \notin Away
  BY Record DEF ReportFailure, Complete, Raised, At, Away, Over
<1>2. CASE ReportFailure(r)
  <2>1. req[r].released = {}
    BY <1>1, <1>2 DEF ReportFailure, At, Good, Given, Undone
  <2> QED
    BY <1>1, <1>2, <2>1, Published DEF ReportFailure, Others, Finally
<1>3. CASE Complete(r)
  BY <1>1, <1>3, Published DEF Complete, Others, Finally
<1>4. CASE Raised(r)
  BY <1>1, <1>4, Published DEF Raised, Others, Finally, Partial
<1> QED
  BY <1>2, <1>3, <1>4

LEMMA DisconnectStep == ASSUME IInv, NEW r \in Requests, Disconnect(r) PROVE IInv'
<1>1. req[r] \in Request /\ Good(req[r]) /\ InForce(req[r], policy) /\ req[r].stage \notin Away
  BY Record DEF Disconnect, Away, Over
<1>2. PICK stage \in {"closing", "leaked"} : Proceed(r, stage)
  BY DEF Disconnect
<1> DEFINE q == [req[r] EXCEPT !.stage = stage]
<1>3. q \in Request /\ Good(q) /\ InForce(q, policy)
  BY <1>1, Stage DEF Stages, Undone
<1> QED
  BY <1>2, <1>3, Moves DEF Disconnect, Proceed, Others

LEMMA CloseStep == ASSUME IInv, NEW r \in Requests, Close(r) PROVE IInv'
<1>1. req[r] \in Request /\ Good(req[r]) /\ InForce(req[r], policy) /\ req[r].stage = "closing"
  BY Record DEF Close, At
<1> DEFINE q == [req[r] EXCEPT !.stage = "ended"]
<1>2. q \in Request /\ Good(q) /\ InForce(q, policy)
  BY <1>1, Stage DEF Stages, Undone, Away, Over
<1> QED
  BY <1>2, Moves DEF Close, Proceed, Others

-----------------------------------------------------------------------------
LEMMA Step == ASSUME IInv, [Next]_vars PROVE IInv'
<1>1. CASE UNCHANGED vars
  BY <1>1 DEF vars, limiter, IInv, Typed, LimiterTypeOK, Requested
<1>2. CASE Update \/ Invalidate \/ SlotsExpire
  BY <1>2, UpdateStep, InvalidateStep, SlotsExpireStep
<1>3. ASSUME NEW r \in Requests, Begin(r) \/ Disconnect(r)
      PROVE  IInv'
  BY <1>3, BeginStep, DisconnectStep
<1>4. ASSUME NEW r \in Requests, Serve(r)
      PROVE  IInv'
  BY <1>4, ReadCacheStep, LoadStep, StoreStep, RefuseStep, ScanPromptStep, EvaluateStep,
     ForwardStep, AnswerStep, ScanCompletionStep, LogStep, AskForSlotStep, LimitingStep,
     AcquireStep, AcquireRefusedStep, AbandonStep, OpenStep, CollectStep, ScanStreamStep, ReportStep, CloseStep DEF Serve
<1> QED
  BY <1>1, <1>2, <1>3, <1>4 DEF Next

\* Every reachable state satisfies the inductive invariant.
LEMMA Invariant == Spec => []IInv
<1>1. Init => IInv
  BY Start
<1>2. IInv /\ [Next]_vars => IInv'
  BY Step
<1> QED
  BY <1>1, <1>2, PTL DEF Spec

-----------------------------------------------------------------------------
\* Every reachable state has the declared types, the counter of streams and the
\* requests among them, and the cache holds at most one policy (cache.py:154-165).
THEOREM TypeCorrect == Spec => []TypeOK
<1>1. IInv => TypeOK
  BY DEF IInv, Typed, Requested, TypeOK
<1> QED
  BY <1>1, Invariant, PTL

\* No keyword in the string contents of a prompt reaches a provider that the
\* policies its request is held to (the route's own alone, if the route has one)
\* blocked all the time since the request began, however stale or empty the
\* cached policy (gateway.py:548-563, 585-589, 608-613, 817-846).
THEOREM KeywordsHeldBack == Spec => []BlockedKeywordsStay
<1>1. IInv => BlockedKeywordsStay
  BY DEF IInv, Requested, Good, Sent, Tolerated, BlockedKeywordsStay
<1> QED
  BY <1>1, Invariant, PTL

\* No entity in the string content of a user's message reaches a provider; none in
\* a list of parts either once the scanner found one in a string; none in the first
\* choice's content, and none at all in a stream, reaches the client; whatever the
\* cache holds and whatever fails (gateway.py:585-589, 760-790, 903-918, 1179-1290;
\* streaming.py:230-258).
THEOREM EntitiesHeldBack == Spec => []DetectedEntitiesStay
<1>1. IInv => DetectedEntitiesStay
  BY DEF IInv, Requested, Good, Sent, Given, DetectedEntitiesStay
<1> QED
  BY <1>1, Invariant, PTL

\* The terminal events of a stream carry what the client was sent, also those
\* that a failure leaves behind (streaming.py:509-528).
THEOREM VerdictsAreTrue == Spec => []VerdictMatchesRelease
<1>1. IInv => VerdictMatchesRelease
  BY DEF IInv, Requested, Good, Given, VerdictMatchesRelease
<1> QED
  BY <1>1, Invariant, PTL
=============================================================================
