------------------------------ MODULE Gateway ------------------------------
(***************************************************************************)
(* Chat requests of one API key on the AI gateway, streamed or not, with   *)
(* the cache of compiled policies they share, beside the administrator who *)
(* changes policies: core/engine/gateway.py, core/engine/streaming.py,     *)
(* core/policy/cache.py.  The flags of the security pipeline are on and    *)
(* shadow mode is off.  A streamed request is a client of the API key's    *)
(* counter of streams (TenantLimiter).                                     *)
(*                                                                         *)
(* A text is the set of what it holds that matters, a keyword or an entity *)
(* that the scanner detects, with its place: in a prompt, the role of the  *)
(* message and whether the content is a string or a list of parts; in a    *)
(* completion, the content of the first choice or anything further (other  *)
(* choices, tool calls).  A policy is the set of what it blocks; what else *)
(* it can say, such as how an entity is masked or that it is replaced by a *)
(* token which the gateway turns back for the client, is left out.         *)
(***************************************************************************)
EXTENDS TenantLimiter

CONSTANTS
  Prompts, Completions,    \* the texts that clients and the provider send
  Policies,                \* what the tenant's active policies may block
  MaxUpdates, MaxFaults    \* bounds of the model

Requests == Clients

Contents == {"keyword", "entity"}
Compiled == SUBSET Contents
Prompt == SUBSET [what : Contents, role : {"user", "other"}, shape : {"string", "parts"}]
Completion == SUBSET [what : Contents, place : {"first", "further"}]

\* all: what the active policies block together; own: what the policy blocks that
\* routes name as their own, none if it is not active.
TenantPolicies == [all : Compiled, own : SUBSET Compiled]
NoPolicies == [all |-> {}, own |-> {}]

ASSUME GatewayAssumption ==
  /\ Prompts \subseteq Prompt
  /\ Completions \subseteq Completion
  /\ Policies \subseteq TenantPolicies /\ NoPolicies \in Policies
  /\ MaxUpdates \in Nat /\ MaxFaults \in Nat

VARIABLES
  policy,    \* Postgres: the tenant's policies
  cached,    \* Redis: the compiled policy of the tenant, if any
  admin,     \* the policy endpoint: "idle", or "committed" and not invalidated
  updates,   \* how many policy changes there were
  req,       \* each request
  faults     \* failures of the infrastructure so far, those that `lost' counts apart

vars == <<limiter, policy, cached, admin, updates, req, faults>>

Stages ==
  {"idle", "cache", "load", "store", "scan", "evaluate", "ready", "provider", "log",
   "slotting", "opened", "reading", "yielded", "failed", "raised", "closing", "ended", "leaked"}

Verdict == [kind : {"completed", "failed"}, text : Completion]

Request ==
  [stage : Stages,
   stream : BOOLEAN,
   route : BOOLEAN,                  \* the route names a policy of its own
   prompt : Prompt,                  \* the messages
   seen : SUBSET Compiled,           \* the policies its session has loaded for the prompt
   compiled : Compiled,              \* the policy it is scanned under
   dead : BOOLEAN,                   \* its transaction has failed
   outbound : BOOLEAN,               \* there is a completion
   reply : Completion,               \* the completion
   sent : Prompt,                    \* what the provider was sent
   released : Completion,            \* what the client was sent of a completion
   verdicts : SUBSET Verdict,        \* the terminal events of the stream
   inForce : SUBSET Compiled]        \* history: the policies for its prompt since it began

TypeOK ==
  /\ LimiterTypeOK
  /\ policy \in Policies
  /\ cached \subseteq Compiled /\ Cardinality(cached) <= 1
  /\ admin \in {"idle", "committed"}
  /\ updates \in 0 .. MaxUpdates
  /\ req \in [Requests -> Request]
  /\ faults \in 0 .. MaxFaults

Blank ==
  [stage |-> "idle", stream |-> FALSE, route |-> FALSE, prompt |-> {}, seen |-> {},
   compiled |-> {}, dead |-> FALSE, outbound |-> FALSE, reply |-> {}, sent |-> {}, released |-> {},
   verdicts |-> {}, inForce |-> {}]

Init ==
  /\ LimiterInit
  /\ policy = NoPolicies
  /\ cached = {}
  /\ admin = "idle"
  /\ updates = 0
  /\ req = [r \in Requests |-> Blank]
  /\ faults = 0

At(r, stage) == req[r].stage = stage
MayFail == faults + lost < MaxFaults
Fault == MayFail /\ faults' = faults + 1

\* A request forgets what it does not read again, and all when it is over: the
\* properties look at it until then.
Over == {"ended", "leaked"}
Scanning == {"cache", "load", "store", "scan", "evaluate"}
Remains(q) ==
  CASE q.stage \in Over -> [Blank EXCEPT !.stage = q.stage]
    [] q.stage \in Scanning -> q
    [] OTHER -> [q EXCEPT !.seen = {}, !.compiled = {}, !.outbound = FALSE,
                          !.reply = IF q.stage = "log" THEN @ ELSE {}]

Becomes(r, q) == req' = [req EXCEPT ![r] = Remains(q)]
Proceed(r, stage) == Becomes(r, [req[r] EXCEPT !.stage = stage])

\* What the scanner is shown: the prompt's contents that are strings, joined, and
\* the content of a completion's first choice.
Joined(prompt) == {x.what : x \in {y \in prompt : y.shape = "string"}}
First(completion) == {x \in completion : x.place = "first"}

Blocks(p, contents) == p \cap contents # {}

\* The policies that a prompt is held to: on a route with a policy of its own that
\* one alone.
Applying(p, route) == IF route THEN p.own ELSE {p.all}

-----------------------------------------------------------------------------
(***************************************************************************)
(* The administrator.  Each change of a policy is committed; then an event *)
(* is published, and then the cache is invalidated.                        *)
(***************************************************************************)
Update ==
  /\ admin = "idle"
  /\ updates < MaxUpdates
  /\ \E p \in Policies \ {policy} :
       /\ policy' = p
       /\ req' = [r \in Requests |->
            IF req[r].stage \in Over \cup {"idle"} THEN req[r]
            ELSE [req[r] EXCEPT !.inForce = @ \cup Applying(p, req[r].route)]]
  /\ admin' = "committed"
  /\ updates' = updates + 1
  /\ UNCHANGED <<cached, faults, limiter>>

\* Redis refuses the deletion, or the event raised before it.
Invalidate ==
  /\ admin = "committed"
  /\ admin' = "idle"
  /\ \/ cached' = {} /\ UNCHANGED faults
     \/ UNCHANGED cached /\ Fault
  /\ UNCHANGED <<policy, updates, req, limiter>>

-----------------------------------------------------------------------------
(***************************************************************************)
(* PolicyCache.get, for the prompt and again for the completion.           *)
(***************************************************************************)
\* The scan of a stream's text opens a session of its own and sets no tenant for
\* it: unless its connection was left in the tenant's name, row-level security
\* hides every policy.
InTenant(r) == ~(req[r].stream /\ req[r].outbound)
Visible(r) == IF InTenant(r) THEN {policy.all} ELSE {policy.all, {}}

ReadCache(r) ==
  /\ At(r, "cache")
  /\ \/ /\ \E p \in cached : Becomes(r, [req[r] EXCEPT !.stage = "scan", !.compiled = p])
        /\ UNCHANGED faults
     \/ cached = {} /\ Proceed(r, "load") /\ UNCHANGED faults
     \/ cached # {} /\ Proceed(r, "load") /\ Fault
  /\ UNCHANGED <<policy, cached, admin, updates, limiter>>

\* Whether the session's transaction is lost with a failed compilation: yes if
\* it was the database that failed.
Outcomes(r) == IF InTenant(r) THEN BOOLEAN ELSE {FALSE}

\* _compile_from_db; when it fails, get returns an empty policy.
Load(r) ==
  /\ At(r, "load")
  /\ \/ /\ \E p \in Visible(r) :
             Becomes(r, [req[r] EXCEPT !.stage = "store", !.compiled = p,
                                       !.seen = IF req[r].outbound THEN @ ELSE {p}])
        /\ UNCHANGED faults
     \/ /\ \E dead \in Outcomes(r) :
             Becomes(r, [req[r] EXCEPT !.stage = "scan", !.compiled = {}, !.dead = dead])
        /\ Fault
  /\ UNCHANGED <<policy, cached, admin, updates, limiter>>

FaultyStored(r) == cached \cup {req[r].compiled}
Stored(r) == {req[r].compiled}

Store(r) ==
  /\ At(r, "store")
  /\ \/ cached' = Stored(r) /\ UNCHANGED faults
     \/ UNCHANGED cached /\ Fault
  /\ Proceed(r, "scan")
  /\ UNCHANGED <<policy, admin, updates, limiter>>

-----------------------------------------------------------------------------
(***************************************************************************)
(* The prompt.                                                             *)
(***************************************************************************)
\* A route with a policy of its own is scanned under that policy, as it is in
\* the database, and not under the cached one; if it is not active the request
\* is refused.
Begin(r) ==
  /\ At(r, "idle")
  /\ \E text \in Prompts, stream \in BOOLEAN :
       LET begun == [Blank EXCEPT !.prompt = text, !.stream = stream] IN
       \/ Becomes(r, [begun EXCEPT !.stage = "cache", !.inForce = {policy.all}])
       \/ \E p \in policy.own :
            Becomes(r, [begun EXCEPT !.stage = "scan", !.route = TRUE, !.compiled = p,
                                     !.seen = {p}, !.inForce = {p}])
       \/ policy.own = {} /\ Becomes(r, [Blank EXCEPT !.stage = "ended"])
  /\ UNCHANGED <<policy, cached, admin, updates, faults, limiter>>

\* The request is turned away: blocked, a scanner, vault or OPA that fails or
\* denies, a limit, a route or a provider that is not usable.
Refuse(r) ==
  /\ req[r].stage \in {"scan", "evaluate", "ready"} /\ ~req[r].outbound
  /\ Proceed(r, "ended")
  /\ UNCHANGED <<policy, cached, admin, updates, faults, limiter>>

\* If the joined text holds an entity, its transformed form takes the place of
\* the content of each user message, a list of parts included; messages of
\* another role stay as they are.  If not, all is sent as it came: nobody has
\* looked at lists of parts.
Transformed(contents) == contents \ {"entity"}
FaultyPayload(prompt) ==
  {x \in prompt : x.role = "other"} \cup
  {[what |-> c, role |-> "user", shape |-> "string"] : c \in Joined(prompt)}
Payload(prompt) ==
  IF "entity" \notin Joined(prompt) THEN prompt
  ELSE {x \in prompt : x.role = "other"} \cup
       {[what |-> c, role |-> "user", shape |-> "string"] : c \in Transformed(Joined(prompt))}

ScanPrompt(r) ==
  /\ At(r, "scan") /\ ~req[r].outbound
  /\ ~Blocks(req[r].compiled, Joined(req[r].prompt))
  /\ Proceed(r, "evaluate")
  /\ UNCHANGED <<policy, cached, admin, updates, faults, limiter>>

FaultyEvaluated(r) == {req[r].compiled}

\* The policies evaluated next are read anew, but for a route's own; a session
\* may return the objects it has loaded before.
Evaluated(r) == req[r].seen \cup IF req[r].route THEN {} ELSE {policy.all}

Evaluate(r) ==
  /\ At(r, "evaluate")
  /\ ~req[r].dead
  /\ \E p \in Evaluated(r) : ~Blocks(p, Transformed(Joined(req[r].prompt)))
  /\ Proceed(r, "ready")
  /\ UNCHANGED <<policy, cached, admin, updates, faults, limiter>>

-----------------------------------------------------------------------------
(***************************************************************************)
(* A request that is not streamed.                                         *)
(***************************************************************************)
Forward(r) ==
  /\ At(r, "ready") /\ ~req[r].stream
  /\ Becomes(r, [req[r] EXCEPT !.stage = "provider", !.sent = Payload(req[r].prompt)])
  /\ UNCHANGED <<policy, cached, admin, updates, faults, limiter>>

\* The completion is there, and the policy is looked up again: the tenant's, also
\* on a route with a policy of its own.
Answered(r, text) ==
  Becomes(r, [req[r] EXCEPT !.stage = "cache", !.outbound = TRUE, !.reply = text])

\* A completion, which is not scanned when its first content is empty; an error of
\* the provider; or an exception.
ProviderAnswers(r) ==
  /\ At(r, "provider")
  /\ \/ \E text \in Completions :
          \/ Answered(r, text)
          \/ First(text) = {} /\ Becomes(r, [req[r] EXCEPT !.stage = "log", !.reply = text])
     \/ Becomes(r, [req[r] EXCEPT !.stage = "log", !.reply = {}])
     \/ Proceed(r, "ended")
  /\ UNCHANGED <<policy, cached, admin, updates, faults, limiter>>

\* What may become of a scanned completion: the entities of its first content are
\* blocked or masked and what is further is left alone; keywords are not looked
\* for; if the scan fails nothing is released.
Masked(text) == {x \in text : x.what = "entity" => x.place = "further"}
Sanitized(r) ==
  {{}} \cup (IF "entity" \in req[r].compiled /\ \E x \in First(req[r].reply) : x.what = "entity"
             THEN {} ELSE {Masked(req[r].reply)})

ScanCompletion(r) ==
  /\ At(r, "scan") /\ req[r].outbound /\ ~req[r].stream
  /\ \E text \in Sanitized(r) : Becomes(r, [req[r] EXCEPT !.stage = "log", !.reply = text])
  /\ UNCHANGED <<policy, cached, admin, updates, faults, limiter>>

\* The request is logged before the response is returned; if that fails the
\* client gets an error.  A request that is not streamed has nothing to close.
Log(r) ==
  /\ At(r, "log")
  /\ \/ /\ ~req[r].dead
        /\ Becomes(r, [req[r] EXCEPT !.stage = "closing", !.released = req[r].reply])
        /\ UNCHANGED faults
     \/ req[r].dead /\ Proceed(r, "ended") /\ UNCHANGED faults
     \/ ~req[r].dead /\ Proceed(r, "ended") /\ Fault
  /\ UNCHANGED <<policy, cached, admin, updates, limiter>>
-----------------------------------------------------------------------------
(***************************************************************************)
(* A streamed request.                                                     *)
(***************************************************************************)
\* stream_response asks for a slot before it makes the generator: INCR, which may
\* raise, ...
AskForSlot(r) ==
  /\ At(r, "ready") /\ req[r].stream
  /\ \/ Incr(r) /\ UNCHANGED faults
     \/ Fault /\ UNCHANGED limiter
  /\ Proceed(r, "slotting")
  /\ UNCHANGED <<policy, cached, admin, updates>>

\* ... then EXPIRE, and if INCR gave too much DECR and DELETE; in finally DECR and
\* DELETE again.  Each command may raise.
Limiting(r) ==
  /\ \/ LimiterStep(r)
     \/ client[r] = "held" /\ At(r, "closing") /\ Decr(r)
     \/ req[r].stage \in {"slotting", "closing"} /\ MayFail /\ StoreFails(r)
  /\ UNCHANGED <<policy, cached, admin, updates, req, faults>>

Acquire(r) ==
  /\ At(r, "slotting") /\ client[r] = "held"
  /\ Proceed(r, "opened")
  /\ UNCHANGED <<policy, cached, admin, updates, faults, limiter>>

\* The verdicts of r when a terminal event is published, and when publishing it
\* raises: the broker may have taken it all the same.
Recorded(r, kind, text) == req[r].verdicts \cup {[kind |-> kind, text |-> text]}
Doubtful(r, kind, text) == {req[r].verdicts, Recorded(r, kind, text)}

Publish(r, kind, text, then, except) ==
  \/ /\ Becomes(r, [req[r] EXCEPT !.stage = then, !.verdicts = Recorded(r, kind, text)])
     /\ UNCHANGED faults
  \/ /\ \E v \in Doubtful(r, kind, text) : Becomes(r, [req[r] EXCEPT !.stage = except, !.verdicts = v])
     /\ Fault

\* The limit was reached, or the counter could not be asked.
AcquireRefused(r) ==
  /\ At(r, "slotting") /\ client[r] = "out"
  /\ Publish(r, "failed", {}, "closing", "closing")
  /\ UNCHANGED <<policy, cached, admin, updates, limiter>>

\* The client is gone before the response is iterated: finally is never reached.
Abandon(r) ==
  /\ At(r, "opened")
  /\ Proceed(r, "leaked")
  /\ UNCHANGED <<policy, cached, admin, updates, faults, limiter>>

\* The first iteration: the provider is called.  It answers with an error, or
\* the start is recorded, or something raises.
Open(r) ==
  /\ At(r, "opened")
  /\ \E stage \in {"reading", "failed", "raised"} :
       Becomes(r, [req[r] EXCEPT !.stage = stage, !.sent = Payload(req[r].prompt)])
  /\ UNCHANGED <<policy, cached, admin, updates, faults, limiter>>

\* The chunks of the first choice's content are collected to the end of the stream;
\* nothing is released yet.
Collect(r) ==
  /\ At(r, "reading")
  /\ \/ \E text \in Completions : Answered(r, First(text))
     \/ Proceed(r, "raised")
  /\ UNCHANGED <<policy, cached, admin, updates, faults, limiter>>

\* Here keywords are looked for as well.
ScanStream(r) ==
  /\ At(r, "scan") /\ req[r].outbound /\ req[r].stream
  /\ \/ /\ ~Blocks(req[r].compiled, {x.what : x \in req[r].reply})
        /\ Becomes(r, [req[r] EXCEPT !.stage = "yielded", !.released = Masked(req[r].reply)])
     \/ Proceed(r, "failed")
  /\ UNCHANGED <<policy, cached, admin, updates, faults, limiter>>

\* Where the generator goes when its body returns.
FaultyFinally == "ended"
Finally == "closing"

\* The three places that report a failure before anything was released.
ReportFailure(r) ==
  /\ At(r, "failed")
  /\ Publish(r, "failed", {}, Finally, "raised")
  /\ UNCHANGED <<policy, cached, admin, updates, limiter>>

Complete(r) ==
  /\ At(r, "yielded")
  /\ Publish(r, "completed", req[r].released, Finally, "raised")
  /\ UNCHANGED <<policy, cached, admin, updates, limiter>>

FaultyPartial(r) == {}

\* The hash that a failure carries covers what has been released.
Partial(r) == req[r].released

\* except Exception: the failure is reported; if that raises too the generator
\* ends with it.
Raised(r) ==
  /\ At(r, "raised")
  /\ Publish(r, "failed", Partial(r), Finally, Finally)
  /\ UNCHANGED <<policy, cached, admin, updates, limiter>>

\* The client goes away in the middle: the generator is closed or cancelled,
\* which no except clause catches.  A cancellation may reach the release as well.
Disconnect(r) ==
  /\ req[r].stream
  /\ \/ req[r].stage \in {"reading", "yielded", "failed", "raised"}
     \/ req[r].outbound /\ req[r].stage \in {"cache", "load", "store", "scan"}
  /\ \E stage \in {"closing", "leaked"} : Proceed(r, stage)
  /\ UNCHANGED <<policy, cached, admin, updates, faults, limiter>>

\* The release is over, or an error of the store was swallowed.
Close(r) ==
  /\ At(r, "closing") /\ client[r] = "out"
  /\ Proceed(r, "ended")
  /\ UNCHANGED <<policy, cached, admin, updates, faults, limiter>>

SlotsExpire == KeyExpires /\ UNCHANGED <<policy, cached, admin, updates, req, faults>>

-----------------------------------------------------------------------------
Serve(r) ==
  \/ ReadCache(r) \/ Load(r) \/ Store(r)
  \/ Refuse(r) \/ ScanPrompt(r) \/ Evaluate(r)
  \/ Forward(r) \/ ProviderAnswers(r) \/ ScanCompletion(r) \/ Log(r)
  \/ AskForSlot(r) \/ Limiting(r) \/ Acquire(r) \/ AcquireRefused(r) \/ Abandon(r)
  \/ Open(r) \/ Collect(r) \/ ScanStream(r)
  \/ ReportFailure(r) \/ Complete(r) \/ Raised(r) \/ Close(r)

Next ==
  \/ Update \/ Invalidate
  \/ \E r \in Requests : Begin(r) \/ Disconnect(r) \/ Serve(r)
  \/ SlotsExpire

\* A request that has begun is served on: every call it makes returns, fails or
\* runs out of time.
Spec == Init /\ [][Next]_vars /\ \A r \in Requests : WF_vars(Serve(r))

-----------------------------------------------------------------------------
\* A keyword in the string contents of a prompt reaches a provider only if, at some
\* time since the request began, the policies that its prompt is held to did not
\* block it.  The cached policy may be stale, or empty because compiling it
\* failed, and the policies are read twice (gateway.py:608-613, 817-846).  Lists
\* of parts are not held back, nor is what only another policy blocks on a route
\* that has its own (gateway.py:548-563, 585-589).
BlockedKeywordsStay ==
  \A r \in Requests :
    (\E x \in req[r].sent : x.what = "keyword" /\ x.shape = "string")
      => \E p \in req[r].inForce : "keyword" \notin p

\* An entity in the string content of a user's message never reaches a provider,
\* and when the scanner has found one anywhere in the strings none of a user's
\* list of parts does; one in a completion never reaches the client as the
\* content of the first choice, nor as anything else of a stream; whatever
\* policy the cache holds and whatever fails (gateway.py:760-790, 903-918,
\* 1264-1290; streaming.py:250-256).
DetectedEntitiesStay ==
  \A r \in Requests :
    /\ \A x \in req[r].sent : x.what = "entity" /\ x.role = "user"
         => x.shape = "parts" /\ "entity" \notin Joined(req[r].prompt)
    /\ \A x \in req[r].released : x.what = "entity" => x.place = "further" /\ ~req[r].stream

\* Every terminal event of a stream, also that of a failure after the text went
\* out, carries the hash of exactly what the client was sent
\* (streaming.py:372-387, 455-528).
VerdictMatchesRelease ==
  \A r \in Requests : \A v \in req[r].verdicts : v.text = req[r].released

\* Every request ends, and gives its slot back unless its client went away or the
\* store refused the release, which the next expiry of the counter makes good
\* (streaming.py:342, 539-540).
RequestsSettle ==
  \A r \in Requests :
    ~At(r, "idle") ~> (At(r, "ended") /\ client[r] = "out") \/ At(r, "leaked")
=============================================================================
