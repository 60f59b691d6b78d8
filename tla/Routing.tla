------------------------------ MODULE Routing ------------------------------
(***************************************************************************)
(* The routing of a client request, Server.route: passes over the          *)
(* providers of a route, failover, fallback routes, Recovery Waits and     *)
(* client cancellation, for several requests that share the cooldowns of   *)
(* Cooldown.tla.                                                           *)
(*                                                                         *)
(* A request is a goroutine; the steps of different requests interleave,   *)
(* and time passes, wherever the code of one reads the clock, takes the    *)
(* lock, waits for the upstream or looks at its context.  The upstreams    *)
(* answer whatever is in Answers, in any order, or break the connection.   *)
(***************************************************************************)
EXTENDS Cooldown, Config, Verdict

CONSTANTS
    Configs,        \* configurations the proxy may have been started with
    Calls,          \* what a client may ask for: [model, endpoint, stream, encodable]
    Answers,        \* what an upstream may answer (see Verdict)
    MaxFaults       \* bound: how often the upstreams fail in a behaviour

\* The configurations can be decoded and their providers have upstreams, and
\* there are only so many requests at once.
ASSUME InputAssumption ==
    /\ \A c \in Configs : IsConfig(c) /\ (Valid(c) => Names(c) \subseteq Provider)
    /\ Answers \subseteq AnswerType
    /\ IsFiniteSet(Request)

\* The bound of Cooldown never stops a provider from being benched.
ASSUME MaxFaultsAssumption == MaxFaults \in 0 .. MaxVersion

VARIABLES
    config,         \* the configuration of this run of the proxy
    req,            \* per request, the local variables of route; tried and seen are
                    \* history: the providers attempted on its current route, and the
                    \* version of the selected one when it was found available
    canceled,      \* the requests whose context is canceled
    faults          \* history: how often an upstream has failed

routingVars == <<config, req, canceled, faults>>
vars == <<routingVars, cooldownVars>>

-----------------------------------------------------------------------------
NoFailure == [status |-> 0, from |-> NoProvider]

\* What the client has got, why, and from which provider (or, for a report
\* that all of them failed, which was the last to fail).
NoReply == [status |-> 0, why |-> "nothing", from |-> NoProvider]

Refusal(status, why) == [status |-> status, why |-> why, from |-> NoProvider]

NoAnswer == [status |-> 0, events |-> FALSE, hint |-> "none", choices |-> Absent]

\* A model that requestModel refuses; one that is missing is Gonka.
NoModel == ""

NoCall == [model |-> NoModel, endpoint |-> "", stream |-> FALSE, encodable |-> TRUE]

Idle == [pc |-> "idle", call |-> NoCall, route |-> NoRoute, visited |-> {},
         position |-> 0, tried |-> {}, seen |-> 0, failure |-> NoFailure,
         answer |-> NoAnswer, sawDone |-> FALSE, reply |-> NoReply]

Routes == UNION {RouteNames(c) : c \in Configs}

Origin == Provider \cup {NoProvider}

\* Why a client has got its reply: a refusal or failure of the proxy's own, or
\* the category of the answer that it relays, "partial" if that has broken off.
Reasons == {"nothing", "bad-method", "bad-body", "bad-model", "unknown-model",
            "route-revisited", "no-providers", "not-encodable", "all-unavailable",
            "all-failed", "stream", "partial"} \cup Relayed

Replies == [status : Nat, why : Reasons, from : Origin]

RequestState ==
    [pc       : {"idle", "route", "pass", "send", "upstream", "body", "stream", "write",
                 "relay", "mark", "wait", "clear"},
     call     : Calls \cup {NoCall},
     route    : Routes \cup {NoRoute},
     visited  : SUBSET Routes,
     position : Nat,
     tried    : SUBSET Provider,
     seen     : Nat,
     failure  : [status : Nat, from : Origin],
     answer   : Answers \cup {NoAnswer},
     sawDone  : BOOLEAN,
     reply    : Replies]

\* The two components agree on who waits and who is about to bench a provider.
Agrees(r) ==
    /\ req[r].pc \in {"wait", "clear"} <=> r \in waiters
    /\ req[r].pc = "mark" <=> marking[r] # NoProvider
    /\ req[r].pc = "idle" => r \notin canceled

RoutingTypeOK ==
    /\ config \in {c \in Configs : Valid(c)}
    /\ req \in [Request -> RequestState]
    /\ canceled \subseteq Request
    /\ faults \in 0 .. MaxFaults
    /\ \A r \in Request : Agrees(r)

RoutingInit ==
    /\ CooldownInit
    /\ config \in {c \in Configs : Valid(c)}
    /\ req = [r \in Request |-> Idle]
    /\ canceled = {}
    /\ faults = 0

-----------------------------------------------------------------------------
At(r, pc) == req[r].pc = pc

\* The providers of each route, put in order when the proxy starts.
RouteTable == [c \in {c \in Configs : Valid(c)} |->
                 [m \in RouteNames(c) |-> RouteProviders(c, m)]]

Providers(r) == RouteTable[config][req[r].route]

Selected(r) == Providers(r)[req[r].position]

PassOver(r) == At(r, "pass") /\ req[r].position > Len(Providers(r))

InPass(r) == At(r, "pass") /\ req[r].position <= Len(Providers(r))

Becomes(r, state) == req' = [req EXCEPT ![r] = state]

\* route returns; the client keeps the reply.
Return(r, reply) ==
    /\ Becomes(r, [Idle EXCEPT !.reply = reply])
    /\ canceled' = canceled \ {r}

\* An upstream fails, which the bound allows only so often.
ProviderFault == faults < MaxFaults /\ faults' = faults + 1

\* Faulty variant: the upstream request does not carry the client's context.
NoContext(r) == ProviderFault

\* An operation on the upstream connection fails: because the request has
\* been canceled, or because the upstream has broken it.
ConnectionError(r) == (r \in canceled /\ UNCHANGED faults) \/ ProviderFault

\* The selected provider gets the blame: lastFailure is set, and markCooldown
\* computes the end of the cooldown.
FailOver(r, status) ==
    /\ Becomes(r, [req[r] EXCEPT !.pc = "mark", !.seen = 0,
                          !.answer = NoAnswer,
                          !.failure = [status |-> status, from |-> Selected(r)]])
    /\ Stamp(r, Selected(r))
    /\ UNCHANGED <<config, canceled>>

-----------------------------------------------------------------------------
(* A request comes in.  ServeHTTP has read the whole of its body by then,  *)
(* which may have taken as long as the client liked.                       *)

RequestedRoute(call) == RouteFor(config, call.model)

Arrive(r, call) ==
    /\ At(r, "idle")
    /\ call.model # NoModel
    /\ RequestedRoute(call) \in RouteNames(config)
    /\ Becomes(r, [Idle EXCEPT !.pc = "route", !.call = call,
                                              !.route = RequestedRoute(call)])
    /\ UNCHANGED <<config, canceled, faults, cooldownVars>>

\* Not a POST; a body that cannot be read, or is no JSON object.  A client that
\* gives up while its body is being read gets nothing and leaves no trace.
RefuseRequest(r) ==
    /\ At(r, "idle")
    /\ Return(r, Refusal(405, "bad-method")) \/ Return(r, Refusal(400, "bad-body"))
    /\ UNCHANGED <<config, faults, cooldownVars>>

RefuseModel(r, call) ==
    /\ At(r, "idle")
    /\ \/ /\ call.model = NoModel
          /\ Return(r, Refusal(400, "bad-model"))
       \/ /\ call.model # NoModel
          /\ RequestedRoute(call) \notin RouteNames(config)
          /\ Return(r, Refusal(404, "unknown-model"))
    /\ UNCHANGED <<config, faults, cooldownVars>>

\* The client disconnects, or the proxy shuts down (requestTracker.cancelAll).
Cancel(r) ==
    /\ ~At(r, "idle") /\ r \notin canceled
    /\ canceled' = canceled \cup {r}
    /\ UNCHANGED <<config, req, faults, cooldownVars>>

(* The loop over the routes. *)

RouteRefusal(r) ==
    IF req[r].route \in req[r].visited THEN Refusal(BadGateway, "route-revisited")
    ELSE IF Providers(r) = <<>> THEN Refusal(Unavailable, "no-providers")
    ELSE NoReply

\* Faulty variant: lastFailure is declared outside of the loop.
KeepFailure(r) ==
    /\ At(r, "route") /\ r \notin canceled
    /\ RouteRefusal(r) = NoReply
    /\ Becomes(r, [req[r] EXCEPT !.pc = "pass", !.position = 1,
                          !.visited = @ \cup {req[r].route}, !.tried = {}])
    /\ UNCHANGED <<config, canceled, faults, cooldownVars>>

EnterRoute(r) ==
    /\ At(r, "route") /\ r \notin canceled
    /\ RouteRefusal(r) = NoReply
    /\ Becomes(r, [req[r] EXCEPT !.pc = "pass", !.position = 1,
                          !.visited = @ \cup {req[r].route},
                          !.tried = {}, !.failure = NoFailure])
    /\ UNCHANGED <<config, canceled, faults, cooldownVars>>

RefuseRoute(r) ==
    /\ At(r, "route") /\ r \notin canceled
    /\ RouteRefusal(r) # NoReply
    /\ Return(r, RouteRefusal(r))
    /\ UNCHANGED <<config, faults, cooldownVars>>

\* The checks of the context at the head of the three loops.
LeaveCanceled(r) ==
    /\ At(r, "route") \/ InPass(r)
    /\ r \in canceled
    /\ Return(r, NoReply)
    /\ UNCHANGED <<config, faults, cooldownVars>>

(* The loop over the providers of the route. *)

SkipCooling(r) ==
    /\ InPass(r) /\ r \notin canceled
    /\ ~Available(Selected(r))
    /\ Becomes(r, [req[r] EXCEPT !.position = @ + 1])
    /\ UNCHANGED <<config, canceled, faults, cooldownVars>>

\* providerAvailable has let go of the lock: from here until the request has
\* reached the provider, other requests may bench it.
Select(r) ==
    /\ InPass(r) /\ r \notin canceled
    /\ Available(Selected(r))
    /\ Becomes(r, [req[r] EXCEPT !.pc = "send", !.tried = @ \cup {Selected(r)},
                          !.seen = providerVersion[Selected(r)]])
    /\ UNCHANGED <<config, canceled, faults, cooldownVars>>

\* applyUpstreamOverrides fails, which shows only once a provider is available.
RefuseEncoding(r) ==
    /\ At(r, "send") /\ ~req[r].call.encodable
    /\ Return(r, Refusal(BadGateway, "not-encodable"))
    /\ UNCHANGED <<config, faults, cooldownVars>>

\* The upstream has got the whole request.  The other ways out of the code cannot
\* be taken: a provider is on a route only with an alias for it, and its URLs
\* have been parsed when the proxy started, so that NewRequest accepts them.
Attempt(r) ==
    /\ At(r, "send") /\ req[r].call.encodable
    /\ Becomes(r, [req[r] EXCEPT !.pc = "upstream", !.seen = 0])
    /\ UNCHANGED <<config, canceled, faults, cooldownVars>>

\* client.Do has neither the request away nor an answer to it.
Doing(r) == At(r, "upstream") \/ (At(r, "send") /\ req[r].call.encodable)

\* Faulty variant: whatever the error, it is the provider's.
BlameAnyway(r) ==
    /\ Doing(r)
    /\ ConnectionError(r)
    /\ FailOver(r, BadGateway)

DoFails(r) ==
    /\ Doing(r)
    /\ ConnectionError(r)
    /\ \/ /\ r \in canceled
          /\ Return(r, NoReply)
          /\ UNCHANGED <<config, cooldownVars>>
       \/ /\ r \notin canceled
          /\ FailOver(r, BadGateway)

FailoverStatus(r, answer) ==
    /\ At(r, "upstream")
    /\ IsFailoverStatus(answer.status)
    /\ ProviderFault
    /\ FailOver(r, answer.status)

AwaitBody(r, answer) ==
    /\ At(r, "upstream")
    /\ ~IsFailoverStatus(answer.status)
    /\ answer.status = OK => ~IsStreaming(answer, req[r].call.stream)
    /\ IF Category(req[r].call.endpoint, answer) \in Relayed
       THEN UNCHANGED faults ELSE ProviderFault
    /\ Becomes(r, [req[r] EXCEPT !.pc = "body", !.answer = answer])
    /\ UNCHANGED <<config, canceled, cooldownVars>>

\* The status and the headers are flushed to the client before a byte is read.
StartStream(r, answer) ==
    /\ At(r, "upstream")
    /\ answer.status = OK
    /\ IsStreaming(answer, req[r].call.stream)
    /\ Becomes(r, [req[r] EXCEPT !.pc = "write",
                          !.reply = [status |-> OK, why |-> "stream", from |-> Selected(r)]])
    /\ UNCHANGED <<config, canceled, faults, cooldownVars>>

(* The body of an answer that is not streamed. *)

Settle(r, answer, why) ==
    /\ UNCHANGED <<config, canceled, faults>>
    /\ IF Category(req[r].call.endpoint, answer) \in Relayed
       THEN /\ Becomes(r, [req[r] EXCEPT !.pc = "relay", !.answer = NoAnswer,
                             !.reply = [status |-> answer.status, why |-> why,
                                        from |-> Selected(r)]])
            /\ UNCHANGED cooldownVars
       ELSE FailOver(r, answer.status)

BodyRead(r) ==
    /\ At(r, "body")
    /\ Settle(r, req[r].answer, Category(req[r].call.endpoint, req[r].answer))

\* Faulty variant: an error's body that breaks off is the provider's failure.
BlameBroken(r) ==
    /\ At(r, "body")
    /\ req[r].answer.status # OK
    /\ FailOver(r, BadGateway)
    /\ UNCHANGED faults

\* What was read of an error's body before it broke off is judged nonetheless,
\* canceled or not; its hint may be lost.
ErrorBodyFails(r) ==
    /\ At(r, "body")
    /\ req[r].answer.status # OK
    /\ Settle(r, [req[r].answer EXCEPT !.hint = "none"], "partial")

\* The answer has been written to the client, or cannot be: nobody looks.
AnswerWritten(r) ==
    /\ At(r, "relay")
    /\ Return(r, req[r].reply)
    /\ UNCHANGED <<config, faults, cooldownVars>>

BodyFails(r) ==
    /\ At(r, "body")
    /\ req[r].answer.status = OK
    /\ ConnectionError(r)
    /\ \/ /\ r \in canceled
          /\ Return(r, NoReply)
          /\ UNCHANGED <<config, cooldownVars>>
       \/ /\ r \notin canceled
          /\ FailOver(r, BadGateway)

(* forwardStreamingResponse: what is read of the stream is written to the *)
(* client before anything more is read.  The headers are the first write.  *)

ReadChunk(r) ==
    /\ At(r, "stream")
    /\ Becomes(r, [req[r] EXCEPT !.pc = "write"])
    /\ UNCHANGED <<config, canceled, faults, cooldownVars>>

\* dataChunk.observe: the chunk may complete the [DONE] line.
ChunkWritten(r) ==
    /\ At(r, "write")
    /\ \E sawDone \in {req[r].sawDone, TRUE} :
          Becomes(r, [req[r] EXCEPT !.pc = "stream", !.sawDone = sawDone])
    /\ UNCHANGED <<config, canceled, faults, cooldownVars>>

\* The client cannot be written to any more: canceled or not, nobody is benched.
WriteFails(r) ==
    /\ At(r, "write")
    /\ Return(r, req[r].reply)
    /\ UNCHANGED <<config, faults, cooldownVars>>

\* EOF, which is a failure of the provider when [DONE] has not been seen.
StreamEnds(r) ==
    /\ At(r, "stream")
    /\ \/ /\ r \in canceled \/ req[r].sawDone
          /\ Return(r, req[r].reply)
          /\ UNCHANGED <<config, faults, cooldownVars>>
       \/ /\ r \notin canceled /\ ~req[r].sawDone
          /\ ProviderFault
          /\ Becomes(r, [req[r] EXCEPT !.pc = "mark"])
          /\ Stamp(r, Selected(r))
          /\ UNCHANGED <<config, canceled>>

\* Any other read error, which counts as a failure even after [DONE].
StreamBreaks(r) ==
    /\ At(r, "stream")
    /\ ConnectionError(r)
    /\ \/ /\ r \in canceled
          /\ Return(r, req[r].reply)
          /\ UNCHANGED <<config, cooldownVars>>
       \/ /\ r \notin canceled
          /\ Becomes(r, [req[r] EXCEPT !.pc = "mark"])
          /\ Stamp(r, Selected(r))
          /\ UNCHANGED <<config, canceled>>

(* The provider is benched.  After a stream there is no other attempt: the *)
(* client has had the headers.                                             *)

BenchAndContinue(r) ==
    /\ At(r, "mark") /\ req[r].reply = NoReply
    /\ MarkCooldown(r)
    /\ Becomes(r, [req[r] EXCEPT !.pc = "pass", !.position = @ + 1])
    /\ UNCHANGED <<config, canceled, faults>>

\* Faulty variant: failover in the middle of a stream.
ContinueAfterStream(r) ==
    /\ At(r, "mark") /\ req[r].reply # NoReply
    /\ MarkCooldown(r)
    /\ Becomes(r, [req[r] EXCEPT !.pc = "pass", !.position = @ + 1])
    /\ UNCHANGED <<config, canceled, faults>>

BenchAndReturn(r) ==
    /\ At(r, "mark") /\ req[r].reply # NoReply
    /\ MarkCooldown(r)
    /\ Return(r, req[r].reply)
    /\ UNCHANGED <<config, faults>>

(* The pass is over without an answer.  The context is not looked at here. *)

FallBack(r) ==
    /\ PassOver(r)
    /\ Fallback(config, req[r].route) # NoRoute
    /\ Becomes(r, [req[r] EXCEPT !.pc = "route", !.position = 0,
                          !.route = Fallback(config, req[r].route)])
    /\ UNCHANGED <<config, canceled, faults, cooldownVars>>

\* writeRouteFailure
RouteFailure(failure) ==
    IF failure.status = 0 THEN Refusal(Unavailable, "all-unavailable")
    ELSE [status |-> failure.status, why |-> "all-failed", from |-> failure.from]

GiveUp(r) ==
    /\ PassOver(r)
    /\ Fallback(config, req[r].route) = NoRoute /\ ~LegacyMode(config)
    /\ Return(r, RouteFailure(req[r].failure))
    /\ UNCHANGED <<config, faults, cooldownVars>>

StartWait(r) ==
    /\ PassOver(r)
    /\ Fallback(config, req[r].route) = NoRoute /\ LegacyMode(config)
    /\ BeginWait(r)
    /\ Becomes(r, [req[r] EXCEPT !.pc = "wait"])
    /\ UNCHANGED <<config, canceled, faults>>

\* The timer has fired and the context is not canceled, or not yet: nothing looks
\* at it again before the lock is taken.
WakeUp(r) ==
    /\ At(r, "wait") /\ r \notin canceled
    /\ timer[r] = 0
    /\ Becomes(r, [req[r] EXCEPT !.pc = "clear"])
    /\ UNCHANGED <<config, canceled, faults, cooldownVars>>

\* Faulty variants: no new pass begins; a canceled wait is not cleaned up; a
\* canceled wait clears the cooldowns all the same.
SamePass(r) ==
    /\ At(r, "clear")
    /\ ClearCooldowns(r)
    /\ Becomes(r, [req[r] EXCEPT !.pc = "pass"])
    /\ UNCHANGED <<config, canceled, faults>>

LeakWait(r) ==
    /\ At(r, "wait") /\ r \in canceled
    /\ Return(r, NoReply)
    /\ UNCHANGED <<config, faults, cooldownVars>>

ClearCanceled(r) ==
    /\ At(r, "wait") /\ r \in canceled
    /\ ClearCooldowns(r)
    /\ Return(r, NoReply)
    /\ UNCHANGED <<config, faults>>

Clear(r) ==
    /\ At(r, "clear")
    /\ ClearCooldowns(r)
    /\ Becomes(r, [req[r] EXCEPT !.pc = "pass", !.position = 1])
    /\ UNCHANGED <<config, canceled, faults>>

WakeCanceled(r) ==
    /\ At(r, "wait") /\ r \in canceled
    /\ CancelWait(r)
    /\ Return(r, NoReply)
    /\ UNCHANGED <<config, faults>>

-----------------------------------------------------------------------------
\* What the proxy does by itself, on a processor.
ProxyStep(r) ==
    \/ EnterRoute(r) \/ RefuseRoute(r) \/ LeaveCanceled(r)
    \/ SkipCooling(r) \/ Select(r) \/ RefuseEncoding(r)
    \/ BenchAndContinue(r) \/ BenchAndReturn(r)
    \/ FallBack(r) \/ GiveUp(r)
    \/ StartWait(r) \/ WakeUp(r) \/ Clear(r) \/ WakeCanceled(r)

\* How client.Do comes back.
DoReturns(r) ==
    \/ DoFails(r)
    \/ \E answer \in Answers :
          FailoverStatus(r, answer) \/ AwaitBody(r, answer) \/ StartStream(r, answer)

\* How reading a body comes to an end.
BodyEnds(r) == BodyRead(r) \/ ErrorBodyFails(r) \/ BodyFails(r)

StreamStep(r) == ReadChunk(r) \/ StreamEnds(r) \/ StreamBreaks(r)

\* How a write to the client comes back.
WriteReturns(r) == AnswerWritten(r) \/ ChunkWritten(r) \/ WriteFails(r)

ClientStep(r) ==
    \/ RefuseRequest(r)
    \/ \E call \in Calls : Arrive(r, call) \/ RefuseModel(r, call)
    \/ Cancel(r)

TimePasses == Tick /\ UNCHANGED routingVars

RoutingNext ==
    \/ TimePasses
    \/ \E r \in Request :
          \/ ClientStep(r) \/ ProxyStep(r) \/ Attempt(r) \/ DoReturns(r)
          \/ BodyEnds(r) \/ StreamStep(r) \/ WriteReturns(r)

RoutingSpec == RoutingInit /\ [][RoutingNext]_vars

(* Goroutines are scheduled and time passes.  Once the request is with the *)
(* upstream client.Do comes back: the transport has a                      *)
(* ResponseHeaderTimeout.  Nothing limits how long it takes to write the   *)
(* request or to read a body or a stream; only the cancellation of the     *)
(* request ends these, a stream perhaps after more chunks.  And nothing,   *)
(* not even that, ends a write to a client that does not read: the server  *)
(* sets no WriteTimeout.                                                   *)
Answered(r) == At(r, "upstream") /\ DoReturns(r)

CancelUnblocks(r) ==
    r \in canceled /\ (DoFails(r) \/ ErrorBodyFails(r) \/ BodyFails(r) \/ StreamBreaks(r))

Fairness ==
    /\ WF_vars(TimePasses)
    /\ \A r \in Request :
        WF_vars(ProxyStep(r)) /\ WF_vars(Answered(r)) /\ SF_vars(CancelUnblocks(r))

FairSpec == RoutingSpec /\ Fairness

-----------------------------------------------------------------------------
\* No request, whether new, falling back, or back from a wait, makes for a
\* provider that has failed and has not yet served the time it has earned, unless
\* that failure was reported after the request had found the provider available.
AttemptsRespectBench ==
    \A r \in Request : At(r, "send") /\ owed[Selected(r)] > 0
                        => providerVersion[Selected(r)] > req[r].seen

\* No step of a request brings a provider back but the end of a Recovery Wait that
\* has lasted its time with the client still there, and then another pass begins:
\* clients that give up their waits do not undo the cooldowns of others.
CanceledWaitsClearNothing ==
    [][/\ req' # req /\ (\E p \in Provider : ~Available(p) /\ Available(p)')
            => \E r \in Request : At(r, "clear") /\ At(r, "pass")'
       /\ \A r \in canceled : At(r, "wait") => ~At(r, "clear")']_vars

\* A provider is benched at most once for each time an upstream has failed:
\* clients that give up, whenever they do, bench nobody, and an error whose body
\* breaks off no more than the whole of it would have.
CancellationBenchesNobody == cooldownVersion + Cardinality(PendingMarks) <= faults

\* The client gets one answer: once it has had the headers of a stream, the
\* request never turns to another provider, whatever becomes of the stream.
RepliesOnce ==
    [][\A r \in Request : ~At(r, "idle") /\ req[r].reply # NoReply
          => /\ req'[r].reply = req[r].reply
             /\ req'[r].pc \in {"stream", "write", "relay", "mark", "idle"}]_vars

\* The failure that is reported is one of the route that is given up, not one
\* of a route it is the fallback of, even where both use the same providers:
\* an attempt made on this route, or, when there was none, that all are
\* unavailable.
FailureIsOfThisRoute ==
    [][\A r \in Request : At(r, "pass") /\ At(r, "idle")' =>
          /\ req'[r].reply.why = "all-failed" => req'[r].reply.from \in req[r].tried
          /\ req'[r].reply.why = "all-unavailable" => req[r].tried = {}]_vars

\* With a configuration that Validate accepts, fallbacks lead to an end: the
\* guard against a route visited twice never fires.
FallbacksEnd == \A r \in Request : req[r].reply.why # "route-revisited"

\* A request is on the wire, on one side or the other.
Transferring(r) == req[r].pc \in {"send", "body", "stream", "write", "relay"}

\* Every request ends, provided upstreams do not fail forever, unless it stays
\* for good where nothing limits it: the upstream does not take the request or
\* stops in the middle of an answer, or the client does not read it.
OnlyBodiesStall ==
    \A r \in Request : ~At(r, "idle") ~> (At(r, "idle") \/ []Transferring(r))

Writing(r) == req[r].pc \in {"write", "relay"}

\* Cancellation reaches a request wherever it is, except in a write to a client
\* that never reads.
CancellationEnds ==
    \A r \in Request : r \in canceled ~> (At(r, "idle") \/ []Writing(r))

-----------------------------------------------------------------------------
(* The invariants from which these follow (RoutingProofs). *)

Trying == {"send", "upstream", "body", "stream", "write", "mark"}

\* Where a request is on its route, and what it has told its client.
Placed(r) ==
    /\ ~At(r, "idle") => req[r].route \in RouteNames(config)
    /\ req[r].pc \in {"pass", "wait", "clear"} => req[r].position > 0
    /\ req[r].pc \in Trying => req[r].position \in DOMAIN Providers(r)
    /\ req[r].reply # NoReply => req[r].pc \in {"idle", "stream", "write", "relay", "mark"}
    /\ req[r].pc \in {"stream", "write", "relay"} => req[r].reply # NoReply
    /\ At(r, "body") => req[r].answer \in Answers

\* lastFailure says what has become of the attempts on the current route.
Accounted(r) ==
    /\ req[r].pc \in Trying => Selected(r) \in req[r].tried
    /\ req[r].pc \in Trying \cup {"pass", "wait", "clear"} /\ req[r].failure.status # 0
          => req[r].failure.from \in req[r].tried
    /\ req[r].pc \in {"pass", "wait", "clear"} /\ req[r].tried # {} => req[r].failure.status # 0
    /\ At(r, "mark") /\ req[r].reply = NoReply => req[r].failure.status # 0

\* Request r is past all the routes it has visited, in the order of a ranking
\* that the fallbacks descend.
Past(r, rank) ==
    ~At(r, "idle") => \A m \in req[r].visited :
        /\ m \in RouteNames(config)
        /\ rank[req[r].route] < rank[m] \/ (~At(r, "route") /\ m = req[r].route)

FallbackInv ==
    \E rank \in [RouteNames(config) -> 1 .. Cardinality(RouteNames(config))] :
        /\ \A m \in RouteNames(config) : Fallback(config, m) # NoRoute
              => rank[Fallback(config, m)] < rank[m]
        /\ \A r \in Request : Past(r, rank)

\* While nobody has benched the provider again, the request's check still holds.
Checked(r) ==
    At(r, "send") => /\ req[r].seen <= providerVersion[Selected(r)]
                     /\ req[r].seen = providerVersion[Selected(r)] => owed[Selected(r)] = 0

\* The requests that bench a provider, or will when they have read a body.
Blames(r) ==
    \/ marking[r] # NoProvider
    \/ At(r, "body") /\ Category(req[r].call.endpoint, req[r].answer) \notin Relayed

BlameInv == cooldownVersion + Cardinality({r \in Request : Blames(r)}) <= faults

RoutingInv ==
    /\ RoutingTypeOK
    /\ \A r \in Request : Placed(r) /\ Accounted(r) /\ Checked(r)
    /\ FallbackInv /\ FallbacksEnd
    /\ BlameInv

-----------------------------------------------------------------------------
(* What the documents and comments say, and the code does not do. *)

\* routeFailure is there to "report a meaningful status": a report that all
\* providers failed should not be a success.
FailureIsNoSuccess == \A r \in Request : req[r].reply.why = "all-failed" => req[r].reply.status # OK

=============================================================================
