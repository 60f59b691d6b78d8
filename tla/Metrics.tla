------------------------------ MODULE Metrics ------------------------------
(***************************************************************************)
(* The counters of /metrics (internal/proxy/metrics.go), and how they      *)
(* compare with those of the health history.                               *)
(*                                                                         *)
(* An attempt at a provider makes its calls one by one while others make    *)
(* theirs, and a scrape may come between any two.  A call takes the lock of *)
(* the counters once; one that the history is told of then takes the lock  *)
(* of the history: two steps, here two calls.  Both start at zero: the     *)
(* history of an earlier process would add the same to both sides.         *)
(***************************************************************************)
EXTENDS Integers, Sequences, FiniteSets, Functions

CONSTANTS
    Provider, Request,
    Bounds,         \* metricLatencyBuckets, in increasing order
    Seconds,        \* how long an attempt may seem to take
    MaxAttempts     \* bound: how many attempts and passings-over there are

ASSUME MetricsAssumption ==
    /\ Bounds \in Seq(Nat) /\ \A i, j \in DOMAIN Bounds : i < j => Bounds[i] < Bounds[j]
    /\ Seconds \subseteq Int /\ IsFiniteSet(Seconds)
    /\ IsFiniteSet(Request)
    /\ MaxAttempts \in Nat

VARIABLES
    at,             \* per request, the provider of its attempt and how far that is
    todo,           \* per request, the calls it has still to make
    count,          \* per provider, the counters of /metrics and of the history
    buckets,        \* per provider, the histogram of the durations
    lost,           \* history: the attempts without a result
    took            \* history: how often each duration was measured

metricsVars == <<at, todo, count, buckets, lost, took>>

Counters ==
    {"attempt", "skip",                             \* recordRequestStart, recordCooldownSkip
     "duration",                                    \* recordAttempt
     "answered", "failed", "refused",               \* recordResponse: 200, a failure, client-error
     "success", "error",                            \* recordRequest
     "failover", "cooldown",                        \* recordFailover, recordCooldown
     "missing-done", "client-write", "broken",      \* recordStreamAbort
     "history-success", "history-error", "history-cooldown"}

Idle == [pc |-> "idle"]
Attempt(pc, p) == [pc |-> pc, provider |-> p]

Busy(p) == {r \in Request : at[r].pc # "idle" /\ at[r].provider = p}

MetricsInit ==
    /\ at = [r \in Request |-> Idle]
    /\ todo = [r \in Request |-> <<>>]
    /\ count = [p \in Provider |-> [c \in Counters |-> 0]]
    /\ buckets = [p \in Provider |-> [i \in 1 .. Len(Bounds) + 1 |-> 0]]
    /\ lost = [p \in Provider |-> 0]
    /\ took = [p \in Provider |-> [t \in Seconds |-> 0]]

-----------------------------------------------------------------------------
(* Server.route: the calls of an attempt, by how it ends. *)

\* handleFailoverFailure and markCooldown
Bench == <<"cooldown", "history-cooldown">>
Failover == <<"failover">> \o Bench

\* Faulty variant: the provider is benched before the failure is counted.
BenchedFailure == <<"duration">> \o Failover \o <<"failed", "history-error", "error">>

\* The provider is at fault, and the next is tried.
Failure == <<"duration", "failed", "history-error", "error">> \o Failover

\* Faulty variant: the history is told.
RefusalOnRecord == <<"duration", "refused", "history-error", "error">>
Refusal == <<"duration", "refused", "error">>

Success == <<"duration", "success", "history-success">>

\* recordStreamAbort.  Faulty variant: it leaves the result to route.
AbortedOnly(why, rest) == <<why, "history-error">> \o rest \o <<"duration">>
Aborted(why, rest) == <<why, "history-error", "error">> \o rest \o <<"duration">>

-----------------------------------------------------------------------------
Counted(p, c) == count' = [count EXCEPT ![p][c] = @ + 1]

SumOver(f) == FoldFunction(+, 0, f)

Tries == SumOver([p \in Provider |-> count[p]["attempt"] + count[p]["skip"]])

\* A provider that cools down is passed over; which do is in Cooldown.tla.
Skip(r, p) ==
    /\ at[r].pc = "idle" /\ Tries < MaxAttempts
    /\ Counted(p, "skip")
    /\ UNCHANGED <<at, todo, buckets, lost, took>>

Begin(r, p) ==
    /\ at[r].pc = "idle" /\ Tries < MaxAttempts
    /\ Counted(p, "attempt")
    /\ at' = [at EXCEPT ![r] = Attempt("upstream", p)]
    /\ UNCHANGED <<todo, buckets, lost, took>>

\* The attempt is over as far as the provider goes; these calls are to be made.
Ends(r, pc, calls) ==
    /\ at[r].pc = pc
    /\ at' = [at EXCEPT ![r] = Attempt("record", at[r].provider)]
    /\ todo' = [todo EXCEPT ![r] = calls]
    /\ UNCHANGED <<count, buckets, took>>

Lost(r) == lost' = [lost EXCEPT ![at[r].provider] = @ + 1]

\* The client goes away, or the request cannot be encoded: nothing is counted.
GivesUp(r) ==
    /\ at[r].pc \in {"upstream", "body"}
    /\ at' = [at EXCEPT ![r] = Idle]
    /\ Lost(r)
    /\ UNCHANGED <<todo, count, buckets, took>>

\* No connection, or an error status, which may be the client's affair.
Fails(r) == (Ends(r, "upstream", Failure) \/ Ends(r, "upstream", Refusal)) /\ UNCHANGED lost

\* A 200 is counted before any of the body is read.
Answers(r) ==
    /\ at[r].pc = "upstream"
    /\ Counted(at[r].provider, "answered")
    /\ \E pc \in {"body", "stream"} : at' = [at EXCEPT ![r] = Attempt(pc, at[r].provider)]
    /\ UNCHANGED <<todo, buckets, lost, took>>

\* The body is relayed; or it cannot be read, or is an empty completion.
ReadsBody(r) == (Ends(r, "body", Success) \/ Ends(r, "body", Failure)) /\ UNCHANGED lost

\* forwardStreamingResponse: it completes, or is aborted; or the client leaves.
Streams(r) ==
    \/ /\ \/ Ends(r, "stream", Success)
          \/ Ends(r, "stream", Aborted("client-write", <<>>))
          \/ Ends(r, "stream", Aborted("missing-done", Bench))
          \/ Ends(r, "stream", Aborted("broken", Failover))
       /\ UNCHANGED lost
    \/ Ends(r, "stream", <<"duration">>) /\ Lost(r)

\* recordHistogram: the first bucket whose bound is not exceeded.  The faulty
\* variant takes a bound for the start of the next bucket.
BucketAbove(t) == Cardinality({i \in DOMAIN Bounds : Bounds[i] <= t}) + 1
Bucket(t) == Cardinality({i \in DOMAIN Bounds : Bounds[i] < (IF t < 0 THEN 0 ELSE t)}) + 1

\* The next call gets the lock it needs.
Call(r) ==
    LET p == at[r].provider IN
    /\ at[r].pc = "record"
    /\ Counted(p, Head(todo[r]))
    /\ IF Head(todo[r]) = "duration"
       THEN \E t \in Seconds : /\ buckets' = [buckets EXCEPT ![p][Bucket(t)] = @ + 1]
                               /\ took' = [took EXCEPT ![p][t] = @ + 1]
       ELSE UNCHANGED <<buckets, took>>
    /\ todo' = [todo EXCEPT ![r] = Tail(@)]
    /\ at' = IF Len(todo[r]) = 1 THEN [at EXCEPT ![r] = Idle] ELSE at
    /\ UNCHANGED lost

MetricsNext ==
    \E r \in Request :
        \/ \E p \in Provider : Skip(r, p) \/ Begin(r, p)
        \/ GivesUp(r) \/ Fails(r) \/ Answers(r) \/ ReadsBody(r) \/ Streams(r)
        \/ Call(r)

MetricsSpec == MetricsInit /\ [][MetricsNext]_metricsVars

-----------------------------------------------------------------------------
\* writeHistogram: the count of the bucket labelled with bound i, +Inf the last.
Cumulative(p, i) == SumOver([j \in 1 .. i |-> buckets[p][j]])

Aborts(p) == count[p]["missing-done"] + count[p]["client-write"] + count[p]["broken"]

Results(p) == count[p]["success"] + count[p]["error"]

\* At every scrape the counters of a provider fit together, with requests at
\* whatever point: no more results than attempts, so that no rate exceeds one,
\* no failover and no cooldown without the failures they are for.
ScrapesAddUp ==
    \A p \in Provider :
        /\ Results(p) <= count[p]["attempt"]
        /\ count[p]["success"] <= count[p]["answered"]
        /\ count[p]["error"] <= count[p]["failed"] + count[p]["refused"] + Aborts(p)
        /\ count[p]["cooldown"] <= count[p]["failover"] + count[p]["missing-done"]
        /\ count[p]["failover"] + count[p]["client-write"] + count[p]["missing-done"]
              <= count[p]["failed"] + Aborts(p)

\* README.md: requests_total has "each request result per provider".  When no
\* attempt is under way, every one has exactly one result, but for those the
\* client gave up.
OneResultEach ==
    \A p \in Provider : Busy(p) = {} => Results(p) + lost[p] = count[p]["attempt"]

\* /health and /metrics tell the same story: the history never runs ahead of
\* the counters, and agrees with them when no attempt is under way.
HistoryAgrees ==
    \A p \in Provider :
        LET story == <<count[p]["success"], count[p]["failed"] + Aborts(p), count[p]["cooldown"]>>
            told == <<count[p]["history-success"], count[p]["history-error"],
                      count[p]["history-cooldown"]>>
        IN  /\ \A i \in DOMAIN story : told[i] <= story[i]
            /\ Busy(p) = {} => told = story

\* The histogram says of every bound how many attempts took at most that long,
\* those exactly as long included, and counts every attempt that was measured.
BucketsCount ==
    \A p \in Provider :
        LET Within(bound) == SumOver([t \in {t \in Seconds : t <= bound} |-> took[p][t]]) IN
        /\ \A i \in DOMAIN Bounds : Cumulative(p, i) = Within(Bounds[i])
        /\ Cumulative(p, Len(Bounds) + 1) = count[p]["duration"]

=============================================================================
