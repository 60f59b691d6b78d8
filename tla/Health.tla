------------------------------- MODULE Health -------------------------------
(***************************************************************************)
(* The health history (internal/proxy/health.go): what the requests tell   *)
(* it, how it is saved and found again after a restart, and what           *)
(* /diagnostics makes of it.                                               *)
(*                                                                         *)
(* A request calls metrics.go after the fact.  Each call reads the clock   *)
(* and then waits for the lock of the history, so records may come in in   *)
(* another order than their times.  Saving happens with the lock held, and *)
(* the file is replaced by a rename: to others both are one step, and a    *)
(* crash within it is a crash before it or after it.                       *)
(*                                                                         *)
(* Which providers are benched and cleared is the business of Cooldown.tla; *)
(* here any benched provider may be cleared.  Latencies are left out.      *)
(***************************************************************************)
EXTENDS Integers, Sequences, FiniteSets

CONSTANTS
    Provider, Request,
    Persistent,         \* health_history_path is set
    CooldownDuration,   \* cfg.Cooldown
    MaxEvents,          \* healthHistoryMaxEvents
    Retention,          \* healthHistoryRetention
    Window,             \* healthObservationWindow
    PersistInterval,    \* healthPersistInterval
    MaxNow,             \* bound: the last instant
    MaxOutcomes,        \* bound: how many outcomes of requests there are
    MaxDiskFaults       \* bound: how often the disk fails

ASSUME HealthAssumption ==
    /\ Persistent \in BOOLEAN
    /\ CooldownDuration \in Nat \ {0} /\ PersistInterval \in Nat \ {0}
    /\ MaxEvents \in Nat \ {0}
    /\ Window \in Nat /\ Retention \in Nat /\ Window <= Retention
    /\ MaxNow \in Nat \ {0} /\ MaxOutcomes \in Nat /\ MaxDiskFaults \in Nat
    /\ IsFiniteSet(Provider) /\ IsFiniteSet(Request)

VARIABLES
    now,            \* the clock; 0 is the zero time
    up,             \* the proxy is running
    benchedUntil,   \* per provider, the cooldownUntil of the routing
    todo,           \* per request, the calls it has still to make
    stamp,          \* per request, the time it has read for the next of them
    health,         \* the healthStore
    file,           \* the file at health_history_path
    behind,         \* history: the file could not be read or written since it was last saved
    inherited,      \* history: per provider, the end of the cooldown found in the file at the start
    outcomes, diskFaults

clockVars == <<now, outcomes, diskFaults>>
healthVars == <<clockVars, up, benchedUntil, todo, stamp, health, file, behind, inherited>>

-----------------------------------------------------------------------------
NoHealth == [successes |-> 0, errors |-> 0, transitions |-> 0,
             lastSuccess |-> 0, lastError |-> 0, until |-> 0]

\* log is a history: all that has been recorded, nothing ever pruned.
NoHistory == [providers |-> [p \in Provider |-> NoHealth], events |-> <<>>, fallbacks |-> 0,
              savedAt |-> 0, log |-> <<>>]

Types == {"success", "error", "cooldown-started", "cooldown-cleared"}
Events == [at : 0 .. MaxNow, provider : Provider, type : Types,
           until : 0 .. MaxNow + CooldownDuration]

ProviderHealth ==
    [successes : Nat, errors : Nat, transitions : Nat,
     lastSuccess : 0 .. MaxNow, lastError : 0 .. MaxNow,
     until : 0 .. MaxNow + CooldownDuration]

History ==
    [providers : [Provider -> ProviderHealth], events : Seq(Events), fallbacks : Nat,
     savedAt : 0 .. MaxNow, log : Seq(Events)]

\* A call is of one of these kinds; "mark" is markCooldown itself.
Item(kind, p) == [kind |-> kind, provider |-> p, until |-> 0]
Items == [kind : Types \cup {"mark", "fallback"}, provider : Provider,
          until : 0 .. MaxNow + CooldownDuration]

HealthInit ==
    /\ now = 1 /\ outcomes = 0 /\ diskFaults = 0
    /\ up = TRUE
    /\ benchedUntil = [p \in Provider |-> 0]
    /\ todo = [r \in Request |-> <<>>]
    /\ stamp = [r \in Request |-> 0]
    /\ health = NoHistory /\ file = NoHistory
    /\ behind = FALSE /\ inherited = [p \in Provider |-> 0]

Tick ==
    /\ now < MaxNow
    /\ now' = now + 1
    /\ UNCHANGED <<outcomes, diskFaults, up, benchedUntil, todo, stamp, health, file, behind, inherited>>

-----------------------------------------------------------------------------
(* How requests come to an end, and the calls they make then. *)

Outcome(r, calls) ==
    /\ up /\ todo[r] = <<>> /\ outcomes < MaxOutcomes
    /\ outcomes' = outcomes + 1
    /\ todo' = [todo EXCEPT ![r] = calls]
    /\ UNCHANGED <<now, diskFaults, up, stamp, health, file, behind, inherited>>

Succeed(r, p) == Outcome(r, <<Item("success", p)>>) /\ UNCHANGED benchedUntil

\* Faulty variant: the provider is benched before its failure is recorded.
BenchFirst(r, p) == Outcome(r, <<Item("mark", p), Item("error", p)>>) /\ UNCHANGED benchedUntil
FailOver(r, p) == Outcome(r, <<Item("error", p), Item("mark", p)>>) /\ UNCHANGED benchedUntil

\* The client could not be written to: an error of the provider in the
\* history, though not a reason to bench it.
LoseClient(r, p) == Outcome(r, <<Item("error", p)>>) /\ UNCHANGED benchedUntil

FallBack(r, p) == Outcome(r, <<Item("fallback", p)>>) /\ UNCHANGED benchedUntil

\* The calls follow when the lock of the cooldowns has been released.  Faulty
\* variant: the history is not told.
ClearSilently(r, cleared) ==
    /\ Outcome(r, <<>>)
    /\ benchedUntil' = [p \in Provider |->
                          IF \E i \in DOMAIN cleared : cleared[i] = p THEN 0 ELSE benchedUntil[p]]
ClearCooldowns(r, cleared) ==
    /\ \A i \in DOMAIN cleared : benchedUntil[cleared[i]] # 0
    /\ Outcome(r, [i \in DOMAIN cleared |-> Item("cooldown-cleared", cleared[i])])
    /\ benchedUntil' = [p \in Provider |->
                          IF \E i \in DOMAIN cleared : cleared[i] = p THEN 0 ELSE benchedUntil[p]]

ReadClock(r) ==
    /\ up /\ todo[r] # <<>> /\ stamp[r] = 0
    /\ stamp' = [stamp EXCEPT ![r] = now]
    /\ UNCHANGED <<clockVars, up, benchedUntil, todo, health, file, behind, inherited>>

Later(s, t) == IF s < t THEN t ELSE s

\* markCooldown gets the lock of the cooldowns; recordCooldown comes next.
Mark(r) ==
    LET p == Head(todo[r]).provider
        until == stamp[r] + CooldownDuration
    IN /\ up /\ stamp[r] # 0 /\ Head(todo[r]).kind = "mark"
       /\ benchedUntil' = [benchedUntil EXCEPT ![p] = Later(@, until)]
       /\ todo' = [todo EXCEPT ![r] =
                     <<[kind |-> "cooldown-started", provider |-> p, until |-> until]>> \o Tail(@)]
       /\ stamp' = [stamp EXCEPT ![r] = 0]
       /\ UNCHANGED <<clockVars, up, health, file, behind, inherited>>

-----------------------------------------------------------------------------
(* recordSuccess, recordError, recordCooldown, recordCooldownCleared *)

\* An earlier end of a cooldown does not replace a later one.  The faulty
\* variant takes whatever comes.
LastUntil(s, until) == until
ShownUntil(s, until) == Later(s.until, until)

Updated(s, call, t) ==
    CASE call.kind = "success" ->
            [s EXCEPT !.successes = @ + 1, !.lastSuccess = t, !.until = 0]
      [] call.kind = "error" -> [s EXCEPT !.errors = @ + 1, !.lastError = t]
      [] call.kind = "cooldown-started" ->
            [s EXCEPT !.transitions = @ + 1, !.until = ShownUntil(s, call.until)]
      [] call.kind = "cooldown-cleared" -> [s EXCEPT !.until = 0]

\* pruneEvents: the old events at the front go, then all but the latest.
\* Faulty variant: all but the first.
DropOld(events, cutoff) ==
    LET old == {n \in DOMAIN events : \A i \in 1 .. n : events[i].at < cutoff}
    IN SubSeq(events, Cardinality(old) + 1, Len(events))
First(events) == IF Len(events) > MaxEvents THEN SubSeq(events, 1, MaxEvents) ELSE events
Latest(events) ==
    IF Len(events) > MaxEvents THEN SubSeq(events, Len(events) - MaxEvents + 1, Len(events))
                               ELSE events

Prune(h, t) == [h EXCEPT !.events = Latest(DropOld(@, t - Retention))]

Event(call, t) ==
    [at |-> t, provider |-> call.provider, type |-> call.kind, until |-> call.until]

\* Of the fallbacks only their number is kept here, and not that no more than
\* the latest are stored.
Recorded(h, call, t) ==
    IF call.kind = "fallback" THEN [h EXCEPT !.fallbacks = @ + 1]
    ELSE [h EXCEPT !.providers[call.provider] = Updated(@, call, t),
                   !.events = Append(@, Event(call, t)), !.log = Append(@, Event(call, t))]

\* persistLocked: nothing is saved without a path, and with one anything but a
\* success at once.  The faulty variant saves errors lazily, too.
SaveIsDueLazily(call, t) ==
    /\ Persistent
    /\ \/ call.kind \notin {"success", "error"}
       \/ health.savedAt = 0
       \/ t - health.savedAt >= PersistInterval
SaveIsDue(call, t) ==
    /\ Persistent
    /\ \/ call.kind # "success"
       \/ health.savedAt = 0
       \/ t - health.savedAt >= PersistInterval

\* A call of request r has got the lock of the history.
Record(r) ==
    LET call == Head(todo[r])
        h == Prune(Recorded(health, call, stamp[r]), stamp[r])
        saved == [h EXCEPT !.savedAt = stamp[r]]
    IN /\ up /\ stamp[r] # 0 /\ call.kind # "mark"
       /\ \/ SaveIsDue(call, stamp[r])
             /\ health' = saved /\ file' = saved
             /\ behind' = FALSE
             /\ UNCHANGED diskFaults
          \/ SaveIsDue(call, stamp[r])          \* the disk fails
             /\ diskFaults < MaxDiskFaults /\ diskFaults' = diskFaults + 1
             /\ health' = h
             /\ behind' = TRUE
             /\ UNCHANGED file
          \/ ~SaveIsDue(call, stamp[r])
             /\ health' = h
             /\ UNCHANGED <<file, behind, diskFaults>>
       /\ todo' = [todo EXCEPT ![r] = Tail(@)]
       /\ stamp' = [stamp EXCEPT ![r] = 0]
       /\ UNCHANGED <<now, outcomes, up, benchedUntil, inherited>>

-----------------------------------------------------------------------------
\* The process ends: it is killed, or it stops, which saves nothing either.
Crash ==
    /\ up
    /\ up' = FALSE
    /\ benchedUntil' = [p \in Provider |-> 0]
    /\ todo' = [r \in Request |-> <<>>]
    /\ stamp' = [r \in Request |-> 0]
    /\ health' = NoHistory /\ inherited' = [p \in Provider |-> 0]
    /\ UNCHANGED <<clockVars, file, behind>>

\* load: the history goes on from the file, if there is to be one.  The faulty
\* variant forgets when that was saved.
LoadAfresh == IF Persistent THEN [Prune(file, now) EXCEPT !.savedAt = 0] ELSE NoHistory
Load == IF Persistent THEN Prune(file, now) ELSE NoHistory

Start ==
    /\ ~up
    /\ up' = TRUE
    /\ health' = Load /\ behind' = FALSE
    /\ inherited' = [p \in Provider |-> Load.providers[p].until]
    /\ UNCHANGED <<clockVars, benchedUntil, todo, stamp, file>>

\* The file cannot be read: the history starts anew, and will replace it.
StartWithoutFile ==
    /\ Persistent /\ ~up /\ diskFaults < MaxDiskFaults
    /\ up' = TRUE
    /\ diskFaults' = diskFaults + 1
    /\ health' = NoHistory /\ behind' = TRUE
    /\ UNCHANGED <<now, outcomes, benchedUntil, todo, stamp, file, inherited>>

Orders(S) == {s \in [1 .. Cardinality(S) -> S] : \A i, j \in DOMAIN s : s[i] = s[j] => i = j}

HealthNext ==
    \/ Tick \/ Crash \/ Start \/ StartWithoutFile
    \/ \E r \in Request :
        \/ ReadClock(r) \/ Mark(r) \/ Record(r)
        \/ \E p \in Provider : Succeed(r, p) \/ FailOver(r, p) \/ LoseClient(r, p) \/ FallBack(r, p)
        \/ \E S \in (SUBSET Provider) \ {{}} : \E s \in Orders(S) : ClearCooldowns(r, s)

HealthSpec == HealthInit /\ [][HealthNext]_healthVars

-----------------------------------------------------------------------------
(* What /diagnostics says (observe, observedStatus, providerStatus). *)

Counted(events, p, type) ==
    {i \in DOMAIN events : /\ events[i].provider = p /\ events[i].type = type
                           /\ events[i].at >= now - Window}

ProviderStatus(s) ==
    IF s.until > now THEN IF s.successes = 0 THEN "unavailable" ELSE "degraded"
    ELSE IF s.lastSuccess = 0 THEN "unavailable"
    ELSE IF s.lastError > s.lastSuccess THEN "degraded" ELSE "healthy"

ObservedStatus(p) ==
    LET s == health.providers[p]
        successes == Counted(health.events, p, "success")
        errors == Counted(health.events, p, "error")
    IN IF s.successes = 0 /\ s.errors = 0 THEN "no-data"
       ELSE IF s.until > now THEN ProviderStatus(s)
       ELSE IF errors # {} THEN IF successes = {} THEN "unavailable" ELSE "degraded"
       ELSE IF successes # {} THEN "healthy" ELSE ProviderStatus(s)

\* The latest MaxEvents records, of whatever age.
Remembered == {i \in DOMAIN health.log : i > Len(health.log) - MaxEvents}

\* README.md on observed.status: it grades the traffic of the last hours.  Of
\* the latest records, none that falls into the window is forgotten, in
\* whatever order they came and however often the proxy has been restarted: a
\* provider that is called healthy has no error among them, and one that is
\* called unavailable, or never used, no success.
GradesTraffic ==
    up => \A p \in Provider :
        /\ ObservedStatus(p) = "healthy" => Counted(health.log, p, "error") \cap Remembered = {}
        /\ ObservedStatus(p) \in {"unavailable", "no-data"}
              => Counted(health.log, p, "success") \cap Remembered = {}

\* Whenever the process ends, provided the disk works, all that is lost are
\* successes, and only those of the moments after the file was last saved.
OnlyFreshSuccessesLost ==
    Persistent /\ up /\ ~behind =>
        /\ health.fallbacks = file.fallbacks
        /\ \A p \in Provider :
            LET kept == file.providers[p] had == health.providers[p] IN
            /\ had.errors = kept.errors /\ had.lastError = kept.lastError
            /\ had.transitions = kept.transitions
            /\ had.successes # kept.successes => had.lastSuccess < file.savedAt + PersistInterval

\* No provider has been benched oftener than it is said to have failed, in
\* the history or in a file it may be restored from.
CooldownsHaveReasons ==
    \A p \in Provider :
        /\ health.providers[p].transitions <= health.providers[p].errors
        /\ file.providers[p].transitions <= file.providers[p].errors

\* The requests have made all the calls they had to make.
Settled == \A r \in Request : todo[r] = <<>>

\* What a record says of provider p.
Starts(event, p, until) ==
    event.provider = p /\ event.type = "cooldown-started" /\ event.until = until
Cuts(event, p) == event.provider = p /\ event.type \in {"success", "cooldown-cleared"}
ClearedSince(event, p, t) ==
    event.provider = p /\ event.type = "cooldown-cleared" /\ event.at >= t

\* /health shows a provider that is out of use as such: if it shows a cooldown
\* too short, or not at all, that very cooldown is on record, and each record
\* of it is followed by a success or a clear of the provider.  Another
\* cooldown never cuts it off.
CutOnlyByRecord ==
    Settled => \A p \in Provider : benchedUntil[p] > health.providers[p].until =>
        LET log == health.log
            starts == {i \in DOMAIN log : Starts(log[i], p, benchedUntil[p])}
        IN /\ starts # {}
           /\ \A i \in starts : \E j \in DOMAIN log : i < j /\ Cuts(log[j], p)

\* The other way round: a cooldown it shows longer than it is was in the file
\* at the start, or has been cleared by a request that got to the history
\* before the one that reports it: since it began, a clear is on record, and
\* the cooldown itself comes later.
ShownOnlyIfBenched ==
    Settled => \A p \in Provider :
        LET log == health.log
            shown == health.providers[p].until
        IN shown > Later(benchedUntil[p], inherited[p]) =>
             \E j, i \in DOMAIN log : /\ j < i /\ Starts(log[i], p, shown)
                                     /\ ClearedSince(log[j], p, shown - CooldownDuration)

(* The invariant these follow from. *)

HealthTypeOK ==
    /\ now \in 1 .. MaxNow /\ outcomes \in 0 .. MaxOutcomes /\ diskFaults \in 0 .. MaxDiskFaults
    /\ up \in BOOLEAN /\ behind \in BOOLEAN
    /\ benchedUntil \in [Provider -> 0 .. MaxNow + CooldownDuration]
    /\ todo \in [Request -> Seq(Items)]
    /\ stamp \in [Request -> 0 .. MaxNow]
    /\ health \in History /\ file \in History
    /\ inherited \in [Provider -> 0 .. MaxNow + CooldownDuration]

\* The calls of one request come in an order: its mark follows its error.
WellOrdered(calls) ==
    \/ \E p \in Provider : calls \in {<<Item("error", p), Item("mark", p)>>, <<Item("mark", p)>>}
    \/ /\ \A i \in DOMAIN calls : calls[i].kind # "mark"
       /\ Len(calls) > 1 => \A i \in DOMAIN calls : calls[i].kind # "cooldown-started"

\* A clock that has been read is for a call, and reads no later than now.
Stamped(r) == stamp[r] <= now /\ (stamp[r] # 0 => todo[r] # <<>>)

NothingLeft ==
    /\ health = NoHistory
    /\ benchedUntil = [p \in Provider |-> 0]
    /\ todo = [r \in Request |-> <<>>]

HealthInv ==
    /\ HealthTypeOK
    /\ Len(health.events) <= MaxEvents /\ Len(file.events) <= MaxEvents
    /\ \A r \in Request : WellOrdered(todo[r])
    /\ \A r \in Request : Stamped(r)
    /\ ~up => NothingLeft
    /\ ~Persistent => file = NoHistory
    /\ up /\ ~behind => health.savedAt = file.savedAt

=============================================================================
