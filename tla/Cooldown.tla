------------------------------ MODULE Cooldown ------------------------------
(***************************************************************************)
(* Provider cooldowns and Recovery Waits: the state that all requests of   *)
(* the proxy share (internal/proxy/server.go), guarded by cooldownMu.      *)
(*                                                                         *)
(* Time is kept relative to now: where the code stores an instant, the     *)
(* model stores how much of the time to it is left, and 0 stands for every *)
(* instant that has passed, time.Time{} included.  Tick lets one unit of   *)
(* time go by; nothing is urgent, so every step of the proxy may be        *)
(* arbitrarily late.                                                       *)
(***************************************************************************)
EXTENDS Integers, FiniteSets

CONSTANTS
    Provider,           \* the upstream providers
    Request,            \* the requests that can be in progress at once
    NoProvider,         \* the null value: a request that benches nobody now
    CooldownDuration,   \* cfg.Cooldown, in ticks
    RecoveryWait,       \* cfg.RecoveryWait, in ticks
    MaxVersion          \* bound: how often providers may be benched in a behaviour

ASSUME NoProviderAssumption == NoProvider \notin Provider

\* config.Validate refuses a cooldown or a recovery wait that is not positive.
ASSUME DurationAssumption ==
    /\ CooldownDuration \in Nat \ {0}
    /\ RecoveryWait \in Nat \ {0}

ASSUME BoundAssumption == MaxVersion \in Nat

VARIABLES
    cooldownLeft,       \* per provider, the time left to cooldownUntil
    providerVersion,    \* per provider, its cooldownVersion
    cooldownVersion,    \* the server's cooldownVersion
    marking,            \* per request, the provider it is about to bench
    markLeft,           \* per request, the time left to the cooldownUntil it has computed
    waiters,            \* the requests in waitForRecovery
    timer,              \* per waiting request, the time left to its timer
    snapshot,           \* per waiting request, the versions it read when it began
    owed                \* history: how long each provider must still stay benched

sharedVars == <<cooldownLeft, providerVersion, cooldownVersion, owed>>
markVars == <<marking, markLeft>>
waitVars == <<waiters, timer, snapshot>>
cooldownVars == <<sharedVars, markVars, waitVars>>

-----------------------------------------------------------------------------
Larger(m, n) == IF m < n THEN n ELSE m
Smaller(m, n) == IF m < n THEN m ELSE n

\* providerAvailable: the cooldown has run out.
Available(p) == cooldownLeft[p] = 0

CooldownTypeOK ==
    /\ cooldownLeft \in [Provider -> 0 .. CooldownDuration]
    /\ providerVersion \in [Provider -> Nat]
    /\ cooldownVersion \in Nat
    /\ marking \in [Request -> Provider \cup {NoProvider}]
    /\ markLeft \in [Request -> 0 .. CooldownDuration]
    /\ waiters \subseteq Request
    /\ timer \in [Request -> 0 .. RecoveryWait]
    /\ snapshot \in [Request -> [Provider -> Nat]]
    /\ owed \in [Provider -> 0 .. CooldownDuration]

CooldownInit ==
    /\ cooldownLeft = [p \in Provider |-> 0]
    /\ providerVersion = [p \in Provider |-> 0]
    /\ cooldownVersion = 0
    /\ marking = [r \in Request |-> NoProvider]
    /\ markLeft = [r \in Request |-> 0]
    /\ waiters = {}
    /\ timer = [r \in Request |-> 0]
    /\ snapshot = [r \in Request |-> [p \in Provider |-> 0]]
    /\ owed = [p \in Provider |-> 0]

-----------------------------------------------------------------------------
(* markCooldown computes the end of the cooldown first and takes the lock  *)
(* afterwards, so two requests that bench one provider may write in the    *)
(* other order than they read the clock.                                   *)

PendingMarks == {r \in Request : marking[r] # NoProvider}

Stamp(r, p) ==
    /\ r \notin waiters
    /\ marking[r] = NoProvider
    /\ cooldownVersion + Cardinality(PendingMarks) < MaxVersion
    /\ marking' = [marking EXCEPT ![r] = p]
    /\ markLeft' = [markLeft EXCEPT ![r] = CooldownDuration]
    /\ UNCHANGED <<sharedVars, waitVars>>

\* Faulty variants, which the properties below refute: the version is read
\* before it is counted up, the last writer wins.
StaleVersion == cooldownVersion
LastWriter(left, until) == until

NextVersion == cooldownVersion + 1

\* cooldownUntil is only ever moved to a later instant.
Extended(left, until) == Larger(left, until)

MarkCooldown(r) ==
    LET p == marking[r] IN
    /\ p # NoProvider
    /\ cooldownVersion' = cooldownVersion + 1
    /\ providerVersion' = [providerVersion EXCEPT ![p] = NextVersion]
    /\ cooldownLeft' = [cooldownLeft EXCEPT ![p] = Extended(@, markLeft[r])]
    /\ owed' = [owed EXCEPT ![p] = Larger(@, Smaller(markLeft[r], RecoveryWait))]
    /\ marking' = [marking EXCEPT ![r] = NoProvider]
    /\ markLeft' = [markLeft EXCEPT ![r] = 0]
    /\ UNCHANGED waitVars

(* waitForRecovery.  The timer starts after the snapshot is taken; time    *)
(* between the two only makes the wait longer, which a late ClearCooldowns *)
(* allows as well, so the two are one step.                                *)

BeginWait(r) ==
    /\ r \notin waiters
    /\ marking[r] = NoProvider
    /\ waiters' = waiters \cup {r}
    /\ timer' = [timer EXCEPT ![r] = RecoveryWait]
    /\ snapshot' = [snapshot EXCEPT ![r] = providerVersion]
    /\ UNCHANGED <<sharedVars, markVars>>

\* Request r leaves its wait; its snapshot and timer are gone with it.
LeaveWait(r) ==
    /\ waiters' = waiters \ {r}
    /\ timer' = [timer EXCEPT ![r] = 0]
    /\ snapshot' = [snapshot EXCEPT ![r] = [p \in Provider |-> 0]]

\* Faulty variant: clear them all.
AllProviders(r) == Provider

\* The providers that nobody has benched since the wait of r began.
Unchanged(r) == {p \in Provider : providerVersion[p] = snapshot[r][p]}

\* The timer has fired: clearCooldowns.
ClearCooldowns(r) ==
    /\ r \in waiters
    /\ timer[r] = 0
    /\ cooldownLeft' = [p \in Provider |-> IF p \in Unchanged(r) THEN 0 ELSE cooldownLeft[p]]
    /\ LeaveWait(r)
    /\ UNCHANGED <<providerVersion, cooldownVersion, owed, markVars>>

\* The request is canceled: nothing is cleared.
CancelWait(r) ==
    /\ r \in waiters
    /\ LeaveWait(r)
    /\ UNCHANGED <<sharedVars, markVars>>

-----------------------------------------------------------------------------
Elapse(left) == [x \in DOMAIN left |-> Larger(left[x] - 1, 0)]

\* Something is still counting down, or time makes no difference.
TimeMatters ==
    \/ \E p \in Provider : cooldownLeft[p] > 0
    \/ \E r \in Request : markLeft[r] > 0 \/ timer[r] > 0

Tick ==
    /\ TimeMatters
    /\ cooldownLeft' = Elapse(cooldownLeft)
    /\ owed' = Elapse(owed)
    /\ markLeft' = Elapse(markLeft)
    /\ timer' = Elapse(timer)
    /\ UNCHANGED <<providerVersion, cooldownVersion, marking, waiters, snapshot>>

RequestStep(r) ==
    \/ \E p \in Provider : Stamp(r, p)
    \/ MarkCooldown(r)
    \/ BeginWait(r)
    \/ ClearCooldowns(r)
    \/ CancelWait(r)

CooldownNext == Tick \/ \E r \in Request : RequestStep(r)

CooldownSpec == CooldownInit /\ [][CooldownNext]_cooldownVars

-----------------------------------------------------------------------------
\* A provider that has failed stays out of use for as long as its failure has
\* earned it: its whole cooldown, or one Recovery Wait where that is shorter.
\* Whatever the order in which requests read the clock, take the lock, begin
\* and end their waits, nobody brings it back sooner: a late marker does not
\* shorten a cooldown, and a waiter does not clear one it did not see.
EarnedBench == \A p \in Provider : owed[p] > 0 => ~Available(p)

\* Comparing versions implements Bench: a wait clears just the providers that
\* were benched when it began, though several requests wait and fail at once.
Promise == INSTANCE Bench WITH
    benched <- {p \in Provider : ~Available(p)},
    waiting <- waiters,
    fresh <- [r \in Request |->
                IF r \in waiters
                THEN {p \in Provider : providerVersion[p] # snapshot[r][p]}
                ELSE {}]

ClearsWhatItSaw == Promise!BenchSpec

(* What a snapshot is worth: a provider that still has the version the     *)
(* waiter saw has been benched for at least as long as the waiter has      *)
(* waited.  This makes EarnedBench inductive (RoutingProofs).              *)
SnapshotBound ==
    \A r \in waiters, p \in Provider :
        /\ snapshot[r][p] <= cooldownVersion
        /\ providerVersion[p] = snapshot[r][p] => owed[p] <= timer[r]

CooldownInv ==
    /\ CooldownTypeOK
    /\ \A p \in Provider : /\ providerVersion[p] <= cooldownVersion
                           /\ owed[p] <= cooldownLeft[p]
                           /\ owed[p] <= RecoveryWait
    /\ SnapshotBound

=============================================================================
