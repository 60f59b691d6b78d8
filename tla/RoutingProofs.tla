--------------------------- MODULE RoutingProofs ---------------------------
(***************************************************************************)
(* Proofs about Routing.tla and about Cooldown.tla, on which it builds,    *)
(* for any configurations, calls and answers, any sets of providers and    *)
(* requests and any durations, in five parts.                              *)
(*                                                                         *)
(* The cooldowns: their inductive invariant, the time a failed provider    *)
(* stays out of use, and the refinement of Bench.                          *)
(*                                                                         *)
(* The routing uses the cooldowns as Cooldown says, so what is proved of   *)
(* them holds of it; its action properties follow from RequestsInv.        *)
(*                                                                         *)
(* Fallback routes lead to an end, whatever the configuration: Validate    *)
(* accepts only fallbacks that some ranking of the routes descends, and a  *)
(* request descends it with them.                                          *)
(*                                                                         *)
(* Who is benched for what: every time a provider is benched, an upstream  *)
(* has failed.  With it, the whole invariant of Routing.tla.               *)
(*                                                                         *)
(* Checked and let go: while a provider is as the check found it, it owes  *)
(* no time; what it owes at the send was reported after the check.         *)
(***************************************************************************)
EXTENDS Routing, ConfigProofs

(* The cooldowns. *)

LEMMA InitEstablishesInv == CooldownInit => CooldownInv
  BY NoProviderAssumption, DurationAssumption
     DEF CooldownInit, CooldownInv, CooldownTypeOK, SnapshotBound

-----------------------------------------------------------------------------
(* One lemma for each action that changes shared state. *)

LEMMA StampKeepsInv ==
  ASSUME CooldownInv, NEW r \in Request, NEW p \in Provider, Stamp(r, p)
  PROVE  CooldownInv'
<1>1. CooldownTypeOK'
  BY DurationAssumption DEF CooldownInv, CooldownTypeOK, Stamp, sharedVars, waitVars
<1>2. QED
  BY <1>1 DEF CooldownInv, Stamp, SnapshotBound, sharedVars, waitVars

LEMMA MarkKeepsInv ==
  ASSUME CooldownInv, NEW r \in Request, MarkCooldown(r)
  PROVE  CooldownInv'
<1> DEFINE p == marking[r]
<1> USE DEF CooldownInv, CooldownTypeOK
<1>1. /\ p \in Provider
      /\ markLeft[r] \in 0 .. CooldownDuration
  BY DEF MarkCooldown, NextVersion, Extended
<1>2. /\ Larger(cooldownLeft[p], markLeft[r]) \in 0 .. CooldownDuration
      /\ Larger(owed[p], Smaller(markLeft[r], RecoveryWait)) \in 0 .. CooldownDuration
      /\ Larger(owed[p], Smaller(markLeft[r], RecoveryWait))
            <= Larger(cooldownLeft[p], markLeft[r])
      /\ Larger(owed[p], Smaller(markLeft[r], RecoveryWait)) <= RecoveryWait
  BY <1>1, DurationAssumption DEF Larger, Smaller
<1>3. CooldownTypeOK'
  BY <1>1, <1>2, DurationAssumption DEF MarkCooldown, NextVersion, Extended, waitVars
<1>4. \A q \in Provider : /\ providerVersion'[q] <= cooldownVersion'
                          /\ owed'[q] <= cooldownLeft'[q]
                          /\ owed'[q] <= RecoveryWait
  BY <1>1, <1>2 DEF MarkCooldown, NextVersion, Extended
\* The new version of p is one that no snapshot holds.
<1>5. SnapshotBound'
  <2> SUFFICES ASSUME NEW s \in waiters', NEW q \in Provider
               PROVE  /\ snapshot'[s][q] <= cooldownVersion'
                      /\ providerVersion'[q] = snapshot'[s][q] => owed'[q] <= timer'[s]
    BY DEF SnapshotBound
  <2>1. /\ s \in waiters /\ s \in Request
        /\ snapshot' = snapshot /\ timer' = timer
        /\ snapshot[s][q] \in Nat
        /\ snapshot[s][q] <= cooldownVersion
        /\ cooldownVersion' = cooldownVersion + 1
    BY DEF MarkCooldown, NextVersion, Extended, waitVars, SnapshotBound
  <2>2. CASE q = p
    <3>1. providerVersion'[q] = cooldownVersion + 1
      BY <1>1, <2>2 DEF MarkCooldown, NextVersion, Extended
    <3>2. QED
      BY <2>1, <3>1
  <2>3. CASE q # p
    <3>1. providerVersion'[q] = providerVersion[q] /\ owed'[q] = owed[q]
      BY <1>1, <2>3 DEF MarkCooldown, NextVersion, Extended
    <3>2. QED
      BY <2>1, <3>1 DEF SnapshotBound
  <2>4. QED
    BY <2>2, <2>3
<1>6. QED
  BY <1>3, <1>4, <1>5

LEMMA BeginWaitKeepsInv ==
  ASSUME CooldownInv, NEW r \in Request, BeginWait(r)
  PROVE  CooldownInv'
<1> USE DEF CooldownInv, CooldownTypeOK
<1>1. CooldownTypeOK'
  BY DurationAssumption DEF BeginWait, sharedVars, markVars
<1>2. SnapshotBound'
  <2> SUFFICES ASSUME NEW s \in waiters', NEW q \in Provider
               PROVE  /\ snapshot'[s][q] <= cooldownVersion'
                      /\ providerVersion'[q] = snapshot'[s][q] => owed'[q] <= timer'[s]
    BY DEF SnapshotBound
  <2>1. CASE s = r
    <3>1. snapshot'[s] = providerVersion /\ timer'[s] = RecoveryWait
      BY <2>1 DEF BeginWait
    <3>2. QED
      BY <3>1 DEF BeginWait, sharedVars
  <2>2. CASE s # r
    <3>1. /\ s \in waiters
          /\ snapshot'[s] = snapshot[s] /\ timer'[s] = timer[s]
      BY <2>2 DEF BeginWait
    <3>2. QED
      BY <3>1 DEF BeginWait, sharedVars, SnapshotBound
  <2>3. QED
    BY <2>1, <2>2
<1>3. QED
  BY <1>1, <1>2 DEF BeginWait, sharedVars

LEMMA LeaveWaitBounds ==
  ASSUME CooldownInv, NEW r \in Request, LeaveWait(r),
         UNCHANGED <<providerVersion, cooldownVersion, owed>>
  PROVE  SnapshotBound' /\ waiters' \subseteq Request
         /\ timer' \in [Request -> 0 .. RecoveryWait]
         /\ snapshot' \in [Request -> [Provider -> Nat]]
  BY DurationAssumption DEF CooldownInv, CooldownTypeOK, SnapshotBound, LeaveWait

LEMMA ClearKeepsInv ==
  ASSUME CooldownInv, NEW r \in Request, ClearCooldowns(r)
  PROVE  CooldownInv'
<1> USE DEF CooldownInv, CooldownTypeOK
<1>1. SnapshotBound' /\ CooldownTypeOK'
  <2>1. UNCHANGED <<providerVersion, cooldownVersion, owed>> /\ LeaveWait(r)
    BY DEF ClearCooldowns, Unchanged
  <2>2. cooldownLeft' \in [Provider -> 0 .. CooldownDuration]
    BY DurationAssumption DEF ClearCooldowns, Unchanged
  <2>3. QED
    BY <2>1, <2>2, LeaveWaitBounds DEF ClearCooldowns, Unchanged, markVars
\* What the waiter clears has nothing owed to it any more: its timer is 0.
<1>2. \A q \in Provider : owed'[q] <= cooldownLeft'[q]
  <2> SUFFICES ASSUME NEW q \in Provider
               PROVE  owed'[q] <= cooldownLeft'[q]
    OBVIOUS
  <2>1. owed' = owed /\ r \in waiters /\ timer[r] = 0
    BY DEF ClearCooldowns, Unchanged
  <2>2. CASE providerVersion[q] = snapshot[r][q]
    <3>1. cooldownLeft'[q] = 0
      BY <2>2 DEF ClearCooldowns, Unchanged
    <3>2. owed[q] <= 0
      BY <2>1, <2>2 DEF SnapshotBound
    <3>3. QED
      BY <2>1, <3>1, <3>2
  <2>3. CASE providerVersion[q] # snapshot[r][q]
    BY <2>1, <2>3 DEF ClearCooldowns, Unchanged
  <2>4. QED
    BY <2>2, <2>3
<1>3. QED
  BY <1>1, <1>2 DEF ClearCooldowns, Unchanged, markVars

LEMMA CancelKeepsInv ==
  ASSUME CooldownInv, NEW r \in Request, CancelWait(r)
  PROVE  CooldownInv'
<1> USE DEF CooldownInv, CooldownTypeOK
<1>1. SnapshotBound' /\ CooldownTypeOK'
  BY LeaveWaitBounds DEF CancelWait, sharedVars, markVars
<1>2. QED
  BY <1>1 DEF CancelWait, sharedVars, markVars

LEMMA TickKeepsInv ==
  ASSUME CooldownInv, Tick
  PROVE  CooldownInv'
<1> USE DEF CooldownInv, CooldownTypeOK
<1>1. CooldownTypeOK'
  BY DurationAssumption DEF Tick, Elapse, Larger
<1>2. \A q \in Provider : /\ providerVersion'[q] <= cooldownVersion'
                          /\ owed'[q] <= cooldownLeft'[q]
                          /\ owed'[q] <= RecoveryWait
  BY DurationAssumption DEF Tick, Elapse, Larger
<1>3. SnapshotBound'
  BY DurationAssumption DEF Tick, Elapse, Larger, SnapshotBound
<1>4. QED
  BY <1>1, <1>2, <1>3

LEMMA StutterKeepsInv ==
  ASSUME CooldownInv, UNCHANGED cooldownVars
  PROVE  CooldownInv'
  BY DEF CooldownInv, CooldownTypeOK, SnapshotBound, cooldownVars, sharedVars,
         markVars, waitVars

LEMMA NextKeepsInv == CooldownInv /\ [CooldownNext]_cooldownVars => CooldownInv'
<1> SUFFICES ASSUME CooldownInv, [CooldownNext]_cooldownVars
             PROVE  CooldownInv'
  OBVIOUS
<1>1. CASE Tick
  BY <1>1, TickKeepsInv
<1>2. ASSUME NEW r \in Request, RequestStep(r)
      PROVE  CooldownInv'
  BY <1>2, StampKeepsInv, MarkKeepsInv, BeginWaitKeepsInv, ClearKeepsInv, CancelKeepsInv
     DEF RequestStep
<1>3. CASE UNCHANGED cooldownVars
  BY <1>3, StutterKeepsInv
<1>4. QED
  BY <1>1, <1>2, <1>3 DEF CooldownNext

\* The inductive invariant of the shared state, type correctness included,
\* whatever the number of requests that mark, wait and clear at once.
THEOREM CooldownInvariant == CooldownSpec => []CooldownInv
<1>1. CooldownInit => CooldownInv
  BY InitEstablishesInv
<1>2. CooldownInv /\ [CooldownNext]_cooldownVars => CooldownInv'
  BY NextKeepsInv
<1>3. QED
  BY <1>1, <1>2, PTL DEF CooldownSpec

LEMMA InvImpliesEarnedBench == CooldownInv => EarnedBench
  BY DEF CooldownInv, CooldownTypeOK, EarnedBench, Available

\* A failed provider is never brought back before its cooldown, or one
\* Recovery Wait where that is shorter, has gone by (markCooldown,
\* clearCooldowns).
THEOREM EarnedBenchHolds == CooldownSpec => []EarnedBench
  BY CooldownInvariant, InvImpliesEarnedBench, PTL

-----------------------------------------------------------------------------
(* The refinement of Bench, step by step. *)

LEMMA InitRefines == CooldownInit => Promise!BenchInit
  BY DEF CooldownInit, Promise!BenchInit, Available

LEMMA StampRefines ==
  ASSUME NEW r \in Request, NEW p \in Provider, Stamp(r, p)
  PROVE  UNCHANGED Promise!benchVars
  BY DEF Stamp, Promise!benchVars, Available, sharedVars, waitVars

LEMMA MarkRefines ==
  ASSUME CooldownInv, NEW r \in Request, MarkCooldown(r), NEW p \in Provider, p = marking[r]
  PROVE  Promise!Fail(p)
<1> USE DEF CooldownInv, CooldownTypeOK
<1>1. markLeft[r] \in 0 .. CooldownDuration
  OBVIOUS
<1>2. \A q \in Provider : q # p =>
        /\ cooldownLeft'[q] = cooldownLeft[q]
        /\ providerVersion'[q] = providerVersion[q]
  BY <1>1 DEF MarkCooldown, NextVersion, Extended
<1>3. /\ cooldownLeft'[p] = 0 => cooldownLeft[p] = 0
      /\ cooldownLeft[p] # 0 => cooldownLeft'[p] # 0
  BY <1>1, DurationAssumption DEF MarkCooldown, NextVersion, Extended, Larger
<1>4. waiters' = waiters /\ snapshot' = snapshot
  BY DEF MarkCooldown, NextVersion, Extended, waitVars
<1>5. \A s \in waiters : providerVersion'[p] # snapshot[s][p]
  <2> SUFFICES ASSUME NEW s \in waiters
               PROVE  providerVersion'[p] # snapshot[s][p]
    OBVIOUS
  <2>1. providerVersion'[p] = cooldownVersion + 1
    BY <1>1 DEF MarkCooldown, NextVersion, Extended
  <2>2. snapshot[s][p] <= cooldownVersion /\ snapshot[s][p] \in Nat
    BY <1>1 DEF SnapshotBound
  <2>3. QED
    BY <2>1, <2>2
<1>6. {q \in Provider : ~Available(q)}' \in
        {{q \in Provider : ~Available(q)}, {q \in Provider : ~Available(q)} \cup {p}}
  <2>1. CASE cooldownLeft'[p] = 0
    BY <1>1, <1>2, <1>3, <2>1 DEF Available
  <2>2. CASE cooldownLeft'[p] # 0
    BY <1>1, <1>2, <2>2 DEF Available
  <2>3. QED
    BY <2>1, <2>2
<1>7. \A s \in waiters : {q \in Provider : providerVersion'[q] # snapshot'[s][q]}
                         = {q \in Provider : providerVersion[q] # snapshot[s][q]} \cup {p}
  BY <1>1, <1>2, <1>4, <1>5
<1>8. QED
  BY <1>4, <1>6, <1>7 DEF Promise!Fail

LEMMA BeginWaitRefines ==
  ASSUME CooldownInv, NEW r \in Request, BeginWait(r)
  PROVE  Promise!BeginToWait(r)
<1>1. {q \in Provider : providerVersion'[q] # snapshot'[r][q]} = {}
  BY DEF BeginWait, sharedVars, CooldownInv, CooldownTypeOK
<1>2. \A s \in Request : s # r => snapshot'[s] = snapshot[s]
  BY DEF BeginWait, CooldownInv, CooldownTypeOK
<1>3. /\ r \notin waiters /\ waiters' = waiters \cup {r}
      /\ providerVersion' = providerVersion /\ cooldownLeft' = cooldownLeft
  BY DEF BeginWait, sharedVars
<1>4. ASSUME NEW s \in Request
      PROVE  (IF s \in waiters' THEN {q \in Provider : providerVersion'[q] # snapshot'[s][q]} ELSE {})
             = (IF s \in waiters THEN {q \in Provider : providerVersion[q] # snapshot[s][q]} ELSE {})
  <2>1. CASE s = r
    BY <1>1, <1>3, <2>1
  <2>2. CASE s # r
    BY <1>2, <1>3, <2>2
  <2>3. QED
    BY <2>1, <2>2
<1>5. [s \in Request |-> IF s \in waiters'
                         THEN {q \in Provider : providerVersion'[q] # snapshot'[s][q]} ELSE {}]
      = [s \in Request |-> IF s \in waiters
                         THEN {q \in Provider : providerVersion[q] # snapshot[s][q]} ELSE {}]
  BY <1>4
<1>6. QED
  BY <1>3, <1>5 DEF Promise!BeginToWait, Available

LEMMA LeaveWaitFresh ==
  ASSUME CooldownInv, NEW r \in Request, r \in waiters, LeaveWait(r), UNCHANGED providerVersion
  PROVE  [s \in Request |-> IF s \in waiters'
                            THEN {q \in Provider : providerVersion'[q] # snapshot'[s][q]}
                            ELSE {}]
       = [[s \in Request |-> IF s \in waiters
                            THEN {q \in Provider : providerVersion[q] # snapshot[s][q]}
                            ELSE {}] EXCEPT ![r] = {}]
  BY DEF CooldownInv, CooldownTypeOK, LeaveWait

LEMMA ClearRefines ==
  ASSUME CooldownInv, NEW r \in Request, ClearCooldowns(r)
  PROVE  Promise!EndWait(r)
<1> USE DEF CooldownInv, CooldownTypeOK
<1>1. {q \in Provider : ~Available(q)}'
        = {q \in Provider : ~Available(q)}
            \cap {q \in Provider : providerVersion[q] # snapshot[r][q]}
  BY DEF ClearCooldowns, Unchanged, Available
<1>2. QED
  BY <1>1, LeaveWaitFresh DEF ClearCooldowns, Unchanged, LeaveWait, Promise!EndWait

LEMMA CancelRefines ==
  ASSUME CooldownInv, NEW r \in Request, CancelWait(r)
  PROVE  Promise!AbandonWait(r)
  BY LeaveWaitFresh
     DEF CancelWait, LeaveWait, Promise!AbandonWait, Available, sharedVars

LEMMA TickRefines ==
  ASSUME CooldownInv, Tick
  PROVE  Promise!Recover
  BY DEF CooldownInv, CooldownTypeOK, Tick, Elapse, Larger, Available, Promise!Recover

LEMMA StutterRefines ==
  ASSUME UNCHANGED cooldownVars
  PROVE  UNCHANGED Promise!benchVars
  BY DEF cooldownVars, sharedVars, waitVars, Promise!benchVars, Available

\* Version numbers and snapshots implement Bench: a Recovery Wait brings back
\* exactly the providers that were benched when it began.
THEOREM CooldownImplementsBench == CooldownSpec => ClearsWhatItSaw
<1>1. CooldownInit => Promise!BenchInit
  BY InitRefines
<1>2. CooldownInv /\ [CooldownNext]_cooldownVars => [Promise!BenchNext]_(Promise!benchVars)
  <2> SUFFICES ASSUME CooldownInv, [CooldownNext]_cooldownVars
               PROVE  [Promise!BenchNext]_(Promise!benchVars)
    OBVIOUS
  <2>1. CASE Tick
    BY <2>1, TickRefines DEF Promise!BenchNext
  <2>2. ASSUME NEW r \in Request, RequestStep(r)
        PROVE  [Promise!BenchNext]_(Promise!benchVars)
    <3>1. ASSUME NEW p \in Provider, Stamp(r, p)
          PROVE  UNCHANGED Promise!benchVars
      BY <3>1, StampRefines
    <3>2. CASE MarkCooldown(r)
      <4>1. PICK p \in Provider : p = marking[r]
        BY <3>2 DEF MarkCooldown, NextVersion, Extended, CooldownInv, CooldownTypeOK
      <4>2. Promise!Fail(p)
        BY <3>2, <4>1, MarkRefines
      <4>3. QED
        BY <4>2 DEF Promise!BenchNext
    <3>3. CASE BeginWait(r)
      BY <3>3, BeginWaitRefines DEF Promise!BenchNext
    <3>4. CASE ClearCooldowns(r)
      BY <3>4, ClearRefines DEF Promise!BenchNext
    <3>5. CASE CancelWait(r)
      BY <3>5, CancelRefines DEF Promise!BenchNext
    <3>6. QED
      BY <2>2, <3>1, <3>2, <3>3, <3>4, <3>5 DEF RequestStep
  <2>3. CASE UNCHANGED cooldownVars
    BY <2>3, StutterRefines
  <2>4. QED
    BY <2>1, <2>2, <2>3 DEF CooldownNext
<1>3. QED
  BY <1>1, <1>2, CooldownInvariant, PTL DEF CooldownSpec, ClearsWhatItSaw, Promise!BenchSpec

-----------------------------------------------------------------------------
(* The routing. *)

\* The part of RoutingInv that concerns single requests.
RequestsInv == RoutingTypeOK /\ \A r \in Request : Placed(r) /\ Accounted(r)

LEMMA RequestType ==
  ASSUME RoutingTypeOK, NEW r \in Request
  PROVE  req[r] \in RequestState
BY DEF RoutingTypeOK

\* A route's providers are those RouteProviders gives, in its order, and all
\* of them have upstreams.
LEMMA ProvidersOfRoute ==
  ASSUME RoutingTypeOK, NEW r \in Request, req[r].route \in RouteNames(config)
  PROVE  /\ Providers(r) = RouteProviders(config, req[r].route)
         /\ Providers(r) \in Seq(Provider)
<1>1. config \in Configs /\ Valid(config)
  BY DEF RoutingTypeOK
<1>2. IsConfig(config) /\ Names(config) \subseteq Provider
  BY <1>1, InputAssumption
<1>3. Providers(r) = RouteProviders(config, req[r].route)
  BY <1>1 DEF Providers, RouteTable
<1>4. PICK eligible : eligible = Eligible(config, req[r].route)
  OBVIOUS
<1>5. /\ Providers(r) \in Seq(eligible)
      /\ \A name \in Elements(Providers(r)) : name \in Names(config)
  BY <1>1, <1>2, <1>3, <1>4, RouteProvidersInOrder DEF Names
<1>6. \A i \in 1 .. Len(Providers(r)) : Providers(r)[i] \in Provider
  BY <1>2, <1>5 DEF Elements
<1>7. QED
  BY <1>3, <1>5, <1>6, SeqDef

LEMMA SelectedIsProvider ==
  ASSUME RoutingTypeOK, NEW r \in Request, Placed(r), req[r].pc \in Trying
  PROVE  Selected(r) \in Provider
<1>1. Providers(r) \in Seq(Provider)
  BY ProvidersOfRoute DEF Placed, At, Trying
<1>2. QED
  BY <1>1 DEF Placed, Selected

LEMMA RoutingInitType ==
  RoutingInit => RequestsInv
<1>1. Idle \in RequestState
  BY DEF Idle, RequestState, NoFailure, NoReply, Replies, Reasons, Origin
<1>2. Idle.pc = "idle" /\ Idle.reply = NoReply
  BY DEF Idle
<1>3. ASSUME RoutingInit, NEW r \in Request
      PROVE  Agrees(r) /\ Placed(r) /\ Accounted(r)
  BY <1>2, <1>3 DEF RoutingInit, CooldownInit, Agrees, Placed, Accounted, At, Trying
<1>4. QED
  BY <1>1, <1>3, MaxFaultsAssumption, BoundAssumption DEF RoutingInit, RequestsInv, RoutingTypeOK

-----------------------------------------------------------------------------
(* A step of request r leaves the other requests alone, so that their part *)
(* of the invariant is kept.                                               *)

Local(r) ==
    /\ config' = config
    /\ faults' \in 0 .. MaxFaults
    /\ canceled' \subseteq Request
    /\ \A q \in Request \ {r} : /\ q \in canceled' <=> q \in canceled
                                /\ q \in waiters' <=> q \in waiters
                                /\ marking'[q] = marking[q]

LEMMA LocalStepKeeps ==
  ASSUME RequestsInv, NEW r \in Request, NEW s \in RequestState, Becomes(r, s), Local(r),
         req'[r] = s => Agrees(r)' /\ Placed(r)' /\ Accounted(r)'
  PROVE  RequestsInv'
<1>1. /\ req' \in [Request -> RequestState]
      /\ req'[r] = s
      /\ \A q \in Request \ {r} : req'[q] = req[q]
  BY DEF Becomes, RequestsInv, RoutingTypeOK
<1>2. ASSUME NEW q \in Request
      PROVE  Agrees(q)' /\ Placed(q)' /\ Accounted(q)'
  <2>1. CASE q = r
    BY <1>1, <2>1
  <2>2. CASE q # r
    <3>1. q \in Request \ {r} /\ req'[q] = req[q] /\ config' = config
      BY <1>1, <2>2 DEF Local
    <3>2. Agrees(q)'
      BY <3>1 DEF RequestsInv, RoutingTypeOK, Local, Agrees
    <3>3. Providers(q)' = Providers(q) /\ Selected(q)' = Selected(q)
      BY <3>1 DEF Providers, Selected
    <3>4. Placed(q)' /\ Accounted(q)'
      BY <3>1, <3>3 DEF RequestsInv, Placed, Accounted, At
    <3>5. QED
      BY <3>2, <3>4
  <2>3. QED
    BY <2>1, <2>2
<1>3. QED
  BY <1>1, <1>2 DEF RequestsInv, RoutingTypeOK, Local

LEMMA FaultsStayBounded ==
  ASSUME faults \in 0 .. MaxFaults, ProviderFault \/ UNCHANGED faults
  PROVE  faults' \in 0 .. MaxFaults
BY MaxFaultsAssumption, BoundAssumption DEF ProviderFault

LEMMA ReturnKeeps ==
  ASSUME RequestsInv, NEW r \in Request, NEW reply \in Replies, Return(r, reply),
         config' = config, ProviderFault \/ UNCHANGED faults,
         r \notin waiters', \A q \in Request \ {r} : q \in waiters' <=> q \in waiters,
         marking' = [marking EXCEPT ![r] = NoProvider], marking \in [Request -> Origin]
  PROVE  RequestsInv'
<1> DEFINE s == [Idle EXCEPT !.reply = reply]
<1>1. s \in RequestState
  BY DEF Idle, RequestState, NoFailure, Origin
<1>2. s.pc = "idle"
  BY DEF Idle
<1>3. Becomes(r, s)
  BY DEF Return
<1>4. Local(r)
  BY FaultsStayBounded DEF Return, Local, RequestsInv, RoutingTypeOK
<1>5. ASSUME req'[r] = s
      PROVE  Agrees(r)' /\ Placed(r)' /\ Accounted(r)'
  <2>1. req'[r].pc = "idle" /\ marking'[r] = NoProvider /\ r \notin canceled'
    BY <1>2, <1>5 DEF Return
  <2>2. QED
    BY <2>1 DEF Agrees, Placed, Accounted, At, Trying
<1>6. QED
  BY <1>1, <1>3, <1>4, <1>5, LocalStepKeeps

LEMMA FailOverKeeps ==
  ASSUME RequestsInv, NEW r \in Request, NEW status \in Nat \ {0}, FailOver(r, status),
         req[r].pc \in {"send", "upstream", "body"}, ProviderFault \/ UNCHANGED faults,
         marking \in [Request -> Origin]
  PROVE  RequestsInv'
<1> DEFINE s == [req[r] EXCEPT !.pc = "mark", !.seen = 0, !.answer = NoAnswer,
                    !.failure = [status |-> status, from |-> Selected(r)]]
<1>1. Selected(r) \in Provider
  BY SelectedIsProvider DEF RequestsInv, Trying
<1>2. s \in RequestState
  <2>1. req[r] \in RequestState
    BY RequestType DEF RequestsInv
  <2>2. [status |-> status, from |-> Selected(r)] \in [status : Nat, from : Origin]
    BY <1>1 DEF Origin
  <2>3. QED
    BY <2>1, <2>2 DEF RequestState
<1>3. /\ s.pc = "mark" /\ s.route = req[r].route /\ s.position = req[r].position
      /\ s.tried = req[r].tried /\ s.reply = req[r].reply
      /\ s.failure = [status |-> status, from |-> Selected(r)]
  BY RequestType DEF RequestState, RequestsInv
<1>4. Becomes(r, s)
  BY DEF FailOver
<1>5. Local(r)
  BY FaultsStayBounded DEF FailOver, Stamp, Local, RequestsInv, RoutingTypeOK, waitVars
<1>6. ASSUME req'[r] = s
      PROVE  Agrees(r)' /\ Placed(r)' /\ Accounted(r)'
  <2>1. Agrees(r)'
    BY <1>1, <1>3, <1>6, NoProviderAssumption
       DEF Agrees, FailOver, Stamp, RequestsInv, RoutingTypeOK, waitVars
  <2>2. Providers(r)' = Providers(r) /\ Selected(r)' = Selected(r)
    BY <1>3, <1>6 DEF FailOver, Providers, Selected
  <2>3. Placed(r)'
    BY <1>3, <1>6, <2>2 DEF FailOver, Placed, At, Trying, RequestsInv
  <2>4. Accounted(r)'
    BY <1>3, <1>6, <2>2 DEF Accounted, At, Trying, RequestsInv
  <2>5. QED
    BY <2>1, <2>3, <2>4
<1>7. QED
  BY <1>2, <1>4, <1>5, <1>6, LocalStepKeeps

\* A step that changes nothing but the local variables of route.
LEMMA PrivateStepKeeps ==
  ASSUME RequestsInv, NEW r \in Request, NEW s \in RequestState, Becomes(r, s),
         UNCHANGED <<config, canceled, cooldownVars>>, ProviderFault \/ UNCHANGED faults,
         req[r].pc \notin {"wait", "clear", "mark"},
         s.pc \notin {"idle", "wait", "clear", "mark"},
         req'[r] = s => Placed(r)' /\ Accounted(r)'
  PROVE  RequestsInv'
<1>1. Local(r)
  BY FaultsStayBounded
     DEF Local, RequestsInv, RoutingTypeOK, cooldownVars, markVars, waitVars
<1>2. ASSUME req'[r] = s
      PROVE  Agrees(r)'
  BY <1>2 DEF Agrees, RequestsInv, RoutingTypeOK, cooldownVars, markVars, waitVars
<1>3. QED
  BY <1>1, <1>2, LocalStepKeeps

LEMMA EnterRouteKeeps ==
  ASSUME RequestsInv, NEW r \in Request, EnterRoute(r)
  PROVE  RequestsInv'
<1> DEFINE s == [req[r] EXCEPT !.pc = "pass", !.position = 1,
                               !.visited = @ \cup {req[r].route},
                               !.tried = {}, !.failure = NoFailure]
<1>1. req[r] \in RequestState /\ req[r].route \in Routes /\ req[r].pc = "route"
  BY RequestType DEF EnterRoute, At, RequestsInv, RoutingTypeOK, Placed, Routes
<1>2. s \in RequestState
  BY <1>1 DEF RequestState, NoFailure, Origin
<1>3. /\ s.pc = "pass" /\ s.route = req[r].route /\ s.position = 1
      /\ s.tried = {} /\ s.failure = NoFailure /\ s.reply = req[r].reply
  BY <1>1 DEF RequestState
<1>4. ASSUME req'[r] = s
      PROVE  Placed(r)' /\ Accounted(r)'
  BY <1>1, <1>3, <1>4
     DEF EnterRoute, RequestsInv, Placed, Accounted, At, Trying, NoFailure
<1>5. QED
  BY <1>1, <1>2, <1>3, <1>4, PrivateStepKeeps DEF EnterRoute, vars

LEMMA SkipCoolingKeeps ==
  ASSUME RequestsInv, NEW r \in Request, SkipCooling(r)
  PROVE  RequestsInv'
<1> DEFINE s == [req[r] EXCEPT !.position = @ + 1]
<1>1. req[r] \in RequestState /\ req[r].pc = "pass"
  BY RequestType DEF SkipCooling, InPass, At, RequestsInv
<1>2. s \in RequestState
  BY <1>1 DEF RequestState
<1>3. /\ s.pc = "pass" /\ s.route = req[r].route /\ s.position = req[r].position + 1
      /\ s.tried = req[r].tried /\ s.failure = req[r].failure /\ s.reply = req[r].reply
  BY <1>1 DEF RequestState
<1>4. req[r].position \in Nat
  BY <1>1 DEF RequestState
<1>5. ASSUME req'[r] = s
      PROVE  Placed(r)' /\ Accounted(r)'
  BY <1>1, <1>3, <1>4, <1>5
     DEF SkipCooling, RequestsInv, Placed, Accounted, At, Trying
<1>6. QED
  BY <1>1, <1>2, <1>3, <1>5, PrivateStepKeeps DEF SkipCooling

LEMMA SelectKeeps ==
  ASSUME RequestsInv, providerVersion \in [Provider -> Nat], NEW r \in Request, Select(r)
  PROVE  RequestsInv'
<1> DEFINE s == [req[r] EXCEPT !.pc = "send", !.tried = @ \cup {Selected(r)},
                               !.seen = providerVersion[Selected(r)]]
<1>1. req[r] \in RequestState /\ req[r].pc = "pass"
  BY RequestType DEF Select, InPass, At, RequestsInv
<1>2. /\ req[r].position \in DOMAIN Providers(r)
      /\ Selected(r) \in Provider
  <2>1. Providers(r) \in Seq(Provider)
    BY <1>1, ProvidersOfRoute DEF RequestsInv, Placed, At
  <2>2. req[r].position \in 1 .. Len(Providers(r))
    BY <1>1, <2>1 DEF RequestsInv, Placed, Select, InPass, RequestState
  <2>3. QED
    BY <2>1, <2>2 DEF Selected
<1>3. s \in RequestState
  BY <1>1, <1>2 DEF RequestState
<1>4. /\ s.pc = "send" /\ s.route = req[r].route /\ s.position = req[r].position
      /\ s.tried = req[r].tried \cup {Selected(r)}
      /\ s.failure = req[r].failure /\ s.reply = req[r].reply
  BY <1>1 DEF RequestState
<1>5. ASSUME req'[r] = s
      PROVE  Placed(r)' /\ Accounted(r)'
  <2>1. Providers(r)' = Providers(r) /\ Selected(r)' = Selected(r)
    BY <1>4, <1>5 DEF Select, Providers, Selected
  <2>2. QED
    BY <1>1, <1>2, <1>4, <1>5, <2>1
       DEF Select, RequestsInv, Placed, Accounted, At, Trying
<1>6. QED
  BY <1>1, <1>3, <1>4, <1>5, PrivateStepKeeps DEF Select

LEMMA AttemptKeeps ==
  ASSUME RequestsInv, NEW r \in Request, Attempt(r)
  PROVE  RequestsInv'
<1> DEFINE s == [req[r] EXCEPT !.pc = "upstream", !.seen = 0]
<1>1. req[r] \in RequestState /\ req[r].pc = "send"
  BY RequestType DEF Attempt, At, RequestsInv
<1>2. s \in RequestState
  BY <1>1 DEF RequestState
<1>3. /\ s.pc = "upstream" /\ s.route = req[r].route /\ s.position = req[r].position
      /\ s.tried = req[r].tried /\ s.failure = req[r].failure /\ s.reply = req[r].reply
  BY <1>1 DEF RequestState
<1>4. ASSUME req'[r] = s
      PROVE  Placed(r)' /\ Accounted(r)'
  <2>1. Providers(r)' = Providers(r) /\ Selected(r)' = Selected(r)
    BY <1>3, <1>4 DEF Attempt, Providers, Selected
  <2>2. QED
    BY <1>1, <1>3, <1>4, <2>1 DEF Attempt, RequestsInv, Placed, Accounted, At, Trying
<1>5. QED
  BY <1>1, <1>2, <1>3, <1>4, PrivateStepKeeps DEF Attempt

LEMMA AwaitBodyKeeps ==
  ASSUME RequestsInv, NEW r \in Request, NEW answer \in Answers, AwaitBody(r, answer)
  PROVE  RequestsInv'
<1> DEFINE s == [req[r] EXCEPT !.pc = "body", !.answer = answer]
<1>1. req[r] \in RequestState /\ req[r].pc = "upstream"
  BY RequestType DEF AwaitBody, At, RequestsInv
<1>2. s \in RequestState
  BY <1>1 DEF RequestState
<1>3. /\ s.pc = "body" /\ s.answer = answer /\ s.route = req[r].route /\ s.position = req[r].position
      /\ s.tried = req[r].tried /\ s.failure = req[r].failure /\ s.reply = req[r].reply
  BY <1>1 DEF RequestState
<1>4. ASSUME req'[r] = s
      PROVE  Placed(r)' /\ Accounted(r)'
  <2>1. Providers(r)' = Providers(r) /\ Selected(r)' = Selected(r)
    BY <1>3, <1>4 DEF AwaitBody, Providers, Selected
  <2>2. QED
    BY <1>1, <1>3, <1>4, <2>1 DEF AwaitBody, RequestsInv, Placed, Accounted, At, Trying
<1>5. QED
  BY <1>1, <1>2, <1>3, <1>4, PrivateStepKeeps DEF AwaitBody

LEMMA StartStreamKeeps ==
  ASSUME RequestsInv, NEW r \in Request, NEW answer \in Answers, StartStream(r, answer)
  PROVE  RequestsInv'
<1> DEFINE reply == [status |-> OK, why |-> "stream", from |-> Selected(r)]
           s == [req[r] EXCEPT !.pc = "write", !.reply = reply]
<1>1. req[r] \in RequestState /\ req[r].pc = "upstream" /\ Selected(r) \in Provider
  BY RequestType, SelectedIsProvider DEF StartStream, At, RequestsInv, Trying
<1>2. reply \in Replies /\ reply # NoReply
  BY <1>1 DEF Replies, Reasons, Origin, OK, NoReply
<1>3. s \in RequestState
  BY <1>1, <1>2 DEF RequestState
<1>4. /\ s.pc = "write" /\ s.route = req[r].route /\ s.position = req[r].position
      /\ s.tried = req[r].tried /\ s.failure = req[r].failure /\ s.reply = reply
  BY <1>1 DEF RequestState
<1>5. ASSUME req'[r] = s
      PROVE  Placed(r)' /\ Accounted(r)'
  <2>1. Providers(r)' = Providers(r) /\ Selected(r)' = Selected(r)
    BY <1>4, <1>5 DEF StartStream, Providers, Selected
  <2>2. QED
    BY <1>1, <1>2, <1>4, <1>5, <2>1
       DEF StartStream, RequestsInv, Placed, Accounted, At, Trying
<1>6. QED
  BY <1>1, <1>3, <1>4, <1>5, PrivateStepKeeps DEF StartStream

LEMMA StreamMovesKeep ==
  ASSUME RequestsInv, NEW r \in Request, ReadChunk(r) \/ ChunkWritten(r)
  PROVE  RequestsInv'
<1> DEFINE s(pc, sawDone) == [req[r] EXCEPT !.pc = pc, !.sawDone = sawDone]
<1>1. req[r] \in RequestState /\ req[r].pc \in {"stream", "write"}
  BY RequestType DEF ReadChunk, ChunkWritten, At, RequestsInv
<1>2. PICK pc \in {"stream", "write"}, sawDone \in BOOLEAN : Becomes(r, s(pc, sawDone))
  <2>1. [req[r] EXCEPT !.pc = "write"] = s("write", req[r].sawDone)
    BY <1>1 DEF RequestState
  <2>2. req[r].sawDone \in BOOLEAN
    BY <1>1 DEF RequestState
  <2>3. QED
    BY <2>1, <2>2 DEF ReadChunk, ChunkWritten
<1>3. s(pc, sawDone) \in RequestState
  BY <1>1 DEF RequestState
<1>4. /\ s(pc, sawDone).pc = pc /\ s(pc, sawDone).route = req[r].route
      /\ s(pc, sawDone).position = req[r].position /\ s(pc, sawDone).tried = req[r].tried
      /\ s(pc, sawDone).failure = req[r].failure /\ s(pc, sawDone).reply = req[r].reply
  BY <1>1 DEF RequestState
<1>5. UNCHANGED <<config, canceled, faults, cooldownVars>>
  BY DEF ReadChunk, ChunkWritten
<1>6. ASSUME req'[r] = s(pc, sawDone)
      PROVE  Placed(r)' /\ Accounted(r)'
  <2>1. Providers(r)' = Providers(r) /\ Selected(r)' = Selected(r)
    BY <1>4, <1>5, <1>6 DEF Providers, Selected
  <2>2. QED
    BY <1>1, <1>4, <1>5, <1>6, <2>1 DEF RequestsInv, Placed, Accounted, At, Trying
<1> HIDE DEF s
<1>7. QED
  BY <1>1, <1>2, <1>3, <1>4, <1>5, <1>6, PrivateStepKeeps

LEMMA FallbackIsRoute ==
  ASSUME NEW c, Valid(c), NEW m \in RouteNames(c), Fallback(c, m) # NoRoute
  PROVE  Fallback(c, m) \in RouteNames(c) /\ ~LegacyMode(c)
<1>1. ~LegacyMode(c)
  BY DEF Fallback
<1>2. m \in DOMAIN c.routes /\ ValidRoute(c, m)
  BY <1>1 DEF Valid, ValidRoutes, RouteNames
<1>3. QED
  BY <1>1, <1>2 DEF ValidRoute, Fallback, RouteNames

LEMMA FallBackKeeps ==
  ASSUME RequestsInv, NEW r \in Request, FallBack(r)
  PROVE  RequestsInv'
<1> DEFINE s == [req[r] EXCEPT !.pc = "route", !.position = 0,
                               !.route = Fallback(config, req[r].route)]
<1>1. req[r] \in RequestState /\ req[r].pc = "pass"
  BY RequestType DEF FallBack, PassOver, At, RequestsInv
<1>2. Fallback(config, req[r].route) \in RouteNames(config)
  BY <1>1, FallbackIsRoute DEF FallBack, RequestsInv, RoutingTypeOK, Placed, At
<1>3. Fallback(config, req[r].route) \in Routes
  BY <1>2 DEF RequestsInv, RoutingTypeOK, Routes
<1>4. s \in RequestState
  BY <1>1, <1>3 DEF RequestState
<1>5. /\ s.pc = "route" /\ s.route = Fallback(config, req[r].route)
      /\ s.reply = req[r].reply
  BY <1>1 DEF RequestState
<1>6. ASSUME req'[r] = s
      PROVE  Placed(r)' /\ Accounted(r)'
  BY <1>1, <1>2, <1>5, <1>6 DEF FallBack, RequestsInv, Placed, Accounted, At, Trying
<1>7. QED
  BY <1>1, <1>4, <1>5, <1>6, PrivateStepKeeps DEF FallBack

LEMMA ArriveKeeps ==
  ASSUME RequestsInv, NEW r \in Request, NEW call \in Calls, Arrive(r, call)
  PROVE  RequestsInv'
<1> DEFINE s == [Idle EXCEPT !.pc = "route", !.call = call, !.route = RequestedRoute(call)]
<1>1. RequestedRoute(call) \in RouteNames(config) /\ RequestedRoute(call) \in Routes
  BY DEF Arrive, RequestsInv, RoutingTypeOK, Routes
<1>2. s \in RequestState
  BY <1>1 DEF Idle, RequestState, NoFailure, NoReply, Replies, Reasons, Origin
<1>3. s.pc = "route" /\ s.route = RequestedRoute(call) /\ s.reply = NoReply
  BY DEF Idle
<1>4. req[r].pc = "idle"
  BY DEF Arrive, At
<1>5. ASSUME req'[r] = s
      PROVE  Placed(r)' /\ Accounted(r)'
  BY <1>1, <1>3, <1>5 DEF Arrive, Placed, Accounted, At, Trying
<1>6. QED
  BY <1>2, <1>3, <1>4, <1>5, PrivateStepKeeps DEF Arrive

LEMMA CancelKeeps ==
  ASSUME RequestsInv, NEW r \in Request, Cancel(r)
  PROVE  RequestsInv'
<1>1. \A q \in Request : Agrees(q)'
  BY DEF Cancel, RequestsInv, RoutingTypeOK, Agrees, At, cooldownVars, markVars, waitVars
<1>2. ASSUME NEW q \in Request
      PROVE  Placed(q)' /\ Accounted(q)'
  BY DEF Cancel, RequestsInv, Placed, Accounted, At, Providers, Selected
<1>3. QED
  BY <1>1, <1>2 DEF Cancel, RequestsInv, RoutingTypeOK

LEMMA TimePassesKeeps ==
  ASSUME RequestsInv, TimePasses
  PROVE  RequestsInv'
<1>1. UNCHANGED <<config, req, canceled, faults, waiters, marking>>
  BY DEF TimePasses, Tick, routingVars
<1>2. QED
  BY <1>1 DEF RequestsInv, RoutingTypeOK, Agrees, Placed, Accounted, At, Providers, Selected

-----------------------------------------------------------------------------
(* Steps that use the shared cooldowns. *)

LEMMA StreamMarkKeeps ==
  ASSUME RequestsInv, marking \in [Request -> Origin], NEW r \in Request, At(r, "stream"),
         ProviderFault, Becomes(r, [req[r] EXCEPT !.pc = "mark"]), Stamp(r, Selected(r)),
         UNCHANGED <<config, canceled>>
  PROVE  RequestsInv'
<1> DEFINE s == [req[r] EXCEPT !.pc = "mark"]
<1>1. req[r] \in RequestState /\ req[r].pc = "stream" /\ Selected(r) \in Provider
  BY RequestType, SelectedIsProvider DEF At, RequestsInv, Trying
<1>2. s \in RequestState
  BY <1>1 DEF RequestState
<1>3. /\ s.pc = "mark" /\ s.route = req[r].route /\ s.position = req[r].position
      /\ s.tried = req[r].tried /\ s.failure = req[r].failure /\ s.reply = req[r].reply
  BY <1>1 DEF RequestState
<1>4. Local(r)
  BY FaultsStayBounded DEF Stamp, Local, RequestsInv, RoutingTypeOK, waitVars
<1>5. ASSUME req'[r] = s
      PROVE  Agrees(r)' /\ Placed(r)' /\ Accounted(r)'
  <2>1. Agrees(r)'
    BY <1>1, <1>3, <1>5, NoProviderAssumption
       DEF Agrees, Stamp, RequestsInv, RoutingTypeOK, waitVars
  <2>2. Providers(r)' = Providers(r) /\ Selected(r)' = Selected(r)
    BY <1>3, <1>5 DEF Providers, Selected
  <2>3. QED
    BY <1>1, <1>3, <1>5, <2>1, <2>2 DEF RequestsInv, Placed, Accounted, At, Trying
<1>6. QED
  BY <1>2, <1>4, <1>5, LocalStepKeeps

LEMMA BenchAndContinueKeeps ==
  ASSUME RequestsInv, marking \in [Request -> Origin], NEW r \in Request, BenchAndContinue(r)
  PROVE  RequestsInv'
<1> DEFINE s == [req[r] EXCEPT !.pc = "pass", !.position = @ + 1]
<1>1. req[r] \in RequestState /\ req[r].pc = "mark" /\ req[r].reply = NoReply
  BY RequestType DEF BenchAndContinue, At, RequestsInv
<1>2. req[r].position \in Nat /\ req[r].position + 1 \in Nat /\ req[r].position + 1 > 0
  BY <1>1 DEF RequestState
<1>3. s \in RequestState
  BY <1>1, <1>2 DEF RequestState
<1>4. /\ s.pc = "pass" /\ s.route = req[r].route /\ s.position = req[r].position + 1
      /\ s.tried = req[r].tried /\ s.failure = req[r].failure /\ s.reply = NoReply
  BY <1>1 DEF RequestState
<1>5. Local(r)
  BY DEF BenchAndContinue, MarkCooldown, Local, RequestsInv, RoutingTypeOK, waitVars
<1>6. ASSUME req'[r] = s
      PROVE  Agrees(r)' /\ Placed(r)' /\ Accounted(r)'
  <2>1. Agrees(r)'
    BY <1>1, <1>4, <1>6
       DEF Agrees, BenchAndContinue, MarkCooldown, RequestsInv, RoutingTypeOK, waitVars
  <2>2. QED
    BY <1>1, <1>4, <1>2, <1>6, <2>1
       DEF BenchAndContinue, RequestsInv, Placed, Accounted, At, Trying
<1>7. QED
  BY <1>3, <1>5, <1>6, LocalStepKeeps DEF BenchAndContinue

LEMMA StartWaitKeeps ==
  ASSUME RequestsInv, NEW r \in Request, StartWait(r)
  PROVE  RequestsInv'
<1> DEFINE s == [req[r] EXCEPT !.pc = "wait"]
<1>1. req[r] \in RequestState /\ req[r].pc = "pass"
  BY RequestType DEF StartWait, PassOver, At, RequestsInv
<1>2. s \in RequestState
  BY <1>1 DEF RequestState
<1>3. /\ s.pc = "wait" /\ s.route = req[r].route /\ s.position = req[r].position
      /\ s.tried = req[r].tried /\ s.failure = req[r].failure /\ s.reply = req[r].reply
  BY <1>1 DEF RequestState
<1>4. Local(r)
  BY DEF StartWait, BeginWait, Local, RequestsInv, RoutingTypeOK, sharedVars, markVars
<1>5. ASSUME req'[r] = s
      PROVE  Agrees(r)' /\ Placed(r)' /\ Accounted(r)'
  <2>1. Agrees(r)'
    BY <1>1, <1>3, <1>5
       DEF Agrees, StartWait, BeginWait, RequestsInv, RoutingTypeOK, sharedVars, markVars
  <2>2. QED
    BY <1>1, <1>3, <1>5, <2>1 DEF StartWait, RequestsInv, Placed, Accounted, At, Trying
<1>6. QED
  BY <1>2, <1>4, <1>5, LocalStepKeeps DEF StartWait

LEMMA WakeUpKeeps ==
  ASSUME RequestsInv, NEW r \in Request, WakeUp(r)
  PROVE  RequestsInv'
<1> DEFINE s == [req[r] EXCEPT !.pc = "clear"]
<1>1. req[r] \in RequestState /\ req[r].pc = "wait"
  BY RequestType DEF WakeUp, At, RequestsInv
<1>2. s \in RequestState
  BY <1>1 DEF RequestState
<1>3. /\ s.pc = "clear" /\ s.route = req[r].route /\ s.position = req[r].position
      /\ s.tried = req[r].tried /\ s.failure = req[r].failure /\ s.reply = req[r].reply
  BY <1>1 DEF RequestState
<1>4. Local(r)
  BY DEF WakeUp, Local, RequestsInv, RoutingTypeOK, cooldownVars, markVars, waitVars
<1>5. ASSUME req'[r] = s
      PROVE  Agrees(r)' /\ Placed(r)' /\ Accounted(r)'
  <2>1. Agrees(r)'
    BY <1>1, <1>3, <1>5
       DEF Agrees, WakeUp, RequestsInv, RoutingTypeOK, cooldownVars, markVars, waitVars
  <2>2. QED
    BY <1>1, <1>3, <1>5, <2>1 DEF WakeUp, RequestsInv, Placed, Accounted, At, Trying
<1>6. QED
  BY <1>2, <1>4, <1>5, LocalStepKeeps DEF WakeUp

LEMMA ClearKeeps ==
  ASSUME RequestsInv, NEW r \in Request, Clear(r)
  PROVE  RequestsInv'
<1> DEFINE s == [req[r] EXCEPT !.pc = "pass", !.position = 1]
<1>1. req[r] \in RequestState /\ req[r].pc = "clear"
  BY RequestType DEF Clear, At, RequestsInv
<1>2. s \in RequestState
  BY <1>1 DEF RequestState
<1>3. /\ s.pc = "pass" /\ s.route = req[r].route /\ s.position = 1
      /\ s.tried = req[r].tried /\ s.failure = req[r].failure /\ s.reply = req[r].reply
  BY <1>1 DEF RequestState
<1>4. Local(r)
  BY DEF Clear, ClearCooldowns, LeaveWait, Local, RequestsInv, RoutingTypeOK, markVars
<1>5. ASSUME req'[r] = s
      PROVE  Agrees(r)' /\ Placed(r)' /\ Accounted(r)'
  <2>1. Agrees(r)'
    BY <1>1, <1>3, <1>5
       DEF Agrees, Clear, ClearCooldowns, LeaveWait, RequestsInv, RoutingTypeOK, markVars
  <2>2. QED
    BY <1>1, <1>3, <1>5, <2>1 DEF Clear, RequestsInv, Placed, Accounted, At, Trying
<1>6. QED
  BY <1>2, <1>4, <1>5, LocalStepKeeps DEF Clear

-----------------------------------------------------------------------------
(* Steps with which route returns. *)

\* A return that uses nothing of the shared state.
LEMMA PlainReturnKeeps ==
  ASSUME RequestsInv, marking \in [Request -> Origin],
         NEW r \in Request, NEW reply \in Replies, Return(r, reply),
         UNCHANGED <<config, cooldownVars>>, ProviderFault \/ UNCHANGED faults,
         req[r].pc \notin {"wait", "clear", "mark"}
  PROVE  RequestsInv'
<1>1. r \notin waiters /\ marking[r] = NoProvider
  BY DEF RequestsInv, RoutingTypeOK, Agrees
<1>2. QED
  BY <1>1, ReturnKeeps DEF cooldownVars, markVars, waitVars

LEMMA AnswerStatus ==
  ASSUME NEW answer \in Answers
  PROVE  /\ answer.status \in Nat \ {0}
         /\ [answer EXCEPT !.hint = "none"].status = answer.status
         /\ [answer EXCEPT !.hint = "none"].hint = "none"
BY InputAssumption DEF AnswerType

LEMMA NoReplyType == NoReply \in Replies
BY DEF NoReply, Replies, Reasons, Origin

LEMMA RefusalType ==
  ASSUME NEW status \in Nat, NEW why \in Reasons
  PROVE  Refusal(status, why) \in Replies
BY DEF Refusal, Replies, Origin

LEMMA RefusalsKeep ==
  ASSUME RequestsInv, marking \in [Request -> Origin], NEW r \in Request,
         \/ RefuseRequest(r) \/ \E call \in Calls : RefuseModel(r, call)
         \/ RefuseRoute(r) \/ RefuseEncoding(r)
  PROVE  RequestsInv'
<1>1. ASSUME NEW call \in Calls, RefuseModel(r, call)
      PROVE  RequestsInv'
  <2>1. Refusal(400, "bad-model") \in Replies /\ Refusal(404, "unknown-model") \in Replies
    BY RefusalType DEF Reasons
  <2>2. QED
    BY <1>1, <2>1, PlainReturnKeeps DEF RefuseModel, At
<1>2. CASE RefuseRoute(r)
  <2>1. RouteRefusal(r) \in Replies
    BY RefusalType, NoReplyType DEF RouteRefusal, Reasons, BadGateway, Unavailable
  <2>2. QED
    BY <1>2, <2>1, PlainReturnKeeps DEF RefuseRoute, At
<1>3. CASE RefuseEncoding(r)
  <2>1. Refusal(BadGateway, "not-encodable") \in Replies
    BY RefusalType DEF Reasons, BadGateway
  <2>2. QED
    BY <1>3, <2>1, PlainReturnKeeps DEF RefuseEncoding, At
<1>4. CASE RefuseRequest(r)
  <2>1. Refusal(405, "bad-method") \in Replies /\ Refusal(400, "bad-body") \in Replies
    BY RefusalType DEF Reasons
  <2>2. QED
    BY <1>4, <2>1, PlainReturnKeeps DEF RefuseRequest, At
<1>5. QED
  BY <1>1, <1>2, <1>3, <1>4

LEMMA LeaveCanceledKeeps ==
  ASSUME RequestsInv, marking \in [Request -> Origin], NEW r \in Request, LeaveCanceled(r)
  PROVE  RequestsInv'
BY NoReplyType, PlainReturnKeeps DEF LeaveCanceled, InPass, At

LEMMA GiveUpKeeps ==
  ASSUME RequestsInv, marking \in [Request -> Origin], NEW r \in Request, GiveUp(r)
  PROVE  RequestsInv'
<1>1. req[r].failure \in [status : Nat, from : Origin]
  BY RequestType DEF RequestsInv, RequestState
<1>2. RouteFailure(req[r].failure) \in Replies
  <2>1. Refusal(Unavailable, "all-unavailable") \in Replies
    BY RefusalType DEF Reasons, Unavailable
  <2>2. QED
    BY <1>1, <2>1 DEF RouteFailure, Replies, Reasons
<1>3. QED
  BY <1>2, PlainReturnKeeps DEF GiveUp, PassOver, At

LEMMA BenchAndReturnKeeps ==
  ASSUME RequestsInv, marking \in [Request -> Origin], NEW r \in Request, BenchAndReturn(r)
  PROVE  RequestsInv'
<1>1. req[r].reply \in Replies
  BY RequestType DEF RequestsInv, RequestState
<1>2. r \notin waiters
  BY DEF BenchAndReturn, RequestsInv, RoutingTypeOK, Agrees, At
<1>3. QED
  BY <1>1, <1>2, ReturnKeeps DEF BenchAndReturn, MarkCooldown, waitVars

LEMMA WakeCanceledKeeps ==
  ASSUME RequestsInv, marking \in [Request -> Origin], NEW r \in Request, WakeCanceled(r)
  PROVE  RequestsInv'
<1>1. marking[r] = NoProvider
  BY DEF WakeCanceled, RequestsInv, RoutingTypeOK, Agrees, At
<1>2. QED
  BY <1>1, NoReplyType, ReturnKeeps
     DEF WakeCanceled, CancelWait, LeaveWait, markVars

-----------------------------------------------------------------------------
(* Steps in which the upstream is heard of. *)

LEMMA ConnectionErrorCounts ==
  ASSUME NEW r \in Request, ConnectionError(r)
  PROVE  /\ ProviderFault \/ UNCHANGED faults
         /\ r \notin canceled => ProviderFault
BY DEF ConnectionError

LEMMA DoFailsKeeps ==
  ASSUME RequestsInv, marking \in [Request -> Origin], NEW r \in Request, DoFails(r)
  PROVE  RequestsInv'
<1>1. CASE Return(r, NoReply) /\ UNCHANGED <<config, cooldownVars>>
  BY <1>1, NoReplyType, PlainReturnKeeps, ConnectionErrorCounts DEF DoFails, Doing, At
<1>2. CASE FailOver(r, BadGateway)
  BY <1>2, FailOverKeeps, ConnectionErrorCounts DEF DoFails, Doing, At, BadGateway
<1>3. QED
  BY <1>1, <1>2 DEF DoFails

LEMMA FailoverStatusKeeps ==
  ASSUME RequestsInv, marking \in [Request -> Origin], NEW r \in Request,
         NEW answer \in Answers, FailoverStatus(r, answer)
  PROVE  RequestsInv'
BY AnswerStatus, FailOverKeeps DEF FailoverStatus, At

LEMMA SettleKeeps ==
  ASSUME RequestsInv, marking \in [Request -> Origin], NEW r \in Request, At(r, "body"),
         NEW answer, answer.status \in Nat \ {0}, NEW why, Settle(r, answer, why),
         Category(req[r].call.endpoint, answer) \in Relayed => why \in Relayed \cup {"partial"}
  PROVE  RequestsInv'
<1>1. CASE Category(req[r].call.endpoint, answer) \in Relayed
  <2> DEFINE reply == [status |-> answer.status, why |-> why, from |-> Selected(r)]
             s == [req[r] EXCEPT !.pc = "relay", !.answer = NoAnswer, !.reply = reply]
  <2>1. req[r] \in RequestState /\ req[r].pc = "body" /\ Selected(r) \in Provider
    BY RequestType, SelectedIsProvider DEF RequestsInv, At, Trying
  <2>2. reply \in Replies /\ reply # NoReply
    BY <1>1, <2>1 DEF Replies, Reasons, Origin, NoReply
  <2>3. s \in RequestState
    BY <2>1, <2>2 DEF RequestState
  <2>4. s.pc = "relay" /\ s.route = req[r].route /\ s.reply = reply
    BY <2>1 DEF RequestState
  <2>5. Becomes(r, s) /\ UNCHANGED <<config, canceled, cooldownVars, faults>>
    BY <1>1 DEF Settle
  <2>6. ASSUME req'[r] = s
        PROVE  Placed(r)' /\ Accounted(r)'
    BY <2>1, <2>2, <2>4, <2>5, <2>6 DEF RequestsInv, Placed, Accounted, At, Trying
  <2> HIDE DEF s
  <2>7. QED
    BY <2>1, <2>3, <2>4, <2>5, <2>6, PrivateStepKeeps
<1>2. CASE Category(req[r].call.endpoint, answer) \notin Relayed
  BY <1>2, FailOverKeeps DEF Settle, At
<1>3. QED
  BY <1>1, <1>2

LEMMA BodyEndsKeeps ==
  ASSUME RequestsInv, marking \in [Request -> Origin], NEW r \in Request, BodyEnds(r)
  PROVE  RequestsInv'
<1>1. At(r, "body") /\ req[r].answer \in Answers
  BY DEF BodyEnds, BodyRead, ErrorBodyFails, BodyFails, RequestsInv, Placed
<1>2. CASE BodyRead(r)
  BY <1>1, <1>2, AnswerStatus, SettleKeeps DEF BodyRead
<1>3. CASE ErrorBodyFails(r)
  <2>1. [req[r].answer EXCEPT !.hint = "none"].status \in Nat \ {0}
    BY <1>1, AnswerStatus
  <2>2. QED
    BY <1>1, <1>3, <2>1, SettleKeeps DEF ErrorBodyFails
<1>4. CASE BodyFails(r)
  <2>1. CASE Return(r, NoReply) /\ UNCHANGED <<config, cooldownVars>>
    BY <1>4, <2>1, NoReplyType, PlainReturnKeeps, ConnectionErrorCounts DEF BodyFails, At
  <2>2. CASE FailOver(r, BadGateway)
    BY <1>4, <2>2, FailOverKeeps, ConnectionErrorCounts DEF BodyFails, At, BadGateway
  <2>3. QED
    BY <1>4, <2>1, <2>2 DEF BodyFails
<1>5. QED
  BY <1>2, <1>3, <1>4 DEF BodyEnds

LEMMA StreamStepKeeps ==
  ASSUME RequestsInv, marking \in [Request -> Origin], NEW r \in Request,
         StreamStep(r) \/ WriteReturns(r)
  PROVE  RequestsInv'
<1>1. CASE ReadChunk(r) \/ ChunkWritten(r)
  BY <1>1, StreamMovesKeep
<1>2. SUFFICES ASSUME AnswerWritten(r) \/ WriteFails(r) \/ StreamEnds(r) \/ StreamBreaks(r)
               PROVE  RequestsInv'
  BY <1>1 DEF StreamStep, WriteReturns
<1>3. req[r].pc \in {"stream", "write", "relay"} /\ req[r].reply \in Replies
  BY <1>2, RequestType
     DEF AnswerWritten, WriteFails, StreamEnds, StreamBreaks, RequestsInv, RequestState, At
<1>4. CASE Return(r, req[r].reply) /\ UNCHANGED <<config, cooldownVars>>
           /\ (ProviderFault \/ UNCHANGED faults)
  BY <1>3, <1>4, PlainReturnKeeps
<1>5. CASE /\ At(r, "stream")
           /\ ProviderFault
           /\ Becomes(r, [req[r] EXCEPT !.pc = "mark"])
           /\ Stamp(r, Selected(r))
           /\ UNCHANGED <<config, canceled>>
  BY <1>5, StreamMarkKeeps
<1>6. QED
  BY <1>2, <1>4, <1>5, ConnectionErrorCounts
     DEF AnswerWritten, WriteFails, StreamEnds, StreamBreaks

LEMMA RequestsInvKept ==
  ASSUME RequestsInv, CooldownTypeOK, [RoutingNext]_vars
  PROVE  RequestsInv'
<1> marking \in [Request -> Origin] /\ providerVersion \in [Provider -> Nat]
  BY DEF CooldownTypeOK, Origin
<1>1. ASSUME NEW r \in Request, ClientStep(r)
      PROVE  RequestsInv'
  BY <1>1, ArriveKeeps, RefusalsKeep, CancelKeeps DEF ClientStep
<1>2. ASSUME NEW r \in Request, ProxyStep(r)
      PROVE  RequestsInv'
  BY <1>2, EnterRouteKeeps, RefusalsKeep, LeaveCanceledKeeps, SkipCoolingKeeps, SelectKeeps,
     BenchAndContinueKeeps, BenchAndReturnKeeps, FallBackKeeps, GiveUpKeeps, StartWaitKeeps,
     WakeUpKeeps, ClearKeeps, WakeCanceledKeeps
     DEF ProxyStep
<1>3. ASSUME NEW r \in Request, DoReturns(r)
      PROVE  RequestsInv'
  BY <1>3, DoFailsKeeps, FailoverStatusKeeps, AwaitBodyKeeps, StartStreamKeeps DEF DoReturns
<1>4. CASE UNCHANGED vars
  BY <1>4 DEF vars, routingVars, cooldownVars, markVars, waitVars, RequestsInv, RoutingTypeOK,
     Agrees, Placed, Accounted, At, Providers, Selected
<1>5. QED
  BY <1>1, <1>2, <1>3, <1>4, TimePassesKeeps, AttemptKeeps, BodyEndsKeeps, StreamStepKeeps
     DEF RoutingNext

-----------------------------------------------------------------------------
(* Each step of the routing is one of the shared cooldowns, or leaves them *)
(* alone.                                                                  *)

LEMMA ProxyStepIsCooldownStep ==
  ASSUME NEW r \in Request, ProxyStep(r)
  PROVE  [CooldownNext]_cooldownVars
<1> USE DEF CooldownNext, RequestStep
<1>1. CASE EnterRoute(r) \/ RefuseRoute(r) \/ LeaveCanceled(r)
  BY <1>1 DEF EnterRoute, RefuseRoute, LeaveCanceled
<1>2. CASE SkipCooling(r) \/ Select(r) \/ RefuseEncoding(r)
  BY <1>2 DEF SkipCooling, Select, RefuseEncoding
<1>3. CASE BenchAndContinue(r) \/ BenchAndReturn(r)
  BY <1>3 DEF BenchAndContinue, BenchAndReturn
<1>4. CASE FallBack(r) \/ GiveUp(r)
  BY <1>4 DEF FallBack, GiveUp
<1>5. CASE StartWait(r) \/ WakeUp(r) \/ Clear(r) \/ WakeCanceled(r)
  BY <1>5 DEF StartWait, WakeUp, Clear, WakeCanceled
<1>6. QED
  BY <1>1, <1>2, <1>3, <1>4, <1>5 DEF ProxyStep

LEMMA UpstreamStepIsCooldownStep ==
  ASSUME RequestsInv, NEW r \in Request,
         DoReturns(r) \/ BodyEnds(r) \/ StreamStep(r) \/ WriteReturns(r)
  PROVE  [CooldownNext]_cooldownVars
<1>1. SUFFICES ASSUME ~UNCHANGED cooldownVars
               PROVE  req[r].pc \in Trying /\ Stamp(r, Selected(r))
  BY SelectedIsProvider DEF RequestsInv, CooldownNext, RequestStep
<1>2. CASE DoReturns(r)
  BY <1>1, <1>2
     DEF DoReturns, DoFails, Doing, FailoverStatus, AwaitBody, StartStream, FailOver, At, Trying
<1>3. CASE BodyEnds(r)
  BY <1>1, <1>3 DEF BodyEnds, BodyRead, ErrorBodyFails, BodyFails, Settle, FailOver, At, Trying
<1>4. CASE StreamStep(r) \/ WriteReturns(r)
  BY <1>1, <1>4
     DEF StreamStep, ReadChunk, StreamEnds, StreamBreaks, WriteReturns, AnswerWritten,
         ChunkWritten, WriteFails, At, Trying
<1>5. QED
  BY <1>2, <1>3, <1>4

LEMMA RoutingStepIsCooldownStep ==
  ASSUME RequestsInv, [RoutingNext]_vars
  PROVE  [CooldownNext]_cooldownVars
<1>1. CASE TimePasses
  BY <1>1 DEF TimePasses, CooldownNext
<1>2. ASSUME NEW r \in Request, ClientStep(r)
      PROVE  UNCHANGED cooldownVars
  BY <1>2 DEF ClientStep, RefuseRequest, Arrive, RefuseModel, Cancel
<1>3. CASE UNCHANGED vars
  BY <1>3 DEF vars
<1>4. ASSUME NEW r \in Request, Attempt(r)
      PROVE  UNCHANGED cooldownVars
  BY <1>4 DEF Attempt
<1>5. QED
  BY <1>1, <1>2, <1>3, <1>4, ProxyStepIsCooldownStep, UpstreamStepIsCooldownStep
     DEF RoutingNext

\* What the requests do to the shared state, and the invariants of both.
LEMMA SharedInvariant == RoutingSpec => [](RequestsInv /\ CooldownInv)
<1>1. RoutingInit => RequestsInv /\ CooldownInv
  BY RoutingInitType, InitEstablishesInv DEF RoutingInit
<1>2. RequestsInv /\ CooldownInv /\ [RoutingNext]_vars => (RequestsInv /\ CooldownInv)'
  <2> SUFFICES ASSUME RequestsInv, CooldownInv, [RoutingNext]_vars
               PROVE  RequestsInv' /\ CooldownInv'
    OBVIOUS
  <2>1. CooldownTypeOK
    BY DEF CooldownInv
  <2>2. RequestsInv'
    BY <2>1, RequestsInvKept
  <2>3. CooldownInv'
    BY RoutingStepIsCooldownStep, NextKeepsInv
  <2>4. QED
    BY <2>2, <2>3
<1>3. QED
  BY <1>1, <1>2, PTL DEF RoutingSpec

\* The requests use the shared cooldowns only as Cooldown says, in spite of
\* everything that happens between reading an answer and benching a provider.
THEOREM RoutingImplementsCooldown == RoutingSpec => CooldownSpec
<1>1. RoutingInit => CooldownInit
  BY DEF RoutingInit
<1>2. RequestsInv /\ [RoutingNext]_vars => [CooldownNext]_cooldownVars
  BY RoutingStepIsCooldownStep
<1>3. QED
  BY <1>1, <1>2, SharedInvariant, PTL DEF RoutingSpec, CooldownSpec

-----------------------------------------------------------------------------
(* What a step does to the requests. *)

Step(r) ==
    \/ ClientStep(r) \/ ProxyStep(r) \/ Attempt(r) \/ DoReturns(r)
    \/ BodyEnds(r) \/ StreamStep(r) \/ WriteReturns(r)

LEMMA NextIsStep ==
  ASSUME [RoutingNext]_vars
  PROVE  (\E r \in Request : Step(r)) \/ TimePasses \/ UNCHANGED vars
BY DEF RoutingNext, Step

LEMMA OthersUntouched ==
  ASSUME RequestsInv, NEW r \in Request, Step(r)
  PROVE  \A q \in Request \ {r} : req'[q] = req[q]
<1>1. ASSUME NEW s, Becomes(r, s)
      PROVE  \A q \in Request \ {r} : req'[q] = req[q]
  BY <1>1 DEF Becomes, RequestsInv, RoutingTypeOK
<1>2. ASSUME NEW reply, Return(r, reply)
      PROVE  \A q \in Request \ {r} : req'[q] = req[q]
  BY <1>1, <1>2 DEF Return
<1>3. CASE ClientStep(r)
  BY <1>1, <1>2, <1>3 DEF ClientStep, RefuseRequest, Arrive, RefuseModel, Cancel
<1>4. CASE ProxyStep(r)
  BY <1>1, <1>2, <1>4
     DEF ProxyStep, EnterRoute, RefuseRoute, LeaveCanceled, SkipCooling, Select,
         RefuseEncoding, BenchAndContinue, BenchAndReturn, FallBack, GiveUp, StartWait,
         WakeUp, Clear, WakeCanceled
<1>5. CASE DoReturns(r)
  BY <1>1, <1>2, <1>5
     DEF DoReturns, DoFails, FailoverStatus, AwaitBody, StartStream, FailOver
<1>6. CASE BodyEnds(r)
  BY <1>1, <1>2, <1>6
     DEF BodyEnds, BodyRead, ErrorBodyFails, BodyFails, Settle, FailOver
<1>7. CASE StreamStep(r) \/ WriteReturns(r)
  BY <1>1, <1>2, <1>7
     DEF StreamStep, ReadChunk, StreamEnds, StreamBreaks, WriteReturns, AnswerWritten,
         ChunkWritten, WriteFails
<1>8. CASE Attempt(r)
  BY <1>1, <1>8 DEF Attempt
<1>9. QED
  BY <1>3, <1>4, <1>5, <1>6, <1>7, <1>8 DEF Step

LEMMA StepKeepsConfig ==
  ASSUME NEW r \in Request, Step(r)
  PROVE  config' = config
<1>1. CASE ClientStep(r) \/ Attempt(r)
  BY <1>1 DEF ClientStep, RefuseRequest, Arrive, RefuseModel, Cancel, Attempt
<1>2. CASE ProxyStep(r)
  BY <1>2 DEF ProxyStep, EnterRoute, RefuseRoute, LeaveCanceled, SkipCooling, Select,
     RefuseEncoding, BenchAndContinue, BenchAndReturn, FallBack, GiveUp, StartWait, WakeUp,
     Clear, WakeCanceled
<1>3. CASE DoReturns(r)
  BY <1>3 DEF DoReturns, DoFails, FailoverStatus, AwaitBody, StartStream, FailOver
<1>4. CASE BodyEnds(r)
  BY <1>4 DEF BodyEnds, BodyRead, ErrorBodyFails, BodyFails, Settle, FailOver
<1>5. CASE StreamStep(r) \/ WriteReturns(r)
  BY <1>5 DEF StreamStep, ReadChunk, StreamEnds, StreamBreaks, WriteReturns, AnswerWritten,
     ChunkWritten, WriteFails
<1>6. QED
  BY <1>1, <1>2, <1>3, <1>4, <1>5 DEF Step

LEMMA BecomesShape ==
  ASSUME RequestsInv, NEW r \in Request, NEW s, Becomes(r, s)
  PROVE  req'[r] = s
BY DEF Becomes, RequestsInv, RoutingTypeOK

LEMMA ReturnShape ==
  ASSUME RequestsInv, NEW r \in Request, NEW reply, Return(r, reply)
  PROVE  req'[r].pc = "idle" /\ req'[r].reply = reply
<1>1. req'[r] = [Idle EXCEPT !.reply = reply]
  BY BecomesShape DEF Return
<1>2. QED
  BY <1>1 DEF Idle

\* Where a request has got to tells which step has taken it there.
LEMMA StepMoves ==
  ASSUME RequestsInv, NEW r \in Request, Step(r), req'[r] # req[r]
  PROVE  /\ At(r, "send")' => Select(r)
         /\ At(r, "upstream")' => Attempt(r)
         /\ At(r, "body")' => \E answer \in Answers : AwaitBody(r, answer)
         /\ At(r, "clear")' => WakeUp(r)
         /\ At(r, "idle")' => \E reply : Return(r, reply)
<1> DEFINE Elsewhere == req'[r].pc \in {"route", "pass", "stream", "write", "relay", "mark", "wait"}
           Returns == (\E reply : Return(r, reply)) /\ req'[r].pc = "idle"
<1>1. req[r] \in RequestState
  BY RequestType DEF RequestsInv
<1>2. ASSUME NEW reply, Return(r, reply)
      PROVE  Returns
  BY <1>2, ReturnShape
<1>3. ASSUME NEW call \in Calls, Arrive(r, call)
      PROVE  Elsewhere
  <2>1. req'[r] = [Idle EXCEPT !.pc = "route", !.call = call, !.route = RequestedRoute(call)]
    BY <1>3, BecomesShape DEF Arrive
  <2>2. QED
    BY <2>1 DEF Idle
<1>4. ASSUME EnterRoute(r)
      PROVE  Elsewhere
  <2> DEFINE s == [req[r] EXCEPT !.pc = "pass", !.position = 1,
                                 !.visited = @ \cup {req[r].route},
                                 !.tried = {}, !.failure = NoFailure]
  <2>1. s.pc = "pass"
    BY <1>1 DEF RequestState
  <2>2. req'[r] = s
    BY <1>4, BecomesShape DEF EnterRoute
  <2>3. QED
    BY <2>1, <2>2
<1>5. ASSUME SkipCooling(r)
      PROVE  Elsewhere
  BY <1>1, <1>5, BecomesShape DEF SkipCooling, InPass, At, RequestState
<1>6. ASSUME BenchAndContinue(r) \/ Clear(r)
      PROVE  Elsewhere
  <2> DEFINE s(position) == [req[r] EXCEPT !.pc = "pass", !.position = position]
  <2>1. \A position : s(position).pc = "pass"
    BY <1>1 DEF RequestState
  <2>2. req'[r] = s(req[r].position + 1) \/ req'[r] = s(1)
    BY <1>6, BecomesShape DEF BenchAndContinue, Clear
  <2>3. QED
    BY <2>1, <2>2
<1>7. ASSUME FallBack(r)
      PROVE  Elsewhere
  <2> DEFINE s == [req[r] EXCEPT !.pc = "route", !.position = 0,
                                 !.route = Fallback(config, req[r].route)]
  <2>1. s.pc = "route"
    BY <1>1 DEF RequestState
  <2>2. req'[r] = s
    BY <1>7, BecomesShape DEF FallBack
  <2>3. QED
    BY <2>1, <2>2
<1>8. ASSUME NEW status, FailOver(r, status)
      PROVE  Elsewhere
  <2> DEFINE s == [req[r] EXCEPT !.pc = "mark", !.seen = 0, !.answer = NoAnswer,
                      !.failure = [status |-> status, from |-> Selected(r)]]
  <2>1. s.pc = "mark"
    BY <1>1 DEF RequestState
  <2>2. req'[r] = s
    BY <1>8, BecomesShape DEF FailOver
  <2>3. QED
    BY <2>1, <2>2
<1>9. ASSUME NEW pc \in {"write", "mark", "wait"}, Becomes(r, [req[r] EXCEPT !.pc = pc])
      PROVE  Elsewhere
  BY <1>1, <1>9, BecomesShape DEF RequestState
<1>10. ASSUME NEW pc \in {"write", "relay"}, NEW answer, NEW reply,
              Becomes(r, [req[r] EXCEPT !.pc = pc, !.answer = answer, !.reply = reply])
              \/ Becomes(r, [req[r] EXCEPT !.pc = pc, !.reply = reply])
       PROVE  Elsewhere
  <2> DEFINE s == [req[r] EXCEPT !.pc = pc, !.answer = answer, !.reply = reply]
             t == [req[r] EXCEPT !.pc = pc, !.reply = reply]
  <2>1. s.pc = pc /\ t.pc = pc
    BY <1>1 DEF RequestState
  <2>2. req'[r] = s \/ req'[r] = t
    BY <1>10, BecomesShape
  <2>3. QED
    BY <2>1, <2>2
<1>11. ASSUME ChunkWritten(r)
       PROVE  Elsewhere
  <2> DEFINE s(sawDone) == [req[r] EXCEPT !.pc = "stream", !.sawDone = sawDone]
  <2>1. \A sawDone : s(sawDone).pc = "stream"
    BY <1>1 DEF RequestState
  <2>2. \E sawDone : req'[r] = s(sawDone)
    BY <1>11, BecomesShape DEF ChunkWritten
  <2>3. QED
    BY <2>1, <2>2
<1>12. ASSUME Select(r)
       PROVE  req'[r].pc = "send"
  <2> DEFINE s == [req[r] EXCEPT !.pc = "send", !.tried = @ \cup {Selected(r)},
                      !.seen = providerVersion[Selected(r)]]
  <2>1. s.pc = "send"
    BY <1>1 DEF RequestState
  <2>2. req'[r] = s
    BY <1>12, BecomesShape DEF Select
  <2>3. QED
    BY <2>1, <2>2
<1>13. ASSUME Attempt(r)
       PROVE  req'[r].pc = "upstream"
  <2> DEFINE s == [req[r] EXCEPT !.pc = "upstream", !.seen = 0]
  <2>1. s.pc = "upstream"
    BY <1>1 DEF RequestState
  <2>2. req'[r] = s
    BY <1>13, BecomesShape DEF Attempt
  <2>3. QED
    BY <2>1, <2>2
<1>14. ASSUME NEW answer, AwaitBody(r, answer)
       PROVE  req'[r].pc = "body"
  <2> DEFINE s == [req[r] EXCEPT !.pc = "body", !.answer = answer]
  <2>1. s.pc = "body"
    BY <1>1 DEF RequestState
  <2>2. req'[r] = s
    BY <1>14, BecomesShape DEF AwaitBody
  <2>3. QED
    BY <2>1, <2>2
<1>15. ASSUME WakeUp(r)
       PROVE  req'[r].pc = "clear"
  BY <1>1, <1>15, BecomesShape DEF WakeUp, RequestState
<1>16. CASE ClientStep(r)
  <2>1. Elsewhere \/ Returns
    BY <1>2, <1>3, <1>16 DEF ClientStep, RefuseRequest, RefuseModel, Cancel
  <2>2. QED
    BY <2>1 DEF At
<1>17. CASE ProxyStep(r)
  <2>1. Elsewhere \/ Returns \/ Select(r) \/ WakeUp(r)
    BY <1>2, <1>4, <1>5, <1>6, <1>7, <1>9, <1>17
       DEF ProxyStep, RefuseRoute, LeaveCanceled, RefuseEncoding, BenchAndReturn, GiveUp,
           StartWait, WakeCanceled
  <2>2. QED
    BY <1>12, <1>15, <2>1 DEF At
<1>18. CASE DoReturns(r)
  <2>1. Elsewhere \/ Returns \/ \E answer \in Answers : AwaitBody(r, answer)
    BY <1>2, <1>8, <1>10, <1>18 DEF DoReturns, DoFails, FailoverStatus, StartStream
  <2>2. QED
    BY <1>14, <2>1 DEF At
<1>19. CASE BodyEnds(r)
  <2>1. Elsewhere \/ Returns
    BY <1>2, <1>8, <1>10, <1>19 DEF BodyEnds, BodyRead, ErrorBodyFails, BodyFails, Settle
  <2>2. QED
    BY <2>1 DEF At
<1>20. CASE StreamStep(r) \/ WriteReturns(r)
  <2>1. Elsewhere \/ Returns
    BY <1>2, <1>9, <1>11, <1>20
       DEF StreamStep, ReadChunk, StreamEnds, StreamBreaks, WriteReturns, AnswerWritten,
           WriteFails
  <2>2. QED
    BY <2>1 DEF At
<1>21. CASE Attempt(r)
  BY <1>13, <1>21 DEF At
<1>22. QED
  BY <1>16, <1>17, <1>18, <1>19, <1>20, <1>21 DEF Step

-----------------------------------------------------------------------------
(* What a request's check of a provider is worth once the lock is let go.  *)

\* Nobody comes to owe time without getting a new version.
LEMMA NewDebtNewVersion ==
  ASSUME CooldownInv, [CooldownNext]_cooldownVars, NEW p \in Provider
  PROVE  /\ providerVersion[p] <= providerVersion'[p]
         /\ providerVersion'[p] = providerVersion[p] => owed'[p] <= owed[p]
<1> USE DEF CooldownInv, CooldownTypeOK
<1>1. CASE Tick
  BY <1>1 DEF Tick, Elapse, Larger
<1>2. ASSUME NEW r \in Request, RequestStep(r)
      PROVE  /\ providerVersion[p] <= providerVersion'[p]
             /\ providerVersion'[p] = providerVersion[p] => owed'[p] <= owed[p]
  <2>1. CASE MarkCooldown(r)
    <3>1. CASE p = marking[r]
      BY <2>1, <3>1 DEF MarkCooldown, NextVersion
    <3>2. CASE p # marking[r]
      BY <2>1, <3>2 DEF MarkCooldown
    <3>3. QED
      BY <3>1, <3>2
  <2>2. CASE ~MarkCooldown(r)
    BY <1>2, <2>2 DEF RequestStep, Stamp, BeginWait, ClearCooldowns, CancelWait, sharedVars
  <2>3. QED
    BY <2>1, <2>2
<1>3. CASE UNCHANGED cooldownVars
  BY <1>3 DEF cooldownVars, sharedVars
<1>4. QED
  BY <1>1, <1>2, <1>3 DEF CooldownNext

LEMMA SelectChecks ==
  ASSUME RequestsInv, CooldownInv, NEW r \in Request, Select(r)
  PROVE  Checked(r)'
<1> DEFINE p == Selected(r)
           s == [req[r] EXCEPT !.pc = "send", !.tried = @ \cup {Selected(r)},
                    !.seen = providerVersion[Selected(r)]]
<1>1. req[r] \in RequestState
  BY RequestType DEF RequestsInv
<1>2. s.seen = providerVersion[p] /\ s.route = req[r].route /\ s.position = req[r].position
  BY <1>1 DEF RequestState
<1>3. req'[r] = s /\ UNCHANGED <<config, providerVersion, owed>>
  BY BecomesShape DEF Select, cooldownVars, sharedVars
<1>4. Selected(r)' = p
  BY <1>2, <1>3 DEF Selected, Providers
<1>5. p \in Provider
  <2>1. Providers(r) \in Seq(Provider)
    BY ProvidersOfRoute DEF Select, RequestsInv, Placed, InPass, At
  <2>2. req[r].position \in 1 .. Len(Providers(r))
    BY <1>1, <2>1 DEF RequestsInv, Placed, Select, InPass, At, RequestState
  <2>3. QED
    BY <2>1, <2>2 DEF Selected
<1>6. owed[p] = 0 /\ providerVersion[p] \in Nat
  BY <1>5 DEF Select, Available, CooldownInv, CooldownTypeOK
<1>7. QED
  BY <1>2, <1>3, <1>4, <1>6 DEF Checked

LEMMA NextKeepsChecked ==
  ASSUME RequestsInv, CooldownInv, CooldownInv', [RoutingNext]_vars,
         NEW r \in Request, Checked(r)
  PROVE  Checked(r)'
<1>1. CASE req'[r] = req[r] /\ At(r, "send")
  <2>1. config' = config
    BY NextIsStep, StepKeepsConfig DEF TimePasses, vars, routingVars
  <2>2. Selected(r)' = Selected(r) /\ Selected(r) \in Provider
    BY <1>1, <2>1, SelectedIsProvider DEF Selected, Providers, RequestsInv, At, Trying
  <2>3. /\ providerVersion[Selected(r)] <= providerVersion'[Selected(r)]
        /\ providerVersion'[Selected(r)] = providerVersion[Selected(r)]
              => owed'[Selected(r)] <= owed[Selected(r)]
    BY <2>2, RoutingStepIsCooldownStep, NewDebtNewVersion
  <2>4. req[r].seen \in Nat
    BY RequestType DEF RequestsInv, RequestState
  <2>5. /\ providerVersion[Selected(r)] \in Nat /\ providerVersion'[Selected(r)] \in Nat
        /\ owed[Selected(r)] \in Nat /\ owed'[Selected(r)] \in Nat
    BY <2>2, DurationAssumption DEF CooldownInv, CooldownTypeOK
  <2>6. QED
    BY <1>1, <2>2, <2>3, <2>4, <2>5 DEF Checked
<1>2. CASE req'[r] = req[r] /\ ~At(r, "send")
  BY <1>2 DEF Checked, At
<1>3. CASE req'[r] # req[r]
  <2>1. Step(r)
    BY <1>3, NextIsStep, OthersUntouched DEF TimePasses, vars, routingVars
  <2>2. At(r, "send")' => Select(r)
    BY <1>3, <2>1, StepMoves
  <2>3. QED
    BY <2>2, SelectChecks DEF Checked
<1>4. QED
  BY <1>1, <1>2, <1>3

LEMMA CheckedInvariant == RoutingSpec => [](\A r \in Request : Checked(r))
<1>1. RoutingInit => \A r \in Request : Checked(r)
  BY DEF RoutingInit, Checked, At, Idle
<1>2. RequestsInv /\ CooldownInv /\ CooldownInv' /\ (\A r \in Request : Checked(r))
         /\ [RoutingNext]_vars => (\A r \in Request : Checked(r))'
  BY NextKeepsChecked
<1>3. QED
  BY <1>1, <1>2, SharedInvariant, PTL DEF RoutingSpec

\* A request makes for a provider that still owes time only if the failure that it
\* owes it for was reported after the request had found it available, whatever
\* other requests clear, bench and wait for.
THEOREM AttemptsRespectBenchHolds == RoutingSpec => []AttemptsRespectBench
<1>1. RequestsInv /\ CooldownInv /\ (\A r \in Request : Checked(r)) => AttemptsRespectBench
  <2> SUFFICES ASSUME RequestsInv, CooldownInv, NEW r \in Request, Checked(r),
                      At(r, "send"), owed[Selected(r)] > 0
               PROVE  providerVersion[Selected(r)] > req[r].seen
    BY DEF AttemptsRespectBench
  <2>1. Selected(r) \in Provider
    BY SelectedIsProvider DEF RequestsInv, At, Trying
  <2>2. providerVersion[Selected(r)] \in Nat /\ req[r].seen \in Nat
    BY <2>1, RequestType DEF CooldownInv, CooldownTypeOK, RequestsInv, RequestState
  <2>3. QED
    BY <2>2 DEF Checked
<1>2. QED
  BY <1>1, SharedInvariant, CheckedInvariant, PTL

\* Only the end of a Recovery Wait brings a provider back in a step of a request.
LEMMA OnlyClearBringsBack ==
  ASSUME RequestsInv, CooldownInv, NEW r \in Request, Step(r),
         NEW p \in Provider, ~Available(p), Available(p)'
  PROVE  Clear(r)
<1>1. cooldownLeft[p] \in Nat /\ cooldownLeft'[p] # cooldownLeft[p]
  BY DurationAssumption DEF Available, CooldownInv, CooldownTypeOK
<1>2. ~UNCHANGED cooldownVars /\ ~UNCHANGED sharedVars
  BY <1>1 DEF cooldownVars, sharedVars
<1>3. ~MarkCooldown(r)
  <2>1. SUFFICES ASSUME MarkCooldown(r)
                 PROVE  FALSE
    OBVIOUS
  <2>2. CASE p = marking[r]
    <3>1. markLeft[r] \in Nat
      BY DurationAssumption DEF CooldownInv, CooldownTypeOK
    <3>2. cooldownLeft'[p] = Larger(cooldownLeft[p], markLeft[r])
      BY <2>1, <2>2 DEF MarkCooldown, Extended, CooldownInv, CooldownTypeOK
    <3>3. QED
      BY <1>1, <3>1, <3>2 DEF Available, Larger
  <2>3. CASE p # marking[r]
    BY <1>1, <2>1, <2>3 DEF MarkCooldown, CooldownInv, CooldownTypeOK
  <2>4. QED
    BY <2>2, <2>3
<1>4. ~ClientStep(r) /\ ~Attempt(r)
  BY <1>2 DEF ClientStep, RefuseRequest, Arrive, RefuseModel, Cancel, Attempt
<1>5. ~\E q : Stamp(r, q)
  BY <1>2 DEF Stamp
<1>6. ~DoReturns(r) /\ ~BodyEnds(r)
  BY <1>2, <1>5
     DEF DoReturns, DoFails, FailoverStatus, AwaitBody, StartStream, FailOver,
         BodyEnds, BodyRead, ErrorBodyFails, BodyFails, Settle
<1>7. ~StreamStep(r) /\ ~WriteReturns(r)
  BY <1>2, <1>5
     DEF StreamStep, ReadChunk, StreamEnds, StreamBreaks, WriteReturns, AnswerWritten,
         ChunkWritten, WriteFails
<1>8. ProxyStep(r) => Clear(r)
  BY <1>2, <1>3
     DEF ProxyStep, EnterRoute, RefuseRoute, LeaveCanceled, SkipCooling, Select,
         RefuseEncoding, BenchAndContinue, BenchAndReturn, FallBack, GiveUp, StartWait,
         BeginWait, WakeUp, WakeCanceled, CancelWait
<1>9. QED
  BY <1>4, <1>6, <1>7, <1>8 DEF Step

\* Clients that give up their Recovery Waits bring nobody back, so that they undo
\* no cooldown of others.
THEOREM CanceledWaitsClearNothingHolds == RoutingSpec => CanceledWaitsClearNothing
<1> DEFINE Nothing ==
       /\ req' # req /\ (\E p \in Provider : ~Available(p) /\ Available(p)')
             => \E r \in Request : At(r, "clear") /\ At(r, "pass")'
       /\ \A r \in canceled : At(r, "wait") => ~At(r, "clear")'
<1>1. RequestsInv /\ CooldownInv /\ [RoutingNext]_vars => Nothing
  <2> SUFFICES ASSUME RequestsInv, CooldownInv, [RoutingNext]_vars
               PROVE  Nothing
    OBVIOUS
  <2>1. ASSUME req' # req, NEW p \in Provider, ~Available(p), Available(p)'
        PROVE  \E r \in Request : At(r, "clear") /\ At(r, "pass")'
    <3>1. PICK r \in Request : Step(r)
      BY <2>1, NextIsStep DEF TimePasses, vars, routingVars
    <3>2. Clear(r)
      BY <2>1, <3>1, OnlyClearBringsBack
    <3> DEFINE s == [req[r] EXCEPT !.pc = "pass", !.position = 1]
    <3>3. s.pc = "pass"
      BY RequestType DEF RequestsInv, RequestState
    <3>4. req'[r] = s
      BY <3>2, BecomesShape DEF Clear
    <3>5. QED
      BY <3>2, <3>3, <3>4 DEF Clear, At
  <2>2. ASSUME NEW r \in canceled, At(r, "wait"), At(r, "clear")'
        PROVE  FALSE
    <3>1. r \in Request /\ req'[r] # req[r]
      BY <2>2 DEF RequestsInv, RoutingTypeOK, At
    <3>2. Step(r)
      BY <3>1, NextIsStep, OthersUntouched DEF TimePasses, vars, routingVars
    <3>3. WakeUp(r)
      BY <2>2, <3>1, <3>2, StepMoves
    <3>4. QED
      BY <2>2, <3>3 DEF WakeUp
  <2>3. QED
    BY <2>1, <2>2
<1>2. QED
  BY <1>1, SharedInvariant, PTL DEF RoutingSpec, CanceledWaitsClearNothing

\* Once its client has had the headers of a stream, a request turns to no
\* other provider.
THEOREM RepliesOnceHolds == RoutingSpec => RepliesOnce
<1> DEFINE Once == \A r \in Request : ~At(r, "idle") /\ req[r].reply # NoReply
                      => /\ req'[r].reply = req[r].reply
                         /\ req'[r].pc \in {"stream", "write", "relay", "mark", "idle"}
<1>1. RequestsInv /\ [RoutingNext]_vars => Once
  <2> SUFFICES ASSUME RequestsInv, [RoutingNext]_vars,
                      NEW r \in Request, ~At(r, "idle"), req[r].reply # NoReply
               PROVE  /\ req'[r].reply = req[r].reply
                      /\ req'[r].pc \in {"stream", "write", "relay", "mark", "idle"}
    OBVIOUS
  <2>1. req[r] \in RequestState /\ req[r].pc \in {"stream", "write", "relay", "mark"}
    BY RequestType DEF RequestsInv, Placed, At
  <2>2. CASE req'[r] = req[r]
    BY <2>1, <2>2
  <2>3. CASE Step(r) /\ req'[r] # req[r]
    <3>1. StreamStep(r) \/ WriteReturns(r) \/ BenchAndReturn(r)
      BY <2>1, <2>3
         DEF Step, ClientStep, RefuseRequest, Arrive, RefuseModel, Cancel, ProxyStep, EnterRoute,
             RefuseRoute, LeaveCanceled, SkipCooling, Select, Attempt, RefuseEncoding,
             BenchAndContinue, FallBack, GiveUp, StartWait, WakeUp, Clear, WakeCanceled,
             DoReturns, DoFails, Doing, FailoverStatus, AwaitBody, StartStream, BodyEnds,
             BodyRead, ErrorBodyFails, BodyFails, PassOver, InPass, At
    <3>2. CASE Return(r, req[r].reply)
      BY <3>2, ReturnShape
    <3>3. ASSUME NEW pc \in {"write", "mark"}, Becomes(r, [req[r] EXCEPT !.pc = pc])
          PROVE  req'[r].reply = req[r].reply /\ req'[r].pc = pc
      BY <2>1, <3>3, BecomesShape DEF RequestState
    <3>4. ASSUME ChunkWritten(r)
          PROVE  req'[r].reply = req[r].reply /\ req'[r].pc = "stream"
      <4> DEFINE s(sawDone) == [req[r] EXCEPT !.pc = "stream", !.sawDone = sawDone]
      <4>1. \A sawDone : s(sawDone).pc = "stream" /\ s(sawDone).reply = req[r].reply
        BY <2>1 DEF RequestState
      <4>2. \E sawDone : req'[r] = s(sawDone)
        BY <3>4, BecomesShape DEF ChunkWritten
      <4>3. QED
        BY <4>1, <4>2
    <3>5. QED
      BY <3>1, <3>2, <3>3, <3>4
         DEF StreamStep, ReadChunk, StreamEnds, StreamBreaks, WriteReturns, AnswerWritten,
             WriteFails, BenchAndReturn
  <2>4. QED
    BY <2>2, <2>3, NextIsStep, OthersUntouched DEF TimePasses, vars, routingVars
<1>2. QED
  BY <1>1, SharedInvariant, PTL DEF RoutingSpec, RepliesOnce

\* A report that all providers failed names a failure on the route that is
\* given up; a report that none is available follows no attempt on it.
THEOREM FailureIsOfThisRouteHolds == RoutingSpec => FailureIsOfThisRoute
<1> DEFINE Own == \A r \in Request : At(r, "pass") /\ At(r, "idle")' =>
          /\ req'[r].reply.why = "all-failed" => req'[r].reply.from \in req[r].tried
          /\ req'[r].reply.why = "all-unavailable" => req[r].tried = {}
<1>1. RequestsInv /\ [RoutingNext]_vars => Own
  <2> SUFFICES ASSUME RequestsInv, [RoutingNext]_vars,
                      NEW r \in Request, At(r, "pass"), At(r, "idle")'
               PROVE  /\ req'[r].reply.why = "all-failed" => req'[r].reply.from \in req[r].tried
                      /\ req'[r].reply.why = "all-unavailable" => req[r].tried = {}
    OBVIOUS
  <2>1. req[r] \in RequestState /\ req[r].pc = "pass" /\ req'[r].pc = "idle"
    BY RequestType DEF RequestsInv, At
  <2>2. Step(r)
    BY <2>1, NextIsStep, OthersUntouched DEF TimePasses, vars, routingVars
  <2>4. LeaveCanceled(r) \/ GiveUp(r)
    <3>1. ~(SkipCooling(r) \/ Select(r) \/ FallBack(r) \/ StartWait(r))
      <4>1. ASSUME NEW pc \in {"pass", "send", "route", "wait"}, req'[r].pc = pc
            PROVE  FALSE
        BY <2>1, <4>1
      <4> DEFINE skip == [req[r] EXCEPT !.position = @ + 1]
                 select == [req[r] EXCEPT !.pc = "send", !.tried = @ \cup {Selected(r)},
                               !.seen = providerVersion[Selected(r)]]
                 fallback == [req[r] EXCEPT !.pc = "route", !.position = 0,
                                 !.route = Fallback(config, req[r].route)]
                 wait == [req[r] EXCEPT !.pc = "wait"]
      <4>2. skip.pc = "pass" /\ select.pc = "send" /\ fallback.pc = "route" /\ wait.pc = "wait"
        BY <2>1 DEF RequestState
      <4>3. /\ SkipCooling(r) => req'[r] = skip
            /\ Select(r) => req'[r] = select
            /\ FallBack(r) => req'[r] = fallback
            /\ StartWait(r) => req'[r] = wait
        BY BecomesShape DEF SkipCooling, Select, FallBack, StartWait
      <4>4. QED
        BY <4>1, <4>2, <4>3
    <3>2. QED
      BY <2>1, <2>2, <3>1
         DEF Step, ClientStep, RefuseRequest, Arrive, RefuseModel, Cancel, ProxyStep, EnterRoute,
             RefuseRoute, RefuseEncoding, BenchAndContinue, BenchAndReturn, WakeUp, Clear,
             WakeCanceled, Attempt, DoReturns, DoFails, Doing, FailoverStatus, AwaitBody,
             StartStream, BodyEnds, BodyRead, ErrorBodyFails, BodyFails, StreamStep, ReadChunk,
             StreamEnds, StreamBreaks, WriteReturns, AnswerWritten, ChunkWritten, WriteFails, At
  <2>5. CASE LeaveCanceled(r)
    BY <2>5, ReturnShape DEF LeaveCanceled, NoReply
  <2>6. CASE GiveUp(r)
    <3>1. req'[r].reply = RouteFailure(req[r].failure)
      BY <2>6, ReturnShape DEF GiveUp
    <3>2. CASE req[r].failure.status = 0
      BY <2>1, <3>1, <3>2 DEF RouteFailure, Refusal, RequestsInv, Accounted
    <3>3. CASE req[r].failure.status # 0
      BY <2>1, <3>1, <3>3 DEF RouteFailure, RequestsInv, Accounted
    <3>4. QED
      BY <3>2, <3>3
  <2>7. QED
    BY <2>4, <2>5, <2>6
<1>2. QED
  BY <1>1, SharedInvariant, PTL DEF RoutingSpec, FailureIsOfThisRoute

-----------------------------------------------------------------------------
(* Fallbacks lead to an end. *)

Ranking(c) == [RouteNames(c) -> 1 .. Cardinality(RouteNames(c))]

Descends(c, rank) ==
    \A m \in RouteNames(c) : Fallback(c, m) # NoRoute => rank[Fallback(c, m)] < rank[m]

\* Validate accepts no configuration whose fallbacks go round.
LEMMA ValidFallbacksDescend ==
  ASSUME NEW c, Valid(c)
  PROVE  \E rank \in Ranking(c) : Descends(c, rank)
<1>1. CASE LegacyMode(c)
  <2>1. Cardinality(RouteNames(c)) = 1
    BY <1>1, FS_Singleton DEF RouteNames
  <2>2. [m \in RouteNames(c) |-> 1] \in Ranking(c)
    BY <2>1 DEF Ranking
  <2>3. Descends(c, [m \in RouteNames(c) |-> 1])
    BY <1>1 DEF Descends, Fallback
  <2>4. QED
    BY <2>2, <2>3
<1>2. CASE ~LegacyMode(c)
  <2>1. RouteNames(c) = DOMAIN c.routes
    BY <1>2 DEF RouteNames
  <2>2. Acyclic(c.routes)
    BY <1>2 DEF Valid, ValidRoutes
  <2>3. PICK rank \in [DOMAIN c.routes -> 1 .. Cardinality(DOMAIN c.routes)] :
           \A m \in DOMAIN c.routes : c.routes[m].fallback \in DOMAIN c.routes
              => rank[c.routes[m].fallback] < rank[m]
    BY <2>2 DEF Acyclic
  <2>4. rank \in Ranking(c)
    BY <2>1, <2>3 DEF Ranking
  <2>5. Descends(c, rank)
    BY <1>2, <2>1, <2>3, FallbackIsRoute DEF Descends, Fallback
  <2>6. QED
    BY <2>4, <2>5
<1>3. QED
  BY <1>1, <1>2

-----------------------------------------------------------------------------
(* How a step changes the route a request is on. *)

\* Only a return or an arrival forgets the visited routes, only a fallback
\* leaves a route, only EnterRoute adds to the visited ones.
LEMMA RouteMoves ==
  ASSUME RequestsInv, NEW r \in Request, Step(r)
  PROVE  \/ RefuseRoute(r)
         \/ \E reply : /\ Return(r, reply)
                       /\ reply = req[r].reply \/ reply.why # "route-revisited"
         \/ req'[r].visited = {} /\ req'[r].reply = NoReply
         \/ EnterRoute(r)
         \/ FallBack(r)
         \/ /\ req'[r].route = req[r].route
            /\ req'[r].visited = req[r].visited
            /\ req'[r].pc = "route" => req[r].pc = "route"
            /\ req'[r].reply = req[r].reply \/ req'[r].reply.why # "route-revisited"
            /\ req[r].pc # "idle"
<1> DEFINE Stays(s) == /\ s.route = req[r].route
                       /\ s.visited = req[r].visited
                       /\ s.pc = "route" => req[r].pc = "route"
                       /\ s.reply = req[r].reply \/ s.reply.why # "route-revisited"
           Returns == \E reply : /\ Return(r, reply)
                                 /\ reply = req[r].reply \/ reply.why # "route-revisited"
<1>1. req[r] \in RequestState
  BY RequestType DEF RequestsInv
<1>2. NoReply.why # "route-revisited"
  BY DEF NoReply
<1>3. ASSUME NEW s, Becomes(r, s)
      PROVE  req'[r] = s
  BY <1>3, BecomesShape
<1>4. ASSUME NEW call \in Calls, Arrive(r, call)
      PROVE  req'[r].visited = {} /\ req'[r].reply = NoReply
  <2>1. req'[r] = [Idle EXCEPT !.pc = "route", !.call = call, !.route = RequestedRoute(call)]
    BY <1>3, <1>4 DEF Arrive
  <2>2. QED
    BY <2>1 DEF Idle
<1>5. ASSUME SkipCooling(r)
      PROVE  Stays(req'[r])
  BY <1>1, <1>3, <1>5 DEF SkipCooling, RequestState
<1>6. ASSUME Select(r) \/ Attempt(r)
      PROVE  Stays(req'[r])
  <2> DEFINE s == [req[r] EXCEPT !.pc = "send", !.tried = @ \cup {Selected(r)},
                      !.seen = providerVersion[Selected(r)]]
             t == [req[r] EXCEPT !.pc = "upstream", !.seen = 0]
  <2>1. Stays(s) /\ Stays(t)
    BY <1>1 DEF RequestState
  <2>2. req'[r] = s \/ req'[r] = t
    BY <1>3, <1>6 DEF Select, Attempt
  <2>3. QED
    BY <2>1, <2>2
<1>7. ASSUME NEW answer, AwaitBody(r, answer)
      PROVE  Stays(req'[r])
  <2> DEFINE s == [req[r] EXCEPT !.pc = "body", !.answer = answer]
  <2>1. Stays(s)
    BY <1>1 DEF RequestState
  <2>2. req'[r] = s
    BY <1>3, <1>7 DEF AwaitBody
  <2>3. QED
    BY <2>1, <2>2
<1>8. ASSUME NEW answer, StartStream(r, answer)
      PROVE  Stays(req'[r])
  <2> DEFINE s == [req[r] EXCEPT !.pc = "write",
                      !.reply = [status |-> OK, why |-> "stream", from |-> Selected(r)]]
  <2>1. Stays(s)
    BY <1>1 DEF RequestState
  <2>2. req'[r] = s
    BY <1>3, <1>8 DEF StartStream
  <2>3. QED
    BY <2>1, <2>2
<1>9. ASSUME NEW status, FailOver(r, status)
      PROVE  Stays(req'[r])
  <2> DEFINE s == [req[r] EXCEPT !.pc = "mark", !.seen = 0, !.answer = NoAnswer,
                      !.failure = [status |-> status, from |-> Selected(r)]]
  <2>1. Stays(s)
    BY <1>1 DEF RequestState
  <2>2. req'[r] = s
    BY <1>3, <1>9 DEF FailOver
  <2>3. QED
    BY <2>1, <2>2
<1>10. ASSUME NEW pc \in {"write", "mark", "wait", "clear"}, Becomes(r, [req[r] EXCEPT !.pc = pc])
       PROVE  Stays(req'[r])
  BY <1>1, <1>3, <1>10 DEF RequestState
<1>11. ASSUME ChunkWritten(r)
       PROVE  Stays(req'[r])
  <2> DEFINE s(sawDone) == [req[r] EXCEPT !.pc = "stream", !.sawDone = sawDone]
  <2>1. \A sawDone : Stays(s(sawDone))
    BY <1>1 DEF RequestState
  <2>2. \E sawDone : req'[r] = s(sawDone)
    BY <1>3, <1>11 DEF ChunkWritten
  <2> HIDE DEF s, Stays
  <2>3. QED
    BY <2>1, <2>2
<1>12. ASSUME BenchAndContinue(r) \/ Clear(r)
       PROVE  Stays(req'[r])
  <2>1. CASE BenchAndContinue(r)
    <3> DEFINE s == [req[r] EXCEPT !.pc = "pass", !.position = @ + 1]
    <3>1. Stays(s)
      BY <1>1 DEF RequestState
    <3>2. req'[r] = s
      BY <1>3, <2>1 DEF BenchAndContinue
    <3>3. QED
      BY <3>1, <3>2
  <2>2. CASE Clear(r)
    <3> DEFINE s == [req[r] EXCEPT !.pc = "pass", !.position = 1]
    <3>1. Stays(s)
      BY <1>1 DEF RequestState
    <3>2. req'[r] = s
      BY <1>3, <2>2 DEF Clear
    <3>3. QED
      BY <3>1, <3>2
  <2>3. QED
    BY <1>12, <2>1, <2>2
<1>13. CASE ClientStep(r)
  <2>1. Refusal(400, "bad-model").why # "route-revisited"
    BY DEF Refusal
  <2>2. Refusal(404, "unknown-model").why # "route-revisited"
    BY DEF Refusal
  <2>3. ASSUME NEW call \in Calls, RefuseModel(r, call)
        PROVE  Returns
    BY <2>1, <2>2, <2>3 DEF RefuseModel
  <2>4. ASSUME RefuseRequest(r)
        PROVE  Returns
    <3>1. Refusal(405, "bad-method").why # "route-revisited"
      BY DEF Refusal
    <3>2. Refusal(400, "bad-body").why # "route-revisited"
      BY DEF Refusal
    <3>3. QED
      BY <2>4, <3>1, <3>2 DEF RefuseRequest
  <2>5. QED
    BY <1>4, <1>13, <2>3, <2>4 DEF ClientStep, Cancel, At
<1>14. CASE ProxyStep(r)
  <2>1. Refusal(BadGateway, "not-encodable").why # "route-revisited"
    BY DEF Refusal
  <2>2. RouteFailure(req[r].failure).why # "route-revisited"
    BY DEF RouteFailure, Refusal
  <2>3. CASE LeaveCanceled(r) \/ RefuseEncoding(r) \/ GiveUp(r) \/ BenchAndReturn(r)
               \/ WakeCanceled(r)
    <3>1. Returns
      BY <1>2, <2>1, <2>2, <2>3
         DEF LeaveCanceled, RefuseEncoding, GiveUp, BenchAndReturn, WakeCanceled
    <3>2. QED
      BY <3>1
  <2>4. CASE SkipCooling(r) \/ Select(r) \/ BenchAndContinue(r) \/ StartWait(r) \/ WakeUp(r)
              \/ Clear(r)
    BY <1>5, <1>6, <1>10, <1>12, <2>4
       DEF SkipCooling, Select, BenchAndContinue, StartWait, WakeUp, Clear, InPass, PassOver, At
  <2>5. QED
    BY <1>14, <2>3, <2>4 DEF ProxyStep
<1>15. CASE DoReturns(r)
  <2>1. CASE DoFails(r) /\ Return(r, NoReply)
    BY <1>2, <2>1
  <2>2. QED
    BY <1>7, <1>8, <1>9, <1>15, <2>1
       DEF DoReturns, DoFails, Doing, FailoverStatus, AwaitBody, StartStream, At
<1>16. CASE BodyEnds(r)
  <2>1. ASSUME NEW answer, NEW why, Settle(r, answer, why), why # "route-revisited"
        PROVE  /\ req'[r].route = req[r].route
               /\ req'[r].visited = req[r].visited
               /\ req'[r].pc # "route"
               /\ req'[r].reply.why # "route-revisited" \/ req'[r].reply = req[r].reply
    <3> DEFINE reply == [status |-> answer.status, why |-> why, from |-> Selected(r)]
               s == [req[r] EXCEPT !.pc = "relay", !.answer = NoAnswer, !.reply = reply]
               t == [req[r] EXCEPT !.pc = "mark", !.seen = 0, !.answer = NoAnswer,
                        !.failure = [status |-> answer.status, from |-> Selected(r)]]
    <3>1. /\ s.pc = "relay" /\ s.route = req[r].route /\ s.visited = req[r].visited
          /\ s.reply = reply
      BY <1>1 DEF RequestState
    <3>2. /\ t.pc = "mark" /\ t.route = req[r].route /\ t.visited = req[r].visited
          /\ t.reply = req[r].reply
      BY <1>1 DEF RequestState
    <3>3. req'[r] = s \/ req'[r] = t
      BY <1>3, <2>1 DEF Settle, FailOver
    <3>4. reply.why # "route-revisited"
      BY <2>1
    <3> HIDE DEF s, t, reply
    <3>5. QED
      BY <3>1, <3>2, <3>3, <3>4
  <2>2. CASE BodyFails(r)
    <3>1. CASE Return(r, NoReply)
      BY <1>2, <3>1
    <3>2. QED
      BY <1>9, <2>2, <3>1 DEF BodyFails, At
  <2>3. CASE BodyRead(r) \/ ErrorBodyFails(r)
    <3>1. Category(req[r].call.endpoint, req[r].answer) # "route-revisited"
      BY DEF Category, ErrorCategory
    <3>2. QED
      BY <2>1, <2>3, <3>1 DEF BodyRead, ErrorBodyFails, At
  <2>4. QED
    BY <1>16, <2>2, <2>3 DEF BodyEnds
<1>17. CASE StreamStep(r) \/ WriteReturns(r)
  <2>1. CASE Return(r, req[r].reply)
    BY <2>1
  <2>2. QED
    BY <1>10, <1>11, <1>17, <2>1
       DEF StreamStep, ReadChunk, StreamEnds, StreamBreaks, WriteReturns, AnswerWritten,
           ChunkWritten, WriteFails, At
<1>18. CASE Attempt(r)
  BY <1>6, <1>18 DEF Attempt, At
<1>19. QED
  BY <1>13, <1>14, <1>15, <1>16, <1>17, <1>18 DEF Step

LEMMA StepKeepsPast ==
  ASSUME RequestsInv, NEW r \in Request, Step(r), config' = config,
         NEW rank \in Ranking(config), Descends(config, rank), Past(r, rank)
  PROVE  Past(r, rank)'
<1>1. req[r] \in RequestState
  BY RequestType DEF RequestsInv
<1>2. CASE EnterRoute(r)
  <2> DEFINE s == [req[r] EXCEPT !.pc = "pass", !.position = 1,
                                 !.visited = @ \cup {req[r].route},
                                 !.tried = {}, !.failure = NoFailure]
  <2>1. /\ s.pc = "pass" /\ s.route = req[r].route
        /\ s.visited = req[r].visited \cup {req[r].route}
    BY <1>1 DEF RequestState
  <2>2. req'[r] = s
    BY <1>2, BecomesShape DEF EnterRoute
  <2>3. At(r, "route") /\ req[r].route \in RouteNames(config)
    BY <1>2 DEF EnterRoute, RequestsInv, Placed, At
  <2>4. QED
    BY <2>1, <2>2, <2>3 DEF Past, At
<1>3. CASE FallBack(r)
  <2> DEFINE next == Fallback(config, req[r].route)
             s == [req[r] EXCEPT !.pc = "route", !.position = 0, !.route = next]
  <2>1. s.pc = "route" /\ s.route = next /\ s.visited = req[r].visited
    BY <1>1 DEF RequestState
  <2>2. req'[r] = s
    BY <1>3, BecomesShape DEF FallBack
  <2>3. /\ ~At(r, "idle") /\ next # NoRoute
        /\ req[r].route \in RouteNames(config)
    BY <1>3 DEF FallBack, PassOver, RequestsInv, Placed, At
  <2>4. next \in RouteNames(config)
    BY <2>3, FallbackIsRoute DEF RequestsInv, RoutingTypeOK
  <2>5. rank[next] < rank[req[r].route]
    BY <2>3 DEF Descends
  <2>6. ASSUME NEW m \in req[r].visited
        PROVE  m \in RouteNames(config) /\ rank[next] < rank[m]
    <3>1. /\ m \in RouteNames(config)
          /\ rank[req[r].route] < rank[m] \/ m = req[r].route
      BY <2>3 DEF Past
    <3>2. rank[next] \in Int /\ rank[m] \in Int /\ rank[req[r].route] \in Int
      BY <2>3, <2>4, <3>1 DEF Ranking
    <3>3. QED
      BY <2>5, <3>1, <3>2
  <2>7. /\ req'[r].route = next /\ req'[r].visited = req[r].visited
        /\ RouteNames(config)' = RouteNames(config)
    BY <2>1, <2>2
  <2>8. \A m \in req'[r].visited :
           /\ m \in RouteNames(config)'
           /\ rank[req'[r].route] < rank[m]
    BY <2>6, <2>7
  <2>9. QED
    BY <2>8 DEF Past
<1>4. CASE req'[r].pc = "idle"
  BY <1>4 DEF Past, At
<1>5. QED
  BY <1>2, <1>3, <1>4, RouteMoves, ReturnShape DEF Past, At, RefuseRoute

-----------------------------------------------------------------------------
(* What a client is told. *)

\* The guard is the only place that speaks of a route visited twice.
LEMMA RevisitOnlyFromGuard ==
  ASSUME RequestsInv, NEW r \in Request, Step(r),
         req[r].reply.why # "route-revisited", req'[r].reply.why = "route-revisited"
  PROVE  At(r, "route") /\ req[r].route \in req[r].visited
<1>1. req[r] \in RequestState /\ NoReply.why # "route-revisited"
  BY RequestType DEF RequestsInv, NoReply
<1>2. ~EnterRoute(r)
  <2> DEFINE s == [req[r] EXCEPT !.pc = "pass", !.position = 1,
                                 !.visited = @ \cup {req[r].route},
                                 !.tried = {}, !.failure = NoFailure]
  <2>1. s.reply = req[r].reply
    BY <1>1 DEF RequestState
  <2>2. EnterRoute(r) => req'[r] = s
    BY BecomesShape DEF EnterRoute
  <2>3. QED
    BY <2>1, <2>2
<1>3. ~FallBack(r)
  <2> DEFINE s == [req[r] EXCEPT !.pc = "route", !.position = 0,
                                 !.route = Fallback(config, req[r].route)]
  <2>1. s.reply = req[r].reply
    BY <1>1 DEF RequestState
  <2>2. FallBack(r) => req'[r] = s
    BY BecomesShape DEF FallBack
  <2>3. QED
    BY <2>1, <2>2
<1>4. RefuseRoute(r)
  BY <1>1, <1>2, <1>3, RouteMoves, ReturnShape
<1>5. req'[r].reply = RouteRefusal(r)
  BY <1>4, ReturnShape DEF RefuseRoute
<1>6. QED
  BY <1>1, <1>4, <1>5 DEF RefuseRoute, RouteRefusal, Refusal

LEMMA NextKeepsFallbackInv ==
  ASSUME RequestsInv, FallbackInv, FallbacksEnd, [RoutingNext]_vars
  PROVE  FallbackInv' /\ FallbacksEnd'
<1>1. config' = config
  <2>1. ASSUME NEW r \in Request, Step(r)
        PROVE  config' = config
    BY <2>1, StepKeepsConfig
  <2>2. QED
    BY <2>1, NextIsStep DEF TimePasses, vars, routingVars
<1>2. PICK rank \in Ranking(config) :
         Descends(config, rank) /\ \A r \in Request : Past(r, rank)
  BY DEF FallbackInv, Ranking, Descends
<1>3. ASSUME NEW r \in Request, req'[r] = req[r]
      PROVE  Past(r, rank)' /\ req'[r].reply.why # "route-revisited"
  BY <1>1, <1>2, <1>3 DEF Past, At, FallbacksEnd
<1>4. ASSUME NEW r \in Request, req'[r] # req[r]
      PROVE  Past(r, rank)' /\ req'[r].reply.why # "route-revisited"
  <2>1. Step(r)
    BY <1>4, NextIsStep, OthersUntouched DEF TimePasses, vars, routingVars
  <2>2. Past(r, rank)'
    BY <1>1, <1>2, <2>1, StepKeepsPast
  <2>3. ASSUME At(r, "route"), req[r].route \in req[r].visited
        PROVE  FALSE
    <3>1. /\ req[r].route \in RouteNames(config)
          /\ rank[req[r].route] < rank[req[r].route]
      BY <1>2, <2>3 DEF Past, At
    <3>2. rank[req[r].route] \in Int
      BY <3>1 DEF Ranking
    <3>3. QED
      BY <3>1, <3>2
  <2>4. QED
    BY <2>1, <2>2, <2>3, RevisitOnlyFromGuard DEF FallbacksEnd
<1>5. Descends(config, rank)' /\ rank \in Ranking(config)'
  BY <1>1, <1>2 DEF Descends, Ranking
<1>6. QED
  BY <1>3, <1>4, <1>5 DEF FallbackInv, FallbacksEnd, Descends, Ranking

LEMMA InitFallbackInv == RoutingInit => FallbackInv /\ FallbacksEnd
<1> SUFFICES ASSUME RoutingInit
             PROVE  FallbackInv /\ FallbacksEnd
  OBVIOUS
<1>1. \A r \in Request : req[r].pc = "idle" /\ req[r].reply.why # "route-revisited"
  BY DEF RoutingInit, Idle, NoReply
<1>2. PICK rank \in Ranking(config) : Descends(config, rank)
  BY ValidFallbacksDescend DEF RoutingInit
<1>3. QED
  BY <1>1, <1>2 DEF FallbackInv, FallbacksEnd, Past, At, Ranking, Descends

LEMMA FallbackInvariant == RoutingSpec => [](FallbackInv /\ FallbacksEnd)
<1>1. RequestsInv /\ FallbackInv /\ FallbacksEnd /\ [RoutingNext]_vars
         => (FallbackInv /\ FallbacksEnd)'
  BY NextKeepsFallbackInv
<1>2. QED
  BY <1>1, InitFallbackInv, SharedInvariant, PTL DEF RoutingSpec

\* No request comes back to a route it has left: with a configuration that
\* Validate accepts the guard against it is dead code.
THEOREM FallbacksAlwaysEnd == RoutingSpec => []FallbacksEnd
BY FallbackInvariant, PTL

-----------------------------------------------------------------------------
(* Only failures bench. *)

Blamers == {r \in Request : Blames(r)}

LEMMA BlamersFinite ==
  /\ IsFiniteSet(Blamers)
  /\ Cardinality(Blamers) \in Nat
<1>1. IsFiniteSet(Blamers)
  BY InputAssumption, FS_Subset DEF Blamers
<1>2. QED
  BY <1>1, FS_CardinalityType

\* An answer whose hint is lost is not judged more harshly for it.
LEMMA LostHintIsMilder ==
  ASSUME NEW endpoint, NEW answer \in Answers,
         Category(endpoint, [answer EXCEPT !.hint = "none"]) \notin Relayed,
         answer.status # OK
  PROVE  Category(endpoint, answer) \notin Relayed
<1> DEFINE mild == [answer EXCEPT !.hint = "none"]
<1>1. mild.status = answer.status /\ mild.hint = "none"
  BY AnswerStatus
<1>2. endpoint = "responses" /\ answer.status \in {404, 405}
  BY <1>1 DEF Category, ErrorCategory, Relayed
<1>3. QED
  BY <1>2 DEF Category, ErrorCategory, Relayed

\* What a step of r does to the number of times somebody is to blame.
LEMMA StepCounts ==
  ASSUME RequestsInv, NEW r \in Request, Step(r)
  PROVE  \/ MarkCooldown(r) /\ faults' = faults /\ ~At(r, "body")'
         \/ /\ cooldownVersion' = cooldownVersion
            /\ \A q \in Request \ {r} : marking'[q] = marking[q]
            /\ \/ faults' = faults + 1
               \/ faults' = faults /\ (Blames(r)' => Blames(r))
<1> DEFINE Same == UNCHANGED <<cooldownVersion, marking>>
           Counted == /\ cooldownVersion' = cooldownVersion
                      /\ \A q \in Request \ {r} : marking'[q] = marking[q]
                      /\ faults' = faults + 1
           Free == /\ cooldownVersion' = cooldownVersion
                   /\ \A q \in Request \ {r} : marking'[q] = marking[q]
                   /\ faults' = faults
                   /\ Blames(r)' => Blames(r)
<1>1. req[r] \in RequestState
  BY RequestType DEF RequestsInv
<1>2. ASSUME Same, faults' = faults, ~At(r, "body")'
      PROVE  Free
  BY <1>2 DEF Blames
<1>3. ASSUME NEW reply, Return(r, reply)
      PROVE  ~At(r, "body")'
  BY <1>3, ReturnShape DEF At
<1>4. ASSUME NEW p, Stamp(r, p), ProviderFault
      PROVE  Counted
  BY <1>4 DEF Stamp, ProviderFault, sharedVars
<1>5. ASSUME UNCHANGED cooldownVars
      PROVE  Same
  BY <1>5 DEF cooldownVars, sharedVars, markVars
<1>6. ASSUME Same, ProviderFault
      PROVE  Counted
  BY <1>6 DEF ProviderFault
<1>7. ASSUME NEW answer \in Answers, AwaitBody(r, answer),
             Category(req[r].call.endpoint, answer) \in Relayed
      PROVE  ~Blames(r)'
  <2> DEFINE s == [req[r] EXCEPT !.pc = "body", !.answer = answer]
  <2>1. s.pc = "body" /\ s.answer = answer /\ s.call = req[r].call
    BY <1>1 DEF RequestState
  <2>2. req'[r] = s
    BY <1>7, BecomesShape DEF AwaitBody
  <2>3. marking'[r] = NoProvider
    BY <1>7 DEF AwaitBody, At, RequestsInv, RoutingTypeOK, Agrees, cooldownVars, markVars
  <2>4. QED
    BY <1>7, <2>1, <2>2, <2>3 DEF Blames
<1>8. ASSUME At(r, "body")', ~At(r, "body")
      PROVE  \E answer \in Answers : AwaitBody(r, answer)
  BY <1>8, StepMoves DEF At
<1>9. CASE ClientStep(r)
  <2>1. UNCHANGED <<cooldownVars, faults>>
    BY <1>9 DEF ClientStep, RefuseRequest, Arrive, RefuseModel, Cancel
  <2>2. ~At(r, "body")' \/ req'[r] = req[r]
    <3>1. CASE At(r, "body")
      BY <1>3, <1>9, <3>1 DEF ClientStep, RefuseRequest, Arrive, RefuseModel, Cancel, At
    <3>2. CASE ~At(r, "body")
      BY <1>8, <1>9, <3>2 DEF ClientStep, RefuseRequest, Arrive, RefuseModel, Cancel, AwaitBody, At
    <3>3. QED
      BY <3>1, <3>2
  <2>3. Free
    BY <1>2, <1>5, <2>1, <2>2 DEF Blames, At
  <2>4. QED
    BY <2>3
<1>10. CASE ProxyStep(r)
  <2>1. ~At(r, "body") /\ ~At(r, "upstream") /\ faults' = faults
    BY <1>10
       DEF ProxyStep, EnterRoute, RefuseRoute, LeaveCanceled, SkipCooling, Select,
           RefuseEncoding, BenchAndContinue, BenchAndReturn, FallBack, GiveUp, StartWait, WakeUp,
           Clear, WakeCanceled, InPass, PassOver, At
  <2>2. ~At(r, "body")'
    BY <1>8, <2>1 DEF AwaitBody
  <2>3. CASE BenchAndContinue(r) \/ BenchAndReturn(r)
    BY <2>1, <2>2, <2>3 DEF BenchAndContinue, BenchAndReturn
  <2>4. CASE ~(BenchAndContinue(r) \/ BenchAndReturn(r))
    <3>1. Same
      BY <1>5, <1>10, <2>4
         DEF ProxyStep, EnterRoute, RefuseRoute, LeaveCanceled, SkipCooling, Select,
             RefuseEncoding, FallBack, GiveUp, StartWait, WakeUp, Clear, WakeCanceled, BeginWait,
             ClearCooldowns, CancelWait, sharedVars, markVars
    <3>2. QED
      BY <1>2, <2>1, <2>2, <3>1
  <2>5. QED
    BY <2>3, <2>4
<1>11. CASE DoReturns(r)
  <2>1. CASE DoFails(r) /\ Return(r, NoReply) /\ UNCHANGED cooldownVars
    BY <1>2, <1>3, <1>5, <1>6, <2>1 DEF DoFails, ConnectionError
  <2>2. CASE (DoFails(r) /\ r \notin canceled)
             \/ \E answer \in Answers : FailoverStatus(r, answer)
    BY <1>4, <2>2, ConnectionErrorCounts DEF DoFails, FailoverStatus, FailOver, Return
  <2>3. ASSUME NEW answer \in Answers, AwaitBody(r, answer)
        PROVE  Free \/ Counted
    BY <1>5, <1>6, <1>7, <2>3 DEF AwaitBody
  <2>4. ASSUME NEW answer \in Answers, StartStream(r, answer)
        PROVE  Free
    <3> DEFINE s == [req[r] EXCEPT !.pc = "write",
                        !.reply = [status |-> OK, why |-> "stream", from |-> Selected(r)]]
    <3>1. s.pc = "write"
      BY <1>1 DEF RequestState
    <3>2. req'[r] = s
      BY <2>4, BecomesShape DEF StartStream
    <3>3. QED
      BY <1>2, <1>5, <2>4, <3>1, <3>2 DEF StartStream, At
  <2>5. QED
    BY <1>11, <2>1, <2>2, <2>3, <2>4 DEF DoReturns, DoFails
<1>12. CASE BodyEnds(r)
  <2>1. ASSUME NEW answer, NEW why, Settle(r, answer, why),
               Category(req[r].call.endpoint, answer) \in Relayed
        PROVE  Free
    <3> DEFINE s == [req[r] EXCEPT !.pc = "relay", !.answer = NoAnswer,
                        !.reply = [status |-> answer.status, why |-> why, from |-> Selected(r)]]
    <3>1. s.pc = "relay"
      BY <1>1 DEF RequestState
    <3>2. req'[r] = s
      BY <2>1, BecomesShape DEF Settle
    <3>3. QED
      BY <1>2, <1>5, <2>1, <3>1, <3>2 DEF Settle, At
  <2>2. ASSUME NEW answer, NEW why, Settle(r, answer, why), Blames(r),
               Category(req[r].call.endpoint, answer) \notin Relayed
        PROVE  Free
    <3>1. FailOver(r, answer.status) /\ faults' = faults
      BY <2>2 DEF Settle
    <3>2. UNCHANGED sharedVars /\ \A q \in Request \ {r} : marking'[q] = marking[q]
      BY <3>1 DEF FailOver, Stamp
    <3>3. QED
      BY <2>2, <3>1, <3>2 DEF sharedVars
  <2>3. CASE BodyRead(r)
    BY <2>1, <2>2, <2>3 DEF BodyRead, Blames
  <2>4. CASE ErrorBodyFails(r)
    <3>1. At(r, "body") /\ req[r].answer \in Answers
      BY <2>4 DEF ErrorBodyFails, RequestsInv, Placed
    <3>2. QED
      BY <2>1, <2>2, <2>4, <3>1, LostHintIsMilder DEF ErrorBodyFails, Blames
  <2>5. CASE BodyFails(r)
    <3>1. CASE Return(r, NoReply) /\ UNCHANGED cooldownVars
      BY <1>2, <1>3, <1>5, <1>6, <2>5, <3>1 DEF BodyFails, ConnectionError
    <3>2. CASE r \notin canceled /\ FailOver(r, BadGateway)
      BY <1>4, <2>5, <3>2, ConnectionErrorCounts DEF BodyFails, FailOver
    <3>3. QED
      BY <2>5, <3>1, <3>2 DEF BodyFails
  <2>6. QED
    BY <1>12, <2>3, <2>4, <2>5 DEF BodyEnds
<1>13. CASE StreamStep(r) \/ WriteReturns(r)
  <2>1. ~At(r, "body")
    BY <1>13
       DEF StreamStep, ReadChunk, StreamEnds, StreamBreaks, WriteReturns, AnswerWritten,
           ChunkWritten, WriteFails, At
  <2>2. CASE UNCHANGED cooldownVars
    <3>1. ~(\E answer \in Answers : AwaitBody(r, answer))
      BY <1>13
         DEF StreamStep, ReadChunk, StreamEnds, StreamBreaks, WriteReturns, AnswerWritten,
             ChunkWritten, WriteFails, AwaitBody, At
    <3>2. ~At(r, "body")'
      BY <1>8, <2>1, <3>1
    <3>3. ProviderFault \/ faults' = faults
      BY <1>13, ConnectionErrorCounts
         DEF StreamStep, ReadChunk, StreamEnds, StreamBreaks, WriteReturns, AnswerWritten,
             ChunkWritten, WriteFails
    <3>4. QED
      BY <1>2, <1>5, <1>6, <2>2, <3>2, <3>3
  <2>3. CASE ProviderFault /\ Stamp(r, Selected(r))
    BY <1>4, <2>3
  <2>4. QED
    BY <1>13, <2>2, <2>3, ConnectionErrorCounts
       DEF StreamStep, ReadChunk, StreamEnds, StreamBreaks, WriteReturns, AnswerWritten,
           ChunkWritten, WriteFails
<1>14. CASE Attempt(r)
  <2>1. ~At(r, "body") /\ ~(\E answer \in Answers : AwaitBody(r, answer))
    BY <1>14 DEF Attempt, AwaitBody, At
  <2>2. QED
    BY <1>2, <1>5, <1>8, <1>14, <2>1 DEF Attempt
<1>15. QED
  BY <1>9, <1>10, <1>11, <1>12, <1>13, <1>14 DEF Step

-----------------------------------------------------------------------------
(* Counting the requests that blame somebody. *)

LEMMA OthersBlameAsBefore ==
  ASSUME RequestsInv, NEW r \in Request, Step(r), NEW q \in Request \ {r},
         marking'[q] = marking[q]
  PROVE  Blames(q)' <=> Blames(q)
BY OthersUntouched DEF Blames, At

LEMMA AtMostOneMore ==
  ASSUME IsFiniteSet(Blamers), IsFiniteSet(Blamers'), NEW r, Blamers' \subseteq Blamers \cup {r}
  PROVE  Cardinality(Blamers') <= Cardinality(Blamers) + 1
<1>1. Cardinality(Blamers \cup {r}) <= Cardinality(Blamers) + 1
  <2>1. Cardinality(Blamers) \in Nat
    BY FS_CardinalityType
  <2>2. \/ Cardinality(Blamers \cup {r}) = Cardinality(Blamers)
        \/ Cardinality(Blamers \cup {r}) = Cardinality(Blamers) + 1
    BY FS_AddElement
  <2>3. QED
    BY <2>1, <2>2
<1>2. IsFiniteSet(Blamers \cup {r})
  BY FS_AddElement
<1>3. Cardinality(Blamers') <= Cardinality(Blamers \cup {r})
  BY <1>2, FS_Subset
<1>4. QED
  BY <1>1, <1>2, <1>3, FS_CardinalityType

LEMMA StepKeepsBlameInv ==
  ASSUME RequestsInv, CooldownInv, BlameInv, NEW r \in Request, Step(r)
  PROVE  BlameInv'
<1>1. /\ IsFiniteSet(Blamers) /\ Cardinality(Blamers) \in Nat
      /\ IsFiniteSet(Blamers') /\ Cardinality(Blamers') \in Nat
  <2>1. IsFiniteSet(Blamers')
    BY InputAssumption, FS_Subset DEF Blamers
  <2>2. QED
    BY <2>1, BlamersFinite, FS_CardinalityType
<1>2. /\ cooldownVersion \in Nat /\ faults \in Nat
      /\ cooldownVersion + Cardinality(Blamers) <= faults
  BY MaxFaultsAssumption, BoundAssumption
     DEF CooldownInv, CooldownTypeOK, RequestsInv, RoutingTypeOK, BlameInv, Blamers
<1>3. SUFFICES cooldownVersion' + Cardinality(Blamers') <= faults'
  BY DEF BlameInv, Blamers
<1>4. CASE MarkCooldown(r) /\ faults' = faults /\ ~At(r, "body")'
  <2>1. /\ marking[r] # NoProvider /\ marking'[r] = NoProvider
        /\ cooldownVersion' = cooldownVersion + 1
        /\ \A q \in Request \ {r} : marking'[q] = marking[q]
    BY <1>4 DEF MarkCooldown, CooldownInv, CooldownTypeOK
  <2>2. r \in Blamers /\ Blamers' = Blamers \ {r}
    BY <1>4, <2>1, OthersBlameAsBefore DEF Blamers, Blames
  <2>3. Cardinality(Blamers') = Cardinality(Blamers) - 1
    BY <1>1, <2>2, FS_RemoveElement
  <2>4. QED
    BY <1>1, <1>2, <1>4, <2>1, <2>3
<1>5. CASE /\ cooldownVersion' = cooldownVersion
           /\ \A q \in Request \ {r} : marking'[q] = marking[q]
           /\ faults' = faults + 1
  <2>1. Blamers' \subseteq Blamers \cup {r}
    BY <1>5, OthersBlameAsBefore DEF Blamers
  <2>2. Cardinality(Blamers') <= Cardinality(Blamers) + 1
    BY <1>1, <2>1, AtMostOneMore
  <2>3. QED
    BY <1>1, <1>2, <1>5, <2>2
<1>6. CASE /\ cooldownVersion' = cooldownVersion
           /\ \A q \in Request \ {r} : marking'[q] = marking[q]
           /\ faults' = faults
           /\ Blames(r)' => Blames(r)
  <2>1. Blamers' \subseteq Blamers
    BY <1>6, OthersBlameAsBefore DEF Blamers
  <2>2. Cardinality(Blamers') <= Cardinality(Blamers)
    BY <1>1, <2>1, FS_Subset
  <2>3. QED
    BY <1>1, <1>2, <1>6, <2>2
<1>7. QED
  BY <1>4, <1>5, <1>6, StepCounts

LEMMA NextKeepsBlameInv ==
  ASSUME RequestsInv, CooldownInv, BlameInv, [RoutingNext]_vars
  PROVE  BlameInv'
<1>1. CASE TimePasses \/ UNCHANGED vars
  <2>1. UNCHANGED <<req, faults, cooldownVersion, marking>>
    BY <1>1 DEF TimePasses, Tick, vars, routingVars, cooldownVars, sharedVars, markVars
  <2>2. \A r \in Request : Blames(r)' <=> Blames(r)
    BY <2>1 DEF Blames, At
  <2>3. {r \in Request : Blames(r)}' = {r \in Request : Blames(r)}
    BY <2>2
  <2>4. QED
    BY <2>1, <2>3 DEF BlameInv
<1>2. QED
  BY <1>1, NextIsStep, StepKeepsBlameInv

LEMMA InitBlameInv == RoutingInit => BlameInv
<1> SUFFICES ASSUME RoutingInit
             PROVE  BlameInv
  OBVIOUS
<1>1. {r \in Request : Blames(r)} = {}
  BY DEF RoutingInit, CooldownInit, Blames, At, Idle
<1>2. QED
  BY <1>1, FS_EmptySet DEF BlameInv, RoutingInit, CooldownInit

\* The invariant of the routing, and that of the cooldowns it shares, for any
\* number of requests, providers and routes.
THEOREM RoutingInvariant == RoutingSpec => [](RoutingInv /\ CooldownInv)
<1>1. RequestsInv /\ CooldownInv /\ BlameInv /\ [RoutingNext]_vars => BlameInv'
  BY NextKeepsBlameInv
<1>2. RequestsInv /\ (\A r \in Request : Checked(r)) /\ FallbackInv /\ FallbacksEnd /\ BlameInv
         => RoutingInv
  BY DEF RequestsInv, RoutingInv
<1>3. QED
  BY <1>1, <1>2, InitBlameInv, SharedInvariant, CheckedInvariant, FallbackInvariant, PTL
     DEF RoutingSpec

\* Clients that give up bench nobody, in any number and at any time.
THEOREM OnlyFailuresBench == RoutingSpec => []CancellationBenchesNobody
<1>1. RequestsInv /\ CooldownInv /\ BlameInv => CancellationBenchesNobody
  <2> SUFFICES ASSUME RequestsInv, CooldownInv, BlameInv
               PROVE  CancellationBenchesNobody
    OBVIOUS
  <2>1. PendingMarks \subseteq Blamers
    BY DEF PendingMarks, Blamers, Blames
  <2>2. Cardinality(PendingMarks) <= Cardinality(Blamers) /\ Cardinality(PendingMarks) \in Nat
    BY <2>1, BlamersFinite, FS_Subset, FS_CardinalityType
  <2>3. /\ cooldownVersion \in Nat /\ faults \in Nat
        /\ cooldownVersion + Cardinality(Blamers) <= faults
    BY MaxFaultsAssumption, BoundAssumption
       DEF CooldownInv, CooldownTypeOK, RequestsInv, RoutingTypeOK, BlameInv, Blamers
  <2>4. QED
    BY <2>2, <2>3, BlamersFinite DEF CancellationBenchesNobody
<1>2. RoutingInv => BlameInv /\ RequestsInv
  BY DEF RoutingInv, RequestsInv
<1>3. QED
  BY <1>1, <1>2, RoutingInvariant, PTL

=============================================================================
