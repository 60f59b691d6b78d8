--------------------------- MODULE MetricsProofs ---------------------------
(***************************************************************************)
(* Proofs about Metrics.tla, for any number of attempts, any providers and *)
(* any bounds of the histogram.                                            *)
(*                                                                         *)
(* The counters fit together because every call that tells of an outcome   *)
(* is owed exactly from the moment its cause is counted: what a counter    *)
(* has and what the attempts under way still owe it add up to its causes.  *)
(* The histogram fits the durations because one that is measured adds one  *)
(* to the sums over its bucket and over its bound alike; the fold that     *)
(* makes a sum is proved about by the smallest set it could be wrong on.   *)
(***************************************************************************)
EXTENDS Metrics, FiniteSetTheorems, SequenceTheorems, NaturalsInduction, TLAPS

(* The calls an attempt makes. *)

Plans == {Failure, Refusal, Success, <<"duration">>, Aborted("client-write", <<>>),
          Aborted("missing-done", Bench), Aborted("broken", Failover)}

\* A counter, and the counters one of which an attempt counts before it.
Rules ==
    {[effect |-> "error",
      causes |-> {"failed", "refused", "missing-done", "client-write", "broken"}],
     [effect |-> "failover", causes |-> {"failed", "broken"}],
     [effect |-> "cooldown", causes |-> {"failover", "missing-done"}],
     [effect |-> "history-success", causes |-> {"success"}],
     [effect |-> "history-error",
      causes |-> {"failed", "missing-done", "client-write", "broken"}],
     [effect |-> "history-cooldown", causes |-> {"cooldown"}]}

\* No call is made twice, there is one result at most, and each effect comes
\* after its cause, of which there is one.
Orderly(plan) ==
    /\ plan \in Seq(Counters) /\ Len(plan) >= 1
    /\ \A i \in 1 .. Len(plan) : plan[i] \notin {"attempt", "skip", "answered"}
    /\ \A i, j \in 1 .. Len(plan) : plan[i] = plan[j] => i = j
    /\ \A i, j \in 1 .. Len(plan) :
          plan[i] \in {"success", "error"} /\ plan[j] \in {"success", "error"} => i = j
    /\ \A i \in 1 .. Len(plan), rule \in Rules :
          plan[i] = rule.effect => \E j \in 1 .. Len(plan) : j < i /\ plan[j] \in rule.causes
    /\ \A i \in 1 .. Len(plan), rule \in Rules :
          plan[i] \in rule.causes => \E j \in 1 .. Len(plan) : i < j /\ plan[j] = rule.effect
    /\ \A i, j \in 1 .. Len(plan), rule \in Rules :
          plan[i] \in rule.causes /\ plan[j] \in rule.causes => i = j

Joins(s, t, u) ==
    /\ Len(u) = Len(s) + Len(t)
    /\ \A i \in 1 .. Len(s) : u[i] = s[i]
    /\ \A i \in 1 .. Len(t) : u[i + Len(s)] = t[i]

LEMMA Joined ==
  ASSUME NEW s \in Seq(Counters), NEW t \in Seq(Counters), NEW u \in Seq(Counters), Joins(s, t, u)
  PROVE  s \o t = u
<1>1. PICK w : w = s \o t
  OBVIOUS
<1>2. /\ w \in Seq(Counters) /\ Len(w) = Len(u)
      /\ \A i \in 1 .. Len(s) + Len(t) : w[i] = IF i <= Len(s) THEN s[i] ELSE t[i - Len(s)]
  BY <1>1, ConcatProperties DEF Joins
<1>3. ASSUME NEW i \in 1 .. Len(u)
      PROVE  w[i] = u[i]
  <2>1. Len(u) = Len(s) + Len(t) /\ Len(s) \in Nat /\ Len(t) \in Nat
    BY DEF Joins
  <2>2. CASE i <= Len(s)
    BY <1>2, <2>1, <2>2 DEF Joins
  <2>3. CASE ~(i <= Len(s))
    <3>1. i - Len(s) \in 1 .. Len(t) /\ (i - Len(s)) + Len(s) = i
      BY <2>1, <2>3
    <3>2. u[(i - Len(s)) + Len(s)] = t[i - Len(s)]
      BY <3>1 DEF Joins
    <3>3. QED
      BY <1>2, <2>1, <2>3, <3>1, <3>2
  <2>4. QED
    BY <2>2, <2>3
<1>4. QED
  BY <1>1, <1>2, <1>3, SeqEqual

LEMMA FailoverCalls == Failover = <<"failover", "cooldown", "history-cooldown">>
<1>1. PICK s, t, u : /\ s = <<"failover">> /\ t = <<"cooldown", "history-cooldown">>
                     /\ u = <<"failover", "cooldown", "history-cooldown">>
  OBVIOUS
<1>2. s \in Seq(Counters) /\ t \in Seq(Counters) /\ u \in Seq(Counters)
  BY <1>1 DEF Counters
<1>3. Joins(s, t, u)
  BY <1>1 DEF Joins
<1>4. Failover = s \o t
  BY <1>1 DEF Failover, Bench
<1>5. QED
  BY <1>1, <1>2, <1>3, <1>4, Joined

LEMMA FailureCalls ==
  Failure = <<"duration", "failed", "history-error", "error",
              "failover", "cooldown", "history-cooldown">>
<1>1. PICK s, t, u : /\ s = <<"duration", "failed", "history-error", "error">>
                     /\ t = <<"failover", "cooldown", "history-cooldown">>
                     /\ u = <<"duration", "failed", "history-error", "error",
                              "failover", "cooldown", "history-cooldown">>
  OBVIOUS
<1>2. s \in Seq(Counters) /\ t \in Seq(Counters) /\ u \in Seq(Counters)
  BY <1>1 DEF Counters
<1>3. Joins(s, t, u)
  BY <1>1 DEF Joins
<1>4. Failure = s \o t
  BY <1>1, FailoverCalls DEF Failure
<1>5. QED
  BY <1>1, <1>2, <1>3, <1>4, Joined

LEMMA AbortedCalls ==
  /\ Aborted("client-write", <<>>) = <<"client-write", "history-error", "error", "duration">>
  /\ Aborted("missing-done", Bench) =
        <<"missing-done", "history-error", "error", "cooldown", "history-cooldown", "duration">>
  /\ Aborted("broken", Failover) = <<"broken", "history-error", "error", "failover", "cooldown",
                                     "history-cooldown", "duration">>
<1>1. PICK d : d = <<"duration">>
  OBVIOUS
<1>2. d \in Seq(Counters)
  BY <1>1 DEF Counters
<1>3. Aborted("client-write", <<>>) = <<"client-write", "history-error", "error", "duration">>
  <2>1. PICK s, t, w : /\ s = <<"client-write", "history-error", "error">> /\ t = <<>>
                       /\ w = <<"client-write", "history-error", "error", "duration">>
    OBVIOUS
  <2>2. s \in Seq(Counters) /\ t \in Seq(Counters) /\ w \in Seq(Counters)
    BY <2>1 DEF Counters
  <2>3. s \o t = s
    BY <2>1, <2>2, ConcatEmptySeq
  <2>4. Joins(s, d, w)
    BY <1>1, <2>1 DEF Joins
  <2>5. s \o d = w
    BY <1>2, <2>2, <2>4, Joined
  <2>6. Aborted("client-write", <<>>) = (s \o t) \o d
    BY <1>1, <2>1 DEF Aborted
  <2>7. QED
    BY <2>1, <2>3, <2>5, <2>6
<1>4. Aborted("missing-done", Bench) =
        <<"missing-done", "history-error", "error", "cooldown", "history-cooldown", "duration">>
  <2>1. PICK s, t, u, w :
          /\ s = <<"missing-done", "history-error", "error">>
          /\ t = <<"cooldown", "history-cooldown">>
          /\ u = <<"missing-done", "history-error", "error", "cooldown", "history-cooldown">>
          /\ w = <<"missing-done", "history-error", "error", "cooldown", "history-cooldown",
                   "duration">>
    OBVIOUS
  <2>2. s \in Seq(Counters) /\ t \in Seq(Counters) /\ u \in Seq(Counters) /\ w \in Seq(Counters)
    BY <2>1 DEF Counters
  <2>3. Joins(s, t, u) /\ Joins(u, d, w)
    BY <1>1, <2>1 DEF Joins
  <2>4. s \o t = u /\ u \o d = w
    BY <1>2, <2>2, <2>3, Joined
  <2>5. Aborted("missing-done", Bench) = (s \o t) \o d
    BY <1>1, <2>1 DEF Aborted, Bench
  <2>6. QED
    BY <2>1, <2>4, <2>5
<1>5. Aborted("broken", Failover) = <<"broken", "history-error", "error", "failover", "cooldown",
                                      "history-cooldown", "duration">>
  <2>1. PICK s, t, u, w :
          /\ s = <<"broken", "history-error", "error">>
          /\ t = <<"failover", "cooldown", "history-cooldown">>
          /\ u = <<"broken", "history-error", "error", "failover", "cooldown", "history-cooldown">>
          /\ w = <<"broken", "history-error", "error", "failover", "cooldown",
                   "history-cooldown", "duration">>
    OBVIOUS
  <2>2. s \in Seq(Counters) /\ t \in Seq(Counters) /\ u \in Seq(Counters) /\ w \in Seq(Counters)
    BY <2>1 DEF Counters
  <2>3. Joins(s, t, u) /\ Joins(u, d, w)
    BY <1>1, <2>1 DEF Joins
  <2>4. s \o t = u /\ u \o d = w
    BY <1>2, <2>2, <2>3, Joined
  <2>5. Aborted("broken", Failover) = (s \o t) \o d
    BY <1>1, <2>1, FailoverCalls DEF Aborted
  <2>6. QED
    BY <2>1, <2>4, <2>5
<1>6. QED
  BY <1>3, <1>4, <1>5

LEMMA PlansAreOrderly ==
  ASSUME NEW plan \in Plans
  PROVE  Orderly(plan)
<1>1. CASE plan = Failure
  <2>1. plan = <<"duration", "failed", "history-error", "error",
                   "failover", "cooldown", "history-cooldown">>
    BY <1>1, FailureCalls
  <2>2. QED
    BY <2>1 DEF Orderly, Rules, Counters
<1>2. CASE plan = Refusal
  <2>1. plan = <<"duration", "refused", "error">>
    BY <1>2 DEF Refusal
  <2>2. QED
    BY <2>1 DEF Orderly, Rules, Counters
<1>3. CASE plan = Success
  <2>1. plan = <<"duration", "success", "history-success">>
    BY <1>3 DEF Success
  <2>2. QED
    BY <2>1 DEF Orderly, Rules, Counters
<1>4. CASE plan = Aborted("client-write", <<>>)
  <2>1. plan = <<"client-write", "history-error", "error", "duration">>
    BY <1>4, AbortedCalls
  <2>2. QED
    BY <2>1 DEF Orderly, Rules, Counters
<1>5. CASE plan = Aborted("missing-done", Bench)
  <2>1. plan = <<"missing-done", "history-error", "error", "cooldown",
                   "history-cooldown", "duration">>
    BY <1>5, AbortedCalls
  <2>2. QED
    BY <2>1 DEF Orderly, Rules, Counters
<1>6. CASE plan = Aborted("broken", Failover)
  <2>1. plan = <<"broken", "history-error", "error", "failover", "cooldown",
                   "history-cooldown", "duration">>
    BY <1>6, AbortedCalls
  <2>2. QED
    BY <2>1 DEF Orderly, Rules, Counters
<1>7. CASE plan = <<"duration">>
  BY <1>7 DEF Orderly, Rules, Counters
<1>8. QED
  BY <1>1, <1>2, <1>3, <1>4, <1>5, <1>6, <1>7 DEF Plans

\* What is left of a plan from its call k on.
Rest(plan, k) == [i \in 1 .. Len(plan) - k + 1 |-> plan[k + i - 1]]

Calls(s) == {s[i] : i \in DOMAIN s}

LEMMA SequenceIs ==
  ASSUME NEW n \in Nat, NEW s \in [1 .. n -> Counters]
  PROVE  s \in Seq(Counters) /\ Len(s) = n /\ DOMAIN s = 1 .. n
<1>1. s \in Seq(Counters)
  BY SeqDef
<1>2. DOMAIN s = 1 .. n
  OBVIOUS
<1>3. QED
  BY <1>1, <1>2, LenProperties

LEMMA RestIs ==
  ASSUME NEW plan \in Seq(Counters), NEW k \in 1 .. Len(plan)
  PROVE  /\ Rest(plan, k) \in Seq(Counters) /\ Rest(plan, k) # <<>>
         /\ Head(Rest(plan, k)) = plan[k]
         /\ Len(Rest(plan, k)) = 1 <=> k = Len(plan)
         /\ k < Len(plan) => Tail(Rest(plan, k)) = Rest(plan, k + 1)
         /\ Calls(Rest(plan, k)) = {plan[j] : j \in k .. Len(plan)}
<1> DEFINE s == Rest(plan, k)
<1>1. Len(plan) \in Nat /\ \A j \in 1 .. Len(plan) : plan[j] \in Counters
  OBVIOUS
<1>2. /\ s \in [1 .. Len(plan) - k + 1 -> Counters] /\ Len(plan) - k + 1 \in Nat
      /\ \A i \in 1 .. Len(plan) - k + 1 : s[i] = plan[k + i - 1]
  BY <1>1 DEF Rest
<1>3. s \in Seq(Counters) /\ Len(s) = Len(plan) - k + 1 /\ DOMAIN s = 1 .. Len(plan) - k + 1
  BY <1>2, SequenceIs
<1>4. s # <<>> /\ Head(s) = plan[k] /\ (Len(s) = 1 <=> k = Len(plan))
  BY <1>1, <1>2, <1>3
<1>5. ASSUME k < Len(plan)
      PROVE  Tail(s) = Rest(plan, k + 1)
  <2>1. Rest(plan, k + 1) \in [1 .. Len(plan) - k -> Counters] /\ Len(plan) - k \in Nat
    BY <1>1, <1>5 DEF Rest
  <2>2. Rest(plan, k + 1) \in Seq(Counters) /\ Len(Rest(plan, k + 1)) = Len(plan) - k
    BY <2>1, SequenceIs
  <2>3. Tail(s) \in Seq(Counters) /\ Len(Tail(s)) = Len(plan) - k
    BY <1>1, <1>3, <1>4
  <2>4. \A i \in 1 .. Len(plan) - k : Tail(s)[i] = Rest(plan, k + 1)[i]
    <3> SUFFICES ASSUME NEW i \in 1 .. Len(plan) - k
                 PROVE  Tail(s)[i] = Rest(plan, k + 1)[i]
      OBVIOUS
    <3>1. Tail(s)[i] = s[i + 1]
      BY <1>1, <1>3, <1>4
    <3>2. s[i + 1] = plan[k + i]
      BY <1>1, <1>2
    <3>3. QED
      BY <1>1, <3>1, <3>2 DEF Rest
  <2>5. QED
    BY <2>2, <2>3, <2>4, SeqEqual
<1>6. Calls(s) = {plan[j] : j \in k .. Len(plan)}
  <2>1. \A i \in DOMAIN s : s[i] \in {plan[j] : j \in k .. Len(plan)}
    BY <1>1, <1>2, <1>3
  <2>2. ASSUME NEW j \in k .. Len(plan)
        PROVE  plan[j] \in Calls(s)
    <3>1. j - k + 1 \in DOMAIN s
      BY <1>1, <1>3
    <3>2. s[j - k + 1] = plan[j]
      BY <1>1, <1>2, <1>3, <3>1
    <3>3. QED
      BY <3>1, <3>2 DEF Calls
  <2> HIDE DEF s
  <2>3. QED
    BY <2>1, <2>2 DEF Calls
<1>7. QED
  BY <1>3, <1>4, <1>5, <1>6

\* An attempt that still has to make its calls s.
Remaining(s) == \E plan \in Plans : \E k \in 1 .. Len(plan) : s = Rest(plan, k)

\* It owes an effect whose cause has been counted.
Owes(s, rule) == rule.effect \in Calls(s) /\ Calls(s) \cap rule.causes = {}

Outcomes == {"success", "error"}

LEMMA PlansOweNothing ==
  ASSUME NEW plan \in Plans
  PROVE  /\ Remaining(plan)
         /\ \A rule \in Rules : ~Owes(plan, rule)
<1>1. plan \in Seq(Counters) /\ Len(plan) >= 1 /\ Orderly(plan)
  BY PlansAreOrderly DEF Orderly
<1>2. plan = Rest(plan, 1)
  <2>1. Rest(plan, 1) = [i \in 1 .. Len(plan) |-> plan[i]]
    BY <1>1 DEF Rest
  <2>2. QED
    BY <1>1, <2>1
<1>3. ASSUME NEW rule \in Rules, rule.effect \in Calls(plan)
      PROVE  Calls(plan) \cap rule.causes # {}
  <2>1. PICK i \in 1 .. Len(plan) : plan[i] = rule.effect
    BY <1>1, <1>3 DEF Calls
  <2>2. PICK j \in 1 .. Len(plan) : plan[j] \in rule.causes
    BY <1>1, <2>1 DEF Orderly
  <2>3. QED
    BY <1>1, <2>2 DEF Calls
<1>4. QED
  BY <1>1, <1>2, <1>3 DEF Remaining, Owes

\* What making a call changes of what is owed.
LEMMA NextCall ==
  ASSUME NEW s, Remaining(s)
  PROVE  /\ s \in Seq(Counters) /\ s # <<>> /\ Head(s) \in Counters \ {"attempt", "skip", "answered"}
         /\ Len(s) = 1 => Tail(s) = <<>> /\ Calls(Tail(s)) = {}
         /\ Len(s) # 1 => Remaining(Tail(s))
         /\ Calls(s) = Calls(Tail(s)) \cup {Head(s)}
         /\ Head(s) \notin Calls(Tail(s))
         /\ Head(s) \in Outcomes => Calls(Tail(s)) \cap Outcomes = {}
         /\ \A rule \in Rules :
               /\ Head(s) = rule.effect => Owes(s, rule) /\ ~Owes(Tail(s), rule)
               /\ Head(s) \in rule.causes => ~Owes(s, rule) /\ Owes(Tail(s), rule)
               /\ Head(s) \notin rule.causes \cup {rule.effect} =>
                     (Owes(s, rule) <=> Owes(Tail(s), rule))
<1>0. PICK plan \in Plans : \E k \in 1 .. Len(plan) : s = Rest(plan, k)
  BY DEF Remaining
<1>1. PICK k \in 1 .. Len(plan) : s = Rest(plan, k)
  BY <1>0
<1>2. Orderly(plan) /\ plan \in Seq(Counters) /\ Len(plan) \in Nat
  BY PlansAreOrderly DEF Orderly
<1>3. /\ s \in Seq(Counters) /\ s # <<>> /\ Head(s) = plan[k]
      /\ Len(s) = 1 <=> k = Len(plan)
      /\ k < Len(plan) => Tail(s) = Rest(plan, k + 1)
      /\ Calls(s) = {plan[j] : j \in k .. Len(plan)}
  BY <1>1, <1>2, RestIs
<1>4. ASSUME Len(s) = 1
      PROVE  Tail(s) = <<>> /\ Calls(Tail(s)) = {}
  <2>1. Tail(s) \in Seq(Counters) /\ Len(Tail(s)) = 0
    BY <1>3, <1>4
  <2>2. Tail(s) = <<>>
    BY <2>1, EmptySeq
  <2>3. QED
    BY <2>2 DEF Calls
<1>5. Len(s) # 1 => Remaining(Tail(s))
  BY <1>1, <1>2, <1>3 DEF Remaining
<1>6. Calls(Tail(s)) = {plan[j] : j \in k + 1 .. Len(plan)}
  <2>1. CASE k = Len(plan)
    BY <1>2, <1>3, <1>4, <2>1
  <2>2. CASE k # Len(plan)
    <3>1. k + 1 \in 1 .. Len(plan) /\ Tail(s) = Rest(plan, k + 1)
      BY <1>2, <1>3, <2>2
    <3>2. QED
      BY <1>2, <3>1, RestIs
  <2>3. QED
    BY <2>1, <2>2
<1>7. Head(s) \in Counters \ {"attempt", "skip", "answered"}
  BY <1>2, <1>3 DEF Orderly
<1>8. Calls(s) = Calls(Tail(s)) \cup {Head(s)}
  <2>1. k .. Len(plan) = (k + 1 .. Len(plan)) \cup {k}
    BY <1>2
  <2>2. QED
    BY <1>3, <1>6, <2>1
<1>9. Head(s) \notin Calls(Tail(s))
  BY <1>2, <1>3, <1>6 DEF Orderly
<1>10. Head(s) \in Outcomes => Calls(Tail(s)) \cap Outcomes = {}
  BY <1>2, <1>3, <1>6 DEF Orderly, Outcomes
<1>11. ASSUME NEW rule \in Rules
       PROVE  /\ Head(s) = rule.effect => Owes(s, rule) /\ ~Owes(Tail(s), rule)
              /\ Head(s) \in rule.causes => ~Owes(s, rule) /\ Owes(Tail(s), rule)
              /\ Head(s) \notin rule.causes \cup {rule.effect} =>
                    (Owes(s, rule) <=> Owes(Tail(s), rule))
  <2>1. ASSUME Head(s) = rule.effect
        PROVE  Owes(s, rule) /\ ~Owes(Tail(s), rule)
    <3>1. PICK j \in 1 .. Len(plan) : j < k /\ plan[j] \in rule.causes
      BY <1>2, <1>3, <2>1 DEF Orderly
    <3>2. \A i \in k .. Len(plan) : plan[i] \notin rule.causes
      <4> SUFFICES ASSUME NEW i \in k .. Len(plan), plan[i] \in rule.causes
                   PROVE  FALSE
        OBVIOUS
      <4>1. i \in 1 .. Len(plan) /\ i # j
        BY <1>2, <3>1
      <4>2. QED
        BY <1>2, <3>1, <4>1 DEF Orderly
    <3>3. QED
      BY <1>3, <1>8, <1>9, <2>1, <3>2 DEF Owes
  <2>2. ASSUME Head(s) \in rule.causes
        PROVE  ~Owes(s, rule) /\ Owes(Tail(s), rule)
    <3>1. PICK j \in 1 .. Len(plan) : k < j /\ plan[j] = rule.effect
      BY <1>2, <1>3, <2>2 DEF Orderly
    <3>2. \A i \in k + 1 .. Len(plan) : plan[i] \notin rule.causes
      <4> SUFFICES ASSUME NEW i \in k + 1 .. Len(plan), plan[i] \in rule.causes
                   PROVE  FALSE
        OBVIOUS
      <4>1. i \in 1 .. Len(plan) /\ i # k
        BY <1>2
      <4>2. QED
        BY <1>2, <1>3, <2>2, <4>1 DEF Orderly
    <3>3. rule.effect \in Calls(Tail(s))
      <4>1. j \in k + 1 .. Len(plan)
        BY <1>2, <3>1
      <4>2. QED
        BY <1>6, <3>1, <4>1
    <3>4. QED
      BY <1>6, <1>8, <2>2, <3>2, <3>3 DEF Owes
  <2>3. QED
    BY <1>8, <2>1, <2>2 DEF Owes
<1>12. QED
  BY <1>3, <1>4, <1>5, <1>7, <1>8, <1>9, <1>10, <1>11

-----------------------------------------------------------------------------
(* The invariant. *)

Underway == {"upstream", "body", "stream"}

\* Where an attempt may be, and what it has then still to call.
AttemptOK(r) ==
    \/ at[r] = Idle /\ todo[r] = <<>>
    \/ \E p \in Provider, pc \in Underway : at[r] = Attempt(pc, p) /\ todo[r] = <<>>
    \/ \E p \in Provider : at[r] = Attempt("record", p) /\ Remaining(todo[r])

AttemptsOK ==
    /\ at = [r \in Request |-> at[r]] /\ todo = [r \in Request |-> todo[r]]
    /\ \A r \in Request : AttemptOK(r)

CountersOK ==
    /\ count \in [Provider -> [Counters -> Nat]]
    /\ lost \in [Provider -> Nat]

\* An attempt at p: whether it has counted a cause and not the effect, has no
\* result yet, or may yet succeed.
Of(a, p) == a.pc # "idle" /\ a.provider = p
InDebt(a, s, p, rule) == Of(a, p) /\ Owes(s, rule)
Open(a, s, p) == Of(a, p) /\ (a.pc \in Underway \/ Calls(s) \cap Outcomes # {})
Hopeful(a, s, p) == Of(a, p) /\ (a.pc \in {"body", "stream"} \/ "success" \in Calls(s))

Debtors(p, rule) == {r \in Request : InDebt(at[r], todo[r], p, rule)}
Unsettled(p) == {r \in Request : Open(at[r], todo[r], p)}
Promising(p) == {r \in Request : Hopeful(at[r], todo[r], p)}

Total(p, causes) ==
    LET N(c) == IF c \in causes THEN count[p][c] ELSE 0
    IN  N("failed") + N("refused") + N("missing-done") + N("client-write") + N("broken")
           + N("failover") + N("success") + N("cooldown")

EffectsFollow ==
    \A p \in Provider, rule \in Rules :
        count[p][rule.effect] + Cardinality(Debtors(p, rule)) = Total(p, rule.causes)

ResultsSettle ==
    \A p \in Provider :
        Results(p) + lost[p] + Cardinality(Unsettled(p)) = count[p]["attempt"]

SuccessesAnswered ==
    \A p \in Provider : count[p]["success"] + Cardinality(Promising(p)) <= count[p]["answered"]

CountersInv == AttemptsOK /\ CountersOK /\ EffectsFollow /\ ResultsSettle /\ SuccessesAnswered

One(b) == IF b THEN 1 ELSE 0

LEMMA OneMoves ==
  ASSUME NEW S \in SUBSET Request, NEW T \in SUBSET Request, NEW r \in Request,
         \A q \in Request \ {r} : q \in S <=> q \in T
  PROVE  /\ Cardinality(S) \in Nat /\ Cardinality(T) \in Nat
         /\ Cardinality(T) + One(r \in S) = Cardinality(S) + One(r \in T)
<1>1. IsFiniteSet(S) /\ IsFiniteSet(T)
  BY MetricsAssumption, FS_Subset
<1>2. Cardinality(S) \in Nat /\ Cardinality(T) \in Nat
  BY <1>1, FS_CardinalityType
<1>3. CASE r \in S <=> r \in T
  <2>1. S = T
    BY <1>3
  <2>2. QED
    BY <1>2, <2>1 DEF One
<1>4. CASE r \in S /\ r \notin T
  <2>1. S = T \cup {r}
    BY <1>4
  <2>2. Cardinality(S) = Cardinality(T) + 1
    BY <1>1, <1>4, <2>1, FS_AddElement
  <2>3. QED
    BY <1>2, <1>4, <2>2 DEF One
<1>5. CASE r \notin S /\ r \in T
  <2>1. T = S \cup {r}
    BY <1>5
  <2>2. Cardinality(T) = Cardinality(S) + 1
    BY <1>1, <1>5, <2>1, FS_AddElement
  <2>3. QED
    BY <1>2, <1>5, <2>2 DEF One
<1>6. QED
  BY <1>3, <1>4, <1>5

\* A step of request r.
Only(r) == \A q \in Request \ {r} : at'[q] = at[q] /\ todo'[q] = todo[q]

LEMMA SetsMove ==
  ASSUME NEW r \in Request, Only(r), NEW p \in Provider
  PROVE  /\ \A rule \in Rules :
              /\ Cardinality(Debtors(p, rule)) \in Nat /\ Cardinality(Debtors(p, rule)') \in Nat
              /\ Cardinality(Debtors(p, rule)') + One(r \in Debtors(p, rule))
                    = Cardinality(Debtors(p, rule)) + One(r \in Debtors(p, rule)')
         /\ /\ Cardinality(Unsettled(p)) \in Nat /\ Cardinality(Unsettled(p)') \in Nat
            /\ Cardinality(Unsettled(p)') + One(r \in Unsettled(p))
                  = Cardinality(Unsettled(p)) + One(r \in Unsettled(p)')
         /\ /\ Cardinality(Promising(p)) \in Nat /\ Cardinality(Promising(p)') \in Nat
            /\ Cardinality(Promising(p)') + One(r \in Promising(p))
                  = Cardinality(Promising(p)) + One(r \in Promising(p)')
<1>1. ASSUME NEW rule \in Rules
      PROVE  /\ Debtors(p, rule) \in SUBSET Request /\ Debtors(p, rule)' \in SUBSET Request
             /\ \A q \in Request \ {r} : q \in Debtors(p, rule) <=> q \in Debtors(p, rule)'
  BY DEF Debtors, Only
<1>2. /\ Unsettled(p) \in SUBSET Request /\ Unsettled(p)' \in SUBSET Request
      /\ \A q \in Request \ {r} : q \in Unsettled(p) <=> q \in Unsettled(p)'
  BY DEF Unsettled, Only
<1>3. /\ Promising(p) \in SUBSET Request /\ Promising(p)' \in SUBSET Request
      /\ \A q \in Request \ {r} : q \in Promising(p) <=> q \in Promising(p)'
  BY DEF Promising, Only
<1>4. QED
  BY <1>1, <1>2, <1>3, OneMoves

\* The counters move by one, or not at all (no counter is called "none").
Counts(p0, h) ==
    \A p \in Provider, c \in Counters : count'[p][c] = count[p][c] + One(p = p0 /\ c = h)

LEMMA CountedCounts ==
  ASSUME CountersOK, NEW p0 \in Provider, NEW h \in Counters, Counted(p0, h)
  PROVE  Counts(p0, h) /\ count' \in [Provider -> [Counters -> Nat]]
<1>1. count' = [count EXCEPT ![p0] = [count[p0] EXCEPT ![h] = count[p0][h] + 1]]
  BY DEF Counted
<1>2. count \in [Provider -> [Counters -> Nat]]
  BY DEF CountersOK
<1>3. PICK f : f = [count[p0] EXCEPT ![h] = count[p0][h] + 1] /\ f \in [Counters -> Nat]
  <2>1. count[p0] \in [Counters -> Nat] /\ count[p0][h] + 1 \in Nat
    BY <1>2
  <2>2. [count[p0] EXCEPT ![h] = count[p0][h] + 1] \in [Counters -> Nat]
    BY <2>1
  <2>3. QED
    BY <2>2
<1>4. \A c \in Counters : f[c] = count[p0][c] + One(c = h)
  BY <1>2, <1>3 DEF One
<1>5. \A p \in Provider : count'[p] = IF p = p0 THEN f ELSE count[p]
  BY <1>1, <1>2, <1>3
<1>6. count' \in [Provider -> [Counters -> Nat]]
  BY <1>1, <1>2, <1>3
<1>7. \A p \in Provider, c \in Counters : count[p][c] \in Nat
  BY <1>2
<1>8. QED
  BY <1>4, <1>5, <1>6, <1>7 DEF Counts, One

LEMMA StillCounts ==
  ASSUME CountersOK, NEW p0 \in Provider, UNCHANGED count
  PROVE  Counts(p0, "none")
<1>1. "none" \notin Counters
  BY DEF Counters
<1>2. \A p \in Provider, c \in Counters : count[p][c] \in Nat
  BY DEF CountersOK
<1>3. QED
  BY <1>1, <1>2 DEF Counts, One

LEMMA RuleCounters ==
  ASSUME NEW rule \in Rules
  PROVE  /\ rule.effect \in Counters \ {"attempt", "skip", "answered"}
         /\ rule.effect \notin rule.causes /\ rule.effect # "none"
         /\ rule.causes \subseteq {"failed", "refused", "missing-done", "client-write", "broken",
                                   "failover", "success", "cooldown"}
BY DEF Rules, Counters

LEMMA TotalMoves ==
  ASSUME CountersOK, NEW p0, NEW h, Counts(p0, h), NEW p \in Provider, NEW rule \in Rules
  PROVE  /\ Total(p, rule.causes) \in Nat
         /\ Total(p, rule.causes)' = Total(p, rule.causes) + One(p = p0 /\ h \in rule.causes)
<1>1. PICK causes : causes = rule.causes
  OBVIOUS
<1>2. causes \subseteq {"failed", "refused", "missing-done", "client-write", "broken",
                        "failover", "success", "cooldown"}
  BY <1>1, RuleCounters
<1> DEFINE N(c) == IF c \in causes THEN count[p][c] ELSE 0
<1>3. ASSUME NEW c \in Counters
      PROVE  N(c) \in Nat /\ N(c)' = N(c) + One(p = p0 /\ c = h /\ c \in causes)
  BY DEF CountersOK, Counts, One
<1>4. {"failed", "refused", "missing-done", "client-write", "broken", "failover", "success",
       "cooldown"} \subseteq Counters
  BY DEF Counters
<1>5. Total(p, causes) = N("failed") + N("refused") + N("missing-done") + N("client-write")
         + N("broken") + N("failover") + N("success") + N("cooldown")
  BY DEF Total
<1>6. Total(p, causes)' = N("failed")' + N("refused")' + N("missing-done")' + N("client-write")'
         + N("broken")' + N("failover")' + N("success")' + N("cooldown")'
  BY DEF Total
<1> HIDE DEF N
<1>7. QED
  BY <1>1, <1>2, <1>3, <1>4, <1>5, <1>6 DEF One

LEMMA EffectsFollowStep ==
  ASSUME CountersOK, EffectsFollow, NEW r \in Request, Only(r), NEW p0, NEW h, Counts(p0, h),
         \A p \in Provider, rule \in Rules :
            One(r \in Debtors(p, rule)') + One(p = p0 /\ rule.effect = h)
               = One(r \in Debtors(p, rule)) + One(p = p0 /\ h \in rule.causes)
  PROVE  EffectsFollow'
<1> SUFFICES ASSUME NEW p \in Provider, NEW rule \in Rules
             PROVE  count'[p][rule.effect] + Cardinality(Debtors(p, rule)')
                       = Total(p, rule.causes)'
  BY DEF EffectsFollow
<1>1. PICK m, n : m = Cardinality(Debtors(p, rule)) /\ n = Cardinality(Debtors(p, rule)')
  OBVIOUS
<1>2. PICK was, is : was = One(r \in Debtors(p, rule)) /\ is = One(r \in Debtors(p, rule)')
  OBVIOUS
<1>3. m \in Nat /\ n \in Nat /\ n + was = m + is /\ was \in {0, 1} /\ is \in {0, 1}
  BY <1>1, <1>2, SetsMove DEF One
<1>4. PICK x, y : x = One(p = p0 /\ rule.effect = h) /\ y = One(p = p0 /\ h \in rule.causes)
  OBVIOUS
<1>5. x \in {0, 1} /\ y \in {0, 1} /\ is + x = was + y
  BY <1>2, <1>4 DEF One
<1>6. /\ count[p][rule.effect] \in Nat /\ count'[p][rule.effect] = count[p][rule.effect] + x
  BY <1>4, RuleCounters DEF CountersOK, Counts
<1>7. PICK t : t = Total(p, rule.causes)
  OBVIOUS
<1>8. t \in Nat /\ Total(p, rule.causes)' = t + y
  BY <1>4, <1>7, TotalMoves
<1>9. count[p][rule.effect] + m = t
  BY <1>1, <1>7 DEF EffectsFollow
<1>10. QED
  BY <1>1, <1>3, <1>5, <1>6, <1>8, <1>9

LEMMA ResultsSettleStep ==
  ASSUME CountersOK, ResultsSettle, NEW r \in Request, Only(r), NEW p0, NEW h, Counts(p0, h),
         NEW gone \in {0, 1},
         \A p \in Provider : lost'[p] = lost[p] + (IF p = p0 THEN gone ELSE 0),
         \A p \in Provider :
            One(r \in Unsettled(p)') + One(p = p0 /\ h \in Outcomes)
                  + (IF p = p0 THEN gone ELSE 0)
               = One(r \in Unsettled(p)) + One(p = p0 /\ h = "attempt")
  PROVE  ResultsSettle'
<1> SUFFICES ASSUME NEW p \in Provider
             PROVE  Results(p)' + lost'[p] + Cardinality(Unsettled(p)') = count'[p]["attempt"]
  BY DEF ResultsSettle
<1>1. PICK m, n : m = Cardinality(Unsettled(p)) /\ n = Cardinality(Unsettled(p)')
  OBVIOUS
<1>2. PICK was, is : was = One(r \in Unsettled(p)) /\ is = One(r \in Unsettled(p)')
  OBVIOUS
<1>3. m \in Nat /\ n \in Nat /\ n + was = m + is /\ was \in {0, 1} /\ is \in {0, 1}
  BY <1>1, <1>2, SetsMove DEF One
<1>4. PICK a, b, x, y, z : /\ a = One(p = p0 /\ h = "success") /\ b = One(p = p0 /\ h = "error")
                           /\ x = One(p = p0 /\ h \in Outcomes)
                           /\ y = One(p = p0 /\ h = "attempt")
                           /\ z = IF p = p0 THEN gone ELSE 0
  OBVIOUS
<1>5. /\ a \in {0, 1} /\ b \in {0, 1} /\ y \in {0, 1} /\ z \in {0, 1} /\ x = a + b
      /\ is + x + z = was + y
  BY <1>2, <1>4 DEF One, Outcomes
<1>6. {"success", "error", "attempt"} \subseteq Counters
  BY DEF Counters
<1>7. /\ count[p]["success"] \in Nat /\ count[p]["error"] \in Nat /\ count[p]["attempt"] \in Nat
      /\ count'[p]["success"] = count[p]["success"] + a
      /\ count'[p]["error"] = count[p]["error"] + b
      /\ count'[p]["attempt"] = count[p]["attempt"] + y
  <2>1. \A c \in Counters : count[p][c] \in Nat
    BY DEF CountersOK
  <2>2. \A c \in Counters : count'[p][c] = count[p][c] + One(p = p0 /\ c = h)
    BY DEF Counts
  <2>3. QED
    BY <1>4, <1>6, <2>1, <2>2 DEF One
<1>8. lost[p] \in Nat /\ lost'[p] = lost[p] + z
  BY <1>4 DEF CountersOK
<1>9. count[p]["success"] + count[p]["error"] + lost[p] + m = count[p]["attempt"]
  BY <1>1 DEF ResultsSettle, Results
<1>10. count'[p]["success"] + count'[p]["error"] + lost'[p] + n = count'[p]["attempt"]
  <2>1. PICK s, e, c, l : /\ s = count[p]["success"] /\ e = count[p]["error"]
                          /\ c = count[p]["attempt"] /\ l = lost[p]
    OBVIOUS
  <2>2. s \in Nat /\ e \in Nat /\ c \in Nat /\ l \in Nat /\ s + e + l + m = c
    BY <1>7, <1>8, <1>9, <2>1
  <2>3. (s + a) + (e + b) + (l + z) + n = c + y
    BY <1>3, <1>5, <2>2
  <2>4. QED
    BY <1>7, <1>8, <2>1, <2>3
<1>11. QED
  BY <1>1, <1>10 DEF Results

LEMMA SuccessesAnsweredStep ==
  ASSUME CountersOK, SuccessesAnswered, NEW r \in Request, Only(r), NEW p0, NEW h, Counts(p0, h),
         \A p \in Provider :
            One(r \in Promising(p)') + One(p = p0 /\ h = "success")
               <= One(r \in Promising(p)) + One(p = p0 /\ h = "answered")
  PROVE  SuccessesAnswered'
<1> SUFFICES ASSUME NEW p \in Provider
             PROVE  count'[p]["success"] + Cardinality(Promising(p)') <= count'[p]["answered"]
  BY DEF SuccessesAnswered
<1>1. PICK m, n : m = Cardinality(Promising(p)) /\ n = Cardinality(Promising(p)')
  OBVIOUS
<1>2. PICK was, is : was = One(r \in Promising(p)) /\ is = One(r \in Promising(p)')
  OBVIOUS
<1>3. m \in Nat /\ n \in Nat /\ n + was = m + is /\ was \in {0, 1} /\ is \in {0, 1}
  BY <1>1, <1>2, SetsMove DEF One
<1>4. PICK a, b : a = One(p = p0 /\ h = "success") /\ b = One(p = p0 /\ h = "answered")
  OBVIOUS
<1>5. a \in {0, 1} /\ b \in {0, 1} /\ is + a <= was + b
  BY <1>2, <1>4 DEF One
<1>6. {"success", "answered"} \subseteq Counters
  BY DEF Counters
<1>7. /\ count[p]["success"] \in Nat /\ count[p]["answered"] \in Nat
      /\ count'[p]["success"] = count[p]["success"] + a
      /\ count'[p]["answered"] = count[p]["answered"] + b
  <2>1. \A c \in Counters : count[p][c] \in Nat
    BY DEF CountersOK
  <2>2. \A c \in Counters : count'[p][c] = count[p][c] + One(p = p0 /\ c = h)
    BY DEF Counts
  <2>3. QED
    BY <1>4, <1>6, <2>1, <2>2 DEF One
<1>8. count[p]["success"] + m <= count[p]["answered"]
  BY <1>1 DEF SuccessesAnswered
<1>9. QED
  BY <1>1, <1>3, <1>5, <1>7, <1>8

LEMMA Standing ==
  ASSUME NEW p, NEW q, NEW s
  PROVE  /\ ~Open(Idle, s, p) /\ ~Hopeful(Idle, s, p)
         /\ \A rule \in Rules : ~InDebt(Idle, s, p, rule)
         /\ \A pc \in Underway :
              /\ Open(Attempt(pc, q), <<>>, p) <=> p = q
              /\ Hopeful(Attempt(pc, q), <<>>, p) <=> p = q /\ pc # "upstream"
              /\ \A rule \in Rules : ~InDebt(Attempt(pc, q), <<>>, p, rule)
         /\ Open(Attempt("record", q), s, p) <=> p = q /\ Calls(s) \cap Outcomes # {}
         /\ Hopeful(Attempt("record", q), s, p) <=> p = q /\ "success" \in Calls(s)
         /\ \A rule \in Rules :
              InDebt(Attempt("record", q), s, p, rule) <=> p = q /\ Owes(s, rule)
<1>1. Calls(<<>>) = {}
  BY DEF Calls
<1>2. \A rule \in Rules : ~Owes(<<>>, rule)
  BY <1>1 DEF Owes
<1>3. Idle.pc = "idle" /\ \A pc : Attempt(pc, q).pc = pc /\ Attempt(pc, q).provider = q
  BY DEF Idle, Attempt
<1>4. QED
  BY <1>1, <1>2, <1>3 DEF Open, Hopeful, InDebt, Of, Underway

LEMMA AttemptsOKStep ==
  ASSUME AttemptsOK, NEW r \in Request, Only(r), AttemptOK(r)',
         at' = [at EXCEPT ![r] = at'[r]], todo' = [todo EXCEPT ![r] = todo'[r]]
  PROVE  AttemptsOK'
<1>1. /\ at = [q \in Request |-> at[q]] /\ todo = [q \in Request |-> todo[q]]
      /\ \A q \in Request : AttemptOK(q)
  BY DEF AttemptsOK
<1>2. at' = [q \in Request |-> at'[q]] /\ todo' = [q \in Request |-> todo'[q]]
  BY <1>1
<1>3. \A q \in Request : AttemptOK(q)'
  BY <1>1 DEF Only, AttemptOK
<1>4. QED
  BY <1>2, <1>3 DEF AttemptsOK

\* What a step of request r, with its attempt at provider p0, must keep to.
LEMMA StepKeeps ==
  ASSUME CountersInv, NEW r \in Request, Only(r), AttemptOK(r)',
         at' = [at EXCEPT ![r] = at'[r]], todo' = [todo EXCEPT ![r] = todo'[r]],
         NEW p0 \in Provider, NEW h, Counts(p0, h), count' \in [Provider -> [Counters -> Nat]],
         NEW gone \in {0, 1},
         IF gone = 1 THEN lost' = [lost EXCEPT ![p0] = @ + 1] ELSE lost' = lost,
         \A p \in Provider, rule \in Rules :
            One(InDebt(at'[r], todo'[r], p, rule)) + One(p = p0 /\ rule.effect = h)
               = One(InDebt(at[r], todo[r], p, rule)) + One(p = p0 /\ h \in rule.causes),
         \A p \in Provider :
            One(Open(at'[r], todo'[r], p)) + One(p = p0 /\ h \in Outcomes)
                  + (IF p = p0 THEN gone ELSE 0)
               = One(Open(at[r], todo[r], p)) + One(p = p0 /\ h = "attempt"),
         \A p \in Provider :
            One(Hopeful(at'[r], todo'[r], p)) + One(p = p0 /\ h = "success")
               <= One(Hopeful(at[r], todo[r], p)) + One(p = p0 /\ h = "answered")
  PROVE  CountersInv'
<1>1. AttemptsOK /\ CountersOK /\ EffectsFollow /\ ResultsSettle /\ SuccessesAnswered
  BY DEF CountersInv
<1>2. /\ \A p \in Provider : lost'[p] = lost[p] + (IF p = p0 THEN gone ELSE 0)
      /\ lost' \in [Provider -> Nat]
  BY <1>1 DEF CountersOK
<1>3. AttemptsOK'
  BY <1>1, AttemptsOKStep
<1>4. CountersOK'
  BY <1>2 DEF CountersOK
<1>5. \A p \in Provider :
         /\ \A rule \in Rules : /\ r \in Debtors(p, rule) <=> InDebt(at[r], todo[r], p, rule)
                                /\ r \in Debtors(p, rule)' <=> InDebt(at'[r], todo'[r], p, rule)
         /\ r \in Unsettled(p) <=> Open(at[r], todo[r], p)
         /\ r \in Unsettled(p)' <=> Open(at'[r], todo'[r], p)
         /\ r \in Promising(p) <=> Hopeful(at[r], todo[r], p)
         /\ r \in Promising(p)' <=> Hopeful(at'[r], todo'[r], p)
  BY DEF Debtors, Unsettled, Promising
<1>6. EffectsFollow'
  <2>1. \A p \in Provider, rule \in Rules :
            One(r \in Debtors(p, rule)') + One(p = p0 /\ rule.effect = h)
               = One(r \in Debtors(p, rule)) + One(p = p0 /\ h \in rule.causes)
    BY <1>5 DEF One
  <2>2. QED
    BY <1>1, <2>1, EffectsFollowStep
<1>7. ResultsSettle'
  <2>1. \A p \in Provider :
            One(r \in Unsettled(p)') + One(p = p0 /\ h \in Outcomes)
                  + (IF p = p0 THEN gone ELSE 0)
               = One(r \in Unsettled(p)) + One(p = p0 /\ h = "attempt")
    BY <1>5 DEF One
  <2>2. QED
    BY <1>1, <1>2, <2>1, ResultsSettleStep
<1>8. SuccessesAnswered'
  <2>1. \A p \in Provider :
            One(r \in Promising(p)') + One(p = p0 /\ h = "success")
               <= One(r \in Promising(p)) + One(p = p0 /\ h = "answered")
    BY <1>5 DEF One
  <2>2. QED
    BY <1>1, <2>1, SuccessesAnsweredStep
<1>9. QED
  BY <1>3, <1>4, <1>6, <1>7, <1>8 DEF CountersInv

\* How the plans end: all with a result, but for the one of a client that left.
LEMMA PlanOutcomes ==
  /\ Calls(Success) \cap Outcomes # {}
  /\ Calls(<<"duration">>) = {"duration"}
  /\ \A plan \in {Failure, Refusal, Aborted("client-write", <<>>), Aborted("missing-done", Bench),
                  Aborted("broken", Failover)} :
        Calls(plan) \cap Outcomes # {} /\ "success" \notin Calls(plan)
<1>1. Calls(Failure) \cap Outcomes # {} /\ "success" \notin Calls(Failure)
  BY FailureCalls DEF Calls, Outcomes
<1>2. Calls(Refusal) \cap Outcomes # {} /\ "success" \notin Calls(Refusal)
  BY DEF Refusal, Calls, Outcomes
<1>3. Calls(Success) \cap Outcomes # {}
  BY DEF Success, Calls, Outcomes
<1>4. Calls(<<"duration">>) = {"duration"}
  BY DEF Calls
<1>5. /\ Calls(Aborted("client-write", <<>>)) \cap Outcomes # {}
      /\ "success" \notin Calls(Aborted("client-write", <<>>))
  <2>1. PICK s : s = <<"client-write", "history-error", "error", "duration">>
    OBVIOUS
  <2>2. Calls(s) \cap Outcomes # {} /\ "success" \notin Calls(s)
    BY <2>1 DEF Calls, Outcomes
  <2>3. QED
    BY <2>1, <2>2, AbortedCalls
<1>6. /\ Calls(Aborted("missing-done", Bench)) \cap Outcomes # {}
      /\ "success" \notin Calls(Aborted("missing-done", Bench))
  <2>1. PICK s : s = <<"missing-done", "history-error", "error", "cooldown",
                       "history-cooldown", "duration">>
    OBVIOUS
  <2>2. Calls(s) \cap Outcomes # {} /\ "success" \notin Calls(s)
    BY <2>1 DEF Calls, Outcomes
  <2>3. QED
    BY <2>1, <2>2, AbortedCalls
<1>7. /\ Calls(Aborted("broken", Failover)) \cap Outcomes # {}
      /\ "success" \notin Calls(Aborted("broken", Failover))
  <2>1. PICK s : s = <<"broken", "history-error", "error", "failover", "cooldown",
                       "history-cooldown", "duration">>
    OBVIOUS
  <2>2. Calls(s) \cap Outcomes # {} /\ "success" \notin Calls(s)
    BY <2>1 DEF Calls, Outcomes
  <2>3. QED
    BY <2>1, <2>2, AbortedCalls
<1>8. QED
  BY <1>1, <1>2, <1>3, <1>4, <1>5, <1>6, <1>7

LEMMA PhaseOf ==
  ASSUME AttemptsOK, NEW r \in Request
  PROVE  /\ at[r].pc = "idle" => at[r] = Idle /\ todo[r] = <<>>
         /\ \A pc \in Underway : at[r].pc = pc =>
              at[r].provider \in Provider /\ at[r] = Attempt(pc, at[r].provider) /\ todo[r] = <<>>
         /\ at[r].pc = "record" =>
              /\ at[r].provider \in Provider /\ at[r] = Attempt("record", at[r].provider)
              /\ Remaining(todo[r])
<1>1. AttemptOK(r)
  BY DEF AttemptsOK
<1>2. Idle.pc = "idle" /\ \A pc, q : Attempt(pc, q).pc = pc /\ Attempt(pc, q).provider = q
  BY DEF Idle, Attempt
<1>3. QED
  BY <1>1, <1>2 DEF AttemptOK, Underway

LEMMA SkipKeeps ==
  ASSUME CountersInv, NEW r \in Request, NEW p0 \in Provider, Skip(r, p0)
  PROVE  CountersInv'
<1>1. at[r] = Idle /\ todo[r] = <<>> /\ at' = at /\ todo' = todo /\ lost' = lost
  BY PhaseOf DEF Skip, CountersInv
<1>2. at = [q \in Request |-> at[q]] /\ todo = [q \in Request |-> todo[q]] /\ AttemptOK(r)
  BY DEF CountersInv, AttemptsOK
<1>3. /\ Only(r) /\ AttemptOK(r)'
      /\ at' = [at EXCEPT ![r] = at'[r]] /\ todo' = [todo EXCEPT ![r] = todo'[r]]
  BY <1>1, <1>2 DEF Only, AttemptOK
<1>4. Counts(p0, "skip") /\ count' \in [Provider -> [Counters -> Nat]]
  <2>1. "skip" \in Counters
    BY DEF Counters
  <2>2. QED
    BY <2>1, CountedCounts DEF Skip, CountersInv
<1>5. \A p \in Provider, rule \in Rules :
         One(InDebt(at'[r], todo'[r], p, rule)) + One(p = p0 /\ rule.effect = "skip")
            = One(InDebt(at[r], todo[r], p, rule)) + One(p = p0 /\ "skip" \in rule.causes)
  BY <1>1, RuleCounters DEF One
<1>6. \A p \in Provider :
         One(Open(at'[r], todo'[r], p)) + One(p = p0 /\ "skip" \in Outcomes)
               + (IF p = p0 THEN 0 ELSE 0)
            = One(Open(at[r], todo[r], p)) + One(p = p0 /\ "skip" = "attempt")
  BY <1>1 DEF One, Outcomes
<1>7. \A p \in Provider :
         One(Hopeful(at'[r], todo'[r], p)) + One(p = p0 /\ "skip" = "success")
            <= One(Hopeful(at[r], todo[r], p)) + One(p = p0 /\ "skip" = "answered")
  BY <1>1 DEF One
<1>8. IF 0 = 1 THEN lost' = [lost EXCEPT ![p0] = @ + 1] ELSE lost' = lost
  BY <1>1
<1>9. QED
  BY <1>3, <1>4, <1>5, <1>6, <1>7, <1>8, StepKeeps

LEMMA BeginKeeps ==
  ASSUME CountersInv, NEW r \in Request, NEW p0 \in Provider, Begin(r, p0)
  PROVE  CountersInv'
<1>1. /\ at[r] = Idle /\ todo[r] = <<>> /\ at' = [at EXCEPT ![r] = Attempt("upstream", p0)]
      /\ todo' = todo /\ lost' = lost
  BY PhaseOf DEF Begin, CountersInv
<1>2. at = [q \in Request |-> at[q]] /\ todo = [q \in Request |-> todo[q]]
  BY DEF CountersInv, AttemptsOK
<1>3. at'[r] = Attempt("upstream", p0) /\ todo'[r] = <<>>
  BY <1>1, <1>2
<1>4. /\ Only(r) /\ AttemptOK(r)'
      /\ at' = [at EXCEPT ![r] = at'[r]] /\ todo' = [todo EXCEPT ![r] = todo'[r]]
  BY <1>1, <1>2, <1>3 DEF Only, AttemptOK, Underway
<1>5. Counts(p0, "attempt") /\ count' \in [Provider -> [Counters -> Nat]]
  <2>1. "attempt" \in Counters
    BY DEF Counters
  <2>2. QED
    BY <2>1, CountedCounts DEF Begin, CountersInv
<1>6. ASSUME NEW p \in Provider
      PROVE  /\ ~Open(at[r], todo[r], p) /\ ~Hopeful(at[r], todo[r], p)
             /\ Open(at'[r], todo'[r], p) <=> p = p0
             /\ ~Hopeful(at'[r], todo'[r], p)
             /\ \A rule \in Rules : /\ ~InDebt(at[r], todo[r], p, rule)
                                    /\ ~InDebt(at'[r], todo'[r], p, rule)
  <2>1. "upstream" \in Underway
    BY DEF Underway
  <2>2. /\ Open(Attempt("upstream", p0), <<>>, p) <=> p = p0
        /\ ~Hopeful(Attempt("upstream", p0), <<>>, p)
        /\ \A rule \in Rules : ~InDebt(Attempt("upstream", p0), <<>>, p, rule)
    BY <2>1, Standing
  <2>3. /\ ~Open(Idle, <<>>, p) /\ ~Hopeful(Idle, <<>>, p)
        /\ \A rule \in Rules : ~InDebt(Idle, <<>>, p, rule)
    BY Standing
  <2>4. QED
    BY <1>1, <1>3, <2>2, <2>3
<1>7. \A p \in Provider, rule \in Rules :
         One(InDebt(at'[r], todo'[r], p, rule)) + One(p = p0 /\ rule.effect = "attempt")
            = One(InDebt(at[r], todo[r], p, rule)) + One(p = p0 /\ "attempt" \in rule.causes)
  BY <1>6, RuleCounters DEF One
<1>8. \A p \in Provider :
         One(Open(at'[r], todo'[r], p)) + One(p = p0 /\ "attempt" \in Outcomes)
               + (IF p = p0 THEN 0 ELSE 0)
            = One(Open(at[r], todo[r], p)) + One(p = p0 /\ "attempt" = "attempt")
  BY <1>6 DEF One, Outcomes
<1>9. \A p \in Provider :
         One(Hopeful(at'[r], todo'[r], p)) + One(p = p0 /\ "attempt" = "success")
            <= One(Hopeful(at[r], todo[r], p)) + One(p = p0 /\ "attempt" = "answered")
  BY <1>6 DEF One
<1>10. IF 0 = 1 THEN lost' = [lost EXCEPT ![p0] = @ + 1] ELSE lost' = lost
  BY <1>1
<1>11. QED
  BY <1>4, <1>5, <1>7, <1>8, <1>9, <1>10, StepKeeps

LEMMA GivesUpKeeps ==
  ASSUME CountersInv, NEW r \in Request, GivesUp(r)
  PROVE  CountersInv'
<1>1. PICK pc \in {"upstream", "body"} : at[r].pc = pc
  BY DEF GivesUp
<1>2. PICK p0 \in Provider : p0 = at[r].provider /\ at[r] = Attempt(pc, p0) /\ todo[r] = <<>>
  BY <1>1, PhaseOf DEF CountersInv, Underway
<1>3. /\ at' = [at EXCEPT ![r] = Idle] /\ todo' = todo /\ UNCHANGED count
      /\ lost' = [lost EXCEPT ![p0] = @ + 1]
  BY <1>2 DEF GivesUp, Lost
<1>4. at = [q \in Request |-> at[q]] /\ todo = [q \in Request |-> todo[q]]
  BY DEF CountersInv, AttemptsOK
<1>5. at'[r] = Idle /\ todo'[r] = <<>>
  BY <1>2, <1>3, <1>4
<1>6. /\ Only(r) /\ AttemptOK(r)'
      /\ at' = [at EXCEPT ![r] = at'[r]] /\ todo' = [todo EXCEPT ![r] = todo'[r]]
  BY <1>3, <1>4, <1>5 DEF Only, AttemptOK
<1>7. Counts(p0, "none") /\ count' \in [Provider -> [Counters -> Nat]]
  BY <1>3, StillCounts DEF CountersInv, CountersOK
<1>8. ASSUME NEW p \in Provider
      PROVE  /\ Open(at[r], todo[r], p) <=> p = p0
             /\ ~Open(at'[r], todo'[r], p) /\ ~Hopeful(at'[r], todo'[r], p)
             /\ \A rule \in Rules : /\ ~InDebt(at[r], todo[r], p, rule)
                                    /\ ~InDebt(at'[r], todo'[r], p, rule)
  <2>1. pc \in Underway
    BY DEF Underway
  <2>2. /\ Open(Attempt(pc, p0), <<>>, p) <=> p = p0
        /\ \A rule \in Rules : ~InDebt(Attempt(pc, p0), <<>>, p, rule)
    BY <2>1, Standing
  <2>3. /\ ~Open(Idle, <<>>, p) /\ ~Hopeful(Idle, <<>>, p)
        /\ \A rule \in Rules : ~InDebt(Idle, <<>>, p, rule)
    BY Standing
  <2>4. QED
    BY <1>2, <1>5, <2>2, <2>3
<1>9. \A p \in Provider, rule \in Rules :
         One(InDebt(at'[r], todo'[r], p, rule)) + One(p = p0 /\ rule.effect = "none")
            = One(InDebt(at[r], todo[r], p, rule)) + One(p = p0 /\ "none" \in rule.causes)
  BY <1>8, RuleCounters DEF One
<1>10. \A p \in Provider :
         One(Open(at'[r], todo'[r], p)) + One(p = p0 /\ "none" \in Outcomes)
               + (IF p = p0 THEN 1 ELSE 0)
            = One(Open(at[r], todo[r], p)) + One(p = p0 /\ "none" = "attempt")
  BY <1>8 DEF One, Outcomes
<1>11. \A p \in Provider :
         One(Hopeful(at'[r], todo'[r], p)) + One(p = p0 /\ "none" = "success")
            <= One(Hopeful(at[r], todo[r], p)) + One(p = p0 /\ "none" = "answered")
  BY <1>8 DEF One
<1>12. IF 1 = 1 THEN lost' = [lost EXCEPT ![p0] = @ + 1] ELSE lost' = lost
  BY <1>3
<1>13. QED
  BY <1>6, <1>7, <1>9, <1>10, <1>11, <1>12, StepKeeps

LEMMA AnswersKeeps ==
  ASSUME CountersInv, NEW r \in Request, Answers(r)
  PROVE  CountersInv'
<1>1. PICK p0 \in Provider : /\ p0 = at[r].provider /\ at[r] = Attempt("upstream", p0)
                             /\ todo[r] = <<>>
  BY PhaseOf DEF CountersInv, Answers, Underway
<1>2. PICK pc \in {"body", "stream"} : at' = [at EXCEPT ![r] = Attempt(pc, p0)]
  BY <1>1 DEF Answers
<1>3. todo' = todo /\ lost' = lost /\ Counted(p0, "answered")
  BY <1>1 DEF Answers
<1>4. at = [q \in Request |-> at[q]] /\ todo = [q \in Request |-> todo[q]]
  BY DEF CountersInv, AttemptsOK
<1>5. at'[r] = Attempt(pc, p0) /\ todo'[r] = <<>> /\ pc \in Underway
  BY <1>1, <1>2, <1>3, <1>4 DEF Underway
<1>6. /\ Only(r) /\ AttemptOK(r)'
      /\ at' = [at EXCEPT ![r] = at'[r]] /\ todo' = [todo EXCEPT ![r] = todo'[r]]
  BY <1>2, <1>3, <1>4, <1>5 DEF Only, AttemptOK
<1>7. Counts(p0, "answered") /\ count' \in [Provider -> [Counters -> Nat]]
  <2>1. "answered" \in Counters
    BY DEF Counters
  <2>2. QED
    BY <1>3, <2>1, CountedCounts DEF CountersInv
<1>8. ASSUME NEW p \in Provider
      PROVE  /\ Open(at[r], todo[r], p) <=> Open(at'[r], todo'[r], p)
             /\ Hopeful(at'[r], todo'[r], p) => p = p0
             /\ \A rule \in Rules : /\ ~InDebt(at[r], todo[r], p, rule)
                                    /\ ~InDebt(at'[r], todo'[r], p, rule)
  <2>1. "upstream" \in Underway
    BY DEF Underway
  <2>2. /\ Open(Attempt("upstream", p0), <<>>, p) <=> p = p0
        /\ \A rule \in Rules : ~InDebt(Attempt("upstream", p0), <<>>, p, rule)
    BY <2>1, Standing
  <2>3. /\ Open(Attempt(pc, p0), <<>>, p) <=> p = p0
        /\ Hopeful(Attempt(pc, p0), <<>>, p) => p = p0
        /\ \A rule \in Rules : ~InDebt(Attempt(pc, p0), <<>>, p, rule)
    BY <1>5, Standing
  <2>4. QED
    BY <1>1, <1>5, <2>2, <2>3
<1>9. \A p \in Provider, rule \in Rules :
         One(InDebt(at'[r], todo'[r], p, rule)) + One(p = p0 /\ rule.effect = "answered")
            = One(InDebt(at[r], todo[r], p, rule)) + One(p = p0 /\ "answered" \in rule.causes)
  BY <1>8, RuleCounters DEF One
<1>10. \A p \in Provider :
         One(Open(at'[r], todo'[r], p)) + One(p = p0 /\ "answered" \in Outcomes)
               + (IF p = p0 THEN 0 ELSE 0)
            = One(Open(at[r], todo[r], p)) + One(p = p0 /\ "answered" = "attempt")
  BY <1>8 DEF One, Outcomes
<1>11. \A p \in Provider :
         One(Hopeful(at'[r], todo'[r], p)) + One(p = p0 /\ "answered" = "success")
            <= One(Hopeful(at[r], todo[r], p)) + One(p = p0 /\ "answered" = "answered")
  BY <1>8 DEF One
<1>12. IF 0 = 1 THEN lost' = [lost EXCEPT ![p0] = @ + 1] ELSE lost' = lost
  BY <1>3
<1>13. QED
  BY <1>6, <1>7, <1>9, <1>10, <1>11, <1>12, StepKeeps

\* An attempt is over: its calls owe nothing yet, and hold a result unless the
\* client has left.
LEMMA EndsKeeps ==
  ASSUME CountersInv, NEW r \in Request, NEW pc \in Underway, NEW plan \in Plans,
         Ends(r, pc, plan), "success" \in Calls(plan) => pc # "upstream",
         IF Calls(plan) \cap Outcomes = {} THEN Lost(r) ELSE UNCHANGED lost
  PROVE  CountersInv'
<1>1. PICK p0 \in Provider : p0 = at[r].provider /\ at[r] = Attempt(pc, p0) /\ todo[r] = <<>>
  BY PhaseOf DEF CountersInv, Ends
<1>2. /\ at' = [at EXCEPT ![r] = Attempt("record", p0)] /\ todo' = [todo EXCEPT ![r] = plan]
      /\ UNCHANGED count
  BY <1>1 DEF Ends
<1>3. PICK gone \in {0, 1} : gone = IF Calls(plan) \cap Outcomes = {} THEN 1 ELSE 0
  OBVIOUS
<1>4. IF gone = 1 THEN lost' = [lost EXCEPT ![p0] = @ + 1] ELSE lost' = lost
  BY <1>1, <1>3 DEF Lost
<1>5. at = [q \in Request |-> at[q]] /\ todo = [q \in Request |-> todo[q]]
  BY DEF CountersInv, AttemptsOK
<1>6. at'[r] = Attempt("record", p0) /\ todo'[r] = plan
  BY <1>2, <1>5
<1>7. Remaining(plan) /\ \A rule \in Rules : ~Owes(plan, rule)
  BY PlansOweNothing
<1>8. /\ Only(r) /\ AttemptOK(r)'
      /\ at' = [at EXCEPT ![r] = at'[r]] /\ todo' = [todo EXCEPT ![r] = todo'[r]]
  BY <1>2, <1>5, <1>6, <1>7 DEF Only, AttemptOK
<1>9. Counts(p0, "none") /\ count' \in [Provider -> [Counters -> Nat]]
  BY <1>2, StillCounts DEF CountersInv, CountersOK
<1>10. /\ gone = 1 => Calls(plan) \cap Outcomes = {}
       /\ gone = 0 => Calls(plan) \cap Outcomes # {}
       /\ "success" \in Calls(plan) => pc # "upstream"
  BY <1>3
<1>11. ASSUME NEW p \in Provider
       PROVE  /\ Open(at[r], todo[r], p) <=> p = p0
              /\ Open(at'[r], todo'[r], p) <=> p = p0 /\ gone = 0
              /\ Hopeful(at'[r], todo'[r], p) => Hopeful(at[r], todo[r], p)
              /\ \A rule \in Rules : /\ ~InDebt(at[r], todo[r], p, rule)
                                     /\ ~InDebt(at'[r], todo'[r], p, rule)
  <2>1. /\ Open(Attempt(pc, p0), <<>>, p) <=> p = p0
        /\ Hopeful(Attempt(pc, p0), <<>>, p) <=> p = p0 /\ pc # "upstream"
        /\ \A rule \in Rules : ~InDebt(Attempt(pc, p0), <<>>, p, rule)
    BY Standing
  <2>2. /\ Open(Attempt("record", p0), plan, p) <=> p = p0 /\ Calls(plan) \cap Outcomes # {}
        /\ Hopeful(Attempt("record", p0), plan, p) <=> p = p0 /\ "success" \in Calls(plan)
        /\ \A rule \in Rules :
              InDebt(Attempt("record", p0), plan, p, rule) <=> p = p0 /\ Owes(plan, rule)
    BY Standing
  <2>3. QED
    BY <1>1, <1>3, <1>6, <1>7, <1>10, <2>1, <2>2
<1>12. \A p \in Provider, rule \in Rules :
          One(InDebt(at'[r], todo'[r], p, rule)) + One(p = p0 /\ rule.effect = "none")
             = One(InDebt(at[r], todo[r], p, rule)) + One(p = p0 /\ "none" \in rule.causes)
  BY <1>11, RuleCounters DEF One
<1>13. \A p \in Provider :
          One(Open(at'[r], todo'[r], p)) + One(p = p0 /\ "none" \in Outcomes)
                + (IF p = p0 THEN gone ELSE 0)
             = One(Open(at[r], todo[r], p)) + One(p = p0 /\ "none" = "attempt")
  BY <1>3, <1>11 DEF One, Outcomes
<1>14. \A p \in Provider :
          One(Hopeful(at'[r], todo'[r], p)) + One(p = p0 /\ "none" = "success")
             <= One(Hopeful(at[r], todo[r], p)) + One(p = p0 /\ "none" = "answered")
  BY <1>11 DEF One
<1>15. QED
  BY <1>4, <1>8, <1>9, <1>12, <1>13, <1>14, StepKeeps

LEMMA EndingsKeep ==
  ASSUME CountersInv, NEW r \in Request, Fails(r) \/ ReadsBody(r) \/ Streams(r)
  PROVE  CountersInv'
<1>1. {"upstream", "body", "stream"} \subseteq Underway
  BY DEF Underway
<1>2. {Failure, Refusal, Success, <<"duration">>, Aborted("client-write", <<>>),
       Aborted("missing-done", Bench), Aborted("broken", Failover)} \subseteq Plans
  BY DEF Plans
<1>3. Calls(<<"duration">>) \cap Outcomes = {} /\ "success" \notin Calls(<<"duration">>)
  BY PlanOutcomes DEF Outcomes
<1>4. ASSUME NEW plan \in {Failure, Refusal}, Ends(r, "upstream", plan), UNCHANGED lost
      PROVE  CountersInv'
  BY <1>1, <1>2, <1>4, PlanOutcomes, EndsKeeps
<1>5. ASSUME NEW plan \in {Failure, Success}, Ends(r, "body", plan), UNCHANGED lost
      PROVE  CountersInv'
  BY <1>1, <1>2, <1>5, PlanOutcomes, EndsKeeps
<1>6. ASSUME NEW plan \in {Success, Aborted("client-write", <<>>), Aborted("missing-done", Bench),
                           Aborted("broken", Failover)},
             Ends(r, "stream", plan), UNCHANGED lost
      PROVE  CountersInv'
  BY <1>1, <1>2, <1>6, PlanOutcomes, EndsKeeps
<1>7. ASSUME Ends(r, "stream", <<"duration">>), Lost(r)
      PROVE  CountersInv'
  BY <1>1, <1>2, <1>3, <1>7, EndsKeeps
<1>8. QED
  BY <1>4, <1>5, <1>6, <1>7 DEF Fails, ReadsBody, Streams

LEMMA CallKeeps ==
  ASSUME CountersInv, NEW r \in Request, Call(r)
  PROVE  CountersInv'
<1>1. PICK p0 \in Provider : /\ p0 = at[r].provider /\ at[r] = Attempt("record", p0)
                             /\ Remaining(todo[r])
  BY PhaseOf DEF CountersInv, Call
<1>2. PICK s, h : s = todo[r] /\ h = Head(s)
  OBVIOUS
<1>3. /\ Counted(p0, h) /\ todo' = [todo EXCEPT ![r] = Tail(s)] /\ lost' = lost
      /\ at' = IF Len(s) = 1 THEN [at EXCEPT ![r] = Idle] ELSE at
  BY <1>1, <1>2 DEF Call
<1>4. at = [q \in Request |-> at[q]] /\ todo = [q \in Request |-> todo[q]]
  BY DEF CountersInv, AttemptsOK
<1>5. todo'[r] = Tail(s) /\ at'[r] = IF Len(s) = 1 THEN Idle ELSE Attempt("record", p0)
  BY <1>1, <1>3, <1>4
<1>6. /\ h \in Counters \ {"attempt", "skip", "answered"}
      /\ Len(s) = 1 => Tail(s) = <<>> /\ Calls(Tail(s)) = {}
      /\ Len(s) # 1 => Remaining(Tail(s))
      /\ Calls(s) = Calls(Tail(s)) \cup {h}
      /\ h \notin Calls(Tail(s))
      /\ h \in Outcomes => Calls(Tail(s)) \cap Outcomes = {}
      /\ \A rule \in Rules :
            /\ h = rule.effect => Owes(s, rule) /\ ~Owes(Tail(s), rule)
            /\ h \in rule.causes => ~Owes(s, rule) /\ Owes(Tail(s), rule)
            /\ h \notin rule.causes \cup {rule.effect} => (Owes(s, rule) <=> Owes(Tail(s), rule))
  BY <1>1, <1>2, NextCall
<1>7. /\ Only(r) /\ at' = [at EXCEPT ![r] = at'[r]] /\ todo' = [todo EXCEPT ![r] = todo'[r]]
  BY <1>3, <1>4, <1>5 DEF Only
<1>8. AttemptOK(r)'
  BY <1>5, <1>6 DEF AttemptOK
<1>9. Counts(p0, h) /\ count' \in [Provider -> [Counters -> Nat]]
  BY <1>3, <1>6, CountedCounts DEF CountersInv
<1>10. ASSUME NEW p \in Provider
       PROVE  /\ Open(at[r], todo[r], p) <=> p = p0 /\ Calls(s) \cap Outcomes # {}
              /\ Hopeful(at[r], todo[r], p) <=> p = p0 /\ "success" \in Calls(s)
              /\ \A rule \in Rules : InDebt(at[r], todo[r], p, rule) <=> p = p0 /\ Owes(s, rule)
  BY <1>1, <1>2, Standing
<1>11. ASSUME NEW p \in Provider
       PROVE  /\ Open(at'[r], todo'[r], p) <=> p = p0 /\ Calls(Tail(s)) \cap Outcomes # {}
              /\ Hopeful(at'[r], todo'[r], p) <=> p = p0 /\ "success" \in Calls(Tail(s))
              /\ \A rule \in Rules :
                    InDebt(at'[r], todo'[r], p, rule) <=> p = p0 /\ Owes(Tail(s), rule)
  <2>1. CASE Len(s) = 1
    <3>1. at'[r] = Idle /\ Calls(Tail(s)) = {} /\ \A rule \in Rules : ~Owes(Tail(s), rule)
      BY <1>5, <1>6, <2>1 DEF Owes
    <3>2. /\ ~Open(Idle, todo'[r], p) /\ ~Hopeful(Idle, todo'[r], p)
          /\ \A rule \in Rules : ~InDebt(Idle, todo'[r], p, rule)
      BY Standing
    <3>3. QED
      BY <3>1, <3>2
  <2>2. CASE Len(s) # 1
    <3>1. at'[r] = Attempt("record", p0) /\ todo'[r] = Tail(s)
      BY <1>5, <2>2
    <3>2. /\ Open(Attempt("record", p0), Tail(s), p) <=> p = p0 /\ Calls(Tail(s)) \cap Outcomes # {}
          /\ Hopeful(Attempt("record", p0), Tail(s), p) <=> p = p0 /\ "success" \in Calls(Tail(s))
          /\ \A rule \in Rules : InDebt(Attempt("record", p0), Tail(s), p, rule)
                                    <=> p = p0 /\ Owes(Tail(s), rule)
      BY Standing
    <3>3. QED
      BY <3>1, <3>2
  <2>3. QED
    BY <2>1, <2>2
<1>12. \A p \in Provider, rule \in Rules :
          One(InDebt(at'[r], todo'[r], p, rule)) + One(p = p0 /\ rule.effect = h)
             = One(InDebt(at[r], todo[r], p, rule)) + One(p = p0 /\ h \in rule.causes)
  BY <1>6, <1>10, <1>11, RuleCounters DEF One
<1>13. \A p \in Provider :
          One(Open(at'[r], todo'[r], p)) + One(p = p0 /\ h \in Outcomes)
                + (IF p = p0 THEN 0 ELSE 0)
             = One(Open(at[r], todo[r], p)) + One(p = p0 /\ h = "attempt")
  <2> SUFFICES ASSUME NEW p \in Provider
               PROVE  One(Open(at'[r], todo'[r], p)) + One(p = p0 /\ h \in Outcomes)
                         = One(Open(at[r], todo[r], p))
    BY <1>6 DEF One
  <2>1. CASE h \in Outcomes
    BY <1>6, <1>10, <1>11, <2>1 DEF One
  <2>2. CASE h \notin Outcomes
    <3>1. Calls(s) \cap Outcomes = Calls(Tail(s)) \cap Outcomes
      BY <1>6, <2>2
    <3>2. QED
      BY <1>10, <1>11, <2>2, <3>1 DEF One
  <2>3. QED
    BY <2>1, <2>2
<1>14. \A p \in Provider :
          One(Hopeful(at'[r], todo'[r], p)) + One(p = p0 /\ h = "success")
             <= One(Hopeful(at[r], todo[r], p)) + One(p = p0 /\ h = "answered")
  BY <1>6, <1>10, <1>11 DEF One
<1>15. IF 0 = 1 THEN lost' = [lost EXCEPT ![p0] = @ + 1] ELSE lost' = lost
  BY <1>3
<1>16. QED
  BY <1>7, <1>8, <1>9, <1>12, <1>13, <1>14, <1>15, StepKeeps

LEMMA CountersInvInit == MetricsInit => CountersInv
<1> SUFFICES ASSUME MetricsInit
             PROVE  CountersInv
  OBVIOUS
<1>1. /\ at = [r \in Request |-> Idle] /\ todo = [r \in Request |-> <<>>]
      /\ count = [p \in Provider |-> [c \in Counters |-> 0]] /\ lost = [p \in Provider |-> 0]
  BY DEF MetricsInit
<1>2. AttemptsOK
  BY <1>1 DEF AttemptsOK, AttemptOK
<1>3. CountersOK
  BY <1>1 DEF CountersOK
<1>4. \A p \in Provider, c \in Counters : count[p][c] = 0
  BY <1>1
<1>5. /\ \A p \in Provider, rule \in Rules : Debtors(p, rule) = {}
      /\ \A p \in Provider : Unsettled(p) = {} /\ Promising(p) = {}
  BY <1>1, Standing DEF Debtors, Unsettled, Promising
<1>6. Cardinality({}) = 0
  BY FS_EmptySet
<1>7. {"failed", "refused", "missing-done", "client-write", "broken", "failover", "success",
       "cooldown", "error", "attempt", "answered"} \subseteq Counters
  BY DEF Counters
<1>8. EffectsFollow
  <2> SUFFICES ASSUME NEW p \in Provider, NEW rule \in Rules
               PROVE  count[p][rule.effect] + Cardinality(Debtors(p, rule)) = Total(p, rule.causes)
    BY DEF EffectsFollow
  <2>1. Total(p, rule.causes) = 0
    BY <1>4, <1>7 DEF Total
  <2>2. count[p][rule.effect] = 0
    BY <1>4, RuleCounters
  <2>3. QED
    BY <1>5, <1>6, <2>1, <2>2
<1>9. ResultsSettle
  <2> SUFFICES ASSUME NEW p \in Provider
               PROVE  Results(p) + lost[p] + Cardinality(Unsettled(p)) = count[p]["attempt"]
    BY DEF ResultsSettle
  <2>1. Results(p) = 0 /\ lost[p] = 0 /\ count[p]["attempt"] = 0
    BY <1>1, <1>4, <1>7 DEF Results
  <2>2. QED
    BY <1>5, <1>6, <2>1
<1>10. SuccessesAnswered
  BY <1>4, <1>5, <1>6, <1>7 DEF SuccessesAnswered
<1>11. QED
  BY <1>2, <1>3, <1>8, <1>9, <1>10 DEF CountersInv

LEMMA CountersInvStep == CountersInv /\ [MetricsNext]_metricsVars => CountersInv'
<1> SUFFICES ASSUME CountersInv, [MetricsNext]_metricsVars
             PROVE  CountersInv'
  OBVIOUS
<1>1. ASSUME NEW r \in Request, NEW p \in Provider, Skip(r, p) \/ Begin(r, p)
      PROVE  CountersInv'
  BY <1>1, SkipKeeps, BeginKeeps
<1>2. ASSUME NEW r \in Request,
             GivesUp(r) \/ Fails(r) \/ Answers(r) \/ ReadsBody(r) \/ Streams(r) \/ Call(r)
      PROVE  CountersInv'
  BY <1>2, GivesUpKeeps, EndingsKeep, AnswersKeeps, CallKeeps
<1>3. CASE UNCHANGED metricsVars
  <2>1. at' = at /\ todo' = todo /\ count' = count /\ lost' = lost
    BY <1>3 DEF metricsVars
  <2>2. AttemptsOK' /\ CountersOK'
    BY <2>1 DEF CountersInv, AttemptsOK, AttemptOK, CountersOK
  <2>3. EffectsFollow'
    BY <2>1 DEF CountersInv, EffectsFollow, Debtors, Total
  <2>4. ResultsSettle' /\ SuccessesAnswered'
    BY <2>1 DEF CountersInv, ResultsSettle, SuccessesAnswered, Results, Unsettled, Promising
  <2>5. QED
    BY <2>2, <2>3, <2>4 DEF CountersInv
<1>4. QED
  BY <1>1, <1>2, <1>3 DEF MetricsNext

LEMMA CountersInvHolds == MetricsSpec => []CountersInv
  BY CountersInvInit, CountersInvStep, PTL DEF MetricsSpec

\* What the rules say, one by one; nothing is owed where no attempt is.
LEMMA Balance ==
  ASSUME CountersInv, NEW p \in Provider
  PROVE  \E error, failover, cooldown, success, failure, bench \in Nat :
           /\ count[p]["error"] + error = count[p]["failed"] + count[p]["refused"] + Aborts(p)
           /\ count[p]["failover"] + failover = count[p]["failed"] + count[p]["broken"]
           /\ count[p]["cooldown"] + cooldown = count[p]["failover"] + count[p]["missing-done"]
           /\ count[p]["history-success"] + success = count[p]["success"]
           /\ count[p]["history-error"] + failure = count[p]["failed"] + Aborts(p)
           /\ count[p]["history-cooldown"] + bench = count[p]["cooldown"]
           /\ Busy(p) = {} => success = 0 /\ failure = 0 /\ bench = 0
<1> DEFINE D(rule) == Cardinality(Debtors(p, rule))
<1>1. \A rule \in Rules : /\ D(rule) \in Nat /\ (Busy(p) = {} => D(rule) = 0)
                          /\ count[p][rule.effect] + D(rule) = Total(p, rule.causes)
  <2> SUFFICES ASSUME NEW rule \in Rules
               PROVE  /\ D(rule) \in Nat /\ (Busy(p) = {} => D(rule) = 0)
                      /\ count[p][rule.effect] + D(rule) = Total(p, rule.causes)
    OBVIOUS
  <2>1. IsFiniteSet(Debtors(p, rule))
    BY MetricsAssumption, FS_Subset DEF Debtors
  <2>2. Busy(p) = {} => Debtors(p, rule) = {}
    BY DEF Busy, Debtors, InDebt, Of
  <2>3. QED
    BY <2>1, <2>2, FS_CardinalityType, FS_EmptySet DEF CountersInv, EffectsFollow
<1>2. PICK n : n = count[p]
  OBVIOUS
<1>3. \A c \in Counters : n[c] \in Nat
  BY <1>2 DEF CountersInv, CountersOK
<1>4. {"failed", "refused", "missing-done", "client-write", "broken", "failover", "success",
       "cooldown"} \subseteq Counters
  BY DEF Counters
<1>5. \A causes :
        LET N(c) == IF c \in causes THEN n[c] ELSE 0 IN
        Total(p, causes) = N("failed") + N("refused") + N("missing-done") + N("client-write")
                             + N("broken") + N("failover") + N("success") + N("cooldown")
  BY <1>2 DEF Total
<1>6. Aborts(p) = n["missing-done"] + n["client-write"] + n["broken"]
  BY <1>2 DEF Aborts
<1> HIDE DEF D
<1>7. PICK error \in Nat : n["error"] + error = n["failed"] + n["refused"] + Aborts(p)
  <2>1. PICK rule \in Rules :
          /\ rule.effect = "error"
          /\ rule.causes = {"failed", "refused", "missing-done", "client-write", "broken"}
    BY DEF Rules
  <2>2. Total(p, rule.causes) = n["failed"] + n["refused"] + Aborts(p)
    BY <1>3, <1>4, <1>5, <1>6, <2>1
  <2>3. QED
    BY <1>1, <1>2, <2>1, <2>2
<1>8. PICK failover \in Nat : n["failover"] + failover = n["failed"] + n["broken"]
  <2>1. PICK rule \in Rules : rule.effect = "failover" /\ rule.causes = {"failed", "broken"}
    BY DEF Rules
  <2>2. Total(p, rule.causes) = n["failed"] + n["broken"]
    BY <1>3, <1>4, <1>5, <2>1
  <2>3. QED
    BY <1>1, <1>2, <2>1, <2>2
<1>9. PICK cooldown \in Nat : n["cooldown"] + cooldown = n["failover"] + n["missing-done"]
  <2>1. PICK rule \in Rules : rule.effect = "cooldown" /\ rule.causes = {"failover", "missing-done"}
    BY DEF Rules
  <2>2. Total(p, rule.causes) = n["failover"] + n["missing-done"]
    BY <1>3, <1>4, <1>5, <2>1
  <2>3. QED
    BY <1>1, <1>2, <2>1, <2>2
<1>10. PICK success \in Nat : n["history-success"] + success = n["success"]
                                 /\ (Busy(p) = {} => success = 0)
  <2>1. PICK rule \in Rules : rule.effect = "history-success" /\ rule.causes = {"success"}
    BY DEF Rules
  <2>2. Total(p, rule.causes) = n["success"]
    BY <1>3, <1>4, <1>5, <2>1
  <2>3. QED
    BY <1>1, <1>2, <2>1, <2>2
<1>11. PICK failure \in Nat : n["history-error"] + failure = n["failed"] + Aborts(p)
                                 /\ (Busy(p) = {} => failure = 0)
  <2>1. PICK rule \in Rules :
          /\ rule.effect = "history-error"
          /\ rule.causes = {"failed", "missing-done", "client-write", "broken"}
    BY DEF Rules
  <2>2. Total(p, rule.causes) = n["failed"] + Aborts(p)
    BY <1>3, <1>4, <1>5, <1>6, <2>1
  <2>3. QED
    BY <1>1, <1>2, <2>1, <2>2
<1>12. PICK bench \in Nat : n["history-cooldown"] + bench = n["cooldown"]
                                 /\ (Busy(p) = {} => bench = 0)
  <2>1. PICK rule \in Rules : rule.effect = "history-cooldown" /\ rule.causes = {"cooldown"}
    BY DEF Rules
  <2>2. Total(p, rule.causes) = n["cooldown"]
    BY <1>3, <1>4, <1>5, <2>1
  <2>3. QED
    BY <1>1, <1>2, <2>1, <2>2
<1> WITNESS error \in Nat, failover \in Nat, cooldown \in Nat,
            success \in Nat, failure \in Nat, bench \in Nat
<1>13. QED
  BY <1>2, <1>7, <1>8, <1>9, <1>10, <1>11, <1>12

LEMMA CountersAreNatural ==
  ASSUME CountersInv, NEW p \in Provider
  PROVE  \A c \in {"attempt", "answered", "failed", "refused", "success", "error", "failover",
                   "cooldown", "missing-done", "client-write", "broken", "history-success",
                   "history-error", "history-cooldown"} : count[p][c] \in Nat
BY DEF CountersInv, CountersOK, Counters

LEMMA ScrapesInv == CountersInv => ScrapesAddUp
<1> SUFFICES ASSUME CountersInv, NEW p \in Provider
             PROVE  /\ Results(p) <= count[p]["attempt"]
                    /\ count[p]["success"] <= count[p]["answered"]
                    /\ count[p]["error"] <= count[p]["failed"] + count[p]["refused"] + Aborts(p)
                    /\ count[p]["cooldown"] <= count[p]["failover"] + count[p]["missing-done"]
                    /\ count[p]["failover"] + count[p]["client-write"] + count[p]["missing-done"]
                          <= count[p]["failed"] + Aborts(p)
  BY DEF ScrapesAddUp
<1>1. IsFiniteSet(Unsettled(p)) /\ IsFiniteSet(Promising(p))
  BY MetricsAssumption, FS_Subset DEF Unsettled, Promising
<1>2. Cardinality(Unsettled(p)) \in Nat /\ Cardinality(Promising(p)) \in Nat
  BY <1>1, FS_CardinalityType
<1>3. lost[p] \in Nat
  BY DEF CountersInv, CountersOK
<1>4. Results(p) <= count[p]["attempt"]
  BY <1>2, <1>3, CountersAreNatural DEF CountersInv, ResultsSettle, Results
<1>5. count[p]["success"] <= count[p]["answered"]
  BY <1>2, CountersAreNatural DEF CountersInv, SuccessesAnswered
<1>6. QED
  BY <1>4, <1>5, Balance, CountersAreNatural DEF Aborts

LEMMA ResultsInv == CountersInv => OneResultEach
<1> SUFFICES ASSUME CountersInv, NEW p \in Provider, Busy(p) = {}
             PROVE  Results(p) + lost[p] = count[p]["attempt"]
  BY DEF OneResultEach
<1>1. Unsettled(p) = {}
  BY DEF Busy, Unsettled, Open, Of
<1>2. Results(p) + lost[p] + 0 = count[p]["attempt"]
  BY <1>1, FS_EmptySet DEF CountersInv, ResultsSettle
<1>3. QED
  BY <1>2, CountersAreNatural DEF CountersInv, CountersOK, Results

LEMMA HistoryInv == CountersInv => HistoryAgrees
<1> SUFFICES ASSUME CountersInv, NEW p \in Provider
             PROVE  LET story == <<count[p]["success"], count[p]["failed"] + Aborts(p),
                                   count[p]["cooldown"]>>
                        told == <<count[p]["history-success"], count[p]["history-error"],
                                  count[p]["history-cooldown"]>>
                    IN  /\ \A i \in DOMAIN story : told[i] <= story[i]
                        /\ Busy(p) = {} => told = story
  BY DEF HistoryAgrees
<1>1. /\ count[p]["history-success"] <= count[p]["success"]
      /\ count[p]["history-error"] <= count[p]["failed"] + Aborts(p)
      /\ count[p]["history-cooldown"] <= count[p]["cooldown"]
      /\ Busy(p) = {} => /\ count[p]["history-success"] = count[p]["success"]
                         /\ count[p]["history-error"] = count[p]["failed"] + Aborts(p)
                         /\ count[p]["history-cooldown"] = count[p]["cooldown"]
  BY Balance, CountersAreNatural DEF Aborts
<1>2. QED
  BY <1>1

\* At every scrape, with requests at whatever point of whatever attempts, the
\* counters of a provider fit together: no result without an attempt, no
\* failover and no cooldown without its failure.
THEOREM ScrapesAddUpHolds == MetricsSpec => []ScrapesAddUp
  BY CountersInvHolds, ScrapesInv, PTL

\* Between attempts, each has exactly one result, or was given up by its client.
THEOREM OneResultEachHolds == MetricsSpec => []OneResultEach
  BY CountersInvHolds, ResultsInv, PTL

\* The history never runs ahead of the counters, and agrees with them between
\* attempts.
THEOREM HistoryAgreesHolds == MetricsSpec => []HistoryAgrees
  BY CountersInvHolds, HistoryInv, PTL

-----------------------------------------------------------------------------
(* Sums: what FoldFunction comes to. *)

LEMMA LeastNatural ==
  ASSUME NEW S \in SUBSET Nat, S # {}
  PROVE  \E n \in S : \A m \in S : n <= m
<1>1. IsWellFoundedOn(OpToRel(<, Nat), Nat)
  BY NatLessThanWellFounded
<1>2. PICK n \in S : \A m \in S : <<m, n>> \notin OpToRel(<, Nat)
  BY <1>1, WFMin
<1>3. \A m \in S : ~(m < n)
  BY <1>2 DEF OpToRel
<1>4. QED
  BY <1>3

Some(s) == CHOOSE x \in s : TRUE

\* h gives the sum of f over the subset s, if it does over the smaller ones.
SumsAt(f, h, s) == h[s] = IF s = {} THEN 0 ELSE f[Some(s)] + h[s \ {Some(s)}]

IsSum(f, h) ==
    h = [s \in SUBSET DOMAIN f |-> IF s = {} THEN 0 ELSE f[Some(s)] + h[s \ {Some(s)}]]

LEMMA LessOne ==
  ASSUME NEW D, IsFiniteSet(D), NEW s \in SUBSET D
  PROVE  /\ IsFiniteSet(s) /\ Cardinality(s) \in Nat /\ Cardinality(s) <= Cardinality(D)
         /\ s = {} <=> Cardinality(s) = 0
         /\ s # {} => /\ Some(s) \in s /\ s \ {Some(s)} \in SUBSET D
                      /\ Cardinality(s \ {Some(s)}) = Cardinality(s) - 1
<1>1. IsFiniteSet(s) /\ Cardinality(s) <= Cardinality(D)
  BY FS_Subset
<1>2. Cardinality(s) \in Nat /\ (s = {} <=> Cardinality(s) = 0)
  BY <1>1, FS_CardinalityType, FS_EmptySet
<1>3. s # {} => Some(s) \in s
  BY DEF Some
<1>4. QED
  BY <1>1, <1>2, <1>3, FS_RemoveElement

LEMMA SumExists ==
  ASSUME NEW D, IsFiniteSet(D), NEW f \in [D -> Int]
  PROVE  \E h \in [SUBSET D -> Int] : IsSum(f, h)
<1> DEFINE UpTo(n) == \E h \in [SUBSET D -> Int] :
                         \A s \in SUBSET D : Cardinality(s) <= n => SumsAt(f, h, s)
           Bad == {n \in Nat : ~UpTo(n)}
<1>1. UpTo(0)
  <2>1. PICK h : h = [s \in SUBSET D |-> 0]
    OBVIOUS
  <2>2. h \in [SUBSET D -> Int] /\ \A s \in SUBSET D : h[s] = 0
    BY <2>1
  <2>3. ASSUME NEW s \in SUBSET D, Cardinality(s) <= 0
        PROVE  s = {}
    <3>1. Cardinality(s) \in Nat /\ (s = {} <=> Cardinality(s) = 0)
      BY LessOne
    <3>2. QED
      BY <2>3, <3>1
  <2>4. \A s \in SUBSET D : Cardinality(s) <= 0 => SumsAt(f, h, s)
    BY <2>2, <2>3 DEF SumsAt
  <2>5. QED
    BY <2>2, <2>4
<1>2. ASSUME NEW n \in Nat, UpTo(n)
      PROVE  UpTo(n + 1)
  <2>1. PICK h \in [SUBSET D -> Int] :
          \A s \in SUBSET D : Cardinality(s) <= n => SumsAt(f, h, s)
    BY <1>2
  <2>2. PICK g : g = [s \in SUBSET D |-> IF Cardinality(s) <= n THEN h[s]
                                         ELSE f[Some(s)] + h[s \ {Some(s)}]]
    OBVIOUS
  <2>3. ASSUME NEW s \in SUBSET D
        PROVE  g[s] \in Int
    <3>1. CASE Cardinality(s) <= n
      BY <2>1, <2>2, <3>1
    <3>2. CASE ~(Cardinality(s) <= n)
      <4>1. s # {}
        <5>1. s = {} => Cardinality(s) = 0
          BY LessOne
        <5>2. QED
          BY <1>2, <3>2, <5>1
      <4>2. Some(s) \in D /\ s \ {Some(s)} \in SUBSET D
        BY <4>1, LessOne
      <4>3. f[Some(s)] \in Int /\ h[s \ {Some(s)}] \in Int
        BY <2>1, <4>2
      <4>4. QED
        BY <2>2, <3>2, <4>3
    <3>3. QED
      BY <3>1, <3>2
  <2>4. g \in [SUBSET D -> Int]
    BY <2>2, <2>3
  <2>5. ASSUME NEW s \in SUBSET D, Cardinality(s) <= n + 1
        PROVE  SumsAt(f, g, s)
    <3>1. CASE s = {}
      <4>1. Cardinality(s) <= n
        <5>1. Cardinality(s) = 0
          BY <3>1, LessOne
        <5>2. QED
          BY <1>2, <5>1
      <4>2. g[s] = h[s] /\ SumsAt(f, h, s)
        BY <2>1, <2>2, <4>1
      <4>3. QED
        BY <3>1, <4>2 DEF SumsAt
    <3>2. CASE s # {}
      <4>1. PICK t : t = s \ {Some(s)}
        OBVIOUS
      <4>2. t \in SUBSET D /\ Cardinality(t) = Cardinality(s) - 1 /\ Cardinality(s) \in Nat
        BY <3>2, <4>1, LessOne
      <4>3. g[t] = h[t]
        BY <2>2, <2>5, <4>2
      <4>4. g[s] = f[Some(s)] + h[t]
        <5>1. CASE Cardinality(s) <= n
          BY <2>1, <2>2, <3>2, <4>1, <5>1 DEF SumsAt
        <5>2. CASE ~(Cardinality(s) <= n)
          BY <2>2, <4>1, <5>2
        <5>3. QED
          BY <5>1, <5>2
      <4>5. QED
        BY <3>2, <4>1, <4>3, <4>4 DEF SumsAt
    <3>3. QED
      BY <3>1, <3>2
  <2>6. QED
    BY <2>4, <2>5
<1> HIDE DEF UpTo
<1>3. Bad = {}
  <2> SUFFICES ASSUME Bad # {}
               PROVE  FALSE
    OBVIOUS
  <2>1. PICK n \in Bad : \A m \in Bad : n <= m
    BY LeastNatural
  <2>2. n # 0 /\ n \in Nat
    BY <1>1, <2>1
  <2>3. n - 1 \in Nat /\ n - 1 \notin Bad /\ (n - 1) + 1 = n
    BY <2>1, <2>2
  <2>4. QED
    BY <1>2, <2>1, <2>3
<1>4. PICK n : n = Cardinality(D) /\ n \in Nat
  BY FS_CardinalityType
<1>5. UpTo(n)
  BY <1>3, <1>4
<1>6. PICK h \in [SUBSET D -> Int] : \A s \in SUBSET D : Cardinality(s) <= n => SumsAt(f, h, s)
  BY <1>5 DEF UpTo
<1>7. \A s \in SUBSET D : SumsAt(f, h, s)
  BY <1>4, <1>6, LessOne
<1>8. h = [s \in SUBSET D |-> h[s]] /\ DOMAIN f = D
  BY <1>6
<1>9. h = [s \in SUBSET D |-> IF s = {} THEN 0 ELSE f[Some(s)] + h[s \ {Some(s)}]]
  BY <1>7, <1>8 DEF SumsAt
<1>10. QED
  BY <1>6, <1>8, <1>9 DEF IsSum

SumsUp(D, f, h) ==
    /\ SumOver(f) = h[D] /\ h[{}] = 0
    /\ \A s \in SUBSET D : s # {} => h[s] = f[Some(s)] + h[s \ {Some(s)}]

LEMMA SumIs ==
  ASSUME NEW D, IsFiniteSet(D), NEW f \in [D -> Int]
  PROVE  \E h : SumsUp(D, f, h)
<1>1. SumOver(f) = (CHOOSE h : IsSum(f, h))[DOMAIN f]
  BY DEF SumOver, FoldFunction, FoldFunctionOnSet, MapThenFoldSet, IsSum, Some
<1>2. PICK h : h = CHOOSE g : IsSum(f, g)
  OBVIOUS
<1>3. IsSum(f, h)
  BY <1>2, SumExists
<1>4. DOMAIN f = D
  OBVIOUS
<1>5. h = [s \in SUBSET D |-> IF s = {} THEN 0 ELSE f[Some(s)] + h[s \ {Some(s)}]]
  BY <1>3, <1>4 DEF IsSum
<1>6. \A s \in SUBSET D : h[s] = IF s = {} THEN 0 ELSE f[Some(s)] + h[s \ {Some(s)}]
  BY <1>5
<1>7. SumsUp(D, f, h)
  BY <1>1, <1>2, <1>4, <1>6 DEF SumsUp
<1>8. QED
  BY <1>7

\* If one of the terms grows by one, so does the sum.
LEMMA SumMoves ==
  ASSUME NEW D, IsFiniteSet(D), NEW f \in [D -> Int], NEW g \in [D -> Int], NEW x,
         \A y \in D : g[y] = f[y] + One(y = x)
  PROVE  SumOver(f) \in Int /\ SumOver(g) = SumOver(f) + One(x \in D)
<1>1. PICK h : SumsUp(D, f, h)
  BY SumIs
<1>2. PICK k : SumsUp(D, g, k)
  BY SumIs
<1>0. /\ SumOver(f) = h[D] /\ h[{}] = 0 /\ SumOver(g) = k[D] /\ k[{}] = 0
      /\ \A s \in SUBSET D : s # {} => /\ h[s] = f[Some(s)] + h[s \ {Some(s)}]
                                       /\ k[s] = g[Some(s)] + k[s \ {Some(s)}]
  BY <1>1, <1>2 DEF SumsUp
<1> DEFINE OK(s) == h[s] \in Int /\ k[s] = h[s] + One(x \in s)
           Bad == {n \in Nat : \E s \in SUBSET D : Cardinality(s) = n /\ ~OK(s)}
<1>3. OK({})
  BY <1>0 DEF One
<1>4. ASSUME NEW s \in SUBSET D, s # {}, OK(s \ {Some(s)})
      PROVE  OK(s)
  <2>1. PICK y, t : y = Some(s) /\ t = s \ {y}
    OBVIOUS
  <2>2. y \in s /\ y \in D
    BY <1>4, <2>1, LessOne
  <2>3. h[s] = f[y] + h[t] /\ k[s] = g[y] + k[t]
    BY <1>0, <1>4, <2>1
  <2>4. h[t] \in Int /\ k[t] = h[t] + One(x \in t) /\ f[y] \in Int /\ g[y] = f[y] + One(y = x)
    BY <1>4, <2>1, <2>2
  <2>5. One(y = x) + One(x \in t) = One(x \in s) /\ One(y = x) \in Int /\ One(x \in t) \in Int
    BY <2>1, <2>2 DEF One
  <2> HIDE DEF One
  <2>6. QED
    BY <2>3, <2>4, <2>5
<1> HIDE DEF OK
<1>5. Bad = {}
  <2> SUFFICES ASSUME Bad # {}
               PROVE  FALSE
    OBVIOUS
  <2>1. PICK n \in Bad : \A m \in Bad : n <= m
    BY LeastNatural
  <2>2. PICK s \in SUBSET D : Cardinality(s) = n /\ ~OK(s)
    BY <2>1
  <2>3. s # {}
    BY <1>3, <2>2
  <2>4. PICK t : t = s \ {Some(s)}
    OBVIOUS
  <2>5. t \in SUBSET D /\ Cardinality(t) = n - 1 /\ n \in Nat /\ n # 0
    BY <2>1, <2>2, <2>3, <2>4, LessOne
  <2>6. n - 1 \in Nat /\ n - 1 \notin Bad
    BY <2>1, <2>5
  <2>7. OK(t)
    BY <2>5, <2>6
  <2>8. QED
    BY <1>4, <2>2, <2>3, <2>4, <2>7
<1>6. Cardinality(D) \in Nat /\ D \in SUBSET D
  BY FS_CardinalityType
<1>7. OK(D)
  BY <1>5, <1>6
<1>8. QED
  BY <1>0, <1>7 DEF OK

LEMMA SumOfNone ==
  ASSUME NEW D, IsFiniteSet(D)
  PROVE  SumOver([x \in D |-> 0]) = 0
<1>1. PICK f : f = [x \in D |-> 0]
  OBVIOUS
<1>2. f \in [D -> Int] /\ \A x \in D : f[x] = 0
  BY <1>1
<1>3. PICK h : SumsUp(D, f, h)
  BY <1>2, SumIs
<1>4. /\ SumOver(f) = h[D] /\ h[{}] = 0
      /\ \A s \in SUBSET D : s # {} => h[s] = f[Some(s)] + h[s \ {Some(s)}]
  BY <1>3 DEF SumsUp
<1> DEFINE Bad == {n \in Nat : \E s \in SUBSET D : Cardinality(s) = n /\ h[s] # 0}
<1>5. ASSUME NEW s \in SUBSET D, s # {}, h[s \ {Some(s)}] = 0
      PROVE  h[s] = 0
  <2>1. Some(s) \in D
    BY <1>5, LessOne
  <2>2. h[s] = 0 + 0
    BY <1>2, <1>4, <1>5, <2>1
  <2>3. QED
    BY <2>2
<1>6. Bad = {}
  <2> SUFFICES ASSUME Bad # {}
               PROVE  FALSE
    OBVIOUS
  <2>1. PICK n \in Bad : \A m \in Bad : n <= m
    BY LeastNatural
  <2>2. PICK s \in SUBSET D : Cardinality(s) = n /\ h[s] # 0
    BY <2>1
  <2>3. s # {}
    BY <1>4, <2>2
  <2>4. PICK t : t = s \ {Some(s)}
    OBVIOUS
  <2>5. t \in SUBSET D /\ Cardinality(t) = n - 1 /\ n \in Nat /\ n # 0
    BY <2>1, <2>2, <2>3, <2>4, LessOne
  <2>6. n - 1 \in Nat /\ n - 1 \notin Bad
    BY <2>1, <2>5
  <2>7. h[t] = 0
    BY <2>5, <2>6
  <2>8. QED
    BY <1>5, <2>2, <2>3, <2>4, <2>7
<1>7. Cardinality(D) \in Nat /\ D \in SUBSET D
  BY FS_CardinalityType
<1>8. h[D] = 0
  BY <1>6, <1>7
<1>9. QED
  BY <1>1, <1>4, <1>8

-----------------------------------------------------------------------------
(* The histogram of the durations. *)

Cells == 1 .. Len(Bounds) + 1

LEMMA BoundsAre ==
  /\ Len(Bounds) \in Nat /\ DOMAIN Bounds = 1 .. Len(Bounds)
  /\ \A i \in 1 .. Len(Bounds) : Bounds[i] \in Nat
<1>1. Bounds \in Seq(Nat)
  BY MetricsAssumption
<1>2. QED
  BY <1>1, LenProperties, ElementOfSeq

\* recordHistogram: the bounds that a duration exceeds come before the others.
LEMMA BucketIs ==
  ASSUME NEW t \in Seconds
  PROVE  /\ Bucket(t) \in Cells /\ Len(Bounds) \in Nat /\ DOMAIN Bounds = 1 .. Len(Bounds)
         /\ \A i \in DOMAIN Bounds : Bucket(t) <= i <=> t <= Bounds[i]
<1>1. PICK x \in Nat : x = IF t < 0 THEN 0 ELSE t
  BY MetricsAssumption
<1>2. PICK L \in Nat : L = Len(Bounds) /\ DOMAIN Bounds = 1 .. L
  BY BoundsAre
<1>3. \A i \in 1 .. L : Bounds[i] \in Nat
  BY <1>2, BoundsAre
<1>4. \A i, j \in 1 .. L : i < j => Bounds[i] < Bounds[j]
  BY <1>2, MetricsAssumption
<1>5. PICK I : I = {i \in 1 .. L : Bounds[i] < x}
  OBVIOUS
<1>6. PICK k \in 0 .. L : I = 1 .. k
  <2>1. PICK S : S = {i \in 1 .. L : ~(Bounds[i] < x)}
    OBVIOUS
  <2>2. CASE S = {}
    <3>1. I = 1 .. L
      BY <1>5, <2>1, <2>2
    <3>2. QED
      BY <3>1
  <2>3. CASE S # {}
    <3>1. PICK n \in S : \A m \in S : n <= m
      BY <2>1, <2>3, LeastNatural
    <3>2. n \in 1 .. L /\ x <= Bounds[n]
      BY <1>3, <2>1, <3>1
    <3>3. \A i \in 1 .. L : i < n => i \in I
      BY <1>5, <2>1, <3>1
    <3>4. \A i \in 1 .. L : n < i => i \notin I
      BY <1>3, <1>4, <1>5, <3>2
    <3>5. I = 1 .. n - 1
      BY <1>5, <2>1, <3>1, <3>2, <3>3, <3>4
    <3>6. n - 1 \in 0 .. L
      BY <3>2
    <3>7. QED
      BY <3>5, <3>6
  <2>4. QED
    BY <2>2, <2>3
<1>7. Bucket(t) = k + 1
  <2>1. Cardinality(1 .. k) = k
    BY FS_Interval
  <2>2. Bucket(t) = Cardinality(I) + 1
    BY <1>1, <1>2, <1>5 DEF Bucket
  <2>3. QED
    BY <1>6, <2>1, <2>2
<1>8. ASSUME NEW i \in 1 .. L
      PROVE  k + 1 <= i <=> t <= Bounds[i]
  <2>1. i \in I <=> i <= k
    BY <1>6
  <2>2. i \in I <=> Bounds[i] < x
    BY <1>5
  <2>3. Bounds[i] < x <=> ~(t <= Bounds[i])
    BY <1>1, <1>3, MetricsAssumption
  <2>4. QED
    BY <2>1, <2>2, <2>3
<1>9. QED
  BY <1>2, <1>7, <1>8 DEF Cells

\* The same terms, but that the one at x, if there is one, is greater by one.
Moved(D, f, g, x) ==
    /\ IsFiniteSet(D) /\ f \in [D -> Int] /\ g \in [D -> Int]
    /\ \A y \in D : g[y] = f[y] + One(y = x)

LEMMA SumMoved ==
  \A D, f, g, x : Moved(D, f, g, x) =>
      SumOver(f) \in Int /\ SumOver(g) = SumOver(f) + One(x \in D)
BY SumMoves DEF Moved

Bucketed(p, i) == [j \in 1 .. i |-> buckets[p][j]]
Measured(p, b) == [t \in {t \in Seconds : t <= b} |-> took[p][t]]

HistogramOK ==
    /\ buckets \in [Provider -> [Cells -> Nat]]
    /\ took \in [Provider -> [Seconds -> Nat]]

HistogramInv == HistogramOK /\ BucketsCount

LEMMA BucketsCountIs ==
  BucketsCount <=>
    \A p \in Provider :
        /\ \A i \in DOMAIN Bounds : SumOver(Bucketed(p, i)) = SumOver(Measured(p, Bounds[i]))
        /\ SumOver(Bucketed(p, Len(Bounds) + 1)) = count[p]["duration"]
BY DEF BucketsCount, Cumulative, Bucketed, Measured

LEMMA BucketsCountNext ==
  BucketsCount' <=>
    \A p \in Provider :
        /\ \A i \in DOMAIN Bounds : SumOver(Bucketed(p, i)') = SumOver(Measured(p, Bounds[i])')
        /\ SumOver(Bucketed(p, Len(Bounds) + 1)') = count'[p]["duration"]
BY DEF BucketsCount, Cumulative, Bucketed, Measured

LEMMA HistogramInit == MetricsInit => HistogramInv
<1> SUFFICES ASSUME MetricsInit
             PROVE  HistogramInv
  OBVIOUS
<1>1. PICK L \in Nat : L = Len(Bounds) /\ DOMAIN Bounds = 1 .. L
  BY BoundsAre
<1>2. /\ buckets = [p \in Provider |-> [i \in Cells |-> 0]]
      /\ took = [p \in Provider |-> [t \in Seconds |-> 0]]
      /\ count = [p \in Provider |-> [c \in Counters |-> 0]]
  BY DEF MetricsInit, Cells
<1>3. HistogramOK
  BY <1>2 DEF HistogramOK
<1>4. ASSUME NEW p \in Provider, NEW i \in 1 .. L + 1
      PROVE  SumOver(Bucketed(p, i)) = 0
  <2>1. Bucketed(p, i) = [j \in 1 .. i |-> 0]
    BY <1>1, <1>2 DEF Bucketed, Cells
  <2>2. IsFiniteSet(1 .. i)
    BY FS_Interval
  <2>3. QED
    BY <2>1, <2>2, SumOfNone
<1>5. ASSUME NEW p \in Provider, NEW b \in Int
      PROVE  SumOver(Measured(p, b)) = 0
  <2>1. PICK D : D = {t \in Seconds : t <= b}
    OBVIOUS
  <2>2. IsFiniteSet(D)
    BY <2>1, MetricsAssumption, FS_Subset
  <2>3. Measured(p, b) = [t \in D |-> 0]
    BY <1>2, <2>1 DEF Measured
  <2>4. QED
    BY <2>2, <2>3, SumOfNone
<1>6. \A i \in 1 .. L : Bounds[i] \in Int
  BY <1>1, BoundsAre
<1>7. \A p \in Provider : count[p]["duration"] = 0
  BY <1>2 DEF Counters
<1>8. BucketsCount
  BY <1>1, <1>4, <1>5, <1>6, <1>7, BucketsCountIs
<1>9. QED
  BY <1>3, <1>8 DEF HistogramInv

\* A duration is counted once in the buckets of the bounds that it keeps.
LEMMA DurationKeeps ==
  ASSUME HistogramInv, CountersInv, NEW p0 \in Provider, NEW t \in Seconds,
         Counted(p0, "duration"),
         buckets' = [buckets EXCEPT ![p0][Bucket(t)] = @ + 1],
         took' = [took EXCEPT ![p0][t] = @ + 1]
  PROVE  HistogramInv'
<1>1. PICK L \in Nat : L = Len(Bounds) /\ DOMAIN Bounds = 1 .. L
  BY BoundsAre
<1>2. PICK k \in Cells : k = Bucket(t) /\ \A i \in 1 .. L : k <= i <=> t <= Bounds[i]
  BY <1>1, BucketIs
<1>3. buckets \in [Provider -> [Cells -> Nat]] /\ took \in [Provider -> [Seconds -> Nat]]
  BY DEF HistogramInv, HistogramOK
<1>4. /\ buckets' \in [Provider -> [Cells -> Nat]]
      /\ \A p \in Provider, j \in Cells : buckets'[p][j] = buckets[p][j] + One(p = p0 /\ j = k)
  <2>1. PICK f : f = [buckets[p0] EXCEPT ![k] = buckets[p0][k] + 1]
    OBVIOUS
  <2>2. buckets[p0] \in [Cells -> Nat] /\ buckets[p0][k] + 1 \in Nat
    BY <1>3
  <2>3. f \in [Cells -> Nat] /\ \A j \in Cells : f[j] = buckets[p0][j] + One(j = k)
    BY <2>1, <2>2 DEF One
  <2>4. buckets' = [buckets EXCEPT ![p0] = f]
    BY <1>2, <2>1
  <2>5. \A p \in Provider : buckets'[p] = IF p = p0 THEN f ELSE buckets[p]
    BY <1>3, <2>4
  <2>6. buckets' \in [Provider -> [Cells -> Nat]]
    BY <1>3, <2>3, <2>4
  <2>7. \A p \in Provider, j \in Cells : buckets[p][j] \in Nat
    BY <1>3
  <2>8. QED
    BY <2>3, <2>5, <2>6, <2>7 DEF One
<1>5. /\ took' \in [Provider -> [Seconds -> Nat]]
      /\ \A p \in Provider, s \in Seconds : took'[p][s] = took[p][s] + One(p = p0 /\ s = t)
  <2>1. PICK f : f = [took[p0] EXCEPT ![t] = took[p0][t] + 1]
    OBVIOUS
  <2>2. took[p0] \in [Seconds -> Nat] /\ took[p0][t] + 1 \in Nat
    BY <1>3
  <2>3. f \in [Seconds -> Nat] /\ \A s \in Seconds : f[s] = took[p0][s] + One(s = t)
    BY <2>1, <2>2 DEF One
  <2>4. took' = [took EXCEPT ![p0] = f]
    BY <2>1
  <2>5. \A p \in Provider : took'[p] = IF p = p0 THEN f ELSE took[p]
    BY <1>3, <2>4
  <2>6. took' \in [Provider -> [Seconds -> Nat]]
    BY <1>3, <2>3, <2>4
  <2>7. \A p \in Provider, s \in Seconds : took[p][s] \in Nat
    BY <1>3
  <2>8. QED
    BY <2>3, <2>5, <2>6, <2>7 DEF One
<1>6. ASSUME NEW p \in Provider, NEW i \in 1 .. L + 1
      PROVE  SumOver(Bucketed(p, i)') = SumOver(Bucketed(p, i)) + One(p = p0 /\ k <= i)
             /\ SumOver(Bucketed(p, i)) \in Int
  <2>1. PICK D, f, g : /\ D = 1 .. i /\ f = [j \in D |-> buckets[p][j]]
                       /\ g = [j \in D |-> buckets'[p][j]]
    OBVIOUS
  <2>2. D \subseteq Cells
    BY <1>1, <2>1 DEF Cells
  <2>3. f \in [D -> Int] /\ g \in [D -> Int]
    BY <1>3, <1>4, <2>1, <2>2
  <2>4. IsFiniteSet(D)
    <3>1. i \in Int
      BY <1>1
    <3>2. IsFiniteSet(1 .. i)
      BY <3>1, FS_Interval
    <3>3. QED
      BY <2>1, <3>2
  <2>5. PICK x : x = IF p = p0 THEN k ELSE 0
    OBVIOUS
  <2>6. \A j \in D : (p = p0 /\ j = k) <=> j = x
    BY <2>1, <2>5
  <2>7. \A j \in D : g[j] = f[j] + One(j = x)
    BY <1>4, <2>1, <2>2, <2>6 DEF One
  <2>8. SumOver(f) \in Int /\ SumOver(g) = SumOver(f) + One(x \in D)
    <3>1. Moved(D, f, g, x)
      BY <2>3, <2>4, <2>7 DEF Moved
    <3>2. QED
      BY <3>1, SumMoved
  <2>9. x \in D <=> p = p0 /\ k <= i
    BY <1>1, <1>2, <2>1, <2>5 DEF Cells
  <2>10. One(x \in D) = One(p = p0 /\ k <= i)
    BY <2>9 DEF One
  <2>11. f = Bucketed(p, i) /\ g = Bucketed(p, i)'
    BY <2>1 DEF Bucketed
  <2>12. QED
    BY <2>8, <2>10, <2>11
<1>7. ASSUME NEW p \in Provider, NEW b \in Int
      PROVE  SumOver(Measured(p, b)') = SumOver(Measured(p, b)) + One(p = p0 /\ t <= b)
             /\ SumOver(Measured(p, b)) \in Int
  <2>1. PICK D, f, g : /\ D = {s \in Seconds : s <= b} /\ f = [s \in D |-> took[p][s]]
                       /\ g = [s \in D |-> took'[p][s]]
    OBVIOUS
  <2>2. D \subseteq Seconds
    BY <2>1
  <2>3. f \in [D -> Int] /\ g \in [D -> Int]
    BY <1>3, <1>5, <2>1, <2>2
  <2>4. IsFiniteSet(D)
    BY <2>2, MetricsAssumption, FS_Subset
  <2>5. PICK x : x = IF p = p0 THEN t ELSE b + 1
    OBVIOUS
  <2>6. \A y \in D : (p = p0 /\ y = t) <=> y = x
    BY <2>1, <2>5, MetricsAssumption
  <2>7. \A y \in D : g[y] = f[y] + One(y = x)
    BY <1>5, <2>1, <2>2, <2>6 DEF One
  <2>8. SumOver(f) \in Int /\ SumOver(g) = SumOver(f) + One(x \in D)
    <3>1. Moved(D, f, g, x)
      BY <2>3, <2>4, <2>7 DEF Moved
    <3>2. QED
      BY <3>1, SumMoved
  <2>9. x \in D <=> p = p0 /\ t <= b
    BY <2>1, <2>5, MetricsAssumption
  <2>10. One(x \in D) = One(p = p0 /\ t <= b)
    BY <2>9 DEF One
  <2>11. f = Measured(p, b) /\ g = Measured(p, b)'
    BY <2>1 DEF Measured
  <2>12. QED
    BY <2>8, <2>10, <2>11
<1>8. \A p \in Provider : count'[p]["duration"] = count[p]["duration"] + One(p = p0)
  <2>1. "duration" \in Counters
    BY DEF Counters
  <2>2. Counts(p0, "duration")
    BY <2>1, CountedCounts DEF CountersInv
  <2>3. QED
    BY <2>1, <2>2 DEF Counts, One
<1>9. ASSUME NEW p \in Provider
      PROVE  /\ \A i \in 1 .. L : SumOver(Bucketed(p, i)') = SumOver(Measured(p, Bounds[i])')
             /\ SumOver(Bucketed(p, L + 1)') = count'[p]["duration"]
  <2>1. ASSUME NEW i \in 1 .. L
        PROVE  SumOver(Bucketed(p, i)') = SumOver(Measured(p, Bounds[i])')
    <3>1. Bounds[i] \in Int
      BY <1>1, BoundsAre
    <3>2. SumOver(Bucketed(p, i)) = SumOver(Measured(p, Bounds[i]))
      BY <1>1, BucketsCountIs DEF HistogramInv
    <3>3. One(p = p0 /\ k <= i) = One(p = p0 /\ t <= Bounds[i])
      BY <1>2 DEF One
    <3>4. i \in 1 .. L + 1
      OBVIOUS
    <3>5. QED
      BY <1>6, <1>7, <3>1, <3>2, <3>3, <3>4
  <2>2. SumOver(Bucketed(p, L + 1)') = count'[p]["duration"]
    <3>1. SumOver(Bucketed(p, L + 1)) = count[p]["duration"]
      BY <1>1, BucketsCountIs DEF HistogramInv
    <3>2. k <= L + 1 /\ L + 1 \in 1 .. L + 1
      BY <1>1, <1>2 DEF Cells
    <3>3. One(p = p0 /\ k <= L + 1) = One(p = p0)
      BY <3>2 DEF One
    <3>4. QED
      BY <1>6, <1>8, <3>1, <3>2, <3>3
  <2>3. QED
    BY <2>1, <2>2
<1>10. BucketsCount'
  BY <1>1, <1>9, BucketsCountNext
<1>11. QED
  BY <1>4, <1>5, <1>10 DEF HistogramInv, HistogramOK

LEMMA OthersKeep ==
  ASSUME HistogramInv, UNCHANGED <<buckets, took>>,
         \A p \in Provider : count'[p]["duration"] = count[p]["duration"]
  PROVE  HistogramInv'
<1>1. HistogramOK'
  BY DEF HistogramInv, HistogramOK
<1>2. BucketsCount'
  BY BucketsCountIs, BucketsCountNext DEF HistogramInv, Bucketed, Measured
<1>3. QED
  BY <1>1, <1>2 DEF HistogramInv

LEMMA CountedKeeps ==
  ASSUME HistogramInv, CountersInv, NEW p0 \in Provider, NEW c \in Counters \ {"duration"},
         Counted(p0, c), UNCHANGED <<buckets, took>>
  PROVE  HistogramInv'
<1>1. Counts(p0, c)
  BY CountedCounts DEF CountersInv
<1>2. "duration" \in Counters
  BY DEF Counters
<1>3. \A p \in Provider : count'[p]["duration"] = count[p]["duration"]
  <2>1. \A p \in Provider : count[p]["duration"] \in Nat
    BY <1>2 DEF CountersInv, CountersOK
  <2>2. QED
    BY <1>1, <1>2, <2>1 DEF Counts, One
<1>4. QED
  BY <1>3, OthersKeep

LEMMA HistogramStep == HistogramInv /\ CountersInv /\ [MetricsNext]_metricsVars => HistogramInv'
<1> SUFFICES ASSUME HistogramInv, CountersInv, [MetricsNext]_metricsVars
             PROVE  HistogramInv'
  OBVIOUS
<1>1. {"skip", "attempt", "answered"} \subseteq Counters \ {"duration"}
  BY DEF Counters
<1>2. ASSUME NEW r \in Request, NEW p \in Provider, Skip(r, p) \/ Begin(r, p)
      PROVE  HistogramInv'
  BY <1>1, <1>2, CountedKeeps DEF Skip, Begin
<1>3. ASSUME NEW r \in Request, GivesUp(r) \/ Fails(r) \/ ReadsBody(r) \/ Streams(r)
      PROVE  HistogramInv'
  BY <1>3, OthersKeep DEF GivesUp, Fails, ReadsBody, Streams, Ends
<1>4. ASSUME NEW r \in Request, Answers(r)
      PROVE  HistogramInv'
  <2>1. at[r].provider \in Provider
    BY <1>4, PhaseOf DEF CountersInv, Answers, Underway
  <2>2. QED
    BY <1>1, <1>4, <2>1, CountedKeeps DEF Answers
<1>5. ASSUME NEW r \in Request, Call(r)
      PROVE  HistogramInv'
  <2>1. at[r].provider \in Provider /\ Remaining(todo[r])
    BY <1>5, PhaseOf DEF CountersInv, Call
  <2>2. Head(todo[r]) \in Counters
    BY <2>1, NextCall
  <2>3. CASE Head(todo[r]) = "duration"
    <3>1. PICK t \in Seconds : /\ buckets' = [buckets EXCEPT ![at[r].provider][Bucket(t)] = @ + 1]
                               /\ took' = [took EXCEPT ![at[r].provider][t] = @ + 1]
      BY <1>5, <2>3 DEF Call
    <3>2. QED
      BY <1>5, <2>1, <2>3, <3>1, DurationKeeps DEF Call
  <2>4. CASE Head(todo[r]) # "duration"
    BY <1>5, <2>1, <2>2, <2>4, CountedKeeps DEF Call
  <2>5. QED
    BY <2>3, <2>4
<1>6. CASE UNCHANGED metricsVars
  BY <1>6, OthersKeep DEF metricsVars
<1>7. QED
  BY <1>2, <1>3, <1>4, <1>5, <1>6 DEF MetricsNext

\* At every scrape the histogram says of every bound how many attempts took at
\* most that long, and counts every attempt that was measured.
THEOREM BucketsCountHolds == MetricsSpec => []BucketsCount
<1>1. HistogramInv => BucketsCount
  BY DEF HistogramInv
<1>2. QED
  BY <1>1, CountersInvHolds, HistogramInit, HistogramStep, PTL DEF MetricsSpec

=============================================================================
