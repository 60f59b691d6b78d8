---------------------------- MODULE HealthProofs ----------------------------
(***************************************************************************)
(* Proofs about Health, for any number of requests and providers, any      *)
(* capacity of the history and any times.                                  *)
(***************************************************************************)
EXTENDS Health, FiniteSetTheorems, SequenceTheorems, TLAPS

-----------------------------------------------------------------------------
(* Pruning keeps the end of the history. *)

LEMMA EndOfSequence ==
  ASSUME NEW S, NEW s \in Seq(S), NEW n \in 0 .. Len(s)
  PROVE  LET end == SubSeq(s, n + 1, Len(s))
         IN  /\ end \in Seq(S) /\ Len(end) = Len(s) - n
             /\ \A j \in 1 .. Len(end) : end[j] = s[n + j]
<1> DEFINE end == SubSeq(s, n + 1, Len(s))
<1>1. Len(s) \in Nat /\ \A i \in 1 .. Len(s) : s[i] \in S
  BY LenProperties, ElementOfSeq
<1>2. \A i \in n + 1 .. Len(s) : s[i] \in S
  BY <1>1
<1>3. /\ end \in Seq(S)
      /\ Len(end) = IF n + 1 <= Len(s) THEN Len(s) - (n + 1) + 1 ELSE 0
      /\ \A i \in 1 .. Len(s) - (n + 1) + 1 : end[i] = s[(n + 1) + i - 1]
  BY <1>1, <1>2, SubSeqProperties
<1>4. QED
  BY <1>1, <1>3

LEMMA UpTo ==
  ASSUME NEW n \in Nat
  PROVE  IsFiniteSet(1 .. n) /\ Cardinality(1 .. n) = n
<1>1. /\ IsFiniteSet(1 .. n)
      /\ Cardinality(1 .. n) = IF 1 > n THEN 0 ELSE n - 1 + 1
  <2>1. 1 \in Int /\ n \in Int
    OBVIOUS
  <2>2. QED
    BY <2>1, FS_Interval, Zenon
<1>2. QED
  BY <1>1

\* A set of numbers that goes down to 1 has all the numbers up to its size.
LEMMA InitialSegment ==
  ASSUME NEW n \in Nat, NEW S \in SUBSET (1 .. n), \A x \in S : 1 .. x \subseteq S
  PROVE  Cardinality(S) \in 0 .. n /\ 1 .. Cardinality(S) \subseteq S
<1>1. Cardinality(S) \in 0 .. n
  <2>1. IsFiniteSet(1 .. n) /\ Cardinality(1 .. n) = n
    BY UpTo
  <2>2. IsFiniteSet(S) /\ Cardinality(S) <= Cardinality(1 .. n)
    BY <2>1, FS_Subset
  <2>3. QED
    BY <2>1, <2>2, FS_CardinalityType
<1>2. ASSUME NEW i \in 1 .. Cardinality(S), i \notin S
      PROVE  FALSE
  <2>1. PICK k \in Nat : k = i - 1
    BY <1>1, <1>2
  <2>2. S \subseteq 1 .. k
    BY <1>1, <1>2, <2>1
  <2>3. IsFiniteSet(1 .. k) /\ Cardinality(1 .. k) = k
    BY UpTo
  <2>4. Cardinality(S) <= Cardinality(1 .. k)
    BY <2>2, <2>3, FS_Subset
  <2>5. QED
    BY <1>1, <1>2, <2>1, <2>3, <2>4
<1>3. QED
  BY <1>1, <1>2

\* As much is cut off as there are old events at the front: none that is cut
\* off is recent.
LEMMA DropOldKeepsRecent ==
  ASSUME NEW events \in Seq(Events), NEW cutoff \in Int
  PROVE  \E n \in 0 .. Len(events) :
            /\ DropOld(events, cutoff) = SubSeq(events, n + 1, Len(events))
            /\ \A i \in 1 .. n : events[i].at < cutoff
<1> DEFINE old == {n \in DOMAIN events : \A i \in 1 .. n : events[i].at < cutoff}
<1>1. Len(events) \in Nat /\ DOMAIN events = 1 .. Len(events)
  BY LenProperties
<1>2. old \in SUBSET (1 .. Len(events)) /\ \A x \in old : 1 .. x \subseteq old
  BY <1>1
<1>3. Cardinality(old) \in 0 .. Len(events) /\ 1 .. Cardinality(old) \subseteq old
  <2> HIDE DEF old
  <2>1. QED
    BY <1>1, <1>2, InitialSegment
<1>4. \A i \in 1 .. Cardinality(old) : events[i].at < cutoff
  BY <1>1, <1>3
<1>5. QED
  BY <1>3, <1>4 DEF DropOld

\* What is kept is the end of it, and nothing went that is recent and among
\* the latest.
EndOf(kept, events, cutoff) ==
    LET gone == Len(events) - Len(kept) IN
    /\ kept \in Seq(Events) /\ gone \in Nat
    /\ \A j \in 1 .. Len(kept) : kept[j] = events[gone + j]
    /\ \A i \in 1 .. gone : events[i].at < cutoff \/ i <= Len(events) - MaxEvents
KeptOf(kept, events, cutoff) == EndOf(kept, events, cutoff) /\ Len(kept) <= MaxEvents

LEMMA PruneKeepsEnd ==
  ASSUME NEW events \in Seq(Events), NEW cutoff \in Int
  PROVE  KeptOf(Latest(DropOld(events, cutoff)), events, cutoff)
<1>1. Len(events) \in Nat
  BY LenProperties
<1>2. PICK n \in 0 .. Len(events) :
         /\ DropOld(events, cutoff) = SubSeq(events, n + 1, Len(events))
         /\ \A i \in 1 .. n : events[i].at < cutoff
  BY DropOldKeepsRecent
<1>3. PICK young \in Seq(Events) :
         /\ DropOld(events, cutoff) = young
         /\ Len(young) = Len(events) - n
         /\ \A j \in 1 .. Len(young) : young[j] = events[n + j]
  <2>1. LET end == SubSeq(events, n + 1, Len(events))
        IN  /\ end \in Seq(Events) /\ Len(end) = Len(events) - n
            /\ \A j \in 1 .. Len(end) : end[j] = events[n + j]
    BY EndOfSequence
  <2>2. QED
    BY <1>2, <2>1, Zenon
<1>4. MaxEvents \in Nat \ {0}
  BY HealthAssumption
<1>5. ASSUME ~(Len(young) > MaxEvents)
      PROVE  KeptOf(young, events, cutoff)
  <2>1. Len(events) - Len(young) = n /\ Len(young) <= MaxEvents
    BY <1>1, <1>3, <1>4, <1>5
  <2>2. QED
    BY <1>1, <1>2, <1>3, <2>1 DEF KeptOf, EndOf
<1>6. ASSUME Len(young) > MaxEvents, NEW kept,
             kept = SubSeq(young, Len(young) - MaxEvents + 1, Len(young))
      PROVE  KeptOf(kept, events, cutoff)
  <2>1. PICK d \in 0 .. Len(young) : d = Len(young) - MaxEvents
    <3>1. Len(young) - MaxEvents \in 0 .. Len(young)
      BY <1>1, <1>3, <1>4, <1>6
    <3>2. QED
      BY <3>1, Zenon
  <2>2. /\ kept \in Seq(Events) /\ Len(kept) = Len(young) - d
        /\ \A j \in 1 .. Len(kept) : kept[j] = young[d + j]
    BY <1>6, <2>1, EndOfSequence
  <2>3. /\ Len(kept) = MaxEvents
        /\ Len(events) - Len(kept) = n + d /\ n + d = Len(events) - MaxEvents
    BY <1>1, <1>3, <1>4, <2>1, <2>2
  <2>4. ASSUME NEW j \in 1 .. Len(kept)
        PROVE  kept[j] = events[(n + d) + j]
    <3>1. d + j \in 1 .. Len(young) /\ n + (d + j) = (n + d) + j
      BY <1>1, <1>3, <2>2
    <3>2. kept[j] = young[d + j] /\ young[d + j] = events[n + (d + j)]
      BY <1>3, <2>2, <3>1
    <3>3. QED
      BY <3>1, <3>2
  <2>5. n + d \in Nat /\ \A i \in 1 .. n + d : i <= Len(events) - MaxEvents
    BY <1>1, <2>3
  <2>6. PICK gone \in Nat : gone = n + d /\ gone = Len(events) - Len(kept)
    BY <2>3, <2>5, Zenon
  <2>7. \A j \in 1 .. Len(kept) : kept[j] = events[gone + j]
    BY <2>4, <2>6, Zenon
  <2>8. \A i \in 1 .. gone : i <= Len(events) - MaxEvents
    BY <2>5, <2>6, Zenon
  <2>9. kept \in Seq(Events) /\ Len(kept) <= MaxEvents
    BY <1>4, <2>2, <2>3
  <2>10. QED
    BY <2>6, <2>7, <2>8, <2>9, Zenon DEF KeptOf, EndOf
<1>7. QED
  BY <1>3, <1>5, <1>6 DEF Latest

\* What holds of a history and what it has become after pruning at t.
PrunedAt(h, g, t) ==
    /\ g \in History
    /\ g.providers = h.providers /\ g.fallbacks = h.fallbacks /\ g.log = h.log
    /\ KeptOf(g.events, h.events, t - Retention)

LEMMA Pruning ==
  ASSUME NEW h \in History, NEW t \in 0 .. MaxNow
  PROVE  PrunedAt(h, Prune(h, t), t) /\ Prune(h, t).savedAt = h.savedAt
<1>1. t - Retention \in Int /\ h.events \in Seq(Events)
  BY HealthAssumption DEF History
<1>2. PICK kept : kept = Latest(DropOld(h.events, t - Retention))
  OBVIOUS
<1> DEFINE g == [h EXCEPT !.events = kept]
<1>3. KeptOf(kept, h.events, t - Retention)
  BY <1>1, <1>2, PruneKeepsEnd
<1>4. /\ g \in History /\ g.events = kept
      /\ g.providers = h.providers /\ g.fallbacks = h.fallbacks
      /\ g.savedAt = h.savedAt /\ g.log = h.log
  BY <1>3 DEF History, KeptOf, EndOf
<1>5. Prune(h, t) = g
  BY <1>2 DEF Prune
<1>6. QED
  BY <1>3, <1>4, <1>5 DEF PrunedAt

-----------------------------------------------------------------------------
(* One record. *)

LEMMA Updating ==
  ASSUME NEW s \in ProviderHealth, NEW call \in Items, call.kind \in Types, NEW t \in 0 .. MaxNow
  PROVE  /\ Updated(s, call, t) \in ProviderHealth
         /\ call.kind = "success" =>
              Updated(s, call, t) = [s EXCEPT !.successes = @ + 1, !.lastSuccess = t, !.until = 0]
         /\ call.kind = "error" =>
              Updated(s, call, t) = [s EXCEPT !.errors = @ + 1, !.lastError = t]
         /\ call.kind = "cooldown-started" =>
              Updated(s, call, t) = [s EXCEPT !.transitions = @ + 1, !.until = Later(@, call.until)]
         /\ call.kind = "cooldown-cleared" => Updated(s, call, t) = [s EXCEPT !.until = 0]
<1>1. 0 \in 0 .. MaxNow + CooldownDuration
  BY HealthAssumption
<1>0. s.successes + 1 \in Nat /\ s.errors + 1 \in Nat /\ s.transitions + 1 \in Nat
  BY DEF ProviderHealth
<1>2. CASE call.kind = "success"
  <2>1. Updated(s, call, t) = [s EXCEPT !.successes = @ + 1, !.lastSuccess = t, !.until = 0]
    BY <1>2 DEF Updated
  <2>2. PICK n \in Nat : n = s.successes + 1
    BY <1>0
  <2>3. [s EXCEPT !.successes = n, !.lastSuccess = t, !.until = 0] \in ProviderHealth
    BY <1>1 DEF ProviderHealth
  <2>4. QED
    BY <1>2, <2>1, <2>2, <2>3
<1>3. CASE call.kind = "error"
  <2>1. Updated(s, call, t) = [s EXCEPT !.errors = @ + 1, !.lastError = t]
    BY <1>3 DEF Updated
  <2>2. PICK n \in Nat : n = s.errors + 1
    BY <1>0
  <2>3. [s EXCEPT !.errors = n, !.lastError = t] \in ProviderHealth
    BY DEF ProviderHealth
  <2>4. QED
    BY <1>3, <2>1, <2>2, <2>3
<1>4. CASE call.kind = "cooldown-started"
  <2>1. Updated(s, call, t) = [s EXCEPT !.transitions = @ + 1, !.until = Later(s.until, call.until)]
    BY <1>4 DEF Updated, ShownUntil
  <2>2. PICK u \in 0 .. MaxNow + CooldownDuration : u = Later(s.until, call.until)
    BY DEF Later, ProviderHealth, Items
  <2>3. PICK n \in Nat : n = s.transitions + 1
    BY <1>0
  <2>4. [s EXCEPT !.transitions = n, !.until = u] \in ProviderHealth
    BY DEF ProviderHealth
  <2>5. QED
    BY <1>4, <2>1, <2>2, <2>3, <2>4
<1>5. CASE call.kind = "cooldown-cleared"
  <2>1. Updated(s, call, t) = [s EXCEPT !.until = 0]
    BY <1>5 DEF Updated
  <2>2. QED
    BY <1>1, <1>5, <2>1 DEF ProviderHealth
<1>6. QED
  BY <1>2, <1>3, <1>4, <1>5 DEF Types

\* g is h with the call on record.
RecordedAs(h, g, call, t) ==
    /\ g \in History /\ g.savedAt = h.savedAt
    /\ call.kind = "fallback" =>
          g.fallbacks = h.fallbacks + 1 /\ g.providers = h.providers
             /\ g.events = h.events /\ g.log = h.log
    /\ call.kind # "fallback" =>
          /\ g.fallbacks = h.fallbacks
          /\ g.providers = [h.providers EXCEPT ![call.provider] = Updated(@, call, t)]
          /\ g.events = Append(h.events, Event(call, t)) /\ g.log = Append(h.log, Event(call, t))

LEMMA Recording ==
  ASSUME NEW h \in History, NEW call \in Items, call.kind # "mark", NEW t \in 0 .. MaxNow
  PROVE  RecordedAs(h, Recorded(h, call, t), call, t)
<1> DEFINE event == Event(call, t)
<1>1. CASE call.kind = "fallback"
  <2>1. PICK n \in Nat : n = h.fallbacks + 1
    BY DEF History
  <2>2. Recorded(h, call, t) = [h EXCEPT !.fallbacks = n]
    BY <1>1, <2>1 DEF Recorded
  <2>3. [h EXCEPT !.fallbacks = n] \in History
    BY DEF History
  <2>4. QED
    BY <1>1, <2>1, <2>2, <2>3 DEF RecordedAs, History
<1>2. CASE call.kind # "fallback"
  <2>1. call.kind \in Types /\ call.provider \in Provider
    BY <1>2 DEF Items
  <2>2. event \in Events
    BY <2>1 DEF Events, Event, Items
  <2>3. Append(h.events, event) \in Seq(Events) /\ Append(h.log, event) \in Seq(Events)
    BY <2>2, AppendProperties DEF History
  <2>4. PICK one \in ProviderHealth : one = Updated(h.providers[call.provider], call, t)
    BY <2>1, Updating DEF History
  <2>5. PICK events \in Seq(Events) : events = Append(h.events, event)
    BY <2>3
  <2>6. PICK log \in Seq(Events) : log = Append(h.log, event)
    BY <2>3
  <2> DEFINE g == [h EXCEPT !.providers[call.provider] = one, !.events = events, !.log = log]
  <2>7. Recorded(h, call, t) = g
    BY <1>2, <2>4, <2>5, <2>6 DEF Recorded
  <2>8. /\ g \in History /\ g.savedAt = h.savedAt /\ g.fallbacks = h.fallbacks
        /\ g.providers = [h.providers EXCEPT ![call.provider] = one]
        /\ g.events = events /\ g.log = log
    BY <2>1, <2>4 DEF History
  <2>9. QED
    BY <1>2, <2>4, <2>5, <2>6, <2>7, <2>8 DEF RecordedAs
<1>3. QED
  BY <1>1, <1>2

LEMMA RequestFacts ==
  ASSUME HealthInv, NEW r \in Request
  PROVE  /\ todo[r] \in Seq(Items) /\ WellOrdered(todo[r])
         /\ stamp[r] \in 0 .. MaxNow /\ stamp[r] <= now /\ now \in 1 .. MaxNow
         /\ stamp[r] # 0 => todo[r] # <<>>
<1>1. /\ todo \in [Request -> Seq(Items)] /\ stamp \in [Request -> 0 .. MaxNow]
      /\ now \in 1 .. MaxNow
  BY DEF HealthInv, HealthTypeOK
<1>2. Stamped(r) /\ WellOrdered(todo[r])
  BY DEF HealthInv
<1>3. QED
  BY <1>1, <1>2 DEF Stamped

\* A request records its next call, and what becomes of the file.
RecordsCall(r, call, t, h) ==
    /\ todo[r] # <<>> /\ call = Head(todo[r]) /\ call.kind # "mark" /\ t = stamp[r]
    /\ todo' = [todo EXCEPT ![r] = Tail(@)] /\ stamp' = [stamp EXCEPT ![r] = 0]
    /\ RecordedAs(health, h, call, t) /\ PrunedAt(h, health', t)
    /\ \/ SaveIsDue(call, t) /\ file' = health' /\ health'.savedAt = t /\ ~behind'
       \/ SaveIsDue(call, t) /\ file' = file /\ health'.savedAt = health.savedAt /\ behind'
       \/ ~SaveIsDue(call, t) /\ file' = file /\ health'.savedAt = health.savedAt /\ behind' = behind

LEMMA RecordStep ==
  ASSUME HealthInv, NEW r \in Request, Record(r)
  PROVE  \E call \in Items, t \in 1 .. now, h \in History : RecordsCall(r, call, t, h)
<1>1. /\ todo[r] \in Seq(Items) /\ todo[r] # <<>>
      /\ stamp[r] \in 1 .. now /\ stamp[r] \in 0 .. MaxNow /\ health \in History
  <2>1. stamp[r] # 0 /\ Head(todo[r]).kind # "mark"
    BY DEF Record
  <2>2. health \in History
    BY DEF HealthInv, HealthTypeOK
  <2>3. QED
    BY <2>1, <2>2, RequestFacts
<1>2. PICK call \in Items : call = Head(todo[r])
  BY <1>1, HeadTailProperties
<1>3. PICK t \in 1 .. now : t = stamp[r]
  BY <1>1
<1>4. t \in 0 .. MaxNow /\ call.kind # "mark"
  BY <1>1, <1>2, <1>3, Zenon DEF Record
<1>5. PICK h : h = Recorded(health, call, t)
  OBVIOUS
<1>6. RecordedAs(health, h, call, t) /\ h \in History
  BY <1>1, <1>4, <1>5, Recording DEF RecordedAs
<1>7. PICK g : g = Prune(h, t)
  OBVIOUS
<1>8. PrunedAt(h, g, t) /\ g.savedAt = health.savedAt
  BY <1>4, <1>6, <1>7, Pruning DEF RecordedAs
<1>9. PICK saved : saved = [g EXCEPT !.savedAt = t]
  OBVIOUS
<1>10. PrunedAt(h, saved, t) /\ saved.savedAt = t
  BY <1>4, <1>8, <1>9 DEF PrunedAt, History
<1>11. /\ todo' = [todo EXCEPT ![r] = Tail(@)] /\ stamp' = [stamp EXCEPT ![r] = 0]
       /\ \/ SaveIsDue(call, t) /\ health' = saved /\ file' = saved /\ behind' = FALSE
          \/ SaveIsDue(call, t) /\ health' = g /\ file' = file /\ behind' = TRUE
          \/ ~SaveIsDue(call, t) /\ health' = g /\ file' = file /\ behind' = behind
  <2>1. g = Prune(Recorded(health, Head(todo[r]), stamp[r]), stamp[r])
    BY <1>2, <1>3, <1>5, <1>7
  <2>2. saved = [g EXCEPT !.savedAt = stamp[r]]
    BY <1>3, <1>9
  <2>3. \/ SaveIsDue(Head(todo[r]), stamp[r]) /\ health' = saved /\ file' = saved /\ behind' = FALSE
        \/ SaveIsDue(Head(todo[r]), stamp[r]) /\ health' = g /\ file' = file /\ behind' = TRUE
        \/ ~SaveIsDue(Head(todo[r]), stamp[r]) /\ health' = g /\ file' = file /\ behind' = behind
    BY <2>1, <2>2, Zenon DEF Record
  <2>4. todo' = [todo EXCEPT ![r] = Tail(@)] /\ stamp' = [stamp EXCEPT ![r] = 0]
    BY DEF Record
  <2>5. QED
    BY <1>2, <1>3, <2>3, <2>4, Zenon
<1>12. RecordsCall(r, call, t, h)
  BY <1>1, <1>2, <1>3, <1>4, <1>6, <1>8, <1>10, <1>11 DEF RecordsCall
<1>13. QED
  BY <1>6, <1>12

-----------------------------------------------------------------------------
(* HealthInv *)

LEMMA HealthInvInit == HealthInit => HealthInv
<1> SUFFICES ASSUME HealthInit
             PROVE  HealthInv
  OBVIOUS
<1>1. /\ now = 1 /\ outcomes = 0 /\ diskFaults = 0 /\ up = TRUE /\ behind = FALSE
      /\ benchedUntil = [p \in Provider |-> 0] /\ inherited = [p \in Provider |-> 0]
      /\ todo = [r \in Request |-> <<>>] /\ stamp = [r \in Request |-> 0]
      /\ health = NoHistory /\ file = NoHistory
  BY DEF HealthInit
<1>2. NoHistory \in History /\ Len(NoHistory.events) = 0
  BY HealthAssumption DEF NoHistory, NoHealth, History, ProviderHealth
<1>3. HealthTypeOK
  <2>1. now \in 1 .. MaxNow /\ outcomes \in 0 .. MaxOutcomes /\ diskFaults \in 0 .. MaxDiskFaults
    BY <1>1, HealthAssumption
  <2>2. /\ benchedUntil \in [Provider -> 0 .. MaxNow + CooldownDuration]
        /\ inherited \in [Provider -> 0 .. MaxNow + CooldownDuration]
        /\ stamp \in [Request -> 0 .. MaxNow]
    BY <1>1, HealthAssumption
  <2>3. todo \in [Request -> Seq(Items)]
    BY <1>1
  <2>4. QED
    BY <1>1, <1>2, <2>1, <2>2, <2>3 DEF HealthTypeOK
<1>4. \A r \in Request : WellOrdered(todo[r]) /\ Stamped(r)
  BY <1>1 DEF WellOrdered, Stamped
<1>5. Len(health.events) <= MaxEvents /\ Len(file.events) <= MaxEvents
  BY <1>1, <1>2, HealthAssumption
<1>6. up /\ health.savedAt = file.savedAt /\ file = NoHistory
  BY <1>1
<1>7. QED
  BY <1>3, <1>4, <1>5, <1>6 DEF HealthInv

LEMMA OutcomeKeeps ==
  ASSUME HealthInv, NEW r \in Request, NEW calls \in Seq(Items), WellOrdered(calls),
         Outcome(r, calls), benchedUntil' \in [Provider -> 0 .. MaxNow + CooldownDuration]
  PROVE  HealthInv'
<1>1. /\ up /\ up' = up /\ todo[r] = <<>> /\ todo' = [todo EXCEPT ![r] = calls]
      /\ outcomes < MaxOutcomes /\ outcomes' = outcomes + 1
      /\ UNCHANGED <<now, diskFaults, stamp, health, file, behind, inherited>>
  BY DEF Outcome
<1>2. HealthTypeOK /\ todo \in [Request -> Seq(Items)] /\ outcomes \in 0 .. MaxOutcomes
  BY DEF HealthInv, HealthTypeOK
<1>3. HealthTypeOK'
  <2>1. todo' \in [Request -> Seq(Items)]
    BY <1>1, <1>2
  <2>2. outcomes' \in 0 .. MaxOutcomes
    BY <1>1, <1>2, HealthAssumption
  <2>3. QED
    BY <1>1, <1>2, <2>1, <2>2 DEF HealthTypeOK
<1>4. ASSUME NEW q \in Request
      PROVE  WellOrdered(todo'[q]) /\ Stamped(q)'
  <2>1. stamp[r] = 0
    BY <1>1, RequestFacts
  <2>2. WellOrdered(todo[q]) /\ stamp[q] <= now /\ (stamp[q] # 0 => todo[q] # <<>>)
    BY RequestFacts
  <2>3. CASE q = r
    BY <1>1, <1>2, <2>1, <2>2, <2>3 DEF Stamped
  <2>4. CASE q # r
    BY <1>1, <1>2, <2>2, <2>4 DEF Stamped
  <2>5. QED
    BY <2>3, <2>4
<1>5. QED
  BY <1>1, <1>3, <1>4 DEF HealthInv

LEMMA TickKeeps == HealthInv /\ Tick => HealthInv'
<1> SUFFICES ASSUME HealthInv, Tick
             PROVE  HealthInv'
  OBVIOUS
<1>1. /\ now' = now + 1 /\ now < MaxNow
      /\ UNCHANGED <<outcomes, diskFaults, up, benchedUntil, todo, stamp, health, file, behind,
                     inherited>>
  BY DEF Tick
<1>2. HealthTypeOK /\ now \in 1 .. MaxNow
  BY DEF HealthInv, HealthTypeOK
<1>3. HealthTypeOK'
  <2>1. now' \in 1 .. MaxNow
    BY <1>1, <1>2, HealthAssumption
  <2>2. QED
    BY <1>1, <1>2, <2>1 DEF HealthTypeOK
<1>4. \A q \in Request : Stamped(q)'
  BY <1>1, RequestFacts DEF Stamped
<1>5. NothingLeft => NothingLeft'
  BY <1>1 DEF NothingLeft
<1>6. QED
  BY <1>1, <1>3, <1>4, <1>5 DEF HealthInv

LEMMA ReadClockKeeps ==
  ASSUME HealthInv, NEW r \in Request, ReadClock(r)
  PROVE  HealthInv'
<1>1. /\ up /\ todo[r] # <<>> /\ stamp' = [stamp EXCEPT ![r] = now]
      /\ UNCHANGED <<now, outcomes, diskFaults, up, benchedUntil, todo, health, file, behind,
                     inherited>>
  BY DEF ReadClock, clockVars
<1>2. HealthTypeOK /\ now \in 1 .. MaxNow /\ stamp \in [Request -> 0 .. MaxNow]
  BY DEF HealthInv, HealthTypeOK
<1>3. HealthTypeOK'
  <2>1. stamp' \in [Request -> 0 .. MaxNow]
    BY <1>1, <1>2
  <2>2. QED
    BY <1>1, <1>2, <2>1 DEF HealthTypeOK
<1>4. ASSUME NEW q \in Request
      PROVE  Stamped(q)'
  BY <1>1, <1>2, RequestFacts DEF Stamped
<1>5. QED
  BY <1>1, <1>3, <1>4 DEF HealthInv

\* A request that is to bench a provider has nothing else to do.
LEMMA MarkIsLast ==
  ASSUME HealthInv, NEW r \in Request, Mark(r)
  PROVE  \E p \in Provider :
            /\ todo[r] = <<Item("mark", p)>> /\ Head(todo[r]).provider = p /\ Tail(todo[r]) = <<>>
            /\ stamp[r] \in 0 .. MaxNow
<1>1. /\ todo[r] \in Seq(Items) /\ stamp[r] \in 0 .. MaxNow /\ WellOrdered(todo[r])
      /\ (stamp[r] # 0 => todo[r] # <<>>)
  BY RequestFacts
<1>2. stamp[r] # 0 /\ Head(todo[r]).kind = "mark"
  BY DEF Mark
<1>3. todo[r][1] = Head(todo[r]) /\ 1 \in DOMAIN todo[r]
  BY <1>1, <1>2
<1>4. PICK p \in Provider : todo[r] \in {<<Item("error", p), Item("mark", p)>>, <<Item("mark", p)>>}
  BY <1>1, <1>2, <1>3 DEF WellOrdered
<1>5. todo[r] = <<Item("mark", p)>>
  BY <1>2, <1>4 DEF Item
<1>6. QED
  BY <1>1, <1>5 DEF Item

\* What becomes of it: the provider is benched, and that is to be recorded.
Marks(r, p, call) ==
    /\ todo[r] = <<Item("mark", p)>> /\ call.kind = "cooldown-started" /\ call.provider = p
    /\ call.until <= now + CooldownDuration
    /\ benchedUntil' = [benchedUntil EXCEPT ![p] = Later(@, call.until)]
    /\ todo' = [todo EXCEPT ![r] = <<call>>] /\ stamp' = [stamp EXCEPT ![r] = 0]
    /\ up /\ UNCHANGED <<now, outcomes, diskFaults, up, health, file, behind, inherited>>

LEMMA MarkStep ==
  ASSUME HealthInv, NEW r \in Request, Mark(r)
  PROVE  \E p \in Provider, call \in Items : Marks(r, p, call)
<1>1. PICK p \in Provider :
         /\ todo[r] = <<Item("mark", p)>> /\ Head(todo[r]).provider = p /\ Tail(todo[r]) = <<>>
         /\ stamp[r] \in 0 .. MaxNow
  BY MarkIsLast
<1>2. PICK until \in 0 .. MaxNow + CooldownDuration : until = stamp[r] + CooldownDuration
  BY <1>1, HealthAssumption
<1>3. PICK call : call = [kind |-> "cooldown-started", provider |-> p, until |-> until]
  OBVIOUS
<1>4. call \in Items /\ call.kind = "cooldown-started" /\ call.provider = p /\ call.until = until
  BY <1>3 DEF Items, Types
<1>5. <<call>> \o Tail(todo[r]) = <<call>>
  <2>1. <<call>> \o <<>> = <<call>>
    BY <1>4, ConcatEmptySeq
  <2>2. QED
    BY <1>1, <2>1
<1>6. /\ up /\ benchedUntil' = [benchedUntil EXCEPT ![p] = Later(@, until)]
      /\ todo' = [todo EXCEPT ![r] = <<call>> \o Tail(todo[r])] /\ stamp' = [stamp EXCEPT ![r] = 0]
      /\ UNCHANGED <<now, outcomes, diskFaults, up, health, file, behind, inherited>>
  BY <1>1, <1>2, <1>3, Zenon DEF Mark, clockVars
<1>7. call.until <= now + CooldownDuration
  BY <1>1, <1>2, <1>4, RequestFacts, HealthAssumption
<1>8. QED
  BY <1>1, <1>4, <1>5, <1>6, <1>7 DEF Marks

LEMMA MarkKeeps ==
  ASSUME HealthInv, NEW r \in Request, Mark(r)
  PROVE  HealthInv'
<1>1. PICK p \in Provider, call \in Items : Marks(r, p, call)
  BY MarkStep
<1>2. /\ up /\ up' = up /\ call.kind = "cooldown-started"
      /\ benchedUntil' = [benchedUntil EXCEPT ![p] = Later(@, call.until)]
      /\ todo' = [todo EXCEPT ![r] = <<call>>] /\ stamp' = [stamp EXCEPT ![r] = 0]
      /\ UNCHANGED <<now, outcomes, diskFaults, health, file, behind, inherited>>
  BY <1>1 DEF Marks
<1>3. /\ HealthTypeOK /\ todo \in [Request -> Seq(Items)] /\ stamp \in [Request -> 0 .. MaxNow]
      /\ benchedUntil \in [Provider -> 0 .. MaxNow + CooldownDuration]
  BY DEF HealthInv, HealthTypeOK
<1>4. HealthTypeOK'
  <2>1. todo' \in [Request -> Seq(Items)]
    BY <1>2, <1>3
  <2>2. stamp' \in [Request -> 0 .. MaxNow]
    BY <1>2, <1>3, HealthAssumption
  <2>3. Later(benchedUntil[p], call.until) \in 0 .. MaxNow + CooldownDuration
    BY <1>3 DEF Later, Items
  <2>4. benchedUntil' \in [Provider -> 0 .. MaxNow + CooldownDuration]
    BY <1>2, <1>3, <2>3
  <2>5. QED
    BY <1>2, <1>3, <2>1, <2>2, <2>4 DEF HealthTypeOK
<1>5. ASSUME NEW q \in Request
      PROVE  WellOrdered(todo'[q]) /\ Stamped(q)'
  <2>1. WellOrdered(<<call>>)
    BY <1>2 DEF WellOrdered
  <2>2. /\ WellOrdered(todo[q]) /\ stamp[q] <= now /\ (stamp[q] # 0 => todo[q] # <<>>)
        /\ now \in 1 .. MaxNow
    BY RequestFacts
  <2>3. CASE q = r
    BY <1>2, <1>3, <2>1, <2>2, <2>3 DEF Stamped
  <2>4. CASE q # r
    BY <1>2, <1>3, <2>2, <2>4 DEF Stamped
  <2>5. QED
    BY <2>3, <2>4
<1>6. QED
  BY <1>2, <1>4, <1>5 DEF HealthInv

LEMMA TailOrdered ==
  ASSUME NEW calls \in Seq(Items), calls # <<>>, WellOrdered(calls)
  PROVE  Tail(calls) \in Seq(Items) /\ WellOrdered(Tail(calls))
<1>1. /\ Tail(calls) \in Seq(Items) /\ Len(Tail(calls)) = Len(calls) - 1 /\ Len(calls) \in Nat
      /\ \A i \in 1 .. Len(Tail(calls)) : Tail(calls)[i] = calls[i + 1]
  BY HeadTailProperties, LenProperties
<1>2. ASSUME NEW p \in Provider,
             calls \in {<<Item("error", p), Item("mark", p)>>, <<Item("mark", p)>>}
      PROVE  WellOrdered(Tail(calls))
  <2>1. CASE calls = <<Item("error", p), Item("mark", p)>>
    <3>1. Tail(calls) = <<Item("mark", p)>>
      BY <2>1
    <3>2. QED
      BY <3>1 DEF WellOrdered
  <2>2. CASE calls = <<Item("mark", p)>>
    <3>1. Tail(calls) = <<>>
      BY <2>2
    <3>2. QED
      BY <3>1 DEF WellOrdered
  <2>3. QED
    BY <1>2, <2>1, <2>2
<1>3. ASSUME \A i \in DOMAIN calls : calls[i].kind # "mark",
             Len(calls) > 1 => \A i \in DOMAIN calls : calls[i].kind # "cooldown-started"
      PROVE  WellOrdered(Tail(calls))
  <2>1. \A i \in DOMAIN Tail(calls) : i + 1 \in DOMAIN calls /\ Tail(calls)[i] = calls[i + 1]
    BY <1>1
  <2>2. Len(Tail(calls)) > 1 => Len(calls) > 1
    BY <1>1
  <2>3. QED
    BY <1>3, <2>1, <2>2 DEF WellOrdered
<1>4. QED
  BY <1>1, <1>2, <1>3 DEF WellOrdered

LEMMA RecordKeeps ==
  ASSUME HealthInv, NEW r \in Request, Record(r)
  PROVE  HealthInv'
<1>1. PICK call \in Items, t \in 1 .. now, h \in History : RecordsCall(r, call, t, h)
  BY RecordStep
<1>2. HealthTypeOK /\ todo \in [Request -> Seq(Items)] /\ stamp \in [Request -> 0 .. MaxNow]
  BY DEF HealthInv, HealthTypeOK
<1>3. up /\ up' = up /\ UNCHANGED <<now, outcomes, benchedUntil, inherited>>
  BY DEF Record
<1>4. diskFaults' \in 0 .. MaxDiskFaults /\ behind' \in BOOLEAN
  <2>1. diskFaults \in 0 .. MaxDiskFaults /\ behind \in BOOLEAN
    BY <1>2 DEF HealthTypeOK
  <2>2. \/ diskFaults' = diskFaults
        \/ diskFaults < MaxDiskFaults /\ diskFaults' = diskFaults + 1
    BY DEF Record
  <2>3. behind' \in {TRUE, FALSE, behind}
    BY DEF Record
  <2>4. diskFaults' \in 0 .. MaxDiskFaults
    BY <2>1, <2>2, HealthAssumption
  <2>5. QED
    BY <2>1, <2>3, <2>4
<1>5. health' \in History /\ Len(health'.events) <= MaxEvents
  BY <1>1 DEF RecordsCall, PrunedAt, KeptOf, EndOf
<1>6. todo[r] # <<>> /\ todo' = [todo EXCEPT ![r] = Tail(todo[r])] /\ stamp' = [stamp EXCEPT ![r] = 0]
  BY <1>1 DEF RecordsCall
<1>7. Tail(todo[r]) \in Seq(Items) /\ WellOrdered(Tail(todo[r]))
  BY <1>6, RequestFacts, TailOrdered
<1>8. file' = health' \/ file' = file
  BY <1>1 DEF RecordsCall
<1>9. ~behind' => health'.savedAt = file'.savedAt
  <2>1. ~behind => health.savedAt = file.savedAt
    BY <1>3 DEF HealthInv
  <2>2. QED
    BY <1>1, <1>3, <2>1 DEF RecordsCall
<1>10. HealthTypeOK'
  <2>1. todo' \in [Request -> Seq(Items)]
    BY <1>2, <1>6, <1>7
  <2>2. stamp' \in [Request -> 0 .. MaxNow]
    BY <1>2, <1>6, HealthAssumption
  <2>3. file' \in History
    BY <1>2, <1>5, <1>8 DEF HealthTypeOK
  <2>4. QED
    BY <1>2, <1>3, <1>4, <1>5, <2>1, <2>2, <2>3 DEF HealthTypeOK
<1>11. ASSUME NEW q \in Request
       PROVE  WellOrdered(todo'[q]) /\ Stamped(q)'
  <2>1. /\ WellOrdered(todo[q]) /\ stamp[q] <= now /\ (stamp[q] # 0 => todo[q] # <<>>)
        /\ now \in 1 .. MaxNow
    BY RequestFacts
  <2>2. CASE q = r
    BY <1>2, <1>3, <1>6, <1>7, <2>1, <2>2 DEF Stamped
  <2>3. CASE q # r
    BY <1>2, <1>3, <1>6, <2>1, <2>3 DEF Stamped
  <2>4. QED
    BY <2>2, <2>3
<1>12. Len(file'.events) <= MaxEvents
  BY <1>5, <1>8 DEF HealthInv
<1>13. ~Persistent => file' = NoHistory
  <2>1. ~Persistent => file' = file
    BY <1>1 DEF RecordsCall, SaveIsDue
  <2>2. QED
    BY <2>1 DEF HealthInv
<1>14. QED
  BY <1>3, <1>5, <1>9, <1>10, <1>11, <1>12, <1>13 DEF HealthInv

\* What a request has to do when it ends, and after it has cleared cooldowns.
LEMMA OutcomeCalls ==
  ASSUME NEW p \in Provider
  PROVE  /\ \A kind \in Types \cup {"mark", "fallback"} : Item(kind, p) \in Items
         /\ \A kind \in {"success", "error", "fallback"} :
              <<Item(kind, p)>> \in Seq(Items) /\ WellOrdered(<<Item(kind, p)>>)
         /\ <<Item("error", p), Item("mark", p)>> \in Seq(Items)
         /\ WellOrdered(<<Item("error", p), Item("mark", p)>>)
<1>1. \A kind \in Types \cup {"mark", "fallback"} : Item(kind, p) \in Items
  BY HealthAssumption DEF Item, Items
<1>2. \A kind \in {"success", "error", "fallback"} :
        <<Item(kind, p)>> \in Seq(Items) /\ Item(kind, p).kind # "mark"
  BY <1>1 DEF Types, Item
<1>3. \A kind \in {"success", "error", "fallback"} : WellOrdered(<<Item(kind, p)>>)
  BY <1>2 DEF WellOrdered
<1>4. <<Item("error", p), Item("mark", p)>> \in Seq(Items)
  BY <1>1 DEF Types
<1>5. QED
  BY <1>1, <1>2, <1>3, <1>4 DEF WellOrdered

ClearCalls(cleared) == [i \in DOMAIN cleared |-> Item("cooldown-cleared", cleared[i])]

LEMMA ClearingCalls ==
  ASSUME NEW S \in SUBSET Provider, NEW cleared \in Orders(S)
  PROVE  /\ DOMAIN cleared = 1 .. Cardinality(S) /\ Cardinality(S) \in Nat
         /\ \A i \in DOMAIN cleared : cleared[i] \in Provider
         /\ ClearCalls(cleared) \in Seq(Items)
         /\ \A i \in DOMAIN cleared : ClearCalls(cleared)[i] = Item("cooldown-cleared", cleared[i])
         /\ DOMAIN ClearCalls(cleared) = DOMAIN cleared
         /\ WellOrdered(ClearCalls(cleared))
<1>1. IsFiniteSet(S)
  BY HealthAssumption, FS_Subset
<1>2. PICK n \in Nat : n = Cardinality(S)
  BY <1>1, FS_CardinalityType
<1>3. cleared \in [1 .. n -> S]
  BY <1>2 DEF Orders
<1>4. \A i \in 1 .. n : cleared[i] \in Provider
  BY <1>3
<1>5. PICK calls : calls = ClearCalls(cleared)
  OBVIOUS
<1>6. \A i \in 1 .. n : Item("cooldown-cleared", cleared[i]) \in Items
  BY <1>4, OutcomeCalls DEF Types
<1>7. calls \in [1 .. n -> Items]
  BY <1>3, <1>5, <1>6 DEF ClearCalls
<1>8. calls \in Seq(Items)
  BY <1>7, SeqDef
<1>9. \A i \in 1 .. n : calls[i] = Item("cooldown-cleared", cleared[i])
  BY <1>3, <1>5 DEF ClearCalls
<1>10. WellOrdered(calls)
  BY <1>7, <1>9 DEF WellOrdered, Item
<1>11. QED
  BY <1>2, <1>3, <1>4, <1>5, <1>7, <1>8, <1>9, <1>10

LEMMA ClearCooldownsKeeps ==
  ASSUME HealthInv, NEW r \in Request, NEW S \in SUBSET Provider, NEW cleared \in Orders(S),
         ClearCooldowns(r, cleared)
  PROVE  HealthInv'
<1>1. ClearCalls(cleared) \in Seq(Items) /\ WellOrdered(ClearCalls(cleared))
  BY ClearingCalls
<1>2. Outcome(r, ClearCalls(cleared))
  BY DEF ClearCooldowns, ClearCalls
<1>3. benchedUntil' \in [Provider -> 0 .. MaxNow + CooldownDuration]
  <2>1. benchedUntil \in [Provider -> 0 .. MaxNow + CooldownDuration]
    BY DEF HealthInv, HealthTypeOK
  <2>2. \A p \in Provider : benchedUntil[p] \in 0 .. MaxNow + CooldownDuration
    BY <2>1
  <2>3. benchedUntil' = [p \in Provider |->
                           IF \E i \in DOMAIN cleared : cleared[i] = p THEN 0 ELSE benchedUntil[p]]
    BY DEF ClearCooldowns
  <2>4. 0 \in 0 .. MaxNow + CooldownDuration
    BY HealthAssumption
  <2>5. QED
    BY <2>2, <2>3, <2>4
<1>4. QED
  BY <1>1, <1>2, <1>3, OutcomeKeeps

LEMMA CrashKeeps == HealthInv /\ Crash => HealthInv'
<1> SUFFICES ASSUME HealthInv, Crash
             PROVE  HealthInv'
  OBVIOUS
<1>1. /\ up' = FALSE /\ health' = NoHistory
      /\ benchedUntil' = [p \in Provider |-> 0] /\ inherited' = [p \in Provider |-> 0]
      /\ todo' = [r \in Request |-> <<>>] /\ stamp' = [r \in Request |-> 0]
      /\ UNCHANGED <<now, outcomes, diskFaults, file, behind>>
  BY DEF Crash, clockVars
<1>2. HealthTypeOK /\ now \in 1 .. MaxNow
  BY DEF HealthInv, HealthTypeOK
<1>3. NoHistory \in History /\ Len(NoHistory.events) = 0
  BY HealthAssumption DEF NoHistory, NoHealth, History, ProviderHealth
<1>4. HealthTypeOK'
  <2>1. /\ benchedUntil' \in [Provider -> 0 .. MaxNow + CooldownDuration]
        /\ inherited' \in [Provider -> 0 .. MaxNow + CooldownDuration]
        /\ stamp' \in [Request -> 0 .. MaxNow]
    BY <1>1, HealthAssumption
  <2>2. todo' \in [Request -> Seq(Items)]
    BY <1>1
  <2>3. health' \in History /\ up' \in BOOLEAN
    BY <1>1, <1>3
  <2>4. QED
    BY <1>1, <1>2, <2>1, <2>2, <2>3 DEF HealthTypeOK
<1>5. NothingLeft'
  BY <1>1 DEF NothingLeft
<1>6. \A q \in Request : WellOrdered(todo'[q]) /\ Stamped(q)'
  BY <1>1, <1>2 DEF WellOrdered, Stamped
<1>7. Len(health'.events) <= MaxEvents /\ Len(file'.events) <= MaxEvents
  BY <1>1, <1>3, HealthAssumption DEF HealthInv
<1>8. QED
  BY <1>1, <1>4, <1>5, <1>6, <1>7 DEF HealthInv

\* A process that starts has the requests and cooldowns of none before it.
LEMMA StartingKeeps ==
  ASSUME HealthInv, ~up, up' = TRUE, UNCHANGED <<now, outcomes, benchedUntil, todo, stamp, file>>,
         diskFaults' \in 0 .. MaxDiskFaults, behind' \in BOOLEAN,
         inherited' \in [Provider -> 0 .. MaxNow + CooldownDuration],
         health' \in History, Len(health'.events) <= MaxEvents,
         ~behind' => health'.savedAt = file.savedAt
  PROVE  HealthInv'
<1>1. HealthTypeOK'
  BY DEF HealthInv, HealthTypeOK
<1>2. \A q \in Request : WellOrdered(todo'[q]) /\ Stamped(q)'
  BY RequestFacts DEF Stamped
<1>3. QED
  BY <1>1, <1>2 DEF HealthInv

\* Without a path there is nothing in the file, and nothing to prune.
LEMMA LoadStep ==
  ASSUME HealthInv, Start
  PROVE  /\ ~up /\ up' = TRUE /\ behind' = FALSE /\ PrunedAt(file, health', now)
         /\ health'.savedAt = file.savedAt
         /\ inherited' = [p \in Provider |-> health'.providers[p].until]
         /\ UNCHANGED <<now, outcomes, diskFaults, benchedUntil, todo, stamp, file>>
<1>1. file \in History /\ now \in 0 .. MaxNow
  BY DEF HealthInv, HealthTypeOK
<1>2. PICK g : g = Load
  OBVIOUS
<1>3. PrunedAt(file, g, now) /\ g.savedAt = file.savedAt
  <2>1. CASE Persistent
    <3>1. g = Prune(file, now)
      BY <1>2, <2>1 DEF Load
    <3>2. QED
      BY <1>1, <3>1, Pruning
  <2>2. CASE ~Persistent
    <3>1. g = file /\ file = NoHistory
      BY <1>2, <2>2 DEF Load, HealthInv
    <3>2. file.events = <<>>
      BY <3>1 DEF NoHistory
    <3>3. KeptOf(<<>>, <<>>, now - Retention)
      BY HealthAssumption DEF KeptOf, EndOf
    <3>4. QED
      BY <1>1, <3>1, <3>2, <3>3 DEF PrunedAt
  <2>3. QED
    BY <2>1, <2>2
<1>4. /\ ~up /\ up' = TRUE /\ health' = g /\ behind' = FALSE
      /\ inherited' = [p \in Provider |-> g.providers[p].until]
      /\ UNCHANGED <<now, outcomes, diskFaults, benchedUntil, todo, stamp, file>>
  BY <1>2, Zenon DEF Start, clockVars
<1>5. QED
  BY <1>3, <1>4

LEMMA StartKeeps == HealthInv /\ Start => HealthInv'
<1> SUFFICES ASSUME HealthInv, Start
             PROVE  HealthInv'
  OBVIOUS
<1>1. /\ ~up /\ up' = TRUE /\ behind' = FALSE /\ PrunedAt(file, health', now)
      /\ health'.savedAt = file.savedAt
      /\ inherited' = [p \in Provider |-> health'.providers[p].until]
      /\ UNCHANGED <<now, outcomes, diskFaults, benchedUntil, todo, stamp, file>>
  BY LoadStep
<1>2. health' \in History /\ Len(health'.events) <= MaxEvents
  BY <1>1 DEF PrunedAt, KeptOf, EndOf
<1>3. inherited' \in [Provider -> 0 .. MaxNow + CooldownDuration]
  BY <1>1, <1>2 DEF History, ProviderHealth
<1>4. diskFaults' \in 0 .. MaxDiskFaults
  BY <1>1 DEF HealthInv, HealthTypeOK
<1>5. QED
  BY <1>1, <1>2, <1>3, <1>4, StartingKeeps

LEMMA StartWithoutFileKeeps == HealthInv /\ StartWithoutFile => HealthInv'
<1> SUFFICES ASSUME HealthInv, StartWithoutFile
             PROVE  HealthInv'
  OBVIOUS
<1>1. /\ ~up /\ up' = TRUE /\ diskFaults < MaxDiskFaults /\ diskFaults' = diskFaults + 1
      /\ health' = NoHistory /\ behind' = TRUE
      /\ UNCHANGED <<now, outcomes, benchedUntil, todo, stamp, file, inherited>>
  BY DEF StartWithoutFile
<1>2. NoHistory \in History /\ Len(NoHistory.events) <= MaxEvents
  BY HealthAssumption DEF NoHistory, NoHealth, History, ProviderHealth
<1>3. diskFaults' \in 0 .. MaxDiskFaults
  <2>1. diskFaults \in 0 .. MaxDiskFaults
    BY DEF HealthInv, HealthTypeOK
  <2>2. QED
    BY <1>1, <2>1, HealthAssumption
<1>4. inherited' \in [Provider -> 0 .. MaxNow + CooldownDuration]
  BY <1>1 DEF HealthInv, HealthTypeOK
<1>5. QED
  BY <1>1, <1>2, <1>3, <1>4, StartingKeeps

LEMMA HealthInvStep == HealthInv /\ [HealthNext]_healthVars => HealthInv'
<1> SUFFICES ASSUME HealthInv, [HealthNext]_healthVars
             PROVE  HealthInv'
  OBVIOUS
<1>1. ASSUME NEW r \in Request, NEW p \in Provider,
             Succeed(r, p) \/ FailOver(r, p) \/ LoseClient(r, p) \/ FallBack(r, p)
      PROVE  HealthInv'
  <2>1. benchedUntil' \in [Provider -> 0 .. MaxNow + CooldownDuration]
    BY <1>1 DEF Succeed, FailOver, LoseClient, FallBack, HealthInv, HealthTypeOK
  <2>2. \/ \E kind \in {"success", "error", "fallback"} : Outcome(r, <<Item(kind, p)>>)
        \/ Outcome(r, <<Item("error", p), Item("mark", p)>>)
    BY <1>1 DEF Succeed, FailOver, LoseClient, FallBack
  <2>3. QED
    BY <2>1, <2>2, OutcomeCalls, OutcomeKeeps
<1>2. ASSUME NEW r \in Request, NEW S \in (SUBSET Provider) \ {{}}, NEW s \in Orders(S),
             ClearCooldowns(r, s)
      PROVE  HealthInv'
  BY <1>2, ClearCooldownsKeeps
<1>3. ASSUME NEW r \in Request, ReadClock(r) \/ Mark(r) \/ Record(r)
      PROVE  HealthInv'
  BY <1>3, ReadClockKeeps, MarkKeeps, RecordKeeps
<1>4. CASE Tick \/ Crash \/ Start \/ StartWithoutFile
  BY <1>4, TickKeeps, CrashKeeps, StartKeeps, StartWithoutFileKeeps
<1>5. CASE UNCHANGED healthVars
  <2>1. UNCHANGED <<now, outcomes, diskFaults, up, benchedUntil, todo, stamp, health, file, behind,
                    inherited>>
    BY <1>5 DEF healthVars, clockVars
  <2>2. HealthTypeOK' /\ (NothingLeft => NothingLeft') /\ \A q \in Request : Stamped(q)'
    BY <2>1 DEF HealthInv, HealthTypeOK, NothingLeft, Stamped
  <2>3. QED
    BY <2>1, <2>2 DEF HealthInv
<1>6. QED
  BY <1>1, <1>2, <1>3, <1>4, <1>5, Zenon DEF HealthNext

\* A process knows when its history was last saved, the calls of a request
\* come in their order, and neither what is remembered nor what is saved of it
\* outgrows its capacity.
THEOREM HealthInvariant == HealthSpec => []HealthInv
<1>1. QED
  BY HealthInvInit, HealthInvStep, PTL DEF HealthSpec

\* A request comes to an end, or clears cooldowns.  It does not go on with a
\* cooldown it has not yet an error for.
Owing == {"mark", "cooldown-started"}
Ends(r, calls) ==
    /\ todo[r] = <<>> /\ todo' = [todo EXCEPT ![r] = calls]
    /\ calls # <<>> => Head(calls).kind \notin Owing
    /\ \A p \in Provider :
         \/ benchedUntil'[p] = benchedUntil[p]
         \/ benchedUntil'[p] = 0 /\ \E i \in DOMAIN calls : calls[i] = Item("cooldown-cleared", p)
    /\ up /\ UNCHANGED <<up, stamp, health, file, behind, inherited, now>>

\* The steps that do not end a request, record a call or bench a provider.
Idles ==
    /\ UNCHANGED <<up, benchedUntil, todo, health, file, behind, inherited>>
    /\ \/ UNCHANGED stamp /\ (now' = now \/ now' = now + 1)
       \/ now' = now /\ \E r \in Request : stamp[r] = 0 /\ stamp' = [stamp EXCEPT ![r] = now]

LEMMA HistorySteps ==
  ASSUME HealthInv, [HealthNext]_healthVars
  PROVE  \/ \E r \in Request : Record(r)
         \/ \E r \in Request, p \in Provider, call \in Items : Marks(r, p, call)
         \/ \E r \in Request, calls \in Seq(Items) : Ends(r, calls)
         \/ Crash \/ Start \/ StartWithoutFile
         \/ Idles
<1>1. ASSUME NEW r \in Request, NEW p \in Provider,
             Succeed(r, p) \/ FailOver(r, p) \/ LoseClient(r, p) \/ FallBack(r, p)
      PROVE  \E calls \in Seq(Items) : Ends(r, calls)
  <2>1. PICK calls : /\ Outcome(r, calls) /\ UNCHANGED benchedUntil
                     /\ \/ \E kind \in {"success", "error", "fallback"} : calls = <<Item(kind, p)>>
                        \/ calls = <<Item("error", p), Item("mark", p)>>
    BY <1>1 DEF Succeed, FailOver, LoseClient, FallBack
  <2>2. calls \in Seq(Items)
    BY <2>1, OutcomeCalls
  <2>3. Head(calls).kind \notin Owing
    BY <2>1 DEF Item, Owing
  <2>4. Ends(r, calls)
    BY <2>1, <2>3 DEF Ends, Outcome
  <2>5. QED
    BY <2>2, <2>4
<1>2. ASSUME NEW r \in Request, NEW S \in (SUBSET Provider) \ {{}}, NEW s \in Orders(S),
             ClearCooldowns(r, s)
      PROVE  \E calls \in Seq(Items) : Ends(r, calls)
  <2>1. /\ Outcome(r, ClearCalls(s))
        /\ benchedUntil' = [p \in Provider |->
                              IF \E i \in DOMAIN s : s[i] = p THEN 0 ELSE benchedUntil[p]]
    BY <1>2 DEF ClearCooldowns, ClearCalls
  <2>2. PICK calls \in Seq(Items) :
           /\ calls = ClearCalls(s) /\ DOMAIN calls = DOMAIN s
           /\ \A i \in DOMAIN s : calls[i] = Item("cooldown-cleared", s[i])
    BY ClearingCalls, Zenon
  <2>3. calls # <<>> => Head(calls) = Item("cooldown-cleared", s[1])
    BY <2>2
  <2>4. calls # <<>> => Head(calls).kind \notin Owing
    BY <2>3 DEF Item, Owing
  <2>5. ASSUME NEW p \in Provider, benchedUntil'[p] # benchedUntil[p]
        PROVE  /\ benchedUntil'[p] = 0
               /\ \E i \in DOMAIN calls : calls[i] = Item("cooldown-cleared", p)
    BY <2>1, <2>2, <2>5
  <2>6. Ends(r, calls)
    BY <2>1, <2>2, <2>4, <2>5 DEF Ends, Outcome
  <2>7. QED
    BY <2>6
<1>3. ASSUME NEW r \in Request, ReadClock(r)
      PROVE  Idles
  BY <1>3 DEF ReadClock, clockVars, Idles
<1>4. Tick \/ UNCHANGED healthVars => Idles
  BY DEF Tick, healthVars, clockVars, Idles
<1>5. ASSUME NEW r \in Request, Mark(r)
      PROVE  \E p \in Provider, call \in Items : Marks(r, p, call)
  BY <1>5, MarkStep
<1>6. QED
  BY <1>1, <1>2, <1>3, <1>4, <1>5, Zenon DEF HealthNext

-----------------------------------------------------------------------------
(* What is lost of the history *)

LEMMA FreshInit == HealthInit => OnlyFreshSuccessesLost
<1> SUFFICES ASSUME HealthInit
             PROVE  OnlyFreshSuccessesLost
  OBVIOUS
<1>1. health = file
  BY DEF HealthInit
<1>2. QED
  BY <1>1 DEF OnlyFreshSuccessesLost

LEMMA FreshRecord ==
  ASSUME HealthInv, OnlyFreshSuccessesLost, NEW r \in Request, Record(r)
  PROVE  OnlyFreshSuccessesLost'
<1>1. PICK call \in Items, t \in 1 .. now, h \in History : RecordsCall(r, call, t, h)
  BY RecordStep
<1>2. up
  BY DEF Record
<1>3. CASE behind' \/ ~Persistent
  BY <1>3 DEF OnlyFreshSuccessesLost
<1>4. CASE file' = health'
  BY <1>4 DEF OnlyFreshSuccessesLost
<1>5. CASE ~behind' /\ Persistent /\ ~SaveIsDue(call, t) /\ file' = file /\ behind' = behind
  <2>1. health \in History /\ file \in History /\ now \in 1 .. MaxNow
    BY DEF HealthInv, HealthTypeOK
  <2>2. /\ call.provider \in Provider /\ t \in 0 .. MaxNow /\ health.savedAt \in 0 .. MaxNow
        /\ health.savedAt = file.savedAt
    <3>1. call.provider \in Provider
      BY DEF Items
    <3>2. health.savedAt \in 0 .. MaxNow
      BY <2>1 DEF History
    <3>3. health.savedAt = file.savedAt
      BY <1>2, <1>5 DEF HealthInv
    <3>4. t \in 0 .. MaxNow
      BY <2>1, HealthAssumption
    <3>5. QED
      BY <3>1, <3>2, <3>3, <3>4
  <2>3. call.kind = "success" /\ call.kind \in Types /\ t - health.savedAt < PersistInterval
    <3>1. call.kind = "success" /\ ~(t - health.savedAt >= PersistInterval)
      BY <1>5 DEF SaveIsDue
    <3>2. QED
      BY <2>2, <3>1, HealthAssumption DEF Types
  <2>4. /\ health'.fallbacks = health.fallbacks
        /\ health'.providers = [health.providers EXCEPT ![call.provider] = Updated(@, call, t)]
    BY <1>1, <2>3 DEF RecordsCall, RecordedAs, PrunedAt
  <2>5. PICK s \in ProviderHealth : s = health.providers[call.provider]
    BY <2>1, <2>2 DEF History
  <2>6. Updated(s, call, t) = [s EXCEPT !.successes = @ + 1, !.lastSuccess = t, !.until = 0]
    BY <2>3 DEF Updated
  <2>7. t < file.savedAt + PersistInterval
    <3>1. PICK saved \in 0 .. MaxNow : saved = health.savedAt /\ saved = file.savedAt
      BY <2>2
    <3>2. t < saved + PersistInterval
      BY <2>2, <2>3, <3>1, HealthAssumption
    <3>3. QED
      BY <3>1, <3>2
  <2>8. health.fallbacks = file.fallbacks
    BY <1>2, <1>5 DEF OnlyFreshSuccessesLost
  <2>9. ASSUME NEW p \in Provider
        PROVE  LET kept == file.providers[p] had == health'.providers[p] IN
               /\ had.errors = kept.errors /\ had.lastError = kept.lastError
               /\ had.transitions = kept.transitions
               /\ had.successes # kept.successes => had.lastSuccess < file.savedAt + PersistInterval
    <3>1. LET kept == file.providers[p] had == health.providers[p] IN
          /\ had.errors = kept.errors /\ had.lastError = kept.lastError
          /\ had.transitions = kept.transitions
          /\ had.successes # kept.successes => had.lastSuccess < file.savedAt + PersistInterval
      BY <1>2, <1>5 DEF OnlyFreshSuccessesLost
    <3>2. CASE p # call.provider
      <4>1. health'.providers[p] = health.providers[p]
        BY <2>1, <2>4, <3>2 DEF History
      <4>2. QED
        BY <3>1, <4>1
    <3>3. CASE p = call.provider
      <4>1. health'.providers[p] = [s EXCEPT !.successes = @ + 1, !.lastSuccess = t, !.until = 0]
        BY <2>1, <2>2, <2>4, <2>5, <2>6, <3>3 DEF History
      <4>2. /\ health'.providers[p].errors = s.errors /\ health'.providers[p].lastError = s.lastError
            /\ health'.providers[p].transitions = s.transitions
            /\ health'.providers[p].lastSuccess = t
        BY <4>1 DEF ProviderHealth
      <4>3. QED
        BY <2>5, <2>7, <3>1, <3>3, <4>2
    <3>4. QED
      BY <3>2, <3>3
  <2>10. QED
    BY <1>5, <2>4, <2>8, <2>9 DEF OnlyFreshSuccessesLost
<1>6. QED
  BY <1>1, <1>3, <1>4, <1>5 DEF RecordsCall

LEMMA FreshStep ==
  HealthInv /\ OnlyFreshSuccessesLost /\ [HealthNext]_healthVars => OnlyFreshSuccessesLost'
<1> SUFFICES ASSUME HealthInv, OnlyFreshSuccessesLost, [HealthNext]_healthVars
             PROVE  OnlyFreshSuccessesLost'
  OBVIOUS
<1>1. CASE \E r \in Request : Record(r)
  BY <1>1, FreshRecord
<1>2. CASE Crash \/ StartWithoutFile
  BY <1>2 DEF Crash, StartWithoutFile, OnlyFreshSuccessesLost
<1>3. CASE Start
  <2>1. file' = file /\ health'.providers = file.providers /\ health'.fallbacks = file.fallbacks
    BY <1>3, LoadStep DEF PrunedAt
  <2>2. QED
    BY <2>1 DEF OnlyFreshSuccessesLost
<1>4. ASSUME UNCHANGED <<up, health, file, behind>>
      PROVE  OnlyFreshSuccessesLost'
  BY <1>4 DEF OnlyFreshSuccessesLost
<1>5. QED
  BY <1>1, <1>2, <1>3, <1>4, HistorySteps DEF Marks, Ends, Idles

\* Whenever the process ends, all that is lost are the successes since the
\* file was last saved, if the disk works.
THEOREM FreshLossesOnly == HealthSpec => []OnlyFreshSuccessesLost
<1>1. HealthInv /\ OnlyFreshSuccessesLost /\ [HealthNext]_healthVars
         => HealthInv' /\ OnlyFreshSuccessesLost'
  BY HealthInvStep, FreshStep
<1>2. QED
  BY <1>1, HealthInvInit, FreshInit, PTL DEF HealthSpec

-----------------------------------------------------------------------------
(* What a record changes about a provider, and the log *)

Moved(had, has, call) ==
    /\ call.kind = "success" =>
          /\ has.successes = had.successes + 1 /\ has.until = 0
          /\ has.errors = had.errors /\ has.transitions = had.transitions
    /\ call.kind = "error" =>
          /\ has.errors = had.errors + 1
          /\ has.successes = had.successes /\ has.transitions = had.transitions
          /\ has.until = had.until
    /\ call.kind = "cooldown-started" =>
          /\ has.transitions = had.transitions + 1 /\ has.until = Later(had.until, call.until)
          /\ has.successes = had.successes /\ has.errors = had.errors
    /\ call.kind = "cooldown-cleared" =>
          /\ has.until = 0
          /\ has.successes = had.successes /\ has.errors = had.errors
          /\ has.transitions = had.transitions

LEMMA UpdateMoves ==
  ASSUME NEW s \in ProviderHealth, NEW call \in Items, call.kind \in Types, NEW t \in 0 .. MaxNow
  PROVE  Updated(s, call, t) \in ProviderHealth /\ Moved(s, Updated(s, call, t), call)
<1>1. PICK has \in ProviderHealth : has = Updated(s, call, t)
  BY Updating
<1>2. call.kind = "success" =>
        /\ has.successes = s.successes + 1 /\ has.until = 0
        /\ has.errors = s.errors /\ has.transitions = s.transitions
  BY <1>1 DEF Updated, ProviderHealth
<1>3. call.kind = "error" =>
        /\ has.errors = s.errors + 1
        /\ has.successes = s.successes /\ has.transitions = s.transitions
        /\ has.until = s.until
  BY <1>1 DEF Updated, ProviderHealth
<1>4. call.kind = "cooldown-started" =>
        /\ has.transitions = s.transitions + 1 /\ has.until = Later(s.until, call.until)
        /\ has.successes = s.successes /\ has.errors = s.errors
  BY <1>1 DEF Updated, ShownUntil, ProviderHealth
<1>5. call.kind = "cooldown-cleared" =>
        /\ has.until = 0
        /\ has.successes = s.successes /\ has.errors = s.errors
        /\ has.transitions = s.transitions
  BY <1>1 DEF Updated, ProviderHealth
<1>6. QED
  BY <1>1, <1>2, <1>3, <1>4, <1>5 DEF Moved

LEMMA RecordEffect ==
  ASSUME HealthInv, NEW r \in Request, NEW call \in Items, NEW t \in 1 .. now, NEW h \in History,
         RecordsCall(r, call, t, h)
  PROVE  /\ health \in History /\ health' \in History
         /\ \A p \in Provider :
              IF p = call.provider /\ call.kind # "fallback"
              THEN Moved(health.providers[p], health'.providers[p], call)
              ELSE health'.providers[p] = health.providers[p]
         /\ health'.log = IF call.kind = "fallback" THEN health.log
                          ELSE Append(health.log, Event(call, t))
<1>1. /\ health \in History /\ health' \in History /\ t \in 0 .. MaxNow
      /\ call.provider \in Provider /\ call.kind # "mark"
  <2>1. health \in History /\ now \in 1 .. MaxNow
    BY DEF HealthInv, HealthTypeOK
  <2>2. t \in 0 .. MaxNow
    BY <2>1, HealthAssumption
  <2>3. QED
    BY <2>1, <2>2 DEF RecordsCall, PrunedAt, Items
<1>2. /\ call.kind = "fallback" => health'.providers = health.providers /\ health'.log = health.log
      /\ call.kind # "fallback" =>
           /\ health'.providers = [health.providers EXCEPT ![call.provider] = Updated(@, call, t)]
           /\ health'.log = Append(health.log, Event(call, t))
  BY DEF RecordsCall, RecordedAs, PrunedAt
<1>3. ASSUME NEW p \in Provider, p = call.provider, call.kind # "fallback"
      PROVE  Moved(health.providers[p], health'.providers[p], call)
  <2>1. PICK s \in ProviderHealth : s = health.providers[p]
    BY <1>1 DEF History
  <2>2. call.kind \in Types
    BY <1>1, <1>3 DEF Items
  <2>3. Moved(s, Updated(s, call, t), call)
    BY <1>1, <2>2, UpdateMoves
  <2>4. health'.providers[p] = Updated(s, call, t)
    BY <1>1, <1>2, <1>3, <2>1 DEF History
  <2>5. QED
    BY <2>1, <2>3, <2>4
<1>4. ASSUME NEW p \in Provider, ~(p = call.provider /\ call.kind # "fallback")
      PROVE  health'.providers[p] = health.providers[p]
  BY <1>1, <1>2, <1>4 DEF History
<1>5. QED
  BY <1>1, <1>2, <1>3, <1>4

Heads(r, kinds, p) == todo[r] # <<>> /\ Head(todo[r]).kind \in kinds /\ Head(todo[r]).provider = p

\* What comes after a call of a request.
LEMMA AfterCall ==
  ASSUME NEW calls \in Seq(Items), calls # <<>>, WellOrdered(calls)
  PROVE  /\ Head(calls).kind \in {"mark", "cooldown-started"} => Tail(calls) = <<>>
         /\ Tail(calls) # <<>> /\ Head(Tail(calls)).kind \in {"mark", "cooldown-started"} =>
              Head(calls).kind = "error" /\ Head(calls).provider = Head(Tail(calls)).provider
<1>1. /\ Tail(calls) \in Seq(Items) /\ Len(Tail(calls)) = Len(calls) - 1 /\ Len(calls) \in Nat
      /\ \A i \in 1 .. Len(Tail(calls)) : Tail(calls)[i] = calls[i + 1]
      /\ Head(calls) = calls[1] /\ Len(calls) # 0
  BY HeadTailProperties, LenProperties, EmptySeq
<1>2. ASSUME NEW p \in Provider, calls = <<Item("error", p), Item("mark", p)>>
      PROVE  /\ Head(calls).kind = "error" /\ Head(calls).provider = p
             /\ Head(Tail(calls)).provider = p
  BY <1>2 DEF Item
<1>3. ASSUME NEW p \in Provider, calls = <<Item("mark", p)>>
      PROVE  Tail(calls) = <<>>
  BY <1>3
<1>4. ASSUME \A i \in DOMAIN calls : calls[i].kind # "mark",
             Len(calls) > 1 => \A i \in DOMAIN calls : calls[i].kind # "cooldown-started"
      PROVE  /\ Head(calls).kind \in {"mark", "cooldown-started"} => Tail(calls) = <<>>
             /\ Tail(calls) # <<>> => Head(Tail(calls)).kind \notin {"mark", "cooldown-started"}
  <2>1. Tail(calls) # <<>> => /\ Len(calls) > 1 /\ 2 \in DOMAIN calls /\ 1 \in DOMAIN calls
                              /\ Head(Tail(calls)) = calls[2]
    BY <1>1, EmptySeq
  <2>2. QED
    BY <1>1, <1>4, <2>1
<1>5. QED
  BY <1>2, <1>3, <1>4 DEF WellOrdered

-----------------------------------------------------------------------------
(* Cooldowns have reasons *)

\* The requests that have recorded an error of provider p and have not yet
\* recorded the cooldown that follows it.
Owed(p) == {r \in Request : Heads(r, Owing, p)}

\* Each of them has an error to its name.
ErrorsCover(p) ==
    /\ health.providers[p].transitions + Cardinality(Owed(p)) <= health.providers[p].errors
    /\ file.providers[p].transitions <= file.providers[p].errors
CountInv == \A p \in Provider : ErrorsCover(p)

LEMMA Counts ==
  ASSUME HealthInv, NEW p \in Provider
  PROVE  /\ health.providers[p].transitions \in Nat /\ health.providers[p].errors \in Nat
         /\ file.providers[p].transitions \in Nat /\ file.providers[p].errors \in Nat
BY DEF HealthInv, HealthTypeOK, History, ProviderHealth

\* Fewer requests owe, or one more.
LEMMA Owers ==
  ASSUME NEW S \in SUBSET Request
  PROVE  /\ Cardinality(S) \in Nat
         /\ \A T \in SUBSET S : Cardinality(T) \in Nat /\ Cardinality(T) <= Cardinality(S)
         /\ \A r \in Request : \A T \in SUBSET (S \cup {r}) :
              Cardinality(T) \in Nat /\ Cardinality(T) <= Cardinality(S) + 1
         /\ \A r \in S : \A T \in SUBSET (S \ {r}) :
              Cardinality(T) \in Nat /\ Cardinality(T) + 1 <= Cardinality(S)
<1>1. IsFiniteSet(S)
  BY HealthAssumption, FS_Subset
<1>2. Cardinality(S) \in Nat
  BY <1>1, FS_CardinalityType
<1>3. ASSUME NEW T \in SUBSET S
      PROVE  Cardinality(T) \in Nat /\ Cardinality(T) <= Cardinality(S)
  BY <1>1, FS_Subset, FS_CardinalityType
<1>4. ASSUME NEW r \in Request, NEW T \in SUBSET (S \cup {r})
      PROVE  Cardinality(T) \in Nat /\ Cardinality(T) <= Cardinality(S) + 1
  <2>1. PICK U : U = S \cup {r}
    OBVIOUS
  <2>2. IsFiniteSet(U) /\ Cardinality(U) \in {Cardinality(S), Cardinality(S) + 1}
    BY <1>1, <2>1, FS_AddElement
  <2>3. IsFiniteSet(T) /\ Cardinality(T) <= Cardinality(U)
    BY <2>1, <2>2, FS_Subset
  <2>4. Cardinality(T) \in Nat
    BY <2>3, FS_CardinalityType
  <2>5. QED
    BY <1>2, <2>2, <2>3, <2>4
<1>5. ASSUME NEW r \in S, NEW T \in SUBSET (S \ {r})
      PROVE  Cardinality(T) \in Nat /\ Cardinality(T) + 1 <= Cardinality(S)
  <2>1. PICK U : U = S \ {r}
    OBVIOUS
  <2>2. IsFiniteSet(U) /\ Cardinality(U) = Cardinality(S) - 1
    BY <1>1, <2>1, FS_RemoveElement
  <2>3. IsFiniteSet(T) /\ Cardinality(T) <= Cardinality(U)
    BY <2>1, <2>2, FS_Subset
  <2>4. Cardinality(T) \in Nat
    BY <2>3, FS_CardinalityType
  <2>5. QED
    BY <1>2, <2>2, <2>3, <2>4
<1>6. QED
  BY <1>2, <1>3, <1>4, <1>5

\* What a step that keeps the histories has to see to: that nobody owes more.
LEMMA QuietCounts ==
  ASSUME HealthInv, CountInv, UNCHANGED <<health, file>>,
         \A q \in Request, p \in Provider : Heads(q, Owing, p)' => Heads(q, Owing, p)
  PROVE  CountInv'
<1> SUFFICES ASSUME NEW p \in Provider
             PROVE  ErrorsCover(p)'
  BY DEF CountInv
<1>1. PICK S \in SUBSET Request : S = Owed(p)
  BY DEF Owed
<1>2. PICK T \in SUBSET S : T = Owed(p)'
  BY <1>1 DEF Owed
<1>3. health.providers[p].transitions + Cardinality(S) <= health.providers[p].errors
  BY <1>1 DEF CountInv, ErrorsCover
<1>4. Cardinality(S) \in Nat /\ Cardinality(T) \in Nat /\ Cardinality(T) <= Cardinality(S)
  BY Owers
<1>5. health.providers[p].transitions + Cardinality(T) <= health.providers[p].errors
  BY <1>3, <1>4, Counts
<1>6. file.providers[p].transitions <= file.providers[p].errors
  BY DEF CountInv, ErrorsCover
<1>7. QED
  BY <1>2, <1>5, <1>6 DEF ErrorsCover

LEMMA CountRecord ==
  ASSUME HealthInv, CountInv, NEW r \in Request, Record(r)
  PROVE  CountInv'
<1>1. PICK call \in Items, t \in 1 .. now, h \in History : RecordsCall(r, call, t, h)
  BY RecordStep
<1> SUFFICES ASSUME NEW p \in Provider
             PROVE  ErrorsCover(p)'
  BY DEF CountInv
<1>2. /\ todo[r] # <<>> /\ call = Head(todo[r]) /\ call.kind # "mark"
      /\ todo' = [todo EXCEPT ![r] = Tail(todo[r])] /\ (file' = health' \/ file' = file)
      /\ todo \in [Request -> Seq(Items)]
  BY <1>1 DEF RecordsCall, HealthInv, HealthTypeOK
<1>3. /\ call.kind \in Owing => Tail(todo[r]) = <<>>
      /\ Tail(todo[r]) # <<>> /\ Head(Tail(todo[r])).kind \in Owing =>
           call.kind = "error" /\ call.provider = Head(Tail(todo[r])).provider
  BY <1>2, RequestFacts, AfterCall DEF Owing
<1>4. PICK S \in SUBSET Request : S = Owed(p)
  BY DEF Owed
<1>5. PICK T \in SUBSET Request : T = Owed(p)'
  BY DEF Owed
<1>6. \A q \in Request \ {r} : q \in T <=> q \in S
  BY <1>2, <1>4, <1>5 DEF Owed, Heads
<1>7. r \in T => call.kind = "error" /\ call.provider = p
  BY <1>2, <1>3, <1>5 DEF Owed, Heads
<1>8. call.kind = "cooldown-started" /\ call.provider = p => r \in S /\ r \notin T
  BY <1>2, <1>4, <1>7 DEF Owed, Heads, Owing
<1>9. PICK had, has : had = health.providers[p] /\ has = health'.providers[p]
  OBVIOUS
<1>10. IF p = call.provider /\ call.kind # "fallback" THEN Moved(had, has, call) ELSE has = had
  BY <1>1, <1>9, RecordEffect
<1>11. had.transitions + Cardinality(S) <= had.errors
  BY <1>4, <1>9 DEF CountInv, ErrorsCover
<1>12. had.transitions \in Nat /\ had.errors \in Nat /\ Cardinality(S) \in Nat
  BY <1>9, Counts, Owers
<1>13. has.transitions + Cardinality(T) <= has.errors /\ Cardinality(T) \in Nat
  <2>1. CASE p = call.provider /\ call.kind = "error"
    <3>1. has.errors = had.errors + 1 /\ has.transitions = had.transitions
      BY <1>10, <2>1 DEF Moved
    <3>2. T \in SUBSET (S \cup {r})
      BY <1>6
    <3>3. Cardinality(T) \in Nat /\ Cardinality(T) <= Cardinality(S) + 1
      BY <3>2, Owers
    <3>4. QED
      BY <1>11, <1>12, <3>1, <3>3
  <2>2. CASE p = call.provider /\ call.kind = "cooldown-started"
    <3>1. has.errors = had.errors /\ has.transitions = had.transitions + 1
      BY <1>10, <2>2 DEF Moved
    <3>2. r \in S /\ T \in SUBSET (S \ {r})
      BY <1>6, <1>8, <2>2
    <3>3. Cardinality(T) \in Nat /\ Cardinality(T) + 1 <= Cardinality(S)
      BY <3>2, Owers
    <3>4. QED
      BY <1>11, <1>12, <3>1, <3>3
  <2>3. CASE ~(p = call.provider /\ call.kind \in {"error", "cooldown-started"})
    <3>1. has.errors = had.errors /\ has.transitions = had.transitions
      BY <1>2, <1>10, <2>3 DEF Moved, Items, Types
    <3>2. T \in SUBSET S
      BY <1>6, <1>7, <2>3
    <3>3. Cardinality(T) \in Nat /\ Cardinality(T) <= Cardinality(S)
      BY <3>2, Owers
    <3>4. QED
      BY <1>11, <1>12, <3>1, <3>3
  <2>4. QED
    BY <2>1, <2>2, <2>3
<1>14. has.transitions <= has.errors
  <2>1. has.transitions \in Nat /\ has.errors \in Nat
    BY <1>1, <1>9, RecordEffect DEF History, ProviderHealth
  <2>2. QED
    BY <1>13, <2>1
<1>15. file'.providers[p].transitions <= file'.providers[p].errors
  BY <1>2, <1>9, <1>14 DEF CountInv, ErrorsCover
<1>16. QED
  BY <1>5, <1>9, <1>13, <1>15 DEF ErrorsCover

LEMMA CountStart ==
  ASSUME HealthInv, CountInv, ~up, health'.providers \in {file.providers, NoHistory.providers},
         UNCHANGED <<todo, file>>
  PROVE  CountInv'
<1> SUFFICES ASSUME NEW p \in Provider
             PROVE  ErrorsCover(p)'
  BY DEF CountInv
<1>1. Owed(p)' = {}
  BY DEF HealthInv, NothingLeft, Owed, Heads
<1>2. Cardinality(Owed(p)') = 0
  BY <1>1, FS_EmptySet
<1>3. file.providers[p].transitions <= file.providers[p].errors
  BY DEF CountInv, ErrorsCover
<1>4. NoHistory.providers[p].transitions = 0 /\ NoHistory.providers[p].errors = 0
  BY DEF NoHistory, NoHealth
<1>5. health'.providers[p].transitions + 0 <= health'.providers[p].errors
  BY <1>3, <1>4, Counts
<1>6. QED
  BY <1>2, <1>3, <1>5 DEF ErrorsCover

LEMMA CountStep == HealthInv /\ CountInv /\ [HealthNext]_healthVars => CountInv'
<1> SUFFICES ASSUME HealthInv, CountInv, [HealthNext]_healthVars
             PROVE  CountInv'
  OBVIOUS
<1>1. todo \in [Request -> Seq(Items)]
  BY DEF HealthInv, HealthTypeOK
<1>2. CASE \E r \in Request : Record(r)
  BY <1>2, CountRecord
<1>3. ASSUME NEW r \in Request, NEW calls \in Seq(Items), Ends(r, calls)
      PROVE  CountInv'
  <2>1. \A q \in Request, p \in Provider : Heads(q, Owing, p)' => Heads(q, Owing, p)
    BY <1>1, <1>3 DEF Ends, Heads
  <2>2. QED
    BY <1>3, <2>1, QuietCounts DEF Ends
<1>4. ASSUME NEW r \in Request, NEW p \in Provider, NEW call \in Items, Marks(r, p, call)
      PROVE  CountInv'
  <2>1. Heads(r, Owing, p)
    BY <1>4 DEF Marks, Heads, Owing, Item
  <2>2. \A q \in Request, b \in Provider : Heads(q, Owing, b)' => Heads(q, Owing, b)
    BY <1>1, <1>4, <2>1 DEF Marks, Heads
  <2>3. QED
    BY <1>4, <2>2, QuietCounts DEF Marks
<1>5. CASE Idles
  BY <1>5, QuietCounts DEF Idles, Heads
<1>6. CASE Start
  <2>1. ~up /\ health'.providers = file.providers /\ UNCHANGED <<todo, file>>
    BY <1>6, LoadStep DEF PrunedAt
  <2>2. QED
    BY <2>1, CountStart
<1>7. CASE StartWithoutFile
  BY <1>7, CountStart DEF StartWithoutFile
<1>8. CASE Crash
  <2>1. /\ health' = NoHistory /\ file' = file /\ todo' = [r \in Request |-> <<>>]
    BY <1>8 DEF Crash
  <2> SUFFICES ASSUME NEW p \in Provider
               PROVE  ErrorsCover(p)'
    BY DEF CountInv
  <2>2. Owed(p)' = {}
    BY <2>1 DEF Owed, Heads
  <2>3. Cardinality(Owed(p)') = 0
    BY <2>2, FS_EmptySet
  <2>4. health'.providers[p].transitions = 0 /\ health'.providers[p].errors = 0
    BY <2>1 DEF NoHistory, NoHealth
  <2>5. file.providers[p].transitions <= file.providers[p].errors
    BY DEF CountInv, ErrorsCover
  <2>6. QED
    BY <2>1, <2>3, <2>4, <2>5 DEF ErrorsCover
<1>9. QED
  BY <1>2, <1>3, <1>4, <1>5, <1>6, <1>7, <1>8, HistorySteps

LEMMA CountInit == HealthInit => CountInv
<1> SUFFICES ASSUME HealthInit, NEW p \in Provider
             PROVE  ErrorsCover(p)
  BY DEF CountInv
<1>1. Owed(p) = {}
  BY DEF HealthInit, Owed, Heads
<1>2. Cardinality(Owed(p)) = 0
  BY <1>1, FS_EmptySet
<1>3. health = NoHistory /\ file = NoHistory
  BY DEF HealthInit
<1>4. NoHistory.providers[p].transitions = 0 /\ NoHistory.providers[p].errors = 0
  BY DEF NoHistory, NoHealth
<1>5. QED
  BY <1>2, <1>3, <1>4 DEF ErrorsCover

\* No provider has been benched oftener than it is said to have failed: each
\* request that benches one has recorded an error of its own before.
THEOREM ReasonsOnRecord == HealthSpec => []CooldownsHaveReasons
<1>1. HealthInv /\ CountInv /\ [HealthNext]_healthVars => HealthInv' /\ CountInv'
  BY HealthInvStep, CountStep
<1>2. HealthInv /\ CountInv => CooldownsHaveReasons
  <2> SUFFICES ASSUME HealthInv, CountInv, NEW p \in Provider
               PROVE  /\ health.providers[p].transitions <= health.providers[p].errors
                      /\ file.providers[p].transitions <= file.providers[p].errors
    BY DEF CooldownsHaveReasons
  <2>1. PICK S \in SUBSET Request : S = Owed(p)
    BY DEF Owed
  <2>2. Cardinality(S) \in Nat
    BY Owers
  <2>3. /\ health.providers[p].transitions + Cardinality(S) <= health.providers[p].errors
        /\ file.providers[p].transitions <= file.providers[p].errors
    BY <2>1 DEF CountInv, ErrorsCover
  <2>4. QED
    BY <2>2, <2>3, Counts
<1>3. QED
  BY <1>1, <1>2, HealthInvInit, CountInit, PTL DEF HealthSpec

-----------------------------------------------------------------------------
(* What the log has: health.log and the cooldowns shown *)

Logged(h, p, types) == \E i \in DOMAIN h.log : h.log[i].provider = p /\ h.log[i].type \in types

LEMMA LogGrows ==
  ASSUME NEW h \in History, NEW g \in History, NEW event \in Events,
         g.log = h.log \/ g.log = Append(h.log, event), NEW p \in Provider, NEW types
  PROVE  /\ Logged(h, p, types) => Logged(g, p, types)
         /\ g.log # h.log /\ event.provider = p /\ event.type \in types => Logged(g, p, types)
         /\ Logged(g, p, types) =>
              \/ Logged(h, p, types)
              \/ g.log # h.log /\ event.provider = p /\ event.type \in types
<1>1. h.log \in Seq(Events)
  BY DEF History
<1>2. CASE g.log = h.log
  BY <1>2 DEF Logged
<1>3. CASE g.log # h.log
  <2>1. PICK n \in Nat : n = Len(h.log) /\ DOMAIN h.log = 1 .. n
    BY <1>1, LenProperties
  <2>2. /\ DOMAIN g.log = 1 .. n + 1
        /\ \A i \in 1 .. n : g.log[i] = h.log[i]
        /\ g.log[n + 1] = event
    BY <1>1, <1>3, <2>1, AppendProperties
  <2>3. 1 .. n \subseteq 1 .. n + 1 /\ n + 1 \in 1 .. n + 1
        /\ \A i \in 1 .. n + 1 : i \in 1 .. n \/ i = n + 1
    BY <2>1
  <2>4. QED
    BY <1>3, <2>1, <2>2, <2>3 DEF Logged
<1>4. QED
  BY <1>2, <1>3

LEMMA RecordLogs ==
  ASSUME HealthInv, NEW r \in Request, NEW call \in Items, NEW t \in 1 .. now, NEW h \in History,
         RecordsCall(r, call, t, h), NEW p \in Provider, NEW types
  PROVE  /\ Logged(health, p, types) => Logged(health', p, types)
         /\ call.kind # "fallback" /\ call.provider = p /\ call.kind \in types
              => Logged(health', p, types)
         /\ Logged(health', p, types) =>
              \/ Logged(health, p, types)
              \/ call.kind # "fallback" /\ call.provider = p /\ call.kind \in types
<1>1. /\ health \in History /\ health' \in History
      /\ health'.log = IF call.kind = "fallback" THEN health.log
                       ELSE Append(health.log, Event(call, t))
  BY RecordEffect
<1>2. CASE call.kind = "fallback"
  <2>1. health'.log = health.log
    BY <1>1, <1>2
  <2>2. Logged(health', p, types) <=> Logged(health, p, types)
    BY <2>1, Zenon DEF Logged
  <2>3. QED
    BY <1>2, <2>2
<1>3. CASE call.kind # "fallback"
  <2>1. call.provider \in Provider /\ call.kind \in Types /\ t \in 0 .. MaxNow
    <3>1. call.kind # "mark" /\ now \in 1 .. MaxNow
      BY DEF RecordsCall, HealthInv, HealthTypeOK
    <3>2. QED
      BY <1>3, <3>1, HealthAssumption DEF Items
  <2>2. PICK event \in Events :
           event = Event(call, t)
    BY <2>1 DEF Events, Event, Items
  <2>3. health'.log = Append(health.log, event)
    BY <1>1, <1>3, <2>2
  <2>4. health'.log # health.log
    <3>1. health.log \in Seq(Events)
      BY <1>1 DEF History
    <3>2. Len(health'.log) = Len(health.log) + 1 /\ Len(health.log) \in Nat
      BY <2>3, <3>1, AppendProperties, LenProperties
    <3>3. QED
      BY <3>2
  <2>5. event.provider = call.provider /\ event.type = call.kind
    BY <2>2 DEF Event
  <2>6. QED
    <3>1. /\ Logged(health, p, types) => Logged(health', p, types)
          /\ event.provider = p /\ event.type \in types => Logged(health', p, types)
          /\ Logged(health', p, types) =>
               \/ Logged(health, p, types)
               \/ event.provider = p /\ event.type \in types
      BY <1>1, <2>3, <2>4, LogGrows, Zenon
    <3>2. QED
      BY <1>3, <2>5, <3>1, Zenon
<1>4. QED
  BY <1>2, <1>3

LEMMA Times ==
  ASSUME HealthInv, NEW p \in Provider
  PROVE  /\ benchedUntil[p] \in Nat /\ inherited[p] \in Nat
         /\ health.providers[p].until \in Nat
         /\ \A r \in Request : \A kinds : Heads(r, kinds, p) => Head(todo[r]).until \in Nat
<1>1. /\ benchedUntil[p] \in 0 .. MaxNow + CooldownDuration
      /\ inherited[p] \in 0 .. MaxNow + CooldownDuration
      /\ health.providers[p].until \in 0 .. MaxNow + CooldownDuration
  BY DEF HealthInv, HealthTypeOK, History, ProviderHealth
<1>2. ASSUME NEW r \in Request, todo[r] # <<>>
      PROVE  Head(todo[r]).until \in Nat
  <2>1. Head(todo[r]) \in Items
    BY <1>2, RequestFacts, HeadTailProperties
  <2>2. QED
    BY <2>1, HealthAssumption DEF Items
<1>3. QED
  BY <1>1, <1>2, HealthAssumption DEF Heads

\* The log as a record leaves it: the old records stay where they are, and the
\* new one, if there is one, comes after all of them.
LogGrown(call, t) ==
    /\ DOMAIN health.log \subseteq DOMAIN health'.log
    /\ \A i \in DOMAIN health.log : health'.log[i] = health.log[i]
    /\ DOMAIN health.log \subseteq Nat
    /\ call.kind = "fallback" => health'.log = health.log
    /\ call.kind # "fallback" =>
         \E n \in DOMAIN health'.log :
            /\ health'.log[n] = Event(call, t)
            /\ \A i \in DOMAIN health.log : i < n
            /\ \A i \in DOMAIN health'.log : i \in DOMAIN health.log \/ i = n

LEMMA LogRecord ==
  ASSUME HealthInv, NEW r \in Request, NEW call \in Items, NEW t \in 1 .. now, NEW h \in History,
         RecordsCall(r, call, t, h)
  PROVE  LogGrown(call, t)
<1>1. /\ health \in History
      /\ health'.log = IF call.kind = "fallback" THEN health.log
                       ELSE Append(health.log, Event(call, t))
  BY RecordEffect
<1>2. PICK log \in Seq(Events) : log = health.log
  BY <1>1 DEF History
<1>3. PICK n \in Nat : n = Len(log) /\ DOMAIN log = 1 .. n
  BY LenProperties
<1>4. CASE call.kind = "fallback"
  BY <1>1, <1>2, <1>3, <1>4 DEF LogGrown
<1>5. CASE call.kind # "fallback"
  <2>1. Event(call, t) \in Events
    <3>1. call.kind # "mark" /\ now \in 1 .. MaxNow
      BY DEF RecordsCall, HealthInv, HealthTypeOK
    <3>2. QED
      BY <1>5, <3>1, HealthAssumption DEF Items, Event, Events
  <2>2. PICK event \in Events : event = Event(call, t)
    BY <2>1
  <2>3. /\ DOMAIN Append(log, event) = 1 .. n + 1
        /\ \A i \in 1 .. n : Append(log, event)[i] = log[i]
        /\ Append(log, event)[n + 1] = event
    BY <1>3, AppendProperties
  <2>4. health'.log = Append(log, event)
    BY <1>1, <1>2, <1>5, <2>2
  <2>5. /\ n + 1 \in 1 .. n + 1 /\ 1 .. n \subseteq 1 .. n + 1 /\ 1 .. n \subseteq Nat
        /\ \A i \in 1 .. n : i < n + 1
        /\ \A i \in 1 .. n + 1 : i \in 1 .. n \/ i = n + 1
    OBVIOUS
  <2>6. QED
    BY <1>2, <1>3, <1>5, <2>2, <2>3, <2>4, <2>5 DEF LogGrown
<1>6. QED
  BY <1>4, <1>5

\* A cooldown is recorded first of all, so it is not what comes next.
LEMMA StartIsFirst ==
  ASSUME HealthInv, NEW r \in Request, todo[r] # <<>>, Tail(todo[r]) # <<>>
  PROVE  Head(Tail(todo[r])).kind # "cooldown-started"
<1>1. PICK calls \in Seq(Items) : calls = todo[r]
  BY RequestFacts
<1>2. /\ Len(Tail(calls)) = Len(calls) - 1 /\ Len(calls) \in Nat
      /\ \A i \in 1 .. Len(Tail(calls)) : Tail(calls)[i] = calls[i + 1]
      /\ Tail(calls) \in Seq(Items)
  BY <1>1, HeadTailProperties, LenProperties
<1>3. Len(calls) > 1 /\ 2 \in DOMAIN calls /\ Head(Tail(calls)) = calls[2]
  BY <1>1, <1>2, EmptySeq
<1>4. WellOrdered(calls)
  BY <1>1, RequestFacts
<1>5. QED
  BY <1>1, <1>3, <1>4 DEF WellOrdered, Item

\* The requests that are about to record a cooldown are those that were, and
\* the one that has marked a provider.
LEMMA StartsAfterRecord ==
  ASSUME HealthInv, NEW r \in Request, NEW call \in Items, NEW t \in 1 .. now, NEW h \in History,
         RecordsCall(r, call, t, h), NEW p \in Provider, NEW q \in Request
  PROVE  /\ Heads(q, {"cooldown-started"}, p)' =>
              q # r /\ todo'[q] = todo[q] /\ Heads(q, {"cooldown-started"}, p)
         /\ q # r => todo'[q] = todo[q] /\ stamp'[q] = stamp[q]
         /\ todo'[r] = Tail(todo[r]) /\ stamp'[r] = 0
<1>1. /\ todo' = [todo EXCEPT ![r] = Tail(todo[r])] /\ stamp' = [stamp EXCEPT ![r] = 0]
      /\ todo \in [Request -> Seq(Items)] /\ stamp \in [Request -> 0 .. MaxNow] /\ todo[r] # <<>>
  BY DEF RecordsCall, HealthInv, HealthTypeOK
<1>2. CASE q = r
  BY <1>1, <1>2, StartIsFirst DEF Heads
<1>3. CASE q # r
  BY <1>1, <1>3 DEF Heads
<1>4. QED
  BY <1>2, <1>3

-----------------------------------------------------------------------------
(* A cooldown that is shown too short *)

CutAfter(log, i, p) == \E j \in DOMAIN log : i < j /\ Cuts(log[j], p)

\* What history h shows of p is no shorter than any cooldown on record that
\* has not been cut off since.
Shows(h, p) ==
    \A i \in DOMAIN h.log :
        Starts(h.log[i], p, h.log[i].until) =>
            h.providers[p].until >= h.log[i].until \/ CutAfter(h.log, i, p)

OnRecord(p) == \E i \in DOMAIN health.log : Starts(health.log[i], p, benchedUntil[p])

\* A request is about to record the cooldown p is in.
Announced(p) ==
    \E r \in Request : Heads(r, {"cooldown-started"}, p) /\ Head(todo[r]).until = benchedUntil[p]

BenchInv ==
    \A p \in Provider :
        /\ Shows(health, p) /\ Shows(file, p)
        /\ benchedUntil[p] > 0 => OnRecord(p) \/ Announced(p)

LEMMA ShowsRecord ==
  ASSUME HealthInv, NEW r \in Request, NEW call \in Items, NEW t \in 1 .. now, NEW h \in History,
         RecordsCall(r, call, t, h), NEW p \in Provider, Shows(health, p)
  PROVE  Shows(health', p)
<1>1. LogGrown(call, t) /\ call.kind # "mark"
  BY LogRecord DEF RecordsCall
<1>2. PICK had, has : had = health.providers[p] /\ has = health'.providers[p]
  OBVIOUS
<1>3. IF p = call.provider /\ call.kind # "fallback" THEN Moved(had, has, call) ELSE has = had
  BY <1>2, RecordEffect
<1>4. had.until \in Nat /\ call.until \in Nat
  BY <1>2, Times, HealthAssumption DEF Items
<1>5. \A i \in DOMAIN health.log : health.log[i].until \in Nat
  <2>1. health.log \in Seq(Events)
    BY DEF HealthInv, HealthTypeOK, History
  <2>2. \A i \in DOMAIN health.log : health.log[i] \in Events
    BY <2>1
  <2>3. QED
    BY <2>2, HealthAssumption DEF Events
<1> SUFFICES ASSUME NEW i \in DOMAIN health'.log,
                    Starts(health'.log[i], p, health'.log[i].until),
                    ~CutAfter(health'.log, i, p)
             PROVE  has.until >= health'.log[i].until
  BY <1>2 DEF Shows
<1>6. CASE i \in DOMAIN health.log
  <2>1. health'.log[i] = health.log[i] /\ health.log[i].until \in Nat
    BY <1>1, <1>5, <1>6 DEF LogGrown
  <2>2. ~CutAfter(health.log, i, p)
    BY <1>1 DEF LogGrown, CutAfter
  <2>3. had.until >= health.log[i].until
    BY <1>2, <1>6, <2>1, <2>2 DEF Shows
  <2>4. ~(call.provider = p /\ call.kind \in {"success", "cooldown-cleared"})
    BY <1>1, <1>6 DEF LogGrown, CutAfter, Cuts, Event
  <2>5. has.until = had.until \/ has.until = Later(had.until, call.until)
    BY <1>1, <1>3, <2>4 DEF Moved, Items, Types
  <2>6. QED
    BY <1>4, <2>1, <2>3, <2>5 DEF Later
<1>7. CASE i \notin DOMAIN health.log
  <2>1. call.kind # "fallback" /\ health'.log[i] = Event(call, t)
    BY <1>1, <1>7 DEF LogGrown
  <2>2. call.kind = "cooldown-started" /\ call.provider = p /\ health'.log[i].until = call.until
    BY <2>1 DEF Starts, Event
  <2>3. has.until = Later(had.until, call.until)
    BY <1>3, <2>2 DEF Moved
  <2>4. QED
    BY <1>4, <2>2, <2>3 DEF Later
<1>8. QED
  BY <1>6, <1>7

LEMMA BenchRecord ==
  ASSUME HealthInv, BenchInv, NEW r \in Request, Record(r)
  PROVE  BenchInv'
<1>1. PICK call \in Items, t \in 1 .. now, h \in History : RecordsCall(r, call, t, h)
  BY RecordStep
<1>2. /\ benchedUntil' = benchedUntil /\ call = Head(todo[r]) /\ LogGrown(call, t)
      /\ file' = file \/ file' = health'
  BY <1>1, LogRecord DEF Record, RecordsCall
<1>3. \A p \in Provider : Shows(health', p) /\ Shows(file', p)
  BY <1>1, <1>2, ShowsRecord DEF BenchInv
<1>4. ASSUME NEW p \in Provider, benchedUntil[p] > 0, ~OnRecord(p)'
      PROVE  Announced(p)'
  <2>1. ~OnRecord(p)
    BY <1>2, <1>4 DEF OnRecord, LogGrown
  <2>2. PICK q \in Request : Heads(q, {"cooldown-started"}, p) /\ Head(todo[q]).until = benchedUntil[p]
    BY <1>4, <2>1 DEF BenchInv, Announced
  <2>3. CASE q = r
    <3>1. call.kind = "cooldown-started" /\ call.provider = p /\ call.until = benchedUntil[p]
      BY <1>2, <2>2, <2>3 DEF Heads
    <3>2. OnRecord(p)'
      BY <1>2, <3>1 DEF OnRecord, LogGrown, Starts, Event
    <3>3. QED
      BY <1>4, <3>2
  <2>4. CASE q # r
    <3>1. todo'[q] = todo[q]
      BY <1>1, <2>4, StartsAfterRecord
    <3>2. QED
      BY <1>2, <2>2, <3>1 DEF Announced, Heads
  <2>5. QED
    BY <2>3, <2>4
<1>5. QED
  BY <1>2, <1>3, <1>4 DEF BenchInv

LEMMA BenchMark ==
  ASSUME HealthInv, BenchInv, NEW r \in Request, NEW p \in Provider, NEW call \in Items,
         Marks(r, p, call)
  PROVE  BenchInv'
<1>1. /\ todo[r] = <<Item("mark", p)>> /\ call.kind = "cooldown-started" /\ call.provider = p
      /\ benchedUntil' = [benchedUntil EXCEPT ![p] = Later(benchedUntil[p], call.until)]
      /\ todo' = [todo EXCEPT ![r] = <<call>>] /\ health' = health /\ file' = file
      /\ todo \in [Request -> Seq(Items)]
      /\ benchedUntil \in [Provider -> 0 .. MaxNow + CooldownDuration]
  BY DEF Marks, HealthInv, HealthTypeOK
<1> SUFFICES ASSUME NEW b \in Provider, benchedUntil'[b] > 0
             PROVE  OnRecord(b)' \/ Announced(b)'
  BY <1>1 DEF BenchInv
<1>2. CASE benchedUntil'[b] = benchedUntil[b]
  <2>1. OnRecord(b) => OnRecord(b)'
    BY <1>1, <1>2 DEF OnRecord
  <2>2. ASSUME NEW q \in Request, Heads(q, {"cooldown-started"}, b),
               Head(todo[q]).until = benchedUntil[b]
        PROVE  Announced(b)'
    <3>1. q # r
      BY <1>1, <2>2 DEF Heads, Item
    <3>2. QED
      BY <1>1, <1>2, <2>2, <3>1 DEF Announced, Heads
  <2>3. QED
    BY <1>2, <2>1, <2>2 DEF BenchInv, Announced
<1>3. CASE b = p /\ benchedUntil'[p] = call.until
  <2>1. todo'[r] = <<call>>
    BY <1>1
  <2>2. todo'[r] # <<>> /\ Head(todo'[r]) = call
    BY <2>1
  <2>3. QED
    BY <1>1, <1>3, <2>2 DEF Announced, Heads
<1>4. QED
  BY <1>1, <1>2, <1>3 DEF Later

LEMMA BenchStep == HealthInv /\ BenchInv /\ [HealthNext]_healthVars => BenchInv'
<1> SUFFICES ASSUME HealthInv, BenchInv, [HealthNext]_healthVars
             PROVE  BenchInv'
  OBVIOUS
<1>1. todo \in [Request -> Seq(Items)]
  BY DEF HealthInv, HealthTypeOK
<1>2. ASSUME NEW r \in Request, NEW calls \in Seq(Items), Ends(r, calls)
      PROVE  BenchInv'
  <2> SUFFICES ASSUME NEW p \in Provider, benchedUntil'[p] > 0
               PROVE  OnRecord(p)' \/ Announced(p)'
    BY <1>2 DEF BenchInv, Ends
  <2>1. benchedUntil'[p] = benchedUntil[p] /\ health' = health
    BY <1>2 DEF Ends
  <2>2. OnRecord(p) \/ Announced(p)
    BY <2>1 DEF BenchInv
  <2>3. QED
    BY <1>1, <1>2, <2>1, <2>2 DEF OnRecord, Announced, Heads, Ends
<1>3. CASE Idles
  BY <1>3 DEF Idles, BenchInv, OnRecord, Announced, Heads
<1>4. ASSUME \A p \in Provider : benchedUntil'[p] = 0, file' = file,
             \A p \in Provider : Shows(health', p)
      PROVE  BenchInv'
  BY <1>4 DEF BenchInv
<1>5. \A p \in Provider : Shows(NoHistory, p)
  BY DEF NoHistory, Shows
<1>6. CASE Crash \/ StartWithoutFile
  BY <1>4, <1>5, <1>6 DEF Crash, StartWithoutFile, HealthInv, NothingLeft
<1>7. CASE Start
  <2>1. file' = file /\ health'.providers = file.providers /\ health'.log = file.log
    BY <1>7, LoadStep DEF PrunedAt
  <2>2. \A p \in Provider : Shows(health', p)
    BY <2>1 DEF Shows, BenchInv
  <2>3. \A p \in Provider : benchedUntil'[p] = 0
    BY <1>7 DEF Start, HealthInv, NothingLeft
  <2>4. QED
    BY <1>4, <2>1, <2>2, <2>3
<1>8. QED
  BY <1>2, <1>3, <1>6, <1>7, HistorySteps, BenchRecord, BenchMark

LEMMA BenchInit == HealthInit => BenchInv
<1> SUFFICES ASSUME HealthInit, NEW p \in Provider
             PROVE  Shows(health, p) /\ Shows(file, p) /\ ~(benchedUntil[p] > 0)
  BY DEF BenchInv
<1>1. benchedUntil[p] = 0 /\ health.log = <<>> /\ file.log = <<>>
  BY DEF HealthInit, NoHistory
<1>2. QED
  BY <1>1 DEF Shows

LEMMA BenchFollows == HealthInv /\ BenchInv => CutOnlyByRecord
<1> SUFFICES ASSUME HealthInv, BenchInv, Settled, NEW p \in Provider,
                    benchedUntil[p] > health.providers[p].until
             PROVE  LET log == health.log
                        starts == {i \in DOMAIN log : Starts(log[i], p, benchedUntil[p])}
                    IN /\ starts # {}
                       /\ \A i \in starts : \E j \in DOMAIN log : i < j /\ Cuts(log[j], p)
  BY DEF CutOnlyByRecord
<1>1. benchedUntil[p] \in Nat /\ health.providers[p].until \in Nat
  BY Times
<1>2. OnRecord(p)
  BY <1>1 DEF Settled, BenchInv, Announced, Heads
<1>3. ASSUME NEW i \in DOMAIN health.log, Starts(health.log[i], p, benchedUntil[p])
      PROVE  CutAfter(health.log, i, p)
  BY <1>1, <1>3 DEF BenchInv, Shows, Starts
<1>4. QED
  BY <1>2, <1>3 DEF OnRecord, CutAfter

\* A cooldown that is shown too short, or not at all, once the requests have
\* made their calls, is on record, and so is what has cut it off since: a
\* success or a clear.
THEOREM CutsAreOnRecord == HealthSpec => []CutOnlyByRecord
<1>1. HealthInv /\ BenchInv /\ [HealthNext]_healthVars => HealthInv' /\ BenchInv'
  BY HealthInvStep, BenchStep
<1>2. QED
  BY <1>1, BenchFollows, HealthInvInit, BenchInit, PTL DEF HealthSpec

-----------------------------------------------------------------------------
(* A cooldown that is shown too long *)

\* A request has cleared p and is to record it, at a time not before the
\* cooldown until u began.
PendingClear(p, u) ==
    \E r \in Request : \E k \in DOMAIN todo[r] :
        /\ todo[r][k].kind = "cooldown-cleared" /\ todo[r][k].provider = p
        /\ k > 1 \/ stamp[r] = 0 \/ stamp[r] >= u - CooldownDuration

ClearOnRecord(p, u) ==
    \E j \in DOMAIN health.log : ClearedSince(health.log[j], p, u - CooldownDuration)
StartedAfterClear(p, u) ==
    \E j, i \in DOMAIN health.log : /\ j < i /\ Starts(health.log[i], p, u)
                                    /\ ClearedSince(health.log[j], p, u - CooldownDuration)

Due(p) == Later(benchedUntil[p], inherited[p])

\* What is shown, or is about to be recorded, beyond what is due, has been
\* cleared.
ShownEnded(p) ==
    \A u \in Nat : u = health.providers[p].until /\ u > Due(p)
                      => PendingClear(p, u) \/ StartedAfterClear(p, u)
StartEnded(r, p) ==
    \A u \in Nat : Heads(r, {"cooldown-started"}, p) /\ u = Head(todo[r]).until /\ u > Due(p)
                      => PendingClear(p, u) \/ ClearOnRecord(p, u)

\* No cooldown lasts longer than one that begins now.
Lasting ==
    /\ \A p \in Provider : /\ health.providers[p].until <= now + CooldownDuration
                           /\ file.providers[p].until <= now + CooldownDuration
    /\ \A r \in Request, p \in Provider :
         Heads(r, {"cooldown-started"}, p) => Head(todo[r]).until <= now + CooldownDuration

ShownInv ==
    /\ Lasting
    /\ \A p \in Provider : ShownEnded(p) /\ \A r \in Request : StartEnded(r, p)

LEMMA LastingRecord ==
  ASSUME HealthInv, Lasting, NEW r \in Request, Record(r)
  PROVE  Lasting'
<1>1. PICK call \in Items, t \in 1 .. now, h \in History : RecordsCall(r, call, t, h)
  BY RecordStep
<1>2. /\ now' = now /\ call = Head(todo[r]) /\ todo[r] # <<>> /\ call.kind # "mark"
      /\ (file' = file \/ file' = health') /\ now \in 1 .. MaxNow
  BY <1>1 DEF Record, RecordsCall, HealthInv, HealthTypeOK
<1>3. ASSUME NEW p \in Provider
      PROVE  health'.providers[p].until <= now + CooldownDuration
  <2>1. PICK had, has : had = health.providers[p] /\ has = health'.providers[p]
    OBVIOUS
  <2>2. IF p = call.provider /\ call.kind # "fallback" THEN Moved(had, has, call) ELSE has = had
    BY <1>1, <2>1, RecordEffect
  <2>3. had.until <= now + CooldownDuration /\ had.until \in Nat
    BY <2>1, Times DEF Lasting
  <2>4. CASE p = call.provider /\ call.kind = "cooldown-started"
    <3>1. call.until <= now + CooldownDuration /\ call.until \in Nat
      BY <1>2, <2>4, Times DEF Lasting, Heads
    <3>2. QED
      BY <2>1, <2>2, <2>3, <2>4, <3>1 DEF Moved, Later
  <2>5. CASE ~(p = call.provider /\ call.kind = "cooldown-started")
    <3>1. has.until = had.until \/ has.until = 0
      BY <1>2, <2>2, <2>5 DEF Moved, Items, Types
    <3>2. QED
      BY <1>2, <2>1, <2>3, <3>1, HealthAssumption
  <2>6. QED
    BY <2>4, <2>5
<1>4. ASSUME NEW q \in Request, NEW p \in Provider, Heads(q, {"cooldown-started"}, p)'
      PROVE  Head(todo'[q]).until <= now + CooldownDuration
  BY <1>1, <1>4, StartsAfterRecord DEF Lasting
<1>5. QED
  BY <1>2, <1>3, <1>4 DEF Lasting

LEMMA LastingStep == HealthInv /\ Lasting /\ [HealthNext]_healthVars => Lasting'
<1> SUFFICES ASSUME HealthInv, Lasting, [HealthNext]_healthVars
             PROVE  Lasting'
  OBVIOUS
<1>0. \A h \in History, p \in Provider : h.providers[p].until \in Nat
  BY HealthAssumption DEF History, ProviderHealth
<1>1. /\ todo \in [Request -> Seq(Items)] /\ now \in 1 .. MaxNow
      /\ \A p \in Provider : health.providers[p].until \in Nat /\ file.providers[p].until \in Nat
  BY <1>0 DEF HealthInv, HealthTypeOK
<1>2. ASSUME NEW r \in Request, NEW p \in Provider, NEW call \in Items, Marks(r, p, call)
      PROVE  Lasting'
  <2>1. /\ todo' = [todo EXCEPT ![r] = <<call>>] /\ call.until <= now + CooldownDuration
        /\ UNCHANGED <<now, health, file>>
    BY <1>2 DEF Marks
  <2>2. Head(todo'[r]) = call /\ \A q \in Request : q # r => todo'[q] = todo[q]
    BY <1>1, <2>1
  <2>3. QED
    BY <2>1, <2>2 DEF Lasting, Heads
<1>3. ASSUME NEW r \in Request, NEW calls \in Seq(Items), Ends(r, calls)
      PROVE  Lasting'
  <2>1. /\ UNCHANGED <<now, health, file>>
        /\ \A q \in Request, p \in Provider : Heads(q, {"cooldown-started"}, p)' =>
             Heads(q, {"cooldown-started"}, p) /\ todo'[q] = todo[q]
    BY <1>1, <1>3 DEF Ends, Heads, Owing
  <2>2. QED
    BY <2>1 DEF Lasting
<1>4. CASE Idles
  <2>1. now' \in Nat /\ now' >= now /\ UNCHANGED <<todo, health, file>>
    BY <1>1, <1>4, HealthAssumption DEF Idles
  <2>2. \A u \in Nat : u <= now + CooldownDuration => u <= now' + CooldownDuration
    BY <1>1, <2>1, HealthAssumption
  <2>3. QED
    BY <1>1, <2>1, <2>2, Times DEF Lasting, Heads
<1>5. ASSUME todo' = [r \in Request |-> <<>>], file' = file, now' = now,
             \A p \in Provider : health'.providers[p].until \in {0, file.providers[p].until}
      PROVE  Lasting'
  <2>1. \A p \in Provider : health'.providers[p].until <= now + CooldownDuration
    BY <1>1, <1>5, HealthAssumption DEF Lasting
  <2>2. QED
    BY <1>5, <2>1 DEF Lasting, Heads
<1>6. \A p \in Provider : NoHistory.providers[p].until = 0
  BY DEF NoHistory, NoHealth
<1>7. CASE Crash \/ StartWithoutFile
  <2>1. todo' = [r \in Request |-> <<>>] /\ health' = NoHistory /\ file' = file /\ now' = now
    BY <1>7 DEF Crash, StartWithoutFile, clockVars, HealthInv, NothingLeft
  <2>2. QED
    BY <1>5, <1>6, <2>1
<1>8. CASE Start
  <2>1. todo' = [r \in Request |-> <<>>] /\ file' = file /\ now' = now
        /\ health'.providers = file.providers
    BY <1>8, LoadStep DEF PrunedAt, HealthInv, NothingLeft
  <2>2. QED
    BY <1>5, <2>1
<1>9. QED
  BY <1>2, <1>3, <1>4, <1>7, <1>8, HistorySteps, LastingRecord

LEMMA ShownRecord ==
  ASSUME HealthInv, ShownInv, NEW r \in Request, Record(r), NEW p \in Provider
  PROVE  ShownEnded(p)' /\ \A q \in Request : StartEnded(q, p)'
<1>1. PICK call \in Items, t \in 1 .. now, h \in History : RecordsCall(r, call, t, h)
  BY RecordStep
<1>2. /\ UNCHANGED <<benchedUntil, inherited>> /\ call = Head(todo[r]) /\ t = stamp[r] /\ t # 0
      /\ call.kind # "mark" /\ todo[r] # <<>> /\ LogGrown(call, t)
  BY <1>1, LogRecord DEF Record, RecordsCall
<1>3. PICK due \in Nat : due = Due(p) /\ due = Due(p)'
  BY <1>2, Times DEF Due, Later
\* The clear that was to be recorded still is, or has been just now.
<1>4. ASSUME NEW u \in Nat, PendingClear(p, u)
      PROVE  \/ PendingClear(p, u)'
             \/ /\ call.kind = "cooldown-cleared" /\ call.provider = p
                /\ ClearOnRecord(p, u)'
  <2>0. PICK q \in Request : \E k \in DOMAIN todo[q] :
           /\ todo[q][k].kind = "cooldown-cleared" /\ todo[q][k].provider = p
           /\ k > 1 \/ stamp[q] = 0 \/ stamp[q] >= u - CooldownDuration
    BY <1>4 DEF PendingClear
  <2>1. PICK k \in DOMAIN todo[q] :
           /\ todo[q][k].kind = "cooldown-cleared" /\ todo[q][k].provider = p
           /\ k > 1 \/ stamp[q] = 0 \/ stamp[q] >= u - CooldownDuration
    BY <2>0
  <2>2. CASE q # r
    <3>1. todo'[q] = todo[q] /\ stamp'[q] = stamp[q]
      BY <1>1, <2>2, StartsAfterRecord
    <3>2. QED
      BY <2>1, <3>1 DEF PendingClear
  <2>3. PICK calls \in Seq(Items) : calls = todo[r] /\ calls # <<>>
    BY <1>2, RequestFacts
  <2>4. /\ Len(Tail(calls)) = Len(calls) - 1 /\ Len(calls) \in Nat /\ Head(calls) = calls[1]
        /\ DOMAIN Tail(calls) = 1 .. Len(Tail(calls)) /\ DOMAIN calls = 1 .. Len(calls)
        /\ \A j \in 1 .. Len(Tail(calls)) : Tail(calls)[j] = calls[j + 1]
    BY <2>3, HeadTailProperties, LenProperties
  <2>5. CASE q = r /\ k = 1
    <3>1. call.kind = "cooldown-cleared" /\ call.provider = p /\ t >= u - CooldownDuration
      BY <1>2, <2>1, <2>3, <2>4, <2>5
    <3>2. QED
      BY <1>2, <3>1 DEF LogGrown, ClearOnRecord, ClearedSince, Event
  <2>6. CASE q = r /\ k # 1
    <3>1. PICK j \in DOMAIN Tail(calls) : j + 1 = k
      <4>1. k - 1 \in DOMAIN Tail(calls) /\ (k - 1) + 1 = k
        BY <2>1, <2>3, <2>4, <2>6
      <4>2. QED
        BY <4>1, Zenon
    <3>2. Tail(calls)[j] = todo[q][k]
      BY <2>3, <2>4, <2>6, <3>1
    <3>3. todo'[r] = Tail(calls) /\ stamp'[r] = 0
      BY <1>1, <2>3, StartsAfterRecord
    <3>4. QED
      BY <2>1, <3>1, <3>2, <3>3 DEF PendingClear
  <2>7. QED
    BY <2>2, <2>5, <2>6
<1>5. ASSUME NEW u \in Nat
      PROVE  /\ ClearOnRecord(p, u) => ClearOnRecord(p, u)'
             /\ StartedAfterClear(p, u) => StartedAfterClear(p, u)'
  BY <1>2 DEF LogGrown, ClearOnRecord, StartedAfterClear
<1>6. ASSUME NEW q \in Request
      PROVE  StartEnded(q, p)'
  <2> SUFFICES ASSUME NEW u \in Nat, Heads(q, {"cooldown-started"}, p)',
                      u = Head(todo'[q]).until, u > due
               PROVE  PendingClear(p, u)' \/ ClearOnRecord(p, u)'
    BY <1>3 DEF StartEnded
  <2>1. todo'[q] = todo[q] /\ Heads(q, {"cooldown-started"}, p)
    BY <1>1, StartsAfterRecord
  <2>2. PendingClear(p, u) \/ ClearOnRecord(p, u)
    BY <1>3, <2>1 DEF ShownInv, StartEnded
  <2>3. QED
    BY <1>4, <1>5, <2>2
<1>7. ShownEnded(p)'
  <2> SUFFICES ASSUME NEW u \in Nat, u = health'.providers[p].until, u > due
               PROVE  PendingClear(p, u)' \/ StartedAfterClear(p, u)'
    BY <1>3 DEF ShownEnded
  <2>1. PICK had, has : had = health.providers[p] /\ has = health'.providers[p]
    OBVIOUS
  <2>2. IF p = call.provider /\ call.kind # "fallback" THEN Moved(had, has, call) ELSE has = had
    BY <1>1, <2>1, RecordEffect
  <2>3. ~(call.provider = p /\ call.kind \in {"success", "cooldown-cleared"})
    BY <1>3, <2>1, <2>2 DEF Moved
  <2>4. CASE u = had.until
    <3>1. PendingClear(p, u) \/ StartedAfterClear(p, u)
      BY <1>3, <2>1, <2>4 DEF ShownInv, ShownEnded
    <3>2. QED
      BY <1>4, <1>5, <2>3, <3>1
  <2>5. CASE u # had.until
    <3>1. call.kind = "cooldown-started" /\ call.provider = p /\ u = call.until
      BY <1>2, <2>1, <2>2, <2>3, <2>5 DEF Moved, Items, Types, Later
    <3>2. Heads(r, {"cooldown-started"}, p)
      BY <1>2, <3>1 DEF Heads
    <3>3. PendingClear(p, u) \/ ClearOnRecord(p, u)
      BY <1>2, <1>3, <3>1, <3>2 DEF ShownInv, StartEnded
    <3>4. ClearOnRecord(p, u) => StartedAfterClear(p, u)'
      BY <1>2, <3>1 DEF LogGrown, ClearOnRecord, StartedAfterClear, Starts, Event
    <3>5. QED
      BY <1>4, <3>1, <3>3, <3>4
  <2>6. QED
    BY <2>4, <2>5
<1>8. QED
  BY <1>6, <1>7

\* A clear that is to be recorded stays so in any other step of a process that
\* goes on.
LEMMA PendingStays ==
  ASSUME HealthInv, NEW p \in Provider, NEW u \in Nat, u <= now + CooldownDuration,
         PendingClear(p, u),
         \/ \E r \in Request, b \in Provider, call \in Items : Marks(r, b, call)
         \/ \E r \in Request, calls \in Seq(Items) : Ends(r, calls)
         \/ Idles
  PROVE  PendingClear(p, u)'
<1>0. PICK q \in Request : \E k \in DOMAIN todo[q] :
         /\ todo[q][k].kind = "cooldown-cleared" /\ todo[q][k].provider = p
         /\ k > 1 \/ stamp[q] = 0 \/ stamp[q] >= u - CooldownDuration
  BY DEF PendingClear
<1>1. PICK k \in DOMAIN todo[q] :
         /\ todo[q][k].kind = "cooldown-cleared" /\ todo[q][k].provider = p
         /\ k > 1 \/ stamp[q] = 0 \/ stamp[q] >= u - CooldownDuration
  BY <1>0
<1>2. /\ todo \in [Request -> Seq(Items)] /\ stamp \in [Request -> 0 .. MaxNow]
      /\ now \in 1 .. MaxNow
  BY DEF HealthInv, HealthTypeOK
<1>3. ASSUME NEW r \in Request, NEW b \in Provider, NEW call \in Items, Marks(r, b, call)
      PROVE  PendingClear(p, u)'
  <2>1. q # r
    BY <1>1, <1>3 DEF Marks, Item
  <2>2. todo'[q] = todo[q] /\ stamp'[q] = stamp[q]
    BY <1>2, <1>3, <2>1 DEF Marks
  <2>3. QED
    BY <1>1, <2>2 DEF PendingClear
<1>4. ASSUME NEW r \in Request, NEW calls \in Seq(Items), Ends(r, calls)
      PROVE  PendingClear(p, u)'
  <2>1. q # r
    BY <1>1, <1>4 DEF Ends
  <2>2. todo'[q] = todo[q] /\ stamp'[q] = stamp[q]
    BY <1>2, <1>4, <2>1 DEF Ends
  <2>3. QED
    BY <1>1, <2>2 DEF PendingClear
<1>5. CASE Idles
  <2>1. todo' = todo /\ (stamp'[q] = stamp[q] \/ stamp'[q] = now)
    BY <1>2, <1>5 DEF Idles
  <2>2. now >= u - CooldownDuration
    BY <1>2, HealthAssumption
  <2>3. \/ k > 1 \/ stamp'[q] = 0 \/ stamp'[q] >= u - CooldownDuration
    BY <1>1, <2>1, <2>2
  <2>4. QED
    BY <1>1, <2>1, <2>3 DEF PendingClear
<1>6. QED
  BY <1>3, <1>4, <1>5

LEMMA ShownMark ==
  ASSUME HealthInv, ShownInv, NEW r \in Request, NEW b \in Provider, NEW call \in Items,
         Marks(r, b, call), NEW p \in Provider
  PROVE  ShownEnded(p)' /\ \A q \in Request : StartEnded(q, p)'
<1>1. /\ todo[r] = <<Item("mark", b)>> /\ call.kind = "cooldown-started" /\ call.provider = b
      /\ benchedUntil' = [benchedUntil EXCEPT ![b] = Later(benchedUntil[b], call.until)]
      /\ todo' = [todo EXCEPT ![r] = <<call>>] /\ UNCHANGED <<health, inherited>>
      /\ todo \in [Request -> Seq(Items)]
      /\ benchedUntil \in [Provider -> 0 .. MaxNow + CooldownDuration]
  BY DEF Marks, HealthInv, HealthTypeOK
<1>2. PICK due \in Nat : due = Due(p)
  BY Times DEF Due, Later
<1>3. PICK later \in Nat : later = Due(p)' /\ later >= due /\ (p = b => later >= call.until)
  <2>1. call.until \in Nat
    BY HealthAssumption DEF Items
  <2>2. benchedUntil'[p] = IF p = b THEN Later(benchedUntil[p], call.until) ELSE benchedUntil[p]
    BY <1>1
  <2>3. benchedUntil'[p] \in Nat /\ benchedUntil'[p] >= benchedUntil[p]
        /\ (p = b => benchedUntil'[p] >= call.until)
    BY <2>1, <2>2, Times DEF Later
  <2>4. Due(p)' = Later(benchedUntil'[p], inherited[p])
    BY <1>1 DEF Due
  <2>5. QED
    BY <1>2, <2>1, <2>3, <2>4, Times DEF Due, Later
<1>4. ASSUME NEW u \in Nat
      PROVE  /\ u <= now + CooldownDuration /\ PendingClear(p, u) => PendingClear(p, u)'
             /\ ClearOnRecord(p, u) => ClearOnRecord(p, u)'
             /\ StartedAfterClear(p, u) => StartedAfterClear(p, u)'
  <2>1. u <= now + CooldownDuration /\ PendingClear(p, u) => PendingClear(p, u)'
    BY PendingStays
  <2>2. QED
    BY <1>1, <2>1 DEF ClearOnRecord, StartedAfterClear
<1>5. ShownEnded(p)'
  <2> SUFFICES ASSUME NEW u \in Nat, u = health.providers[p].until, u > later
               PROVE  PendingClear(p, u)' \/ StartedAfterClear(p, u)'
    BY <1>1, <1>3 DEF ShownEnded
  <2>1. u <= now + CooldownDuration /\ u > due
    BY <1>3 DEF ShownInv, Lasting
  <2>2. PendingClear(p, u) \/ StartedAfterClear(p, u)
    BY <1>2, <2>1 DEF ShownInv, ShownEnded
  <2>3. QED
    BY <1>4, <2>1, <2>2
<1>6. ASSUME NEW q \in Request, NEW u \in Nat, Heads(q, {"cooldown-started"}, p)',
             u = Head(todo'[q]).until, u > later
      PROVE  PendingClear(p, u)' \/ ClearOnRecord(p, u)'
  <2>1. CASE q = r
    <3>1. todo'[r] = <<call>>
      BY <1>1
    <3>2. Head(todo'[r]) = call
      BY <3>1
    <3>3. p = b /\ call.until > later
      BY <1>1, <1>6, <2>1, <3>2 DEF Heads
    <3>4. QED
      BY <1>3, <1>6, <2>1, <3>2, <3>3
  <2>2. CASE q # r
    <3>1. Heads(q, {"cooldown-started"}, p) /\ u = Head(todo[q]).until
      BY <1>1, <1>6, <2>2 DEF Heads
    <3>2. u <= now + CooldownDuration /\ u > due
      BY <1>3, <1>6, <3>1 DEF ShownInv, Lasting
    <3>3. PendingClear(p, u) \/ ClearOnRecord(p, u)
      BY <1>2, <3>1, <3>2 DEF ShownInv, StartEnded
    <3>4. QED
      BY <1>4, <3>2, <3>3
  <2>3. QED
    BY <2>1, <2>2
<1>7. QED
  BY <1>3, <1>5, <1>6 DEF StartEnded

LEMMA ShownEnds ==
  ASSUME HealthInv, ShownInv, NEW r \in Request, NEW calls \in Seq(Items), Ends(r, calls),
         NEW p \in Provider
  PROVE  ShownEnded(p)' /\ \A q \in Request : StartEnded(q, p)'
<1>1. /\ todo[r] = <<>> /\ todo' = [todo EXCEPT ![r] = calls] /\ stamp' = stamp
      /\ calls # <<>> => Head(calls).kind \notin Owing
      /\ UNCHANGED <<health, inherited>> /\ todo \in [Request -> Seq(Items)]
  BY DEF Ends, HealthInv, HealthTypeOK
<1>2. \A q \in Request : Heads(q, {"cooldown-started"}, p)' =>
        Heads(q, {"cooldown-started"}, p) /\ todo'[q] = todo[q]
  BY <1>1 DEF Heads, Owing
<1>3. CASE benchedUntil'[p] = benchedUntil[p]
  <2>1. Due(p)' = Due(p)
    BY <1>1, <1>3 DEF Due
  <2>2. ASSUME NEW u \in Nat, u <= now + CooldownDuration, PendingClear(p, u)
        PROVE  PendingClear(p, u)'
    BY <2>2, PendingStays
  <2>3. ASSUME NEW u \in Nat, u = health.providers[p].until, u > Due(p)
        PROVE  PendingClear(p, u)' \/ StartedAfterClear(p, u)'
    <3>1. u <= now + CooldownDuration /\ (PendingClear(p, u) \/ StartedAfterClear(p, u))
      BY <2>3 DEF ShownInv, Lasting, ShownEnded
    <3>2. StartedAfterClear(p, u) => StartedAfterClear(p, u)'
      BY <1>1 DEF StartedAfterClear
    <3>3. QED
      BY <2>2, <3>1, <3>2
  <2>4. ASSUME NEW q \in Request, NEW u \in Nat, Heads(q, {"cooldown-started"}, p)',
               u = Head(todo'[q]).until, u > Due(p)
        PROVE  PendingClear(p, u)' \/ ClearOnRecord(p, u)'
    <3>1. Heads(q, {"cooldown-started"}, p) /\ u = Head(todo[q]).until
      BY <1>2, <2>4
    <3>2. u <= now + CooldownDuration /\ (PendingClear(p, u) \/ ClearOnRecord(p, u))
      BY <2>4, <3>1 DEF ShownInv, Lasting, StartEnded
    <3>3. ClearOnRecord(p, u) => ClearOnRecord(p, u)'
      BY <1>1 DEF ClearOnRecord
    <3>4. QED
      BY <2>2, <3>2, <3>3
  <2>5. QED
    BY <1>1, <2>1, <2>3, <2>4 DEF ShownEnded, StartEnded
<1>4. ASSUME NEW i \in DOMAIN calls, calls[i] = Item("cooldown-cleared", p)
      PROVE  ShownEnded(p)' /\ \A q \in Request : StartEnded(q, p)'
  <2>1. todo'[r] = calls /\ stamp'[r] = 0
    BY <1>1, RequestFacts
  <2>2. calls[i].kind = "cooldown-cleared" /\ calls[i].provider = p
    BY <1>4 DEF Item
  <2>3. \A u : PendingClear(p, u)'
    BY <2>1, <2>2 DEF PendingClear
  <2>4. QED
    BY <2>3 DEF ShownEnded, StartEnded
<1>5. QED
  BY <1>3, <1>4 DEF Ends

LEMMA ShownIdles ==
  ASSUME HealthInv, ShownInv, Idles, NEW p \in Provider
  PROVE  ShownEnded(p)' /\ \A q \in Request : StartEnded(q, p)'
<1>1. UNCHANGED <<benchedUntil, todo, health, inherited>>
  BY DEF Idles
<1>2. ASSUME NEW u \in Nat, u <= now + CooldownDuration
      PROVE  /\ PendingClear(p, u) => PendingClear(p, u)'
             /\ ClearOnRecord(p, u) => ClearOnRecord(p, u)'
             /\ StartedAfterClear(p, u) => StartedAfterClear(p, u)'
  <2>1. PendingClear(p, u) => PendingClear(p, u)'
    BY <1>2, PendingStays
  <2>2. QED
    BY <1>1, <2>1 DEF ClearOnRecord, StartedAfterClear
<1>3. Due(p)' = Due(p)
  BY <1>1 DEF Due
<1>4. ASSUME NEW u \in Nat, u = health.providers[p].until, u > Due(p)
      PROVE  PendingClear(p, u)' \/ StartedAfterClear(p, u)'
  <2>1. u <= now + CooldownDuration /\ (PendingClear(p, u) \/ StartedAfterClear(p, u))
    BY <1>4 DEF ShownInv, Lasting, ShownEnded
  <2>2. QED
    BY <1>2, <2>1
<1>5. ASSUME NEW q \in Request, NEW u \in Nat, Heads(q, {"cooldown-started"}, p),
             u = Head(todo[q]).until, u > Due(p)
      PROVE  PendingClear(p, u)' \/ ClearOnRecord(p, u)'
  <2>1. u <= now + CooldownDuration /\ (PendingClear(p, u) \/ ClearOnRecord(p, u))
    BY <1>5 DEF ShownInv, Lasting, StartEnded
  <2>2. QED
    BY <1>2, <2>1
<1>6. QED
  BY <1>1, <1>3, <1>4, <1>5 DEF ShownEnded, StartEnded, Heads

LEMMA ShownStep == HealthInv /\ ShownInv /\ [HealthNext]_healthVars => ShownInv'
<1> SUFFICES ASSUME HealthInv, ShownInv, [HealthNext]_healthVars
             PROVE  ShownInv'
  OBVIOUS
<1>1. HealthInv' /\ Lasting'
  BY HealthInvStep, LastingStep DEF ShownInv
<1>2. ASSUME \A p \in Provider : ShownEnded(p)' /\ \A q \in Request : StartEnded(q, p)'
      PROVE  ShownInv'
  BY <1>1, <1>2 DEF ShownInv
\* A process that ends or starts has no calls to make, and shows nothing but
\* what it has found in the file.
<1>3. ASSUME todo' = [r \in Request |-> <<>>],
             \A p \in Provider : health'.providers[p].until \in {0, inherited'[p]}
      PROVE  ShownInv'
  <2> SUFFICES ASSUME NEW p \in Provider
               PROVE  ShownEnded(p)' /\ \A q \in Request : StartEnded(q, p)'
    BY <1>2
  <2>1. /\ benchedUntil'[p] \in 0 .. MaxNow + CooldownDuration
        /\ inherited'[p] \in 0 .. MaxNow + CooldownDuration
    BY <1>1 DEF HealthInv, HealthTypeOK
  <2>2. ~(health'.providers[p].until > Due(p)')
    BY <1>3, <2>1, HealthAssumption DEF Due, Later
  <2>3. QED
    BY <1>3, <2>2 DEF ShownEnded, StartEnded, Heads
<1>4. \A p \in Provider : NoHistory.providers[p].until = 0
  BY DEF NoHistory, NoHealth
<1>5. CASE Crash \/ StartWithoutFile
  <2>1. todo' = [r \in Request |-> <<>>] /\ health' = NoHistory
    BY <1>5 DEF Crash, StartWithoutFile, HealthInv, NothingLeft
  <2>2. QED
    BY <1>3, <1>4, <2>1
<1>6. CASE Start
  <2>1. /\ todo' = [r \in Request |-> <<>>]
        /\ inherited' = [p \in Provider |-> health'.providers[p].until]
    BY <1>6, LoadStep DEF HealthInv, NothingLeft
  <2>2. QED
    BY <1>3, <2>1
<1>7. QED
  BY <1>2, <1>5, <1>6, HistorySteps, ShownRecord, ShownMark, ShownEnds, ShownIdles

LEMMA ShownInit == HealthInit => ShownInv
<1> SUFFICES ASSUME HealthInit
             PROVE  ShownInv
  OBVIOUS
<1>1. /\ \A p \in Provider : /\ Due(p) = 0 /\ health.providers[p].until = 0
                             /\ file.providers[p].until = 0
      /\ \A r \in Request : todo[r] = <<>>
      /\ now = 1
  BY DEF HealthInit, NoHistory, NoHealth, Due, Later
<1>2. Lasting
  BY <1>1, HealthAssumption DEF Lasting, Heads
<1>3. QED
  BY <1>1, <1>2 DEF ShownInv, ShownEnded, StartEnded, Heads

LEMMA ShownFollows == HealthInv /\ ShownInv => ShownOnlyIfBenched
<1> SUFFICES ASSUME HealthInv, ShownInv, Settled, NEW p \in Provider,
                    health.providers[p].until > Due(p)
             PROVE  StartedAfterClear(p, health.providers[p].until)
  BY DEF ShownOnlyIfBenched, Due, StartedAfterClear
<1>1. \A r \in Request : todo[r] = <<>>
  BY DEF Settled
<1>2. ~PendingClear(p, health.providers[p].until)
  BY <1>1 DEF PendingClear
<1>3. QED
  BY <1>2, Times DEF ShownInv, ShownEnded

\* A cooldown that is shown longer than it is, once the requests have made
\* their calls, has been found in the file at the start, or cleared before it
\* was reported.
THEOREM OvershootsAreOnRecord == HealthSpec => []ShownOnlyIfBenched
<1>1. HealthInv /\ ShownInv /\ [HealthNext]_healthVars => HealthInv' /\ ShownInv'
  BY HealthInvStep, ShownStep
<1>2. QED
  BY <1>1, ShownFollows, HealthInvInit, ShownInit, PTL DEF HealthSpec

-----------------------------------------------------------------------------
(* What the grades of /diagnostics rest on *)

\* Both grow at the end by the same event.
LEMMA EndGrows ==
  ASSUME NEW events \in Seq(Events), NEW log \in Seq(Events), NEW cutoff \in Int,
         EndOf(events, log, cutoff), NEW event \in Events
  PROVE  EndOf(Append(events, event), Append(log, event), cutoff)
<1>1. PICK n \in Nat, m \in Nat : n = Len(events) /\ m = Len(log)
  BY LenProperties
<1>2. PICK gone \in Nat : gone = m - n
  BY <1>1 DEF EndOf
<1>3. /\ \A j \in 1 .. n : events[j] = log[gone + j]
      /\ \A i \in 1 .. gone : log[i].at < cutoff \/ i <= m - MaxEvents
  BY <1>1, <1>2 DEF EndOf
<1>4. PICK more \in Seq(Events) :
         /\ more = Append(events, event) /\ Len(more) = n + 1 /\ more[n + 1] = event
         /\ \A j \in 1 .. n : more[j] = events[j]
  <2>1. PICK more : more = Append(events, event)
    OBVIOUS
  <2>2. /\ more \in Seq(Events) /\ Len(more) = n + 1 /\ more[n + 1] = event
        /\ \A j \in 1 .. n : more[j] = events[j]
    BY <1>1, <2>1, AppendProperties
  <2>3. QED
    BY <2>1, <2>2
<1>5. PICK all \in Seq(Events) :
         /\ all = Append(log, event) /\ Len(all) = m + 1 /\ all[m + 1] = event
         /\ \A i \in 1 .. m : all[i] = log[i]
  <2>1. PICK all : all = Append(log, event)
    OBVIOUS
  <2>2. /\ all \in Seq(Events) /\ Len(all) = m + 1 /\ all[m + 1] = event
        /\ \A i \in 1 .. m : all[i] = log[i]
    BY <1>1, <2>1, AppendProperties
  <2>3. QED
    BY <2>1, <2>2
<1>6. Len(all) - Len(more) = gone
  BY <1>1, <1>2, <1>4, <1>5
<1>7. ASSUME NEW j \in 1 .. n + 1
      PROVE  more[j] = all[gone + j]
  <2>1. CASE j = n + 1
    <3>1. gone + j = m + 1
      BY <1>1, <1>2, <2>1
    <3>2. QED
      BY <1>4, <1>5, <2>1, <3>1
  <2>2. CASE j \in 1 .. n
    <3>1. gone + j \in 1 .. m
      BY <1>1, <1>2, <2>2
    <3>2. QED
      BY <1>3, <1>4, <1>5, <2>2, <3>1
  <2>3. QED
    BY <1>1, <2>1, <2>2
<1>8. ASSUME NEW i \in 1 .. gone
      PROVE  all[i].at < cutoff \/ i <= (m + 1) - MaxEvents
  <2>1. i \in 1 .. m /\ (i <= m - MaxEvents => i <= (m + 1) - MaxEvents)
    BY <1>1, <1>2, HealthAssumption
  <2>2. QED
    BY <1>3, <1>5, <2>1
<1>9. QED
  BY <1>4, <1>5, <1>6, <1>7, <1>8 DEF EndOf

\* The end of the end is the end.
LEMMA EndOfEnd ==
  ASSUME NEW log \in Seq(Events), NEW events \in Seq(Events), NEW kept \in Seq(Events),
         NEW early \in Int, NEW late \in Int, early <= late,
         EndOf(events, log, late), EndOf(kept, events, early)
  PROVE  EndOf(kept, log, late)
<1>1. PICK n \in Nat, m \in Nat, k \in Nat : n = Len(events) /\ m = Len(log) /\ k = Len(kept)
  BY LenProperties
<1>2. PICK before \in Nat : before = m - n
  BY <1>1 DEF EndOf
<1>3. PICK gone \in Nat : gone = n - k
  BY <1>1 DEF EndOf
<1>4. /\ \A j \in 1 .. n : events[j] = log[before + j]
      /\ \A i \in 1 .. before : log[i].at < late \/ i <= m - MaxEvents
  BY <1>1, <1>2 DEF EndOf
<1>5. /\ \A j \in 1 .. k : kept[j] = events[gone + j]
      /\ \A i \in 1 .. gone : events[i].at < early \/ i <= n - MaxEvents
  BY <1>1, <1>3 DEF EndOf
<1>6. PICK both \in Nat : both = before + gone /\ both = m - k
  BY <1>1, <1>2, <1>3
<1>7. ASSUME NEW j \in 1 .. k
      PROVE  kept[j] = log[both + j]
  <2>1. gone + j \in 1 .. n /\ before + (gone + j) = both + j
    BY <1>1, <1>3, <1>6
  <2>2. QED
    BY <1>4, <1>5, <2>1
<1>8. ASSUME NEW i \in 1 .. both
      PROVE  log[i].at < late \/ i <= m - MaxEvents
  <2>1. CASE i \in 1 .. before
    BY <1>4, <2>1
  <2>2. CASE i \notin 1 .. before
    <3>1. PICK l \in 1 .. gone : i = before + l
      <4>1. i - before \in 1 .. gone /\ i = before + (i - before)
        BY <1>6, <2>2
      <4>2. QED
        BY <4>1, Zenon
    <3>2. l \in 1 .. n
      BY <1>1, <1>3
    <3>3. events[l] = log[i] /\ events[l] \in Events
      BY <1>1, <1>4, <3>1, <3>2, ElementOfSeq
    <3>4. log[i].at \in Int
      BY <3>3 DEF Events
    <3>5. l <= n - MaxEvents => i <= m - MaxEvents
      BY <1>1, <1>2, <3>1, HealthAssumption
    <3>6. log[i].at < early \/ l <= n - MaxEvents
      BY <1>5, <3>3
    <3>7. QED
      BY <3>4, <3>5, <3>6
  <2>3. QED
    BY <2>1, <2>2
<1>9. QED
  BY <1>1, <1>6, <1>7, <1>8 DEF EndOf

\* What is forgotten was not among the latest, or is too old; and what is on
\* record has been counted.
Recent(h) == EndOf(h.events, h.log, now - Retention)
Known(h) ==
    \A p \in Provider :
        /\ Logged(h, p, {"success"}) => h.providers[p].successes > 0
        /\ Logged(h, p, {"error"}) => h.providers[p].errors > 0
GradeInv == Recent(health) /\ Recent(file) /\ Known(health) /\ Known(file)

LEMMA RecentPruned ==
  ASSUME NEW h \in History, NEW g, NEW t \in Int, t <= now, now \in Int,
         EndOf(h.events, h.log, now - Retention), PrunedAt(h, g, t)
  PROVE  EndOf(g.events, g.log, now - Retention)
<1>1. /\ h.log \in Seq(Events) /\ h.events \in Seq(Events) /\ g.events \in Seq(Events)
      /\ g.log = h.log /\ EndOf(g.events, h.events, t - Retention)
  BY DEF PrunedAt, KeptOf, History
<1>2. t - Retention \in Int /\ now - Retention \in Int /\ t - Retention <= now - Retention
  BY HealthAssumption
<1>3. QED
  BY <1>1, <1>2, EndOfEnd

LEMMA GradeRecord ==
  ASSUME HealthInv, GradeInv, NEW r \in Request, Record(r)
  PROVE  GradeInv'
<1>1. PICK call \in Items, t \in 1 .. now, h \in History : RecordsCall(r, call, t, h)
  BY RecordStep
<1>2. /\ health \in History /\ health' \in History /\ now' = now /\ now \in 1 .. MaxNow
      /\ call.kind # "mark"
  BY <1>1, RecordEffect DEF Record, HealthInv, HealthTypeOK, RecordsCall
<1>3. PICK cutoff \in Int : cutoff = now - Retention
  BY <1>2, HealthAssumption
<1>4. health.events \in Seq(Events) /\ health.log \in Seq(Events)
      /\ EndOf(health.events, health.log, cutoff)
  BY <1>2, <1>3 DEF History, GradeInv, Recent
<1>5. EndOf(h.events, h.log, cutoff)
  <2>1. CASE call.kind = "fallback"
    BY <1>1, <1>4, <2>1 DEF RecordsCall, RecordedAs
  <2>2. CASE call.kind # "fallback"
    <3>1. call.kind \in Types /\ call.provider \in Provider /\ t \in 0 .. MaxNow
      BY <1>2, <2>2, HealthAssumption DEF Items
    <3>2. PICK event \in Events :
             event = Event(call, t)
      BY <3>1 DEF Events, Event, Items
    <3>3. h.events = Append(health.events, event) /\ h.log = Append(health.log, event)
      BY <1>1, <2>2, <3>2 DEF RecordsCall, RecordedAs
    <3>4. QED
      BY <1>4, <3>3, EndGrows
  <2>3. QED
    BY <2>1, <2>2
<1>6. Recent(health)'
  <2>1. PICK g : g = health'
    OBVIOUS
  <2>2. PrunedAt(h, g, t) /\ t \in Int /\ t <= now /\ now \in Int
    BY <1>1, <1>2, <2>1, HealthAssumption DEF RecordsCall
  <2>3. EndOf(g.events, g.log, cutoff)
    BY <1>3, <1>5, <2>2, RecentPruned
  <2>4. QED
    BY <1>2, <1>3, <2>1, <2>3 DEF Recent
<1>7. Known(health)'
  <2> SUFFICES ASSUME NEW p \in Provider
               PROVE  /\ Logged(health', p, {"success"}) => health'.providers[p].successes > 0
                      /\ Logged(health', p, {"error"}) => health'.providers[p].errors > 0
    BY DEF Known
  <2>1. /\ Logged(health, p, {"success"}) => health.providers[p].successes > 0
        /\ Logged(health, p, {"error"}) => health.providers[p].errors > 0
    BY DEF GradeInv, Known
  <2>2. PICK had \in ProviderHealth, has \in ProviderHealth :
           had = health.providers[p] /\ has = health'.providers[p]
    BY <1>2 DEF History
  <2>3. had.successes \in Nat /\ had.errors \in Nat /\ has.successes \in Nat /\ has.errors \in Nat
    BY DEF ProviderHealth
  <2>4. IF p = call.provider /\ call.kind # "fallback" THEN Moved(had, has, call) ELSE has = had
    BY <1>1, <2>2, RecordEffect
  <2>5. has.successes >= had.successes /\ has.errors >= had.errors
    BY <1>2, <2>3, <2>4 DEF Moved, Items, Types
  <2>6. p = call.provider /\ call.kind = "success" => has.successes > 0
    BY <2>3, <2>4 DEF Moved
  <2>7. p = call.provider /\ call.kind = "error" => has.errors > 0
    BY <2>3, <2>4 DEF Moved
  <2>8. /\ Logged(health', p, {"success"}) => Logged(health, p, {"success"}) \/ has.successes > 0
        /\ Logged(health', p, {"error"}) => Logged(health, p, {"error"}) \/ has.errors > 0
    BY <1>1, <2>6, <2>7, RecordLogs
  <2>9. QED
    BY <2>1, <2>2, <2>3, <2>5, <2>8
<1>8. file' = health' \/ file' = file
  BY <1>1 DEF RecordsCall
<1>9. QED
  BY <1>2, <1>6, <1>7, <1>8 DEF GradeInv, Recent, Known

\* The empty history forgets nothing and has nothing on record.
LEMMA NothingForgotten ==
  ASSUME now \in Int
  PROVE  Recent(NoHistory) /\ Known(NoHistory)
<1>1. NoHistory.events = <<>> /\ NoHistory.log = <<>>
  BY DEF NoHistory
<1>2. EndOf(<<>>, <<>>, now - Retention)
  BY HealthAssumption DEF EndOf
<1>3. \A p \in Provider : \A types : ~Logged(NoHistory, p, types)
  BY <1>1 DEF Logged
<1>4. QED
  BY <1>1, <1>2, <1>3 DEF Recent, Known

\* As time goes by more becomes too old.
LEMMA RecentStays ==
  ASSUME NEW h \in History, Recent(h), now \in Int, now' = now \/ now' = now + 1
  PROVE  EndOf(h.events, h.log, now' - Retention)
<1>1. h.log \in Seq(Events)
  BY DEF History
<1>2. \A i \in DOMAIN h.log : h.log[i] \in Events /\ h.log[i].at \in Int
  <2>1. \A event \in Events : event.at \in Int
    BY HealthAssumption DEF Events
  <2>2. \A i \in DOMAIN h.log : h.log[i] \in Events
    BY <1>1
  <2>3. QED
    BY <2>1, <2>2
<1>3. Len(h.log) \in Nat /\ Len(h.events) \in Nat /\ DOMAIN h.log = 1 .. Len(h.log)
  BY <1>1, LenProperties DEF History
<1>4. PICK gone \in Nat : gone = Len(h.log) - Len(h.events)
  BY DEF Recent, EndOf
<1>5. /\ h.events \in Seq(Events)
      /\ \A j \in 1 .. Len(h.events) : h.events[j] = h.log[gone + j]
      /\ \A i \in 1 .. gone : h.log[i].at < now - Retention \/ i <= Len(h.log) - MaxEvents
  BY <1>4 DEF Recent, EndOf
<1>6. ASSUME NEW i \in 1 .. gone, h.log[i].at < now - Retention
      PROVE  h.log[i].at < now' - Retention
  <2>1. i \in DOMAIN h.log
    BY <1>3, <1>4
  <2>2. PICK at \in Int : at = h.log[i].at
    BY <1>2, <2>1
  <2>3. QED
    BY <1>6, <2>2, HealthAssumption
<1>7. QED
  BY <1>4, <1>5, <1>6 DEF EndOf

LEMMA GradeStep == HealthInv /\ GradeInv /\ [HealthNext]_healthVars => GradeInv'
<1> SUFFICES ASSUME HealthInv, GradeInv, [HealthNext]_healthVars
             PROVE  GradeInv'
  OBVIOUS
<1>1. now \in Int /\ health \in History /\ file \in History
  BY DEF HealthInv, HealthTypeOK
<1>2. ASSUME UNCHANGED <<health, file>>, now' = now \/ now' = now + 1
      PROVE  GradeInv'
  BY <1>1, <1>2, RecentStays DEF GradeInv, Recent, Known, Logged
<1>3. ASSUME health' = NoHistory, UNCHANGED <<file, now>>
      PROVE  GradeInv'
  <2>1. Recent(NoHistory) /\ Known(NoHistory)
    BY <1>1, NothingForgotten
  <2>2. QED
    BY <1>3, <2>1 DEF GradeInv, Recent, Known
<1>4. CASE Crash \/ StartWithoutFile
  BY <1>3, <1>4 DEF Crash, StartWithoutFile, clockVars
<1>5. CASE Start
  <2>1. PICK g : g = health'
    OBVIOUS
  <2>2. PrunedAt(file, g, now) /\ UNCHANGED <<file, now>>
    BY <1>5, <2>1, LoadStep
  <2>3. EndOf(g.events, g.log, now - Retention)
    BY <1>1, <2>2, RecentPruned DEF GradeInv, Recent
  <2>4. g.providers = file.providers /\ g.log = file.log
    BY <2>2 DEF PrunedAt
  <2>5. Known(g)
    BY <2>4 DEF GradeInv, Known, Logged
  <2>6. QED
    BY <2>1, <2>2, <2>3, <2>5 DEF GradeInv, Recent, Known
<1>6. QED
  BY <1>2, <1>4, <1>5, HistorySteps, GradeRecord DEF Marks, Ends, Idles

LEMMA GradeInit == HealthInit => GradeInv
<1> SUFFICES ASSUME HealthInit
             PROVE  GradeInv
  OBVIOUS
<1>1. now \in Int /\ health = NoHistory /\ file = NoHistory
  BY DEF HealthInit
<1>2. QED
  BY <1>1, NothingForgotten DEF GradeInv

\* What is among the latest and in the window has not been forgotten.
LEMMA WindowRemembered ==
  ASSUME HealthInv, GradeInv, NEW p \in Provider, NEW type,
         NEW i \in Counted(health.log, p, type) \cap Remembered
  PROVE  Counted(health.events, p, type) # {}
<1>1. /\ health.log \in Seq(Events) /\ health.events \in Seq(Events) /\ now \in 1 .. MaxNow
  BY DEF HealthInv, HealthTypeOK, History
<1>2. PICK n \in Nat, m \in Nat : /\ n = Len(health.events) /\ m = Len(health.log)
                                  /\ DOMAIN health.events = 1 .. n /\ DOMAIN health.log = 1 .. m
  BY <1>1, LenProperties
<1>3. PICK gone \in Nat : gone = m - n
  BY <1>2 DEF GradeInv, Recent, EndOf
<1>4. /\ \A j \in 1 .. n : health.events[j] = health.log[gone + j]
      /\ \A k \in 1 .. gone : health.log[k].at < now - Retention \/ k <= m - MaxEvents
  BY <1>2, <1>3 DEF GradeInv, Recent, EndOf
<1>5. /\ i \in 1 .. m /\ health.log[i].provider = p /\ health.log[i].type = type
      /\ health.log[i].at >= now - Window /\ i > m - MaxEvents
  BY <1>2 DEF Counted, Remembered
<1>6. i \notin 1 .. gone
  <2>1. health.log[i] \in Events
    BY <1>1, <1>2, <1>5, ElementOfSeq
  <2>2. PICK at \in Int : at = health.log[i].at
    BY <2>1 DEF Events, Event, Items
  <2>3. ~(at < now - Retention)
    BY <1>1, <1>5, <2>2, HealthAssumption
  <2>4. ~(i <= m - MaxEvents)
    BY <1>2, <1>5, HealthAssumption
  <2>5. QED
    BY <1>4, <2>2, <2>3, <2>4
<1>7. PICK j \in 1 .. n : i = gone + j
  <2>1. PICK k \in 1 .. m : k = i /\ k \notin 1 .. gone
    BY <1>5, <1>6
  <2>2. k - gone \in 1 .. n /\ k = gone + (k - gone)
    BY <1>3, <2>1
  <2>3. QED
    BY <2>1, <2>2, Zenon
<1>8. health.events[j] = health.log[i]
  BY <1>4, <1>7
<1>9. j \in Counted(health.events, p, type)
  BY <1>2, <1>5, <1>8 DEF Counted
<1>10. QED
  BY <1>9

LEMMA GradesFollow == HealthInv /\ GradeInv => GradesTraffic
<1> SUFFICES ASSUME HealthInv, GradeInv, NEW p \in Provider
             PROVE  /\ ObservedStatus(p) = "healthy"
                         => Counted(health.log, p, "error") \cap Remembered = {}
                    /\ ObservedStatus(p) \in {"unavailable", "no-data"}
                         => Counted(health.log, p, "success") \cap Remembered = {}
  BY DEF GradesTraffic
<1>1. PICK s \in ProviderHealth : s = health.providers[p]
  BY DEF HealthInv, HealthTypeOK, History
<1>2. PICK status : status = ProviderStatus(s)
  OBVIOUS
<1>3. /\ s.until > now => status # "healthy"
      /\ s.until > now /\ status = "unavailable" => s.successes = 0
      /\ status # "no-data"
  BY <1>2 DEF ProviderStatus
<1>4. PICK successes, errors : /\ successes = Counted(health.events, p, "success")
                               /\ errors = Counted(health.events, p, "error")
  OBVIOUS
<1>5. ObservedStatus(p) =
        IF s.successes = 0 /\ s.errors = 0 THEN "no-data"
        ELSE IF s.until > now THEN status
        ELSE IF errors # {} THEN IF successes = {} THEN "unavailable" ELSE "degraded"
        ELSE IF successes # {} THEN "healthy" ELSE status
  BY <1>1, <1>2, <1>4, Zenon DEF ObservedStatus
<1>6. /\ ObservedStatus(p) = "healthy" => errors = {}
      /\ ObservedStatus(p) \in {"unavailable", "no-data"} => successes = {} \/ s.successes = 0
  BY <1>3, <1>5
<1>7. s.successes = 0 => ~Logged(health, p, {"success"})
  BY <1>1 DEF GradeInv, Known
<1>8. s.successes = 0 => Counted(health.log, p, "success") = {}
  BY <1>7 DEF Counted, Logged
<1>9. QED
  BY <1>4, <1>6, <1>8, WindowRemembered

\* What the requests have told the history of the last hours, as far as its
\* capacity goes, is what a provider is graded by.
THEOREM GradesRest == HealthSpec => []GradesTraffic
<1>1. HealthInv /\ GradeInv /\ [HealthNext]_healthVars => HealthInv' /\ GradeInv'
  BY HealthInvStep, GradeStep
<1>2. QED
  BY <1>1, HealthInvInit, GradeInit, GradesFollow, PTL DEF HealthSpec

=============================================================================
