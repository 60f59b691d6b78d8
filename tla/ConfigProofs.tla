---------------------------- MODULE ConfigProofs ----------------------------
(***************************************************************************)
(* Facts about Config.tla: what putting a set in order, keeping a part of a *)
(* sequence and sorting by priority give, and from them what the providers *)
(* of a route are and in which order they are tried.                       *)
(***************************************************************************)
EXTENDS Config, FiniteSetTheorems, FunctionTheorems, SequenceTheorems, NaturalsInduction, TLAPS

\* Every set of naturals has a least member.  Read as induction: the least
\* one of those that lack a property.
LEMMA LeastNatural ==
  ASSUME NEW S \in SUBSET Nat, S # {}
  PROVE  \E n \in S : \A m \in S : n <= m
<1>1. IsWellFoundedOn(OpToRel(<, Nat), Nat)
  BY NatLessThanWellFounded
<1>2. PICK n \in S : \A m \in S : <<m, n>> \notin OpToRel(<, Nat)
  BY <1>1, WFMin
<1>3. \A m \in S : ~(m < n)
  BY <1>2 DEF OpToRel
<1>4. QED
  BY <1>3

-----------------------------------------------------------------------------
(* InOrder *)

Orders(before, S) ==
    /\ \A x \in S : <<x, x>> \notin before
    /\ \A x, y \in S : x = y \/ <<x, y>> \in before \/ <<y, x>> \in before
    /\ \A x, y, z \in S : <<x, y>> \in before /\ <<y, z>> \in before => <<x, z>> \in before

Increasing(s, before) == \A i, j \in DOMAIN s : i < j => <<s[i], s[j]>> \in before

\* A set put in order is all there, once each, in the order.
LEMMA InOrderOrders ==
  ASSUME NEW S, IsFiniteSet(S), NEW before, Orders(before, S)
  PROVE  /\ Cardinality(S) \in Nat
         /\ InOrder(S, before) \in [1 .. Cardinality(S) -> S]
         /\ Elements(InOrder(S, before)) = S
         /\ Increasing(InOrder(S, before), before)
<1> DEFINE n == Cardinality(S)
           Before(x) == {y \in S : <<y, x>> \in before}
           Place(x) == Cardinality(Before(x)) + 1
           place == [x \in S |-> Place(x)]
           s == InOrder(S, before)
<1>1. n \in Nat
  BY FS_CardinalityType
<1>2. \A x \in S : IsFiniteSet(Before(x)) /\ Cardinality(Before(x)) \in Nat
  BY FS_Subset, FS_CardinalityType
<1>3. \A x \in S : Place(x) \in 1 .. n
  <2> SUFFICES ASSUME NEW x \in S
               PROVE  Place(x) \in 1 .. n
    OBVIOUS
  <2>1. Before(x) \in SUBSET S /\ Before(x) # S
    BY DEF Orders
  <2>2. Cardinality(Before(x)) <= n /\ Cardinality(Before(x)) # n
    BY <2>1, FS_Subset
  <2>3. QED
    BY <1>1, <1>2, <2>2
<1>4. \A x, y \in S : <<x, y>> \in before => Place(x) < Place(y)
  <2> SUFFICES ASSUME NEW x \in S, NEW y \in S, <<x, y>> \in before
               PROVE  Place(x) < Place(y)
    OBVIOUS
  <2>1. Before(x) \in SUBSET Before(y) /\ x \in Before(y) /\ x \notin Before(x)
    BY DEF Orders
  <2>2. Cardinality(Before(x)) <= Cardinality(Before(y)) /\ Cardinality(Before(x)) # Cardinality(Before(y))
    BY <1>2, <2>1, FS_Subset
  <2>3. Cardinality(Before(x)) \in Nat /\ Cardinality(Before(y)) \in Nat
    BY <1>2
  <2> HIDE DEF Before
  <2>4. QED
    BY <2>2, <2>3
<1>5. \A x, y \in S : Place(x) = Place(y) => x = y
  <2> SUFFICES ASSUME NEW x \in S, NEW y \in S, x # y
               PROVE  Place(x) # Place(y)
    OBVIOUS
  <2>1. <<x, y>> \in before \/ <<y, x>> \in before
    BY DEF Orders
  <2>2. QED
    BY <1>3, <1>4, <2>1
<1>6. \A k \in 1 .. n : \E x \in S : Place(x) = k
  <2>1. place \in [S -> 1 .. n] /\ \A x, y \in S : place[x] = place[y] => x = y
    BY <1>3, <1>5
  <2>2. place \in Injection(S, 1 .. n)
    BY <2>1, Fun_IsInj
  <2>3. IsFiniteSet(1 .. n) /\ Cardinality(1 .. n) = n
    BY <1>1, FS_Interval
  <2>4. place \in Surjection(S, 1 .. n)
    BY <2>2, <2>3, FS_Injection
  <2>5. \A k \in 1 .. n : \E x \in S : place[x] = k
    <3> HIDE DEF place, n
    <3>1. QED
      BY <2>4, Fun_SurjectionProperties
  <2>6. QED
    BY <2>5
<1>7. s = [k \in 1 .. n |-> CHOOSE x \in S : Place(x) = k]
  BY DEF InOrder
<1>8. \A k \in 1 .. n : s[k] \in S /\ Place(s[k]) = k
  BY <1>6, <1>7
<1> HIDE DEF Place, s, place
<1>9. s \in [1 .. n -> S]
  BY <1>7, <1>8
<1>10. Elements(s) = S
  <2>1. \A x \in S : s[Place(x)] = x
    BY <1>3, <1>5, <1>8
  <2>2. QED
    BY <1>3, <1>9, <2>1 DEF Elements
<1>11. ASSUME NEW i \in 1 .. n, NEW j \in 1 .. n, i < j
       PROVE  <<s[i], s[j]>> \in before
  <2>1. s[i] # s[j] /\ ~(Place(s[j]) < Place(s[i]))
    BY <1>1, <1>8, <1>11
  <2>2. QED
    BY <1>4, <1>8, <2>1 DEF Orders
<1>12. Increasing(s, before)
  BY <1>9, <1>11 DEF Increasing
<1>13. QED
  BY <1>1, <1>9, <1>10, <1>12 DEF s

\* There is but one way to put a set in order.
LEMMA OneOrder ==
  ASSUME NEW S, NEW before, Orders(before, S),
         NEW s \in Seq(S), NEW t \in Seq(S), Elements(s) = Elements(t),
         Increasing(s, before), Increasing(t, before)
  PROVE  s = t
<1>1. /\ DOMAIN s = 1 .. Len(s) /\ Len(s) \in Nat /\ \A i \in DOMAIN s : s[i] \in S
      /\ DOMAIN t = 1 .. Len(t) /\ Len(t) \in Nat /\ \A i \in DOMAIN t : t[i] \in S
  BY LenProperties, ElementOfSeq
<1>2. \A i, j \in DOMAIN s : i < j => <<s[i], s[j]>> \in before
  BY DEF Increasing
<1>3. \A i, j \in DOMAIN t : i < j => <<t[i], t[j]>> \in before
  BY DEF Increasing
<1>4. ASSUME NEW i \in DOMAIN s, NEW j \in DOMAIN s, s[i] = s[j]
      PROVE  i = j
  <2>1. ~(i < j) /\ ~(j < i)
    BY <1>1, <1>2, <1>4 DEF Orders
  <2>2. QED
    BY <1>1, <2>1
<1>5. ASSUME NEW i \in DOMAIN t, NEW j \in DOMAIN t, t[i] = t[j]
      PROVE  i = j
  <2>1. ~(i < j) /\ ~(j < i)
    BY <1>1, <1>3, <1>5 DEF Orders
  <2>2. QED
    BY <1>1, <2>1
<1>6. /\ \A i \in DOMAIN s : \E j \in DOMAIN t : t[j] = s[i]
      /\ \A j \in DOMAIN t : \E i \in DOMAIN s : t[j] = s[i]
  BY DEF Elements
<1> DEFINE D == {k \in DOMAIN s : k \notin DOMAIN t \/ s[k] # t[k]}
<1>7. D = {}
  <2> SUFFICES ASSUME D # {}
               PROVE  FALSE
    OBVIOUS
  <2>1. D \in SUBSET Nat
    BY <1>1
  <2>2. PICK k \in D : \A m \in D : k <= m
    BY <2>1, LeastNatural
  <2>3. k \in DOMAIN s /\ \A i \in DOMAIN s : i < k => i \in DOMAIN t /\ s[i] = t[i]
    BY <1>1, <2>2
  <2>4. PICK j \in DOMAIN t : t[j] = s[k]
    BY <1>6, <2>3
  <2>5. ~(j < k)
    <3>1. j < k => j \in DOMAIN s
      BY <1>1, <2>3
    <3>2. QED
      BY <1>1, <1>4, <2>3, <2>4, <3>1
  <2>6. k \in DOMAIN t /\ k < j
    BY <1>1, <2>2, <2>3, <2>4, <2>5
  <2>7. PICK i \in DOMAIN s : t[k] = s[i]
    BY <1>6, <2>6
  <2>8. k < i
    BY <1>1, <1>5, <2>2, <2>3, <2>6, <2>7
  <2>9. <<s[k], s[i]>> \in before /\ <<s[i], s[k]>> \in before
    BY <1>2, <1>3, <2>3, <2>4, <2>6, <2>7, <2>8
  <2>10. QED
    BY <1>1, <2>3, <2>7, <2>9 DEF Orders
<1>8. Len(t) <= Len(s)
  <2> SUFFICES ASSUME Len(s) < Len(t)
               PROVE  FALSE
    BY <1>1
  <2>1. Len(s) + 1 \in DOMAIN t
    BY <1>1
  <2>2. PICK i \in DOMAIN s : t[Len(s) + 1] = s[i]
    BY <1>6, <2>1
  <2>3. i \in DOMAIN t /\ t[i] = t[Len(s) + 1]
    BY <1>7, <2>2
  <2>4. QED
    BY <1>1, <1>5, <2>1, <2>2, <2>3
<1>9. Len(s) = Len(t)
  <2>1. ~(Len(t) < Len(s))
    <3>1. Len(t) < Len(s) => Len(s) \in DOMAIN s /\ Len(s) \notin DOMAIN t
      BY <1>1
    <3>2. QED
      BY <1>7, <3>1
  <2>2. Len(s) \in Nat /\ Len(t) \in Nat
    BY <1>1
  <2>3. QED
    BY <1>8, <2>1, <2>2
<1>10. QED
  BY <1>1, <1>7, <1>9, SeqEqual

-----------------------------------------------------------------------------
(* Kept *)

\* The places of s that are kept, in their order.
Keeping(at, s, S) ==
    /\ Elements(at) = {i \in DOMAIN s : s[i] \in S}
    /\ \A i, j \in DOMAIN at : i < j => at[i] < at[j]
    /\ Kept(s, S) = [k \in DOMAIN at |-> s[at[k]]]

\* What is kept of a sequence are those of its places whose member is wanted.
LEMMA KeptPlaces ==
  ASSUME NEW s, NEW T, s \in Seq(T), NEW S
  PROVE  /\ Kept(s, S) \in Seq(T)
         /\ \E at \in Seq(DOMAIN s) : Keeping(at, s, S)
<1> DEFINE kept == {i \in DOMAIN s : s[i] \in S}
           before == {ij \in kept \X kept : ij[1] < ij[2]}
           at == InOrder(kept, before)
<1>1. DOMAIN s = 1 .. Len(s) /\ Len(s) \in Nat
  BY LenProperties
<1>2. IsFiniteSet(kept)
  <2>1. IsFiniteSet(1 .. Len(s))
    BY <1>1, FS_Interval
  <2>2. QED
    BY <1>1, <2>1, FS_Subset
<1>3. Orders(before, kept)
  BY <1>1 DEF Orders
<1>4. /\ Cardinality(kept) \in Nat /\ at \in [1 .. Cardinality(kept) -> kept]
      /\ Elements(at) = kept /\ Increasing(at, before)
  BY <1>2, <1>3, InOrderOrders
<1>5. \A i, j \in DOMAIN at : i < j => at[i] < at[j]
  BY <1>4 DEF Increasing
<1>6. at \in Seq(DOMAIN s)
  <2>1. at \in [1 .. Cardinality(kept) -> DOMAIN s]
    BY <1>4
  <2>2. QED
    BY <1>4, <2>1, SeqDef
<1>7. Kept(s, S) = [k \in DOMAIN at |-> s[at[k]]]
  BY DEF Kept
<1> HIDE DEF at
<1>8. Keeping(at, s, S)
  BY <1>4, <1>5, <1>7 DEF Keeping
<1>9. Kept(s, S) \in [1 .. Cardinality(kept) -> T]
  <2>1. \A i \in DOMAIN s : s[i] \in T
    BY ElementOfSeq, <1>1
  <2>2. QED
    BY <1>4, <1>7, <2>1
<1>10. Kept(s, S) \in Seq(T)
  <2> HIDE DEF kept
  <2>1. QED
    BY <1>4, <1>9, SeqDef
<1>11. QED
  BY <1>6, <1>8, <1>10

\* The members that are kept.
LEMMA KeptElements ==
  ASSUME NEW s, NEW T, s \in Seq(T), NEW S
  PROVE  Elements(Kept(s, S)) = Elements(s) \cap S
<1>1. PICK at \in Seq(DOMAIN s) : Keeping(at, s, S)
  BY KeptPlaces
<1>2. Elements(Kept(s, S)) = {s[i] : i \in {at[k] : k \in DOMAIN at}}
  BY <1>1 DEF Keeping, Elements
<1>3. {at[k] : k \in DOMAIN at} = {i \in DOMAIN s : s[i] \in S}
  BY <1>1 DEF Keeping, Elements
<1>4. QED
  BY <1>2, <1>3 DEF Elements

\* What is kept is still in whatever order it was in.
LEMMA KeptIncreasing ==
  ASSUME NEW s, NEW T, s \in Seq(T), NEW S, NEW before, Increasing(s, before)
  PROVE  Increasing(Kept(s, S), before)
<1>1. PICK at \in Seq(DOMAIN s) : Keeping(at, s, S)
  BY KeptPlaces
<1>2. \A i \in DOMAIN at : at[i] \in DOMAIN s
  BY <1>1, ElementOfSeq, LenProperties
<1>3. QED
  BY <1>1, <1>2 DEF Keeping, Increasing

\* A sequence without repetitions has every member in one place.
LEMMA NoRepeatsIsInjective ==
  ASSUME NEW s, NEW T, s \in Seq(T)
  PROVE  NoRepeats(s) <=> \A i, j \in DOMAIN s : s[i] = s[j] => i = j
<1>1. DOMAIN s = 1 .. Len(s) /\ Len(s) \in Nat /\ \A i \in DOMAIN s : s[i] \in T
  BY LenProperties, ElementOfSeq
<1>2. IsFiniteSet(DOMAIN s) /\ Cardinality(DOMAIN s) = Len(s)
  BY <1>1, FS_Interval
<1>3. s \in [DOMAIN s -> Elements(s)] /\ \A x \in Elements(s) : \E i \in DOMAIN s : s[i] = x
  <2>1. s = [i \in DOMAIN s |-> s[i]]
    BY <1>1
  <2>2. QED
    BY <2>1 DEF Elements
<1>4. s \in Surjection(DOMAIN s, Elements(s))
  BY <1>3, Fun_IsSurj
<1>5. Cardinality(Elements(s)) = Len(s) <=> s \in Injection(DOMAIN s, Elements(s))
  BY <1>2, <1>4, FS_Surjection
<1>6. s \in Injection(DOMAIN s, Elements(s)) <=> \A i, j \in DOMAIN s : s[i] = s[j] => i = j
  BY <1>3, Fun_IsInj, Fun_InjectionProperties
<1>7. QED
  BY <1>5, <1>6 DEF NoRepeats

-----------------------------------------------------------------------------
(* ByPriority *)

Sooner(providers, i, j) ==
    \/ providers[i].priority > providers[j].priority
    \/ providers[i].priority = providers[j].priority /\ i < j

LEMMA ProvidersType ==
  ASSUME NEW c, IsConfig(c)
  PROVE  /\ c.providers \in Seq(Elements(c.providers))
         /\ DOMAIN c.providers = 1 .. Len(c.providers) /\ Len(c.providers) \in Nat
         /\ \A i \in DOMAIN c.providers : c.providers[i].priority \in Int
<1>1. c.providers \in Seq(Elements(c.providers))
  BY DEF IsConfig, Elements
<1>2. QED
  BY <1>1, LenProperties DEF IsConfig

LEMMA ByPriorityPlaces ==
  ASSUME NEW c, IsConfig(c)
  PROVE  \E at : /\ at \in Seq(DOMAIN c.providers)
                 /\ Elements(at) = DOMAIN c.providers
                 /\ \A i, j \in DOMAIN at : i < j => Sooner(c.providers, at[i], at[j])
                 /\ ByPriority(c.providers) = [k \in DOMAIN at |-> c.providers[at[k]]]
<1> DEFINE providers == c.providers
           indices == DOMAIN providers
           before == {ij \in indices \X indices : Sooner(providers, ij[1], ij[2])}
           at == InOrder(indices, before)
<1>1. indices = 1 .. Len(providers) /\ Len(providers) \in Nat
  BY ProvidersType
<1>2. \A i \in indices : providers[i].priority \in Int
  BY ProvidersType
<1>3. IsFiniteSet(indices)
  BY <1>1, FS_Interval
<1>4. Orders(before, indices)
  <2> HIDE DEF providers, indices
  <2>1. \A x \in indices : <<x, x>> \notin before
    BY <1>1, <1>2 DEF Sooner
  <2>2. \A x, y \in indices : x = y \/ <<x, y>> \in before \/ <<y, x>> \in before
    BY <1>1, <1>2 DEF Sooner
  <2>3. \A x, y, z \in indices : <<x, y>> \in before /\ <<y, z>> \in before => <<x, z>> \in before
    BY <1>1, <1>2 DEF Sooner
  <2>4. QED
    BY <2>1, <2>2, <2>3 DEF Orders
<1>5. /\ Cardinality(indices) \in Nat /\ at \in [1 .. Cardinality(indices) -> indices]
      /\ Elements(at) = indices /\ Increasing(at, before)
  BY <1>3, <1>4, InOrderOrders
<1>6. at \in Seq(indices)
  <2> HIDE DEF at, indices
  <2>1. QED
    BY <1>5, SeqDef
<1>7. \A i, j \in DOMAIN at : i < j => Sooner(providers, at[i], at[j])
  BY <1>5 DEF Increasing
<1>8. ByPriority(providers) = [k \in DOMAIN at |-> providers[at[k]]]
  BY DEF ByPriority, Sooner
<1>9. QED
  BY <1>5, <1>6, <1>7, <1>8

-----------------------------------------------------------------------------
(* RouteProviders *)

Listed(c, m) == ~LegacyMode(c) /\ c.routes[m].providers # <<>>

\* Whom route m may use, and in which order it tries them.
Eligible(c, m) == IF Listed(c, m) THEN Elements(c.routes[m].providers) ELSE Names(c)

TriedBefore(c, m) ==
    IF Listed(c, m)
    THEN {ab \in Eligible(c, m) \X Eligible(c, m) :
             \E i, j \in DOMAIN c.routes[m].providers :
                /\ i < j
                /\ ab = <<c.routes[m].providers[i], c.routes[m].providers[j]>>}
    ELSE {ab \in Eligible(c, m) \X Eligible(c, m) :
             \E i, j \in DOMAIN c.providers :
                /\ Sooner(c.providers, i, j)
                /\ ab = <<c.providers[i].name, c.providers[j].name>>}

\* Names tell providers apart.
LEMMA NamesAreUnique ==
  ASSUME NEW c, IsConfig(c), Valid(c)
  PROVE  /\ \A i, j \in DOMAIN c.providers : c.providers[i].name = c.providers[j].name => i = j
         /\ \A p, q \in Elements(c.providers) : p.name = q.name => p = q
         /\ \A p \in Elements(c.providers) : Named(c, p.name) = p
         /\ \A name \in Names(c) : /\ Named(c, name) \in Elements(c.providers)
                                   /\ Named(c, name).name = name
<1>1. \A i, j \in DOMAIN c.providers : c.providers[i].name = c.providers[j].name => i = j
  BY DEF Valid
<1>2. \A p, q \in Elements(c.providers) : p.name = q.name => p = q
  BY <1>1 DEF Elements
<1>3. \A name \in Names(c) : \E p \in Elements(c.providers) : p.name = name
  BY DEF Names
<1>4. \A name \in Names(c) : Named(c, name) \in Elements(c.providers) /\ Named(c, name).name = name
  BY <1>3 DEF Named
<1>5. \A p \in Elements(c.providers) : p.name \in Names(c)
  BY DEF Names
<1>6. \A p \in Elements(c.providers) : Named(c, p.name) = p
  BY <1>2, <1>4, <1>5
<1>7. QED
  BY <1>1, <1>2, <1>4, <1>6

\* The list of a route names configured providers, each once.
LEMMA ListedNames ==
  ASSUME NEW c, IsConfig(c), Valid(c), NEW m \in RouteNames(c), Listed(c, m)
  PROVE  /\ m \in DOMAIN c.routes
         /\ c.routes[m].providers \in Seq(Eligible(c, m))
         /\ Eligible(c, m) \subseteq Names(c)
         /\ \A i, j \in DOMAIN c.routes[m].providers :
               c.routes[m].providers[i] = c.routes[m].providers[j] => i = j
<1>1. m \in DOMAIN c.routes /\ ValidRoute(c, m)
  BY DEF Listed, RouteNames, Valid, ValidRoutes
<1>2. c.routes[m].providers \in Seq(Elements(c.routes[m].providers))
  BY <1>1 DEF IsConfig, Elements
<1>3. NoRepeats(c.routes[m].providers) /\ Elements(c.routes[m].providers) \subseteq Names(c)
  BY <1>1 DEF ValidRoute
<1>4. QED
  BY <1>1, <1>2, <1>3, NoRepeatsIsInjective DEF Eligible

\* Validate looks for the providers of a route where the server does.
LEMMA CandidatesAreEligible ==
  ASSUME NEW c, IsConfig(c), Valid(c), NEW m \in DOMAIN c.routes
  PROVE  Candidates(c, m) = {p \in Elements(c.providers) : p.name \in Eligible(c, m)}
<1>1. m \in RouteNames(c) /\ ~LegacyMode(c)
  BY DEF RouteNames, LegacyMode
<1>2. CASE Listed(c, m)
  <2>1. Eligible(c, m) \subseteq Names(c) /\ Eligible(c, m) = Elements(c.routes[m].providers)
    BY <1>1, <1>2, ListedNames DEF Eligible
  <2>2. Candidates(c, m) = {Named(c, name) : name \in Eligible(c, m)}
    BY <1>2, <2>1 DEF Candidates, Listed
  <2>3. QED
    BY <2>1, <2>2, NamesAreUnique
<1>3. CASE ~Listed(c, m)
  BY <1>1, <1>3 DEF Candidates, Listed, Eligible, Names
<1>4. QED
  BY <1>2, <1>3

LEMMA TriedBeforeOrders ==
  ASSUME NEW c, IsConfig(c), Valid(c), NEW m \in RouteNames(c)
  PROVE  Orders(TriedBefore(c, m), Eligible(c, m))
<1>1. CASE Listed(c, m)
  <2> DEFINE names == c.routes[m].providers
             S == Eligible(c, m)
             before == TriedBefore(c, m)
  <2>1. \A i, j \in DOMAIN names : names[i] = names[j] => i = j
    BY <1>1, ListedNames
  <2>2. DOMAIN names \subseteq Nat
    BY <1>1, ListedNames, LenProperties
  <2>3. S = {names[i] : i \in DOMAIN names}
    BY <1>1 DEF Eligible, Elements
  <2>4. \A i, j \in DOMAIN names : <<names[i], names[j]>> \in before <=> i < j
    BY <1>1, <2>1, <2>3 DEF TriedBefore
  <2> HIDE DEF names, S, before
  <2>5. \A x \in S : <<x, x>> \notin before
    BY <2>2, <2>3, <2>4
  <2>6. \A x, y \in S : x = y \/ <<x, y>> \in before \/ <<y, x>> \in before
    BY <2>2, <2>3, <2>4
  <2>7. \A x, y, z \in S : <<x, y>> \in before /\ <<y, z>> \in before => <<x, z>> \in before
    BY <2>2, <2>3, <2>4
  <2>8. Orders(before, S)
    BY <2>5, <2>6, <2>7 DEF Orders
  <2>9. QED
    BY <2>8 DEF S, before
<1>2. CASE ~Listed(c, m)
  <2> DEFINE ps == c.providers
             S == Eligible(c, m)
             before == TriedBefore(c, m)
  <2>1. \A i, j \in DOMAIN ps : ps[i].name = ps[j].name => i = j
    BY NamesAreUnique
  <2>2. DOMAIN ps \subseteq Nat /\ \A i \in DOMAIN ps : ps[i].priority \in Int
    BY ProvidersType
  <2>3. S = {ps[i].name : i \in DOMAIN ps}
    BY <1>2 DEF Eligible, Names, Elements
  <2>4. \A i, j \in DOMAIN ps : <<ps[i].name, ps[j].name>> \in before <=> Sooner(ps, i, j)
    BY <1>2, <2>1, <2>3 DEF TriedBefore
  <2> HIDE DEF ps, S, before
  <2>5. \A x \in S : <<x, x>> \notin before
    BY <2>2, <2>3, <2>4 DEF Sooner
  <2>6. \A x, y \in S : x = y \/ <<x, y>> \in before \/ <<y, x>> \in before
    BY <2>2, <2>3, <2>4 DEF Sooner
  <2>7. ASSUME NEW x \in S, NEW y \in S, NEW z \in S, <<x, y>> \in before, <<y, z>> \in before
        PROVE  <<x, z>> \in before
    <3>1. PICK i \in DOMAIN ps, j \in DOMAIN ps, k \in DOMAIN ps :
             x = ps[i].name /\ y = ps[j].name /\ z = ps[k].name
      BY <2>3
    <3>2. Sooner(ps, i, j) /\ Sooner(ps, j, k)
      BY <2>4, <2>7, <3>1
    <3>3. Sooner(ps, i, k)
      BY <2>2, <3>2 DEF Sooner
    <3>4. QED
      BY <2>4, <3>1, <3>3
  <2>8. Orders(before, S)
    BY <2>5, <2>6, <2>7 DEF Orders
  <2>9. QED
    BY <2>8 DEF S, before
<1>3. QED
  BY <1>1, <1>2

\* Those the route may use, the sorted ones or the listed ones, before those
\* who do not serve the model are left out.
Tried(c, m) ==
    IF Listed(c, m)
    THEN [i \in DOMAIN c.routes[m].providers |-> Named(c, c.routes[m].providers[i])]
    ELSE ByPriority(c.providers)

LEMMA TriedInOrder ==
  ASSUME NEW c, IsConfig(c), Valid(c), NEW m \in RouteNames(c)
  PROVE  /\ Tried(c, m) \in Seq(Elements(c.providers))
         /\ Elements(Tried(c, m)) = {p \in Elements(c.providers) : p.name \in Eligible(c, m)}
         /\ \A i, j \in DOMAIN Tried(c, m) :
               i < j => <<Tried(c, m)[i].name, Tried(c, m)[j].name>> \in TriedBefore(c, m)
<1>1. CASE Listed(c, m)
  <2> DEFINE names == c.routes[m].providers
             t == [i \in DOMAIN names |-> Named(c, names[i])]
  <2>1. Tried(c, m) = t
    BY <1>1 DEF Tried
  <2>2. names \in Seq(Eligible(c, m)) /\ Eligible(c, m) \subseteq Names(c)
    BY <1>1, ListedNames
  <2>3. DOMAIN names = 1 .. Len(names) /\ Len(names) \in Nat
    BY <2>2, LenProperties
  <2>4. Eligible(c, m) = {names[i] : i \in DOMAIN names}
    BY <1>1 DEF Eligible, Elements
  <2>5. \A i \in DOMAIN names : t[i] \in Elements(c.providers) /\ t[i].name = names[i]
    BY <2>2, <2>4, NamesAreUnique
  <2>6. \A i, j \in DOMAIN names : i < j => <<names[i], names[j]>> \in TriedBefore(c, m)
    BY <1>1, <2>4 DEF TriedBefore
  <2>7. DOMAIN t = DOMAIN names
    OBVIOUS
  <2>8. Elements(t) = {p \in Elements(c.providers) : p.name \in Eligible(c, m)}
    <3>1. \A p \in Elements(c.providers), i \in DOMAIN names : p.name = names[i] => p = t[i]
      BY <2>5, NamesAreUnique
    <3>2. Elements(t) = {t[i] : i \in DOMAIN names}
      BY <2>7 DEF Elements
    <3> HIDE DEF t, names
    <3>3. QED
      BY <2>4, <2>5, <3>1, <3>2
  <2>9. t \in Seq(Elements(c.providers))
    <3>1. t \in [1 .. Len(names) -> Elements(c.providers)]
      BY <2>3, <2>5
    <3> HIDE DEF t, names
    <3>2. QED
      BY <2>3, <3>1, SeqDef
  <2> HIDE DEF t
  <2>10. QED
    BY <2>1, <2>5, <2>6, <2>7, <2>8, <2>9
<1>2. CASE ~Listed(c, m)
  <2> DEFINE ps == c.providers
  <2>1. PICK at \in Seq(DOMAIN ps) :
            /\ Elements(at) = DOMAIN ps
            /\ \A i, j \in DOMAIN at : i < j => Sooner(ps, at[i], at[j])
            /\ ByPriority(ps) = [k \in DOMAIN at |-> ps[at[k]]]
    BY ByPriorityPlaces
  <2> DEFINE t == [k \in DOMAIN at |-> ps[at[k]]]
  <2>2. Tried(c, m) = t
    BY <1>2, <2>1 DEF Tried
  <2>3. DOMAIN at = 1 .. Len(at) /\ Len(at) \in Nat /\ \A k \in DOMAIN at : at[k] \in DOMAIN ps
    BY LenProperties, ElementOfSeq
  <2>4. Eligible(c, m) = Names(c)
    BY <1>2 DEF Eligible
  <2>5. \A i, j \in DOMAIN at : i < j => <<t[i].name, t[j].name>> \in TriedBefore(c, m)
    BY <1>2, <2>1, <2>3, <2>4 DEF TriedBefore, Names, Elements
  <2>6. Elements(t) = Elements(ps)
    <3>1. Elements(t) = {ps[i] : i \in {at[k] : k \in DOMAIN at}}
      BY DEF Elements
    <3>2. {at[k] : k \in DOMAIN at} = DOMAIN ps
      BY <2>1 DEF Elements
    <3>3. QED
      BY <3>1, <3>2 DEF Elements
  <2>7. Elements(ps) = {p \in Elements(ps) : p.name \in Eligible(c, m)}
    BY <2>4 DEF Names
  <2>8. t \in Seq(Elements(ps))
    <3>1. t \in [1 .. Len(at) -> Elements(ps)]
      BY <2>3 DEF Elements
    <3> HIDE DEF t
    <3>2. QED
      BY <2>3, <3>1, SeqDef
  <2>9. DOMAIN t = DOMAIN at
    OBVIOUS
  <2> HIDE DEF t
  <2>10. QED
    BY <2>2, <2>5, <2>6, <2>7, <2>8, <2>9
<1>3. QED
  BY <1>1, <1>2

\* The providers of a route: those it may use that serve the model, tried in
\* the order of its list, else by priority and, among equals, as configured.
LEMMA RouteProvidersInOrder ==
  ASSUME NEW c, IsConfig(c), Valid(c), NEW m \in RouteNames(c)
  PROVE  /\ RouteProviders(c, m) \in Seq(Eligible(c, m))
         /\ Elements(RouteProviders(c, m)) =
               {p.name : p \in {p \in Elements(c.providers) :
                                   p.name \in Eligible(c, m) /\ Serves(p, m)}}
         /\ Increasing(RouteProviders(c, m), TriedBefore(c, m))
<1> DEFINE t == Tried(c, m)
           S == {p \in Elements(t) : Serves(p, m)}
           serving == Kept(t, S)
           names == RouteProviders(c, m)
<1>1. /\ t \in Seq(Elements(c.providers))
      /\ Elements(t) = {p \in Elements(c.providers) : p.name \in Eligible(c, m)}
      /\ \A i, j \in DOMAIN t : i < j => <<t[i].name, t[j].name>> \in TriedBefore(c, m)
  BY TriedInOrder
<1>2. names = [i \in DOMAIN serving |-> serving[i].name]
  BY DEF RouteProviders, Tried, Listed
<1>3. Elements(serving) = S
  BY <1>1, KeptElements
<1>4. Elements(names) = {p.name : p \in S}
  <2>1. Elements(names) = {names[i] : i \in DOMAIN serving}
    BY <1>2 DEF Elements
  <2>2. S = {serving[i] : i \in DOMAIN serving}
    BY <1>3 DEF Elements
  <2>3. \A i \in DOMAIN serving : names[i] = serving[i].name
    BY <1>2
  <2> HIDE DEF names, serving, S
  <2>4. QED
    BY <2>1, <2>2, <2>3
<1>5. names \in Seq(Eligible(c, m))
  <2>1. DOMAIN serving = 1 .. Len(serving) /\ Len(serving) \in Nat
    BY <1>1, KeptPlaces, LenProperties
  <2>2. \A i \in DOMAIN serving : serving[i].name \in Eligible(c, m)
    BY <1>1, <1>3 DEF Elements
  <2>3. names \in [1 .. Len(serving) -> Eligible(c, m)]
    BY <1>2, <2>1, <2>2
  <2> HIDE DEF names, serving
  <2>4. QED
    BY <2>1, <2>3, SeqDef
<1>6. Increasing(names, TriedBefore(c, m))
  <2>1. PICK at \in Seq(DOMAIN t) : Keeping(at, t, S)
    BY <1>1, KeptPlaces
  <2>2. \A k \in DOMAIN at : at[k] \in DOMAIN t
    BY <2>1, ElementOfSeq, LenProperties
  <2>3. DOMAIN names = DOMAIN at /\ \A k \in DOMAIN at : names[k] = t[at[k]].name
    BY <1>2, <2>1 DEF Keeping
  <2>4. \A i, j \in DOMAIN at : i < j => at[i] < at[j]
    BY <2>1 DEF Keeping
  <2>5. ASSUME NEW i \in DOMAIN names, NEW j \in DOMAIN names, i < j
        PROVE  <<names[i], names[j]>> \in TriedBefore(c, m)
    <3> HIDE DEF names, t
    <3>1. at[i] \in DOMAIN t /\ at[j] \in DOMAIN t /\ at[i] < at[j]
      BY <2>2, <2>3, <2>4, <2>5
    <3>2. QED
      BY <1>1, <2>3, <3>1
  <2>6. QED
    BY <2>5 DEF Increasing
<1>7. QED
  BY <1>1, <1>4, <1>5, <1>6
=============================================================================
