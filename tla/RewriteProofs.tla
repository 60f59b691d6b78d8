--------------------------- MODULE RewriteProofs ---------------------------
(***************************************************************************)
(* Proofs about Rewrite.tla, for any requests.                             *)
(*                                                                         *)
(* The expansion is a recursive function, so the first thing to show is    *)
(* that there is one: every call it makes has a smaller rank, for it is    *)
(* for a schema further down, or resolves one reference more.  What fails  *)
(* and what a result says are then followed from each call to those it     *)
(* makes, by the call of least rank that could be wrong.                   *)
(***************************************************************************)
EXTENDS Rewrite, FiniteSetTheorems, SequenceTheorems, NaturalsInduction, TLAPS

\* Every set of naturals has a least member.
LEMMA LeastNatural ==
  ASSUME NEW S \in SUBSET Nat, S # {}
  PROVE  \E n \in S : \A m \in S : n <= m
<1>1. IsWellFoundedOn(OpToRel(<, Nat), Nat)
  BY NatLessThanWellFounded
<1>2. PICK n \in S : \A m \in S : <<m, n>> \notin OpToRel(<, Nat)
  BY <1>1, WFMin
<1>3. \A m \in S : ~(m < n)
  BY <1>2 DEF OpToRel
<1>4. QED
  BY <1>3

-----------------------------------------------------------------------------
(* Calls and their ranks. *)

Parts(schema) == schema.allOf \cup schema.items

Target(params, call) ==
    <<params.nodes[call[1]].ref, call[2] \cup {params.nodes[call[1]].ref}>>

\* The reference of a call's schema leads to one that is not being resolved.
Leads(params, call) ==
    /\ params.nodes[call[1]].ref # Nil
    /\ Resolves(params, params.nodes[call[1]].ref) /\ params.nodes[call[1]].ref \notin call[2]

\* The calls that a call makes.
Makes(params, call) ==
    {<<q, call[2]>> : q \in Parts(params.nodes[call[1]])}
        \cup (IF Leads(params, call) THEN {Target(params, call)} ELSE {})

\* The references still to be resolved, and the places further down.
Unresolved(params, call) == References(params) \ call[2]
Deeper(params, call) == {q \in DOMAIN params.nodes : Len(q) > Len(call[1])}

Rank(params, call) ==
    Cardinality(Unresolved(params, call)) * (Cardinality(DOMAIN params.nodes) + 1)
        + Cardinality(Deeper(params, call))

LEMMA OneLess ==
  ASSUME NEW a \in Nat, NEW b \in Nat, b < a, NEW n \in Nat, NEW c \in Nat, NEW d \in Nat, d <= n
  PROVE  b * (n + 1) + d < a * (n + 1) + c
<1>1. PICK k \in Nat : a = b + 1 + k
  <2>1. a - b - 1 \in Nat /\ a = b + 1 + (a - b - 1)
    OBVIOUS
  <2>2. QED
    BY <2>1
<1>2. a * (n + 1) = b * (n + 1) + (n + 1) + k * (n + 1)
  BY <1>1
<1>3. b * (n + 1) \in Nat /\ k * (n + 1) \in Nat
  OBVIOUS
<1>4. QED
  BY <1>2, <1>3

LEMMA Finite ==
  ASSUME NEW params, IsDocument(params), NEW call
  PROVE  /\ IsFiniteSet(Unresolved(params, call)) /\ Cardinality(Unresolved(params, call)) \in Nat
         /\ IsFiniteSet(Deeper(params, call)) /\ Cardinality(Deeper(params, call)) \in Nat
         /\ Cardinality(DOMAIN params.nodes) \in Nat
         /\ Cardinality(Deeper(params, call)) <= Cardinality(DOMAIN params.nodes)
         /\ Rank(params, call) \in Nat
<1> DEFINE places == DOMAIN params.nodes
           refs == {params.nodes[p].ref : p \in places}
<1>1. IsFiniteSet(places)
  BY DEF IsDocument
<1>2. IsFiniteSet(refs)
  <2>1. [p \in places |-> params.nodes[p].ref] \in Surjection(places, refs)
    BY DEF Surjection
  <2>2. QED
    BY <1>1, <2>1, FS_Surjection
<1>3. Unresolved(params, call) \subseteq refs /\ Deeper(params, call) \subseteq places
  BY DEF Unresolved, References, Deeper
<1>4. IsFiniteSet(Unresolved(params, call))
  BY <1>2, <1>3, FS_Subset
<1>5. IsFiniteSet(Deeper(params, call)) /\ Cardinality(Deeper(params, call)) <= Cardinality(places)
  BY <1>1, <1>3, FS_Subset
<1>6. /\ Cardinality(Unresolved(params, call)) \in Nat /\ Cardinality(Deeper(params, call)) \in Nat
      /\ Cardinality(places) \in Nat
  BY <1>1, <1>4, <1>5, FS_CardinalityType
<1>7. Rank(params, call) \in Nat
  BY <1>6 DEF Rank
<1>8. QED
  BY <1>4, <1>5, <1>6, <1>7

\* Every call that a call makes has a smaller rank.
LEMMA RankFalls ==
  ASSUME NEW params, IsDocument(params), NEW x \in Calls(params), NEW y \in Makes(params, x)
  PROVE  y \in Calls(params) /\ Rank(params, y) < Rank(params, x)
<1> DEFINE n == Cardinality(DOMAIN params.nodes)
<1>1. /\ x[1] \in DOMAIN params.nodes /\ x[2] \in SUBSET References(params)
      /\ DOMAIN params.nodes \subseteq Seq(STRING)
      /\ \A q \in Parts(params.nodes[x[1]]) : q \in DOMAIN params.nodes /\ Len(q) > Len(x[1])
  BY DEF Calls, IsDocument, Parts
<1>2. CASE \E q \in Parts(params.nodes[x[1]]) : y = <<q, x[2]>>
  <2>1. PICK q \in Parts(params.nodes[x[1]]) : y = <<q, x[2]>>
    BY <1>2
  <2>2. y \in Calls(params)
    BY <1>1, <2>1 DEF Calls
  <2>3. Unresolved(params, y) = Unresolved(params, x)
    BY <2>1 DEF Unresolved
  <2>4. q \in DOMAIN params.nodes /\ Len(q) > Len(x[1]) /\ Len(q) \in Nat /\ Len(x[1]) \in Nat
    BY <1>1
  <2>5. /\ Deeper(params, y) \subseteq Deeper(params, x)
        /\ q \in Deeper(params, x) /\ q \notin Deeper(params, y)
    <3>1. y[1] = q
      BY <2>1
    <3>2. \A z \in DOMAIN params.nodes : Len(z) \in Nat
      BY <1>1
    <3>3. QED
      BY <2>4, <3>1, <3>2 DEF Deeper
  <2>6. Cardinality(Deeper(params, y)) < Cardinality(Deeper(params, x))
    <3>1. /\ IsFiniteSet(Deeper(params, x))
          /\ Deeper(params, y) # Deeper(params, x)
      BY <2>5, Finite
    <3>2. /\ Cardinality(Deeper(params, y)) <= Cardinality(Deeper(params, x))
          /\ Cardinality(Deeper(params, y)) # Cardinality(Deeper(params, x))
      BY <2>5, <3>1, FS_Subset
    <3>3. Cardinality(Deeper(params, x)) \in Nat /\ Cardinality(Deeper(params, y)) \in Nat
      BY Finite
    <3>4. QED
      BY <3>2, <3>3
  <2>7. PICK a, b, c, m : /\ a = Cardinality(Unresolved(params, x)) /\ b = Cardinality(Deeper(params, x))
                          /\ c = Cardinality(Deeper(params, y)) /\ m = a * (n + 1)
    OBVIOUS
  <2>8. a \in Nat /\ b \in Nat /\ c \in Nat /\ n \in Nat /\ c < b /\ m \in Nat
    BY <2>6, <2>7, Finite
  <2>9. Rank(params, x) = m + b /\ Rank(params, y) = m + c
    BY <2>3, <2>7 DEF Rank
  <2>10. QED
    BY <2>2, <2>8, <2>9
<1>3. CASE Leads(params, x) /\ y = Target(params, x)
  <2>1. PICK t : t = params.nodes[x[1]].ref
    OBVIOUS
  <2>2. /\ t # Nil /\ t \in DOMAIN params.nodes /\ t \notin x[2] /\ y = <<t, x[2] \cup {t}>>
        /\ t \in References(params)
    BY <1>1, <1>3, <2>1 DEF Leads, Resolves, Target, References
  <2>3. y \in Calls(params)
    BY <1>1, <2>2 DEF Calls
  <2>4. Unresolved(params, y) \subseteq Unresolved(params, x) /\ t \in Unresolved(params, x) /\ t \notin Unresolved(params, y)
    BY <2>2 DEF Unresolved
  <2>5. Cardinality(Unresolved(params, y)) < Cardinality(Unresolved(params, x))
    <3>1. IsFiniteSet(Unresolved(params, x)) /\ Unresolved(params, y) # Unresolved(params, x)
      BY <2>4, Finite
    <3>2. /\ Cardinality(Unresolved(params, y)) <= Cardinality(Unresolved(params, x))
          /\ Cardinality(Unresolved(params, y)) # Cardinality(Unresolved(params, x))
      BY <2>4, <3>1, FS_Subset
    <3>3. Cardinality(Unresolved(params, x)) \in Nat /\ Cardinality(Unresolved(params, y)) \in Nat
      BY Finite
    <3>4. QED
      BY <3>2, <3>3
  <2>6. /\ Cardinality(Unresolved(params, x)) \in Nat /\ Cardinality(Unresolved(params, y)) \in Nat
        /\ Cardinality(Deeper(params, x)) \in Nat /\ Cardinality(Deeper(params, y)) \in Nat
        /\ Cardinality(Deeper(params, y)) <= n /\ n \in Nat
    BY Finite
  <2>7. QED
    BY <2>3, <2>5, <2>6, OneLess DEF Rank
<1>4. QED
  BY <1>2, <1>3 DEF Makes

\* What holds of a call if it holds of those it makes holds of all calls.
LEMMA CallInduction ==
  ASSUME NEW params, IsDocument(params), NEW T \in SUBSET Calls(params), NEW S,
         \A x \in T : (\A y \in Makes(params, x) \cap T : y \in S) => x \in S
  PROVE  \A x \in T : x \in S
<1> DEFINE ranks == {Rank(params, x) : x \in T \ S}
<1> SUFFICES ASSUME T \ S # {}
             PROVE  FALSE
  OBVIOUS
<1>1. ranks # {} /\ ranks \in SUBSET Nat
  BY Finite
<1>2. PICK n \in ranks : \A m \in ranks : n <= m
  BY <1>1, LeastNatural
<1>3. PICK x \in T \ S : n = Rank(params, x)
  BY <1>2
<1>4. ASSUME NEW y \in Makes(params, x), y \in T, y \notin S
      PROVE  FALSE
  <2>1. Rank(params, y) < Rank(params, x) /\ Rank(params, y) \in Nat /\ Rank(params, x) \in Nat
    BY RankFalls, Finite
  <2>2. Rank(params, y) \in ranks
    BY <1>4
  <2>3. QED
    BY <1>2, <1>3, <2>1, <2>2
<1>5. QED
  BY <1>3, <1>4

-----------------------------------------------------------------------------
(* Expand *)

\* The result of a call depends on those of the calls it makes alone.
LEMMA ExpandIsLocal ==
  ASSUME NEW params, NEW x \in Calls(params), NEW f, NEW g, \A y \in Makes(params, x) : f[y] = g[y]
  PROVE  ExpandCall(params, f, x) = ExpandCall(params, g, x)
<1> DEFINE schema == Called(params.nodes[x[1]], x[2])
           target == Target(params, x)
<1>1. \A y \in schema.allOf \cup schema.items : f[y] = g[y]
  BY DEF Called, Makes, Parts
<1>2. /\ schema.ref = params.nodes[x[1]].ref
      /\ target = <<schema.ref, x[2] \cup {schema.ref}>>
  BY DEF Called, Target
<1>3. schema.ref # Nil /\ Resolves(params, schema.ref) /\ schema.ref \notin x[2] => f[target] = g[target]
  BY <1>2 DEF Makes, Leads
<1>4. /\ Join(schema, target).allOf = schema.allOf \cup {target}
      /\ Join(schema, target).items = schema.items
  BY DEF Join
<1> HIDE DEF schema, target
<1>5. Whole(f, schema) = Whole(g, schema)
  BY <1>1 DEF Whole
<1>6. f[target] = g[target] => Whole(f, Join(schema, target)) = Whole(g, Join(schema, target))
  BY <1>1, <1>4 DEF Whole
<1>7. schema.ref # Nil => Follow(params, f, schema, x[2]) = Follow(params, g, schema, x[2])
  BY <1>2, <1>3, <1>6 DEF Follow
<1>8. QED
  BY <1>5, <1>7 DEF ExpandCall, schema

Expands(params, f) ==
    /\ DOMAIN f = Calls(params)
    /\ \A x \in Calls(params) : f[x] = ExpandCall(params, f, x)

LEMMA ExpandExists ==
  ASSUME NEW params, IsDocument(params)
  PROVE  \E f : f = [x \in Calls(params) |-> ExpandCall(params, f, x)]
<1> DEFINE UpTo(n) == \E f : \A x \in Calls(params) :
                         Rank(params, x) < n => f[x] = ExpandCall(params, f, x)
           Bad == {n \in Nat : ~UpTo(n)}
<1>1. UpTo(0)
  <2>1. \A x \in Calls(params) : ~(Rank(params, x) < 0)
    BY Finite
  <2>2. QED
    BY <2>1
<1>2. ASSUME NEW n \in Nat, UpTo(n)
      PROVE  UpTo(n + 1)
  <2>1. PICK f : \A x \in Calls(params) : Rank(params, x) < n => f[x] = ExpandCall(params, f, x)
    BY <1>2
  <2>2. PICK g : g = [x \in Calls(params) |-> ExpandCall(params, f, x)]
    OBVIOUS
  <2>3. \A x \in Calls(params) : g[x] = ExpandCall(params, f, x)
    BY <2>2
  <2>4. ASSUME NEW x \in Calls(params), Rank(params, x) < n + 1
        PROVE  g[x] = ExpandCall(params, g, x)
    <3>1. ASSUME NEW y \in Makes(params, x)
          PROVE  f[y] = g[y]
      <4>1. y \in Calls(params) /\ Rank(params, y) < Rank(params, x)
        BY RankFalls
      <4>2. Rank(params, y) \in Nat /\ Rank(params, x) \in Nat
        BY Finite
      <4>3. Rank(params, y) < n
        BY <2>4, <4>1, <4>2
      <4>4. QED
        BY <2>1, <2>3, <4>1, <4>3
    <3>2. ExpandCall(params, f, x) = ExpandCall(params, g, x)
      BY <3>1, ExpandIsLocal
    <3>3. QED
      BY <2>3, <3>2
  <2>5. QED
    BY <2>4
<1> HIDE DEF UpTo
<1>3. Bad = {}
  <2> SUFFICES ASSUME Bad # {}
               PROVE  FALSE
    OBVIOUS
  <2>1. PICK n \in Bad : \A m \in Bad : n <= m
    BY LeastNatural
  <2>2. n # 0 /\ n \in Nat
    BY <1>1, <2>1
  <2>3. n - 1 \in Nat /\ n - 1 \notin Bad /\ (n - 1) + 1 = n
    BY <2>1, <2>2
  <2>4. UpTo(n)
    BY <1>2, <2>3
  <2>5. QED
    BY <2>1, <2>4
<1>4. PICK n \in Nat : \A x \in Calls(params) : Rank(params, x) < n
  <2> DEFINE a == Cardinality(References(params))
             b == Cardinality(DOMAIN params.nodes)
  <2>1. References(params) = Unresolved(params, <<params.root, {}>>)
    BY DEF Unresolved
  <2>2. IsFiniteSet(References(params)) /\ a \in Nat /\ b \in Nat
    BY <2>1, Finite
  <2>3. (a + 1) * (b + 1) \in Nat
    BY <2>2
  <2>4. ASSUME NEW x \in Calls(params)
        PROVE  Rank(params, x) < (a + 1) * (b + 1)
    <3>1. Cardinality(Unresolved(params, x)) <= a
      BY <2>2, FS_Subset DEF Unresolved
    <3>2. /\ Cardinality(Unresolved(params, x)) \in Nat /\ Cardinality(Deeper(params, x)) \in Nat
          /\ Cardinality(Deeper(params, x)) <= b
      BY Finite
    <3>3. Cardinality(Unresolved(params, x)) < a + 1
      BY <2>2, <3>1, <3>2
    <3>4. Rank(params, x) < (a + 1) * (b + 1) + 0
      BY <2>2, <3>2, <3>3, OneLess DEF Rank
    <3>5. QED
      BY <2>3, <3>4
  <2>5. QED
    BY <2>3, <2>4
<1>5. PICK f : \A x \in Calls(params) : f[x] = ExpandCall(params, f, x)
  BY <1>3, <1>4 DEF UpTo
<1>6. PICK g : g = [x \in Calls(params) |-> f[x]]
  OBVIOUS
<1>7. \A x \in Calls(params) : g[x] = f[x]
  BY <1>6
<1>8. ASSUME NEW x \in Calls(params)
      PROVE  f[x] = ExpandCall(params, g, x)
  <2>1. \A y \in Makes(params, x) : f[y] = g[y]
    BY <1>7, RankFalls
  <2>2. QED
    BY <1>5, <2>1, ExpandIsLocal
<1>9. g = [x \in Calls(params) |-> ExpandCall(params, g, x)]
  BY <1>6, <1>8
<1>10. QED
  BY <1>9

\* The expansion is what the code makes of a call from what it makes of those
\* for its parts and its reference.
LEMMA ExpandIs ==
  ASSUME NEW params, IsDocument(params)
  PROVE  Expands(params, Expand(params))
<1>1. PICK f : f = Expand(params)
  OBVIOUS
<1>2. f = [x \in Calls(params) |-> ExpandCall(params, f, x)]
  BY <1>1, ExpandExists DEF Expand
<1>3. DOMAIN f = Calls(params) /\ \A x \in Calls(params) : f[x] = ExpandCall(params, f, x)
  BY <1>2
<1>4. QED
  BY <1>1, <1>3 DEF Expands

\* What a call needs to succeed, and the schema it then results in.
LEMMA Succeeds ==
  ASSUME NEW params, IsDocument(params), NEW f, Expands(params, f), NEW x \in Calls(params)
  PROVE  LET schema == Called(params.nodes[x[1]], x[2]) IN
         /\ ~f[x].failed <=> /\ schema.ref # Nil => Leads(params, x)
                             /\ \A y \in Makes(params, x) : ~f[y].failed
         /\ ~f[x].failed => f[x].schema = IF schema.ref = Nil THEN schema
                                          ELSE IF IsBare(schema) THEN f[Target(params, x)].schema
                                          ELSE Join(schema, Target(params, x))
<1> DEFINE schema == Called(params.nodes[x[1]], x[2])
           target == Target(params, x)
<1>1. f[x] = ExpandCall(params, f, x)
  BY DEF Expands
<1>2. /\ schema.ref = params.nodes[x[1]].ref /\ target = <<schema.ref, x[2] \cup {schema.ref}>>
      /\ schema.allOf \cup schema.items = {<<q, x[2]>> : q \in Parts(params.nodes[x[1]])}
  BY DEF Called, Target, Parts
<1>3. Leads(params, x) <=> /\ schema.ref # Nil
                          /\ Resolves(params, schema.ref) /\ schema.ref \notin x[2]
  BY <1>2 DEF Leads
<1>4. Makes(params, x) = schema.allOf \cup schema.items \cup (IF Leads(params, x) THEN {target} ELSE {})
  BY <1>2 DEF Makes
<1>5. Join(schema, target).allOf \cup Join(schema, target).items
         = schema.allOf \cup schema.items \cup {target}
  BY DEF Join
<1> HIDE DEF schema, target
<1>6. ASSUME NEW s
      PROVE  /\ ~Whole(f, s).failed <=> \A y \in s.allOf \cup s.items : ~f[y].failed
             /\ ~Whole(f, s).failed => Whole(f, s).schema = s
  BY DEF Whole, Error, Done
<1>7. CASE schema.ref = Nil
  <2>1. f[x] = Whole(f, schema)
    BY <1>1, <1>7 DEF ExpandCall, schema
  <2>2. QED
    BY <1>3, <1>4, <1>6, <1>7, <2>1 DEF schema, target
<1>8. CASE schema.ref # Nil
  <2>1. f[x] = Follow(params, f, schema, x[2])
    BY <1>1, <1>8 DEF ExpandCall, schema
  <2>2. CASE ~Leads(params, x) \/ f[target].failed
    <3>1. f[x] = Error
      BY <1>2, <1>3, <1>8, <2>1, <2>2 DEF Follow
    <3>2. f[x].failed
      BY <3>1 DEF Error
    <3>3. ~Leads(params, x) \/ \E y \in Makes(params, x) : f[y].failed
      BY <1>4, <2>2
    <3>4. QED
      BY <1>8, <3>2, <3>3 DEF schema
  <2>3. CASE Leads(params, x) /\ ~f[target].failed /\ IsBare(schema)
    <3>1. f[x] = f[target]
      BY <1>2, <1>3, <2>1, <2>3 DEF Follow
    <3>2. \A y \in Makes(params, x) : y = target
      BY <1>4, <2>3 DEF IsBare
    <3>3. QED
      BY <1>8, <2>3, <3>1, <3>2 DEF schema, target
  <2>4. CASE Leads(params, x) /\ ~f[target].failed /\ ~IsBare(schema)
    <3>1. f[x] = Whole(f, Join(schema, target))
      BY <1>2, <1>3, <2>1, <2>4 DEF Follow
    <3>2. Makes(params, x) = Join(schema, target).allOf \cup Join(schema, target).items
      BY <1>4, <1>5, <2>4
    <3>3. QED
      BY <1>6, <1>8, <2>4, <3>1, <3>2 DEF schema, target
  <2>5. QED
    BY <2>2, <2>3, <2>4
<1>9. QED
  BY <1>7, <1>8

-----------------------------------------------------------------------------
(* What is refused *)

\* A call that succeeds has made one that succeeds for all it comes to.
LEMMA SuccessGoesOn ==
  ASSUME NEW params, IsDocument(params), NEW f, Expands(params, f),
         NEW x \in Calls(params), ~f[x].failed, NEW q \in After(params, x[1])
  PROVE  \E y \in Calls(params) : y[1] = q /\ ~f[y].failed /\ Rank(params, y) < Rank(params, x)
<1>1. PICK schema : schema = Called(params.nodes[x[1]], x[2])
  OBVIOUS
<1>2. schema.ref = params.nodes[x[1]].ref
  BY <1>1 DEF Called
<1>3. (schema.ref # Nil => Leads(params, x)) /\ \A y \in Makes(params, x) : ~f[y].failed
  BY <1>1, Succeeds
<1>4. \E y \in Makes(params, x) : y[1] = q
  <2>1. CASE q \in Parts(params.nodes[x[1]])
    <3>1. <<q, x[2]>> \in Makes(params, x)
      BY <2>1 DEF Makes
    <3>2. QED
      BY <3>1
  <2>2. CASE q = params.nodes[x[1]].ref /\ q # Nil
    <3>1. Target(params, x) \in Makes(params, x) /\ Target(params, x)[1] = q
      BY <1>2, <1>3, <2>2 DEF Makes, Target
    <3>2. QED
      BY <3>1
  <2>3. QED
    BY <2>1, <2>2 DEF After, Parts
<1>5. PICK y \in Makes(params, x) : y[1] = q
  BY <1>4
<1>6. y \in Calls(params) /\ Rank(params, y) < Rank(params, x) /\ ~f[y].failed
  BY <1>3, RankFalls
<1>7. QED
  BY <1>5, <1>6

\* Schemas that are expanded are sound.
LEMMA ExpandedIsSound ==
  ASSUME NEW params, IsDocument(params), NEW f, Expands(params, f), ~f[<<params.root, {}>>].failed
  PROVE  Sound(params)
<1> DEFINE reached == {p \in DOMAIN params.nodes :
                         \E x \in Calls(params) : x[1] = p /\ ~f[x].failed}
<1>1. params.root \in reached
  <2>1. params.root \in DOMAIN params.nodes
    BY DEF IsDocument
  <2>2. <<params.root, {}>> \in Calls(params)
    BY <2>1 DEF Calls
  <2>3. QED
    BY <2>1, <2>2
<1>2. ASSUME NEW x \in Calls(params)
      PROVE  x[1] \in DOMAIN params.nodes
  BY DEF Calls
<1>3. ASSUME NEW p \in reached, NEW q \in After(params, p)
      PROVE  q \in reached
  <2>1. PICK x \in Calls(params) : x[1] = p /\ ~f[x].failed
    OBVIOUS
  <2>2. PICK y \in Calls(params) : y[1] = q /\ ~f[y].failed
    BY <2>1, SuccessGoesOn
  <2>3. QED
    BY <1>2, <2>2
<1>4. ASSUME NEW part \in SUBSET reached, part # {}
      PROVE  \E p \in part : After(params, p) \cap part = {}
  <2> DEFINE good == {x \in Calls(params) : x[1] \in part /\ ~f[x].failed}
             ranks == {Rank(params, x) : x \in good}
  <2>1. good # {}
    <3>1. PICK p \in part : p \in reached
      BY <1>4
    <3>2. QED
      BY <3>1
  <2>2. ranks # {} /\ ranks \in SUBSET Nat
    BY <2>1, Finite
  <2>3. PICK n \in ranks : \A m \in ranks : n <= m
    BY <2>2, LeastNatural
  <2>4. PICK x \in good : n = Rank(params, x)
    BY <2>3
  <2>5. x \in Calls(params) /\ x[1] \in part /\ ~f[x].failed
    BY <2>4
  <2>6. ASSUME NEW q \in After(params, x[1]), q \in part
        PROVE  FALSE
    <3>1. PICK y \in Calls(params) : y[1] = q /\ ~f[y].failed /\ Rank(params, y) < Rank(params, x)
      BY <2>5, SuccessGoesOn
    <3>2. Rank(params, y) \in ranks
      BY <2>6, <3>1
    <3>3. Rank(params, x) <= Rank(params, y)
      BY <2>3, <2>4, <3>2
    <3>4. PICK a \in Nat, b \in Nat : a = Rank(params, x) /\ b = Rank(params, y)
      BY Finite
    <3>5. a <= b /\ b < a
      BY <3>1, <3>3, <3>4, Zenon
    <3>6. QED
      BY <3>5, SMT
  <2>7. QED
    BY <2>5, <2>6
<1>5. reached \in SUBSET DOMAIN params.nodes
  OBVIOUS
<1> HIDE DEF reached
<1>6. /\ \A p \in reached : After(params, p) \subseteq reached
      /\ \A part \in (SUBSET reached) \ {{}} : \E p \in part : After(params, p) \cap part = {}
  BY <1>3, <1>4
<1>7. QED
  BY <1>1, <1>5, <1>6 DEF Sound

Closed(params, places) == \A p \in places : After(params, p) \subseteq places

\* q is one of the schemas one can come to from p.
Reaches(params, p, q) ==
    \A places \in SUBSET DOMAIN params.nodes : p \in places /\ Closed(params, places) => q \in places

GoesNowhereRound(params, reached) ==
    /\ reached \in SUBSET DOMAIN params.nodes /\ Closed(params, reached)
    /\ \A part \in (SUBSET reached) \ {{}} : \E p \in part : After(params, p) \cap part = {}

LEMMA ReachesOn ==
  ASSUME NEW params, NEW p, NEW q, Reaches(params, p, q), NEW r \in After(params, q)
  PROVE  Reaches(params, p, r)
BY DEF Reaches, Closed

\* What one comes to from a schema does not lead back to it.
LEMMA NoWayBack ==
  ASSUME NEW params, NEW reached, GoesNowhereRound(params, reached),
         NEW x \in reached, NEW t \in After(params, x), Reaches(params, t, x)
  PROVE  FALSE
<1> DEFINE part == {y \in reached : Reaches(params, t, y) /\ Reaches(params, y, x)}
<1>1. \A y \in reached : After(params, y) \subseteq reached
  BY DEF GoesNowhereRound, Closed
<1>2. \A y : Reaches(params, y, y)
  BY DEF Reaches
<1>3. x \in part
  BY <1>2
<1>4. ASSUME NEW y \in part
      PROVE  \E z \in After(params, y) : z \in part
  <2>1. CASE y = x
    BY <1>1, <1>2, <2>1
  <2>2. CASE y # x
    <3> DEFINE beyond == {y} \cup {w \in reached : \E z \in After(params, y) : Reaches(params, z, w)}
    <3>1. beyond \in SUBSET DOMAIN params.nodes
      BY DEF GoesNowhereRound
    <3>2. ASSUME NEW w \in beyond, NEW v \in After(params, w)
          PROVE  v \in beyond
      <4>1. w \in reached /\ v \in reached
        BY <1>1, <3>2
      <4>2. CASE w = y
        BY <1>2, <4>1, <4>2
      <4>3. CASE w # y
        <5>1. PICK z \in After(params, y) : Reaches(params, z, w)
          BY <4>3
        <5>2. Reaches(params, z, v)
          BY <5>1, ReachesOn
        <5>3. QED
          BY <4>1, <5>2
      <4>4. QED
        BY <4>2, <4>3
    <3>3. Closed(params, beyond) /\ y \in beyond
      BY <3>2 DEF Closed
    <3>4. x \in beyond
      BY <3>1, <3>3 DEF Reaches
    <3>5. PICK z \in After(params, y) : Reaches(params, z, x)
      BY <2>2, <3>4
    <3>6. z \in reached /\ Reaches(params, t, z)
      BY <1>1, ReachesOn
    <3>7. QED
      BY <3>5, <3>6
  <2>3. QED
    BY <2>1, <2>2
<1>5. part \in (SUBSET reached) \ {{}}
  BY <1>3
<1>6. PICK y \in part : After(params, y) \cap part = {}
  BY <1>5 DEF GoesNowhereRound
<1>7. QED
  BY <1>4, <1>6

\* Sound schemas are expanded: whatever is being resolved leads to where the
\* expansion has come, so that a reference to it would go round.
LEMMA SoundIsExpanded ==
  ASSUME NEW params, IsDocument(params), NEW f, Expands(params, f), Sound(params)
  PROVE  ~f[<<params.root, {}>>].failed
<1>1. PICK reached \in SUBSET DOMAIN params.nodes :
         params.root \in reached /\ GoesNowhereRound(params, reached)
  BY DEF Sound, GoesNowhereRound, Closed
<1>2. \A p \in reached : After(params, p) \subseteq reached
  BY <1>1 DEF GoesNowhereRound, Closed
<1> DEFINE fine == {x \in Calls(params) : /\ x[1] \in reached
                                          /\ \A a \in x[2] : Reaches(params, a, x[1])}
           good == {x \in Calls(params) : ~f[x].failed}
<1>3. ASSUME NEW x \in fine, \A y \in Makes(params, x) \cap fine : y \in good
      PROVE  x \in good
  <2>1. PICK ref : ref = params.nodes[x[1]].ref
    OBVIOUS
  <2>2. ASSUME ref # Nil
        PROVE  Leads(params, x)
    <3>1. ref \in After(params, x[1]) /\ ref \in reached
      BY <1>2, <2>1, <2>2 DEF After
    <3>2. ref \in x[2] => FALSE
      BY <1>1, <3>1, NoWayBack
    <3>3. QED
      BY <2>1, <2>2, <3>1, <3>2 DEF Leads, Resolves
  <2>3. ASSUME NEW y \in Makes(params, x)
        PROVE  y \in fine
    <3>1. y \in Calls(params)
      BY RankFalls
    <3>2. CASE \E q \in Parts(params.nodes[x[1]]) : y = <<q, x[2]>>
      <4>1. y[1] \in After(params, x[1]) /\ y[2] = x[2]
        BY <3>2 DEF After, Parts
      <4>2. QED
        BY <1>2, <3>1, <4>1, ReachesOn
    <3>3. CASE Leads(params, x) /\ y = Target(params, x)
      <4>1. y[1] = ref /\ y[2] = x[2] \cup {ref} /\ ref \in After(params, x[1])
        BY <2>1, <3>3 DEF Leads, Target, After
      <4>2. Reaches(params, ref, ref)
        BY DEF Reaches
      <4>3. \A a \in x[2] : Reaches(params, a, ref)
        BY <4>1, ReachesOn
      <4>4. QED
        BY <1>2, <3>1, <4>1, <4>2, <4>3
    <3>4. QED
      BY <3>2, <3>3 DEF Makes
  <2>4. Called(params.nodes[x[1]], x[2]).ref = ref
    BY <2>1 DEF Called
  <2>5. \A y \in Makes(params, x) : ~f[y].failed
    BY <1>3, <2>3
  <2>6. QED
    BY <2>2, <2>4, <2>5, Succeeds
<1>4. \A x \in fine : x \in good
  <2>1. fine \in SUBSET Calls(params)
    OBVIOUS
  <2> HIDE DEF fine, good
  <2>2. QED
    BY <1>3, <2>1, CallInduction
<1>5. params.root \in DOMAIN params.nodes
  BY DEF IsDocument
<1>6. PICK x : x = <<params.root, {}>>
  OBVIOUS
<1>7. x \in fine
  BY <1>1, <1>5, <1>6 DEF Calls
<1>8. QED
  BY <1>4, <1>6, <1>7

-----------------------------------------------------------------------------
(* What a document means *)

\* All a schema consists of is in the document.
IsComplete(document) ==
    /\ document.root \in DOMAIN document.nodes
    /\ \A p \in DOMAIN document.nodes : Parts(document.nodes[p]) \subseteq DOMAIN document.nodes

Means(document, M) == \A p \in DOMAIN document.nodes : M[p] = Demands(document, M, p)

\* Who demands no less is demanded no less of.
LEMMA DemandsGrow ==
  ASSUME NEW document, IsComplete(document), NEW p \in DOMAIN document.nodes, NEW g, NEW h,
         \A q \in DOMAIN document.nodes : g[q] \subseteq h[q]
  PROVE  Demands(document, g, p) \subseteq Demands(document, h, p)
<1> DEFINE alike == Alike(document, p)
           items == document.nodes[p].items
<1>1. alike \subseteq DOMAIN document.nodes /\ items \subseteq DOMAIN document.nodes
  BY DEF IsComplete, Parts, Alike
<1> HIDE DEF alike, items
<1>2. /\ (UNION {g[q] : q \in alike}) \subseteq (UNION {h[q] : q \in alike})
      /\ (UNION {g[q] : q \in items}) \subseteq (UNION {h[q] : q \in items})
  BY <1>1
<1>3. QED
  BY <1>2 DEF Demands, alike, items

\* There is a least meaning of the schemas of a document.
LEMMA MeaningExists ==
  ASSUME NEW document, IsComplete(document)
  PROVE  \E M : M = [p \in DOMAIN document.nodes |-> Demands(document, M, p)]
<1> DEFINE D == DOMAIN document.nodes
           facts == Nat \X (UNION {document.nodes[p].own : p \in D})
           Enough(g) == g \in [D -> SUBSET facts] /\ \A p \in D : Demands(document, g, p) \subseteq g[p]
<1>1. ASSUME NEW g \in [D -> SUBSET facts], NEW p \in D
      PROVE  Demands(document, g, p) \subseteq facts
  <2> DEFINE schema == document.nodes[p]
             alike == Alike(document, p)
  <2>1. alike \subseteq D /\ schema.items \subseteq D
    BY DEF IsComplete, Parts, Alike
  <2>2. (UNION {g[q] : q \in alike}) \subseteq facts /\ (UNION {g[q] : q \in schema.items}) \subseteq facts
    BY <2>1
  <2>3. {<<0, constraint>> : constraint \in schema.own} \subseteq facts
    OBVIOUS
  <2>4. \A m \in facts : <<m[1] + 1, m[2]>> \in facts
    OBVIOUS
  <2> HIDE DEF facts
  <2>5. QED
    BY <2>2, <2>3, <2>4 DEF Demands
<1> HIDE DEF facts
<1>2. PICK L : L = [p \in D |-> {m \in facts : \A g : Enough(g) => m \in g[p]}]
  OBVIOUS
<1>3. L \in [D -> SUBSET facts]
  BY <1>2
<1>4. ASSUME NEW p \in D
      PROVE  Demands(document, L, p) \subseteq L[p]
  <2>1. ASSUME NEW m \in Demands(document, L, p), NEW g, Enough(g)
        PROVE  m \in g[p]
    <3>1. \A q \in D : L[q] \subseteq g[q]
      BY <1>2, <2>1
    <3>2. Demands(document, L, p) \subseteq Demands(document, g, p)
      BY <3>1, DemandsGrow
    <3>3. QED
      BY <2>1, <3>2
  <2>2. QED
    BY <1>1, <1>2, <1>3, <2>1
<1>5. ASSUME NEW p \in D
      PROVE  L[p] \subseteq Demands(document, L, p)
  <2>1. PICK K : K = [q \in D |-> Demands(document, L, q)]
    OBVIOUS
  <2>2. K \in [D -> SUBSET facts]
    BY <1>1, <1>3, <2>1
  <2>3. \A q \in D : K[q] \subseteq L[q]
    BY <1>4, <2>1
  <2>4. ASSUME NEW q \in D
        PROVE  Demands(document, K, q) \subseteq K[q]
    BY <2>1, <2>3, DemandsGrow
  <2>5. Enough(K)
    BY <2>2, <2>4
  <2> HIDE DEF Enough
  <2>6. L[p] = {m \in facts : \A g : Enough(g) => m \in g[p]}
    BY <1>2
  <2>7. L[p] \subseteq K[p]
    BY <2>5, <2>6
  <2>8. QED
    BY <2>1, <2>7
<1>6. L = [p \in D |-> Demands(document, L, p)]
  BY <1>2, <1>4, <1>5
<1>7. QED
  BY <1>6

LEMMA MeaningIs ==
  ASSUME NEW document, IsComplete(document)
  PROVE  \E M : Means(document, M) /\ Meaning(document) = M[document.root]
<1> DEFINE M == CHOOSE M : M = [p \in DOMAIN document.nodes |-> Demands(document, M, p)]
<1>1. M = [p \in DOMAIN document.nodes |-> Demands(document, M, p)]
  BY MeaningExists
<1>2. Meaning(document) = M[document.root]
  BY DEF Meaning
<1> HIDE DEF M
<1>3. Means(document, M)
  BY <1>1 DEF Means
<1>4. QED
  BY <1>2, <1>3

\* The document that an expansion results in.
LEMMA Results ==
  ASSUME NEW params
  PROVE  LET f == Expand(params)
             nodes == ExpandParameters(params).document.nodes
         IN  /\ ExpandParameters(params).failed = f[<<params.root, {}>>].failed
             /\ ExpandParameters(params).document.root = <<params.root, {}>>
             /\ DOMAIN nodes = {x \in Calls(params) : ~f[x].failed}
             /\ \A x \in DOMAIN nodes : nodes[x] = f[x].schema
BY DEF ExpandParameters

\* No reference is left in it, and nothing of it is missing.
LEMMA NothingToFollow ==
  ASSUME NEW params, IsDocument(params), NEW nodes, nodes = ExpandParameters(params).document.nodes
  PROVE  \A x \in DOMAIN nodes : nodes[x].ref = Nil /\ Parts(nodes[x]) \subseteq DOMAIN nodes
<1>1. PICK f : f = Expand(params) /\ Expands(params, f)
  BY ExpandIs
<1>2. /\ DOMAIN nodes = {x \in Calls(params) : ~f[x].failed}
      /\ \A x \in DOMAIN nodes : nodes[x] = f[x].schema
  BY <1>1, Results
<1> DEFINE good == {x \in DOMAIN nodes : nodes[x].ref = Nil /\ Parts(nodes[x]) \subseteq DOMAIN nodes}
<1>3. ASSUME NEW x \in DOMAIN nodes, \A y \in Makes(params, x) \cap DOMAIN nodes : y \in good
      PROVE  x \in good
  <2>1. PICK schema : schema = Called(params.nodes[x[1]], x[2])
    OBVIOUS
  <2>2. x \in Calls(params) /\ ~f[x].failed /\ nodes[x] = f[x].schema
    BY <1>2
  <2>3. /\ schema.ref # Nil => Leads(params, x)
        /\ \A y \in Makes(params, x) : ~f[y].failed
        /\ nodes[x] = IF schema.ref = Nil THEN schema
                      ELSE IF IsBare(schema) THEN f[Target(params, x)].schema
                      ELSE Join(schema, Target(params, x))
    BY <1>1, <2>1, <2>2, Succeeds
  <2>4. Makes(params, x) \subseteq DOMAIN nodes
    BY <1>2, <2>2, <2>3, RankFalls
  <2>5. Parts(schema) \subseteq Makes(params, x)
    BY <2>1 DEF Called, Parts, Makes
  <2>6. schema.ref # Nil => Target(params, x) \in Makes(params, x)
    BY <2>3 DEF Makes
  <2>7. CASE schema.ref = Nil
    BY <2>3, <2>4, <2>5, <2>7
  <2>8. CASE schema.ref # Nil /\ IsBare(schema)
    <3>1. Target(params, x) \in good
      BY <1>3, <2>4, <2>6, <2>8
    <3>2. nodes[x] = nodes[Target(params, x)]
      BY <1>2, <2>3, <2>4, <2>6, <2>8
    <3>3. QED
      BY <3>1, <3>2
  <2>9. CASE schema.ref # Nil /\ ~IsBare(schema)
    <3>1. nodes[x] = Join(schema, Target(params, x))
      BY <2>3, <2>9
    <3>2. nodes[x].ref = Nil /\ Parts(nodes[x]) = Parts(schema) \cup {Target(params, x)}
      BY <3>1 DEF Join, Parts
    <3>3. QED
      BY <2>4, <2>5, <2>6, <2>9, <3>2
  <2>10. QED
    BY <2>7, <2>8, <2>9
<1>4. DOMAIN nodes \in SUBSET Calls(params)
  BY <1>2
<1> HIDE DEF good
<1>5. PICK T : T = DOMAIN nodes
  OBVIOUS
<1>6. T \in SUBSET Calls(params)
  BY <1>4, <1>5
<1>7. \A x \in T : (\A y \in Makes(params, x) \cap T : y \in good) => x \in good
  BY <1>3, <1>5
<1>8. \A x \in T : x \in good
  BY <1>6, <1>7, CallInduction
<1>9. QED
  BY <1>5, <1>8 DEF good

\* Schemas demand the same if they state the same and if those that join them,
\* and those below, do.
LEMMA DemandsAgree ==
  ASSUME NEW d, NEW e, NEW M, NEW L, NEW p, NEW q, d.nodes[p].own = e.nodes[q].own,
         \A x \in Alike(d, p) : \E y \in Alike(e, q) : M[x] = L[y],
         \A y \in Alike(e, q) : \E x \in Alike(d, p) : M[x] = L[y],
         \A x \in d.nodes[p].items : \E y \in e.nodes[q].items : M[x] = L[y],
         \A y \in e.nodes[q].items : \E x \in d.nodes[p].items : M[x] = L[y]
  PROVE  Demands(d, M, p) = Demands(e, L, q)
<1>1. (UNION {M[x] : x \in Alike(d, p)}) = (UNION {L[y] : y \in Alike(e, q)})
  OBVIOUS
<1>2. (UNION {M[x] : x \in d.nodes[p].items}) = (UNION {L[y] : y \in e.nodes[q].items})
  OBVIOUS
<1>3. QED
  BY <1>1, <1>2 DEF Demands

\* What an expansion results in demands what the schemas expanded do.
LEMMA ExpansionKeepsMeaning ==
  ASSUME NEW params, IsDocument(params), ~ExpandParameters(params).failed
  PROVE  Meaning(ExpandParameters(params).document) = Meaning(params)
<1>1. PICK f : f = Expand(params) /\ Expands(params, f)
  BY ExpandIs
<1>2. PICK document, nodes : document = ExpandParameters(params).document /\ nodes = document.nodes
  OBVIOUS
<1>3. /\ ExpandParameters(params).failed = f[<<params.root, {}>>].failed
      /\ document.root = <<params.root, {}>>
      /\ DOMAIN nodes = {x \in Calls(params) : ~f[x].failed}
      /\ \A x \in DOMAIN nodes : nodes[x] = f[x].schema
  BY <1>1, <1>2, Results
<1>4. \A x \in DOMAIN nodes : nodes[x].ref = Nil /\ Parts(nodes[x]) \subseteq DOMAIN nodes
  BY <1>2, NothingToFollow
<1>5. document.root \in DOMAIN nodes
  <2>1. params.root \in DOMAIN params.nodes
    BY DEF IsDocument
  <2>2. document.root \in Calls(params)
    BY <1>3, <2>1 DEF Calls
  <2>3. QED
    BY <1>3, <2>2
<1>6. IsComplete(document) /\ IsComplete(params)
  BY <1>2, <1>4, <1>5 DEF IsComplete, IsDocument, Parts
<1>7. PICK M : Means(document, M) /\ Meaning(document) = M[document.root]
  BY <1>6, MeaningIs
<1>8. PICK L : Means(params, L) /\ Meaning(params) = L[params.root]
  BY <1>6, MeaningIs
<1> DEFINE same == {x \in DOMAIN nodes : M[x] = L[x[1]]}
<1>9. ASSUME NEW x \in DOMAIN nodes, \A y \in Makes(params, x) \cap DOMAIN nodes : y \in same
      PROVE  x \in same
  <2>1. PICK p, r, node, schema : /\ p = x[1] /\ r = x[2] /\ node = params.nodes[p]
                                  /\ schema = Called(node, r)
    OBVIOUS
  <2>2. /\ schema.own = node.own /\ schema.ref = node.ref
        /\ schema.allOf = {<<q, r>> : q \in node.allOf}
        /\ schema.items = {<<q, r>> : q \in node.items}
    BY <2>1 DEF Called
  <2>3. x \in Calls(params) /\ ~f[x].failed /\ nodes[x] = f[x].schema /\ p \in DOMAIN params.nodes
    BY <1>3, <2>1 DEF Calls
  <2>4. /\ schema.ref # Nil => Leads(params, x)
        /\ \A y \in Makes(params, x) : ~f[y].failed
        /\ nodes[x] = IF schema.ref = Nil THEN schema
                      ELSE IF IsBare(schema) THEN f[Target(params, x)].schema
                      ELSE Join(schema, Target(params, x))
    BY <1>1, <2>1, <2>3, Succeeds
  <2>5. ASSUME NEW y \in Makes(params, x)
        PROVE  y \in DOMAIN nodes /\ M[y] = L[y[1]]
    BY <1>3, <1>9, <2>3, <2>4, RankFalls
  <2>6. \A q \in node.allOf \cup node.items : M[<<q, r>>] = L[q]
    BY <2>1, <2>5 DEF Makes, Parts
  <2>7. PICK t : t = Target(params, x)
    OBVIOUS
  <2>8. schema.ref # Nil => /\ t \in Makes(params, x) /\ t[1] = node.ref /\ M[t] = L[node.ref]
                            /\ node.ref \in DOMAIN params.nodes
    BY <2>1, <2>4, <2>5, <2>7 DEF Makes, Target, Leads, Resolves
  <2>9. M[x] = Demands(document, M, x) /\ L[p] = Demands(params, L, p)
    BY <1>2, <1>7, <1>8, <2>3 DEF Means
  <2>10. /\ \A y \in schema.allOf : \E q \in node.allOf : M[y] = L[q]
         /\ \A q \in node.allOf : \E y \in schema.allOf : M[y] = L[q]
         /\ \A y \in schema.items : \E q \in node.items : M[y] = L[q]
         /\ \A q \in node.items : \E y \in schema.items : M[y] = L[q]
    BY <2>2, <2>6
  <2>11. PICK alike, like : alike = Alike(document, x) /\ like = Alike(params, p)
    OBVIOUS
  <2>12. /\ alike = nodes[x].allOf
         /\ like = node.allOf \cup (({node.ref} \ {Nil}) \cap DOMAIN params.nodes)
    BY <1>2, <1>4, <2>1, <2>11 DEF Alike
  <2>13. ASSUME nodes[x].own = node.own,
                \A y \in alike : \E q \in like : M[y] = L[q],
                \A q \in like : \E y \in alike : M[y] = L[q],
                nodes[x].items = schema.items
         PROVE  x \in same
    <3>1. /\ document.nodes[x].own = params.nodes[p].own
          /\ \A y \in document.nodes[x].items : \E q \in params.nodes[p].items : M[y] = L[q]
          /\ \A q \in params.nodes[p].items : \E y \in document.nodes[x].items : M[y] = L[q]
      BY <1>2, <2>1, <2>10, <2>13
    <3>2. Demands(document, M, x) = Demands(params, L, p)
      BY <2>11, <2>13, <3>1, DemandsAgree
    <3>3. QED
      BY <2>1, <2>9, <3>2
  <2>14. CASE schema.ref = Nil
    <3>1. nodes[x] = schema /\ like = node.allOf
      BY <2>2, <2>4, <2>14, <2>12
    <3>2. QED
      BY <2>2, <2>10, <2>12, <2>13, <3>1
  <2>15. CASE schema.ref # Nil /\ IsBare(schema)
    <3>1. nodes[x] = nodes[t]
      BY <1>3, <2>4, <2>5, <2>7, <2>8, <2>15
    <3>2. t \in DOMAIN nodes /\ M[t] = Demands(document, M, t)
      BY <1>2, <1>7, <2>5, <2>8, <2>15 DEF Means
    <3>3. Demands(document, M, x) = Demands(document, M, t)
      BY <1>2, <3>1 DEF Demands, Alike
    <3>4. node.own = {} /\ node.allOf = {} /\ node.items = {}
      BY <2>2, <2>15 DEF IsBare
    <3>5. like = {node.ref}
      BY <2>2, <2>8, <2>15, <2>12, <3>4
    <3>6. Demands(params, L, p) = L[node.ref]
      BY <2>1, <2>11, <3>4, <3>5 DEF Demands
    <3>7. QED
      BY <2>1, <2>8, <2>9, <2>15, <3>2, <3>3, <3>6
  <2>16. CASE schema.ref # Nil /\ ~IsBare(schema)
    <3>1. nodes[x] = Join(schema, t)
      BY <2>4, <2>7, <2>16
    <3>2. /\ nodes[x].own = node.own /\ nodes[x].items = schema.items
          /\ nodes[x].allOf = schema.allOf \cup {t}
      BY <2>2, <3>1 DEF Join
    <3>3. like = node.allOf \cup {node.ref}
      BY <2>2, <2>8, <2>16, <2>12
    <3>4. /\ \A y \in alike : \E q \in like : M[y] = L[q]
          /\ \A q \in like : \E y \in alike : M[y] = L[q]
      BY <2>8, <2>10, <2>16, <2>12, <3>2, <3>3
    <3>5. QED
      BY <2>13, <3>2, <3>4
  <2>17. QED
    BY <2>14, <2>15, <2>16
<1>10. DOMAIN nodes \in SUBSET Calls(params)
  BY <1>3
<1> HIDE DEF same
<1>11. document.root \in same
  BY <1>5, <1>9, <1>10, CallInduction
<1>12. QED
  BY <1>2, <1>3, <1>7, <1>8, <1>11 DEF same

\* Schemas without local references are sent as they are: nothing fails, and
\* every call gives the schema it is for, whatever it is resolving.  So the code
\* may expand a target once more that has already been expanded.
THEOREM NothingToFollowIsKept ==
  ASSUME NEW params, IsDocument(params), \A p \in DOMAIN params.nodes : params.nodes[p].ref = Nil
  PROVE  \A x \in Calls(params) : /\ ~Expand(params)[x].failed
                                 /\ Expand(params)[x].schema = Called(params.nodes[x[1]], x[2])
<1>1. PICK f : f = Expand(params) /\ Expands(params, f)
  BY ExpandIs
<1> DEFINE good == {x \in Calls(params) : ~f[x].failed}
<1>2. ASSUME NEW x \in Calls(params)
      PROVE  /\ Called(params.nodes[x[1]], x[2]).ref = Nil
             /\ ~f[x].failed <=> \A y \in Makes(params, x) : ~f[y].failed
             /\ ~f[x].failed => f[x].schema = Called(params.nodes[x[1]], x[2])
  <2>1. x[1] \in DOMAIN params.nodes
    BY DEF Calls
  <2>2. Called(params.nodes[x[1]], x[2]).ref = Nil
    BY <2>1 DEF Called
  <2>3. QED
    BY <1>1, <2>2, Succeeds
<1>3. ASSUME NEW x \in Calls(params), \A y \in Makes(params, x) \cap Calls(params) : y \in good
      PROVE  x \in good
  BY <1>2, <1>3, RankFalls
<1> HIDE DEF good
<1>4. PICK T : T = Calls(params)
  OBVIOUS
<1>5. T \in SUBSET Calls(params)
  BY <1>4
<1>6. \A x \in T : (\A y \in Makes(params, x) \cap T : y \in good) => x \in good
  BY <1>3, <1>4
<1>7. \A x \in T : x \in good
  BY <1>5, <1>6, CallInduction
<1>8. \A x \in Calls(params) : ~f[x].failed
  BY <1>4, <1>7 DEF good
<1>9. QED
  BY <1>1, <1>2, <1>8

-----------------------------------------------------------------------------
(* The reasoning effort *)

Greatest(set) == CHOOSE k \in set : \A j \in set : j <= k

LEMMA GreatestIs ==
  ASSUME NEW S \in SUBSET Nat, NEW k \in S, \A j \in S : j <= k
  PROVE  Greatest(S) = k
<1>1. \A l \in S : (\A j \in S : j <= l) => l = k
  OBVIOUS
<1>2. QED
  BY <1>1 DEF Greatest

\* The effort a provider gets is that of the closest setting.
LEMMA EffortIs ==
  ASSUME input \in Inputs, NEW i
  PROVE  LET layers == <<input.global, input.providers[i].effort, input.providers[i].entry>>
             closest == layers[Greatest({k \in DOMAIN layers : layers[k] # Nil})]
         IN  Effort(i) = IF closest = Null THEN Nil ELSE closest
<1>1. PICK global, effort, entry : /\ global = input.global /\ effort = input.providers[i].effort
                                   /\ entry = input.providers[i].entry
  OBVIOUS
<1>2. global # Nil /\ Nil # Null
  BY <1>1, RewriteAssumption
<1>3. PICK layers, S : layers = <<global, effort, entry>> /\ S = {k \in DOMAIN layers : layers[k] # Nil}
  OBVIOUS
<1>4. /\ S = {k \in {1, 2, 3} : layers[k] # Nil}
      /\ layers[1] = global /\ layers[2] = effort /\ layers[3] = entry
  BY <1>3
<1>5. Effort(i) = ResolveEffortForModel(ResolveEffort(IF global = Null THEN Nil ELSE global,
                                                      Normalize(effort)), entry)
  BY <1>1 DEF Effort
<1>6. PICK e : e = ResolveEffort(IF global = Null THEN Nil ELSE global, Normalize(effort))
  OBVIOUS
<1>7. /\ effort = Null => e = Nil
      /\ effort # Null /\ effort # Nil => e = effort
      /\ effort = Nil => e = IF global = Null THEN Nil ELSE global
  BY <1>2, <1>6 DEF ResolveEffort, Normalize
<1>8. /\ entry = Null => Effort(i) = Nil
      /\ entry = Nil => Effort(i) = e
      /\ entry # Null /\ entry # Nil => Effort(i) = entry
  BY <1>2, <1>5, <1>6 DEF ResolveEffortForModel
<1>9. Effort(i) = IF layers[Greatest(S)] = Null THEN Nil ELSE layers[Greatest(S)]
  <2>1. CASE entry # Nil
    <3>1. Greatest(S) = 3
      BY <1>4, <2>1, GreatestIs
    <3>2. QED
      BY <1>4, <1>8, <2>1, <3>1
  <2>2. CASE entry = Nil /\ effort # Nil
    <3>1. S \subseteq {1, 2} /\ 2 \in S
      BY <1>4, <2>2
    <3>2. Greatest(S) = 2
      BY <3>1, GreatestIs
    <3>3. QED
      BY <1>4, <1>7, <1>8, <2>2, <3>2
  <2>3. CASE entry = Nil /\ effort = Nil
    <3>1. S = {1}
      BY <1>2, <1>4, <2>3
    <3>2. Greatest(S) = 1
      BY <3>1, GreatestIs
    <3>3. QED
      BY <1>4, <1>7, <1>8, <2>3, <3>2
  <2>4. QED
    BY <2>1, <2>2, <2>3
<1>10. QED
  BY <1>1, <1>3, <1>9

-----------------------------------------------------------------------------
(* The tools of a request *)

\* What is refused, and what comes out: a tool is looked at if it is nested.
LEMMA Overridden ==
  ASSUME NEW tools
  PROVE  /\ OverrideTools(tools).failed <=>
                \/ tools = Malformed
                \/ \E k \in Nested(tools) : ExpandParameters(tools[k].parameters).failed
         /\ tools = Nil => OverrideTools(tools).tools = Nil
         /\ tools \notin {Nil, Malformed} =>
                OverrideTools(tools).tools = [k \in DOMAIN tools |-> ExpandTool(tools[k]).tool]
<1>1. CASE tools = Nil
  BY <1>1, RewriteAssumption DEF OverrideTools, Nested
<1>2. CASE tools = Malformed
  BY <1>2, RewriteAssumption DEF OverrideTools, NormalizeTools, Nested
<1>3. CASE tools \notin {Nil, Malformed}
  <2>1. /\ OverrideTools(tools).failed <=> \E k \in DOMAIN tools : ExpandTool(tools[k]).failed
        /\ OverrideTools(tools).tools = [k \in DOMAIN tools |-> ExpandTool(tools[k]).tool]
    BY <1>3 DEF OverrideTools, NormalizeTools
  <2>2. ASSUME NEW k \in DOMAIN tools
        PROVE  ExpandTool(tools[k]).failed <=>
                  tools[k].nested /\ ExpandParameters(tools[k].parameters).failed
    BY DEF ExpandTool
  <2>3. Nested(tools) = {k \in DOMAIN tools : tools[k].nested}
    BY <1>3 DEF Nested
  <2>4. QED
    BY <1>3, <2>1, <2>2, <2>3
<1>4. QED
  BY <1>1, <1>2, <1>3

-----------------------------------------------------------------------------
(* The theorems *)

\* What is sent next, to the i-th provider tried.
Message(i) == [tools |-> OverrideTools(input.tools).tools, effort |-> Effort(i)]

\* What a provider is sent depends on what the client asks and on the provider,
\* not on who was tried before; nothing is sent of what cannot be expanded.
Sends ==
    /\ input \in Inputs
    /\ Len(sent) \in Nat /\ sent = [i \in 1 .. Len(sent) |-> Message(i)]
    /\ refused => OverrideTools(input.tools).failed
    /\ sent # <<>> => ~OverrideTools(input.tools).failed

LEMMA SendsHolds == RewriteSpec => []Sends
<1>1. RewriteInit => Sends
  <2> SUFFICES ASSUME RewriteInit
               PROVE  Sends
    OBVIOUS
  <2>1. input \in Inputs /\ sent = <<>> /\ ~refused
    BY DEF RewriteInit
  <2>2. sent = [i \in 1 .. Len(sent) |-> Message(i)] /\ Len(sent) = 0
    BY <2>1
  <2>3. QED
    BY <2>1, <2>2 DEF Sends
<1>2. Sends /\ [Send]_rewriteVars => Sends'
  <2> SUFFICES ASSUME Sends, [Send]_rewriteVars
               PROVE  Sends'
    OBVIOUS
  <2>1. CASE UNCHANGED rewriteVars
    BY <2>1 DEF Sends, rewriteVars, Message, Effort
  <2>2. CASE Send
    <3>1. input' = input
      BY <2>2 DEF Send
    <3>2. \A i : Message(i)' = Message(i)
      BY <3>1 DEF Message, Effort
    <3>3. CASE OverrideTools(input.tools).failed
      <4>1. refused' /\ sent' = sent
        BY <2>2, <3>3 DEF Send
      <4>2. QED
        BY <3>1, <3>2, <3>3, <4>1 DEF Sends
    <3>4. CASE ~OverrideTools(input.tools).failed
      <4>1. PICK n \in Nat : n = Len(sent)
        BY DEF Sends
      <4>2. sent' = Append(sent, Message(n + 1)) /\ refused' = refused
        BY <2>2, <3>4, <4>1 DEF Send, Message
      <4>3. sent = [i \in 1 .. n |-> Message(i)]
        BY <4>1 DEF Sends
      <4>4. sent \in Seq({Message(i) : i \in 1 .. n + 1})
        BY <4>3
      <4>5. /\ Len(sent') = n + 1 /\ DOMAIN sent' = 1 .. n + 1
            /\ \A i \in 1 .. n : sent'[i] = sent[i]
            /\ sent'[n + 1] = Message(n + 1)
        BY <4>1, <4>2, <4>4, AppendProperties
      <4>6. sent' = [i \in 1 .. n + 1 |-> Message(i)]
        <5>1. \A i \in 1 .. n + 1 : sent'[i] = Message(i)
          <6>1. \A i \in 1 .. n + 1 : i \in 1 .. n \/ i = n + 1
            BY <4>1
          <6>2. \A i \in 1 .. n : sent[i] = Message(i)
            BY <4>3
          <6>3. QED
            BY <4>5, <6>1, <6>2
        <5>2. sent' \in Seq({Message(i) : i \in 1 .. n + 1})
          BY <4>1, <4>2, <4>4, AppendProperties
        <5>3. sent' = [i \in DOMAIN sent' |-> sent'[i]]
          BY <5>2
        <5>4. QED
          BY <4>5, <5>1, <5>3
      <4>7. sent' = [i \in 1 .. Len(sent') |-> Message(i)'] /\ Len(sent') \in Nat
        BY <3>2, <4>5, <4>6
      <4>8. QED
        BY <3>1, <3>4, <4>2, <4>7 DEF Sends
    <3>5. QED
      BY <3>3, <3>4
  <2>3. QED
    BY <2>1, <2>2
<1>3. QED
  BY <1>1, <1>2, PTL DEF RewriteSpec

LEMMA SentIsMessage ==
  ASSUME Sends, NEW i \in DOMAIN sent
  PROVE  /\ sent[i].tools = OverrideTools(input.tools).tools /\ sent[i].effort = Effort(i)
         /\ ~OverrideTools(input.tools).failed
<1>1. sent = [j \in 1 .. Len(sent) |-> Message(j)] /\ Len(sent) \in Nat
  BY DEF Sends
<1>2. i \in 1 .. Len(sent) /\ sent[i] = Message(i)
  BY <1>1
<1>3. sent # <<>>
  BY <1>2
<1>4. QED
  BY <1>2, <1>3 DEF Sends, Message

\* A request is refused for its tools if and only if they are no array, or a
\* reference that matters in the parameters of a nested one leads nowhere, to
\* no schema or round in a circle: expandSchemaNode finds out, whatever else
\* refers to what, and however deep.
THEOREM RefusesOnlyUnsoundHolds == RewriteSpec => []RefusesOnlyUnsound
<1>1. Sends => RefusesOnlyUnsound
  <2> SUFFICES ASSUME Sends
               PROVE  RefusesOnlyUnsound
    OBVIOUS
  <2>1. ASSUME NEW k \in Nested(input.tools)
        PROVE  Sound(input.tools[k].parameters) <=>
                  ~ExpandParameters(input.tools[k].parameters).failed
    <3>1. PICK params, f : /\ params = input.tools[k].parameters /\ f = Expand(params)
                           /\ IsDocument(params) /\ Expands(params, f)
      BY RewriteAssumption, ExpandIs DEF Sends
    <3>2. ExpandParameters(params).failed = f[<<params.root, {}>>].failed
      BY <3>1, Results
    <3>3. Sound(params) <=> ~f[<<params.root, {}>>].failed
      BY <3>1, ExpandedIsSound, SoundIsExpanded
    <3>4. QED
      BY <3>1, <3>2, <3>3
  <2>2. OverrideTools(input.tools).failed <=>
           ~(/\ input.tools # Malformed
             /\ \A k \in Nested(input.tools) : Sound(input.tools[k].parameters))
    BY <2>1, Overridden
  <2>3. QED
    BY <2>2 DEF Sends, RefusesOnlyUnsound
<1>2. QED
  BY <1>1, SendsHolds, PTL

\* Every provider is sent the tools of the client.  The parameters of the nested
\* ones hold no local reference any more and demand what they did, at the depth
\* they did; the other tools are sent as they came.
THEOREM SchemaKeepsMeaningHolds == RewriteSpec => []SchemaKeepsMeaning
<1>1. Sends => SchemaKeepsMeaning
  <2> SUFFICES ASSUME Sends, NEW i \in DOMAIN sent
               PROVE  /\ input.tools = Nil => sent[i].tools = Nil
                      /\ input.tools # Nil =>
                            /\ DOMAIN sent[i].tools = DOMAIN input.tools
                            /\ \A k \in DOMAIN input.tools :
                                  IF input.tools[k].nested
                                  THEN LET params == sent[i].tools[k].parameters IN
                                       /\ \A p \in DOMAIN params.nodes : params.nodes[p].ref = Nil
                                       /\ Meaning(params) = Meaning(input.tools[k].parameters)
                                  ELSE sent[i].tools[k] = input.tools[k]
    BY DEF SchemaKeepsMeaning
  <2>1. sent[i].tools = OverrideTools(input.tools).tools /\ ~OverrideTools(input.tools).failed
    BY SentIsMessage
  <2>2. input.tools # Malformed
    BY <2>1, Overridden
  <2>3. CASE input.tools = Nil
    BY <2>1, <2>3, Overridden
  <2>4. CASE input.tools # Nil
    <3>1. /\ sent[i].tools = [k \in DOMAIN input.tools |-> ExpandTool(input.tools[k]).tool]
          /\ Nested(input.tools) = {k \in DOMAIN input.tools : input.tools[k].nested}
      BY <2>1, <2>2, <2>4, Overridden DEF Nested
    <3>2. ASSUME NEW k \in DOMAIN input.tools, input.tools[k].nested
          PROVE  LET params == sent[i].tools[k].parameters IN
                 /\ \A p \in DOMAIN params.nodes : params.nodes[p].ref = Nil
                 /\ Meaning(params) = Meaning(input.tools[k].parameters)
      <4>1. PICK params : params = input.tools[k].parameters
        OBVIOUS
      <4>2. IsDocument(params) /\ ~ExpandParameters(params).failed
        BY <2>1, <3>1, <3>2, <4>1, Overridden, RewriteAssumption DEF Sends
      <4>3. sent[i].tools[k].parameters = ExpandParameters(params).document
        BY <3>1, <3>2, <4>1 DEF ExpandTool
      <4>4. QED
        BY <4>1, <4>2, <4>3, NothingToFollow, ExpansionKeepsMeaning
    <3>3. ASSUME NEW k \in DOMAIN input.tools, ~input.tools[k].nested
          PROVE  sent[i].tools[k] = input.tools[k]
      BY <3>1, <3>3 DEF ExpandTool
    <3>4. QED
      BY <2>4, <3>1, <3>2, <3>3
  <2>5. QED
    BY <2>3, <2>4
<1>2. QED
  BY <1>1, SendsHolds, PTL

\* Every provider is sent the effort of the closest setting in config.yaml, or
\* none where that is null, whoever was tried before it.
THEOREM EffortIsClosestHolds == RewriteSpec => []EffortIsClosest
<1>1. Sends => EffortIsClosest
  <2> SUFFICES ASSUME Sends
               PROVE  EffortIsClosest
    OBVIOUS
  <2>1. ASSUME NEW i \in DOMAIN sent
        PROVE  LET layers == <<input.global, input.providers[i].effort, input.providers[i].entry>>
                   closest == layers[Greatest({k \in DOMAIN layers : layers[k] # Nil})]
               IN  sent[i].effort = IF closest = Null THEN Nil ELSE closest
    BY <2>1, SentIsMessage, EffortIs DEF Sends
  <2>2. QED
    BY <2>1 DEF EffortIsClosest, Greatest
<1>2. QED
  BY <1>1, SendsHolds, PTL

=============================================================================
