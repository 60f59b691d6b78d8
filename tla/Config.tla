------------------------------- MODULE Config -------------------------------
(***************************************************************************)
(* A configuration and what the proxy makes of it: which configurations    *)
(* config.Validate accepts, and the routes NewWithLogger builds from one.  *)
(*                                                                         *)
(* A configuration is a record                                             *)
(*   providers : a sequence of [name, priority, alias, aliases, limits]:    *)
(*               alias says whether the scalar model_alias is set, aliases  *)
(*               is the set of the models that model_aliases gives an       *)
(*               alias, limits maps the models of model_limits to the       *)
(*               [context, output] declared, 0 for an omitted dimension     *)
(*   routes    : model_routes, a function from the names of the routes to   *)
(*               [providers, fallback], with a sequence of provider names   *)
(* URLs, keys and efforts play no part in routing and are left out.        *)
(***************************************************************************)
EXTENDS Integers, Sequences, FiniteSets

CONSTANTS
    Gonka,      \* LegacyVirtualModel: the route that serves everything in legacy mode
    NoRoute     \* the null value: a route without a fallback

ASSUME NoRouteAssumption == NoRoute # Gonka

\* What decoding config.yaml can give, whatever Validate says of it.
IsConfig(c) ==
    /\ c.providers \in Seq({c.providers[i] : i \in DOMAIN c.providers})
    /\ \A i \in DOMAIN c.providers :
          LET p == c.providers[i] IN
          /\ p.priority \in Int
          /\ \A m \in DOMAIN p.limits : p.limits[m] \in [context : Nat, output : Nat]
    /\ IsFiniteSet(DOMAIN c.routes) /\ NoRoute \notin DOMAIN c.routes
    /\ \A m \in DOMAIN c.routes :
          LET names == c.routes[m].providers IN names \in Seq({names[i] : i \in DOMAIN names})

Elements(s) == {s[i] : i \in DOMAIN s}

NoRepeats(s) == Cardinality(Elements(s)) = Len(s)

\* Without model_routes one implicit route serves whatever model is asked for.
LegacyMode(c) == DOMAIN c.routes = {}

\* ModelAliasFor, as far as it decides whether p serves the model.
Serves(p, model) ==
    IF p.aliases # {} THEN model \in p.aliases ELSE model = Gonka /\ p.alias

-----------------------------------------------------------------------------
Names(c) == {p.name : p \in Elements(c.providers)}

Named(c, name) == CHOOSE p \in Elements(c.providers) : p.name = name

\* Where the route may look for providers: those it lists, or all of them.
Candidates(c, m) ==
    IF c.routes[m].providers = <<>> THEN Elements(c.providers)
    ELSE {Named(c, name) : name \in Elements(c.routes[m].providers) \cap Names(c)}

\* Faulty variant: only a fallback to itself is noticed.
NoSelfReference(routes) == \A m \in DOMAIN routes : routes[m].fallback # m

\* validateFallbackCycles: the fallbacks lead downhill, for some ranking.
Acyclic(routes) ==
    \E rank \in [DOMAIN routes -> 1 .. Cardinality(DOMAIN routes)] :
        \A m \in DOMAIN routes :
            routes[m].fallback \in DOMAIN routes => rank[routes[m].fallback] < rank[m]

ValidRoute(c, m) ==
    /\ NoRepeats(c.routes[m].providers)
    /\ Elements(c.routes[m].providers) \subseteq Names(c)
    /\ \E p \in Candidates(c, m) : Serves(p, m)
    /\ c.routes[m].fallback \in (DOMAIN c.routes \cup {NoRoute}) \ {m}

\* validateModelRoutes
ValidRoutes(c) ==
    IF LegacyMode(c) THEN \E p \in Elements(c.providers) : p.alias
    ELSE /\ \A m \in DOMAIN c.routes : ValidRoute(c, m)
         /\ Acyclic(c.routes)

\* validateModelLimits
ValidLimits(p) ==
    \A m \in DOMAIN p.limits :
        /\ p.limits[m].context > 0 \/ p.limits[m].output > 0
        /\ Serves(p, m)

Valid(c) ==
    /\ c.providers # <<>>
    /\ ValidRoutes(c)
    /\ \A i, j \in DOMAIN c.providers : c.providers[i].name = c.providers[j].name => i = j
    /\ \A p \in Elements(c.providers) : (p.alias \/ p.aliases # {}) /\ ValidLimits(p)

-----------------------------------------------------------------------------
\* The members of S, each after those that come before it.
InOrder(S, before) ==
    LET Place(x) == Cardinality({y \in S : <<y, x>> \in before}) + 1
    IN  [k \in 1 .. Cardinality(S) |-> CHOOSE x \in S : Place(x) = k]

\* What is left of s if only the members of S are kept.
Kept(s, S) ==
    LET kept == {i \in DOMAIN s : s[i] \in S}
        at == InOrder(kept, {ij \in kept \X kept : ij[1] < ij[2]})
    IN  [k \in DOMAIN at |-> s[at[k]]]

\* The stable sort by descending priority.
ByPriority(providers) ==
    LET indices == DOMAIN providers
        Before(i, j) == \/ providers[i].priority > providers[j].priority
                        \/ providers[i].priority = providers[j].priority /\ i < j
        at == InOrder(indices, {ij \in indices \X indices : Before(ij[1], ij[2])})
    IN  [k \in DOMAIN at |-> providers[at[k]]]

\* The routes the server knows.
RouteNames(c) == IF LegacyMode(c) THEN {Gonka} ELSE DOMAIN c.routes

\* The route of a request for a model, if there is one of that name.
RouteFor(c, model) == IF model \notin RouteNames(c) /\ LegacyMode(c) THEN Gonka ELSE model

Fallback(c, m) == IF LegacyMode(c) THEN NoRoute ELSE c.routes[m].fallback

\* The names of the providers of route m, in the order they are tried: the
\* order of the route's own list, else by priority.
RouteProviders(c, m) ==
    LET Tried == IF ~LegacyMode(c) /\ c.routes[m].providers # <<>>
                 THEN [i \in DOMAIN c.routes[m].providers |-> Named(c, c.routes[m].providers[i])]
                 ELSE ByPriority(c.providers)
        Serving == Kept(Tried, {p \in Elements(Tried) : Serves(p, m)})
    IN  [i \in DOMAIN Serving |-> Serving[i].name]

=============================================================================
