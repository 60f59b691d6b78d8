------------------------------- MODULE Limits -------------------------------
(***************************************************************************)
(* The limits /v1/models publishes for a route: what the proxy makes of    *)
(* the model_limits of its providers, the gaps /diagnostics reports, and   *)
(* what limits-check concludes from config.yaml and the live capacities of *)
(* the providers.                                                          *)
(*                                                                         *)
(* A limit has two dimensions, context and output, which are treated alike *)
(* and apart.  An amount of 0 means that nothing is declared or known.     *)
(***************************************************************************)
EXTENDS ProviderState, FiniteSetsExt

CONSTANT Amounts    \* the live capacities a probe may find, 0 among them

ASSUME AmountsAssumption == Amounts \subseteq Nat

Dimensions == {"context", "output"}

Declared(p, m, d) == IF m \in DOMAIN p.limits THEN p.limits[m][d] ELSE 0

\* The smallest of the amounts that are known, 0 if none is.
Least(amounts) == IF amounts \subseteq {0} THEN 0 ELSE Min(amounts \ {0})

-----------------------------------------------------------------------------
(* The proxy *)

Serving(c, m) == {Named(c, name) : name \in Elements(RouteProviders(c, m))}

\* resolveModelLimits, and so serveModels: a silent provider lowers nothing.
Published(c, m, d) == Least({Declared(p, m, d) : p \in Serving(c, m)})

\* Faulty variant: silent is only who declares nothing at all.
SilentAboutBoth(c, m, d) ==
    {p.name : p \in {p \in Serving(c, m) : \A e \in Dimensions : Declared(p, m, e) = 0}}

\* routeLimitReports: who declares nothing.
Silent(c, m, d) == {p.name : p \in {p \in Serving(c, m) : Declared(p, m, d) = 0}}

-----------------------------------------------------------------------------
(* limits-check: live is what the probes found, by the provider's name. *)

\* routeModels
CheckedRoutes(c) ==
    IF ~LegacyMode(c) THEN DOMAIN c.routes
    ELSE {m \in {Gonka} : \E p \in Elements(c.providers) : Serves(p, m)}

\* Faulty variant: the list of the route is overlooked.
AnyServing(c, m) == {p \in Elements(c.providers) : Serves(p, m)}

\* routeProviders
CheckedProviders(c, m) ==
    {p \in IF LegacyMode(c) THEN Elements(c.providers) ELSE Candidates(c, m) : Serves(p, m)}

\* checkRoute: the floor, who is said to overstate it, and who is unknown.
CheckedFloor(c, m, d) == Least({Declared(p, m, d) : p \in CheckedProviders(c, m)})

Over(c, m, d, live) ==
    {p \in CheckedProviders(c, m) : live[p.name] > 0 /\ Declared(p, m, d) > live[p.name]}

LiveFloor(c, m, live) == Least({live[p.name] : p \in CheckedProviders(c, m)})

Verifiable(c, m, live) ==
    /\ CheckedProviders(c, m) # {}
    /\ \A p \in CheckedProviders(c, m) : live[p.name] > 0

\* Faulty variant: nobody overstates it, that will do.
MatchesIfNotOver(c, m, d, live) == Over(c, m, d, live) = {}

Matches(c, m, d, live) ==
    /\ Over(c, m, d, live) = {}
    /\ Verifiable(c, m, live) => CheckedFloor(c, m, d) \in {0, LiveFloor(c, m, live)}

\* Report.Failures has nothing to say of the route.
Passes(c, m, d, live) ==
    /\ Verifiable(c, m, live) => Matches(c, m, d, live)
    /\ Over(c, m, d, live) = {}

-----------------------------------------------------------------------------
Probes == [Names(base) -> Amounts]

\* The properties speak of config.yaml and of the running proxy; where the
\* commands are does not matter to them.
Quiet == \A c \in Command : command[c].pc = "idle"

\* limits-check finds the routes and the published limits as the proxy does,
\* though by code of its own: with nobody disabled its report is about what
\* /v1/models says.  A legacy route that nobody serves has nothing to check.
SameFloors ==
    Quiet =>
        /\ CheckedRoutes(base) = {m \in RouteNames(base) : Serving(base, m) # {}}
        /\ \A m \in RouteNames(base), d \in Dimensions :
              Published(base, m, d) = CheckedFloor(base, m, d)

\* A route that limits-check has fully verified can be relied on: none of its
\* providers, not even one that declares nothing, takes less than published.
VerifiedFloorsServable ==
    Quiet => \A m \in RouteNames(base), d \in Dimensions, live \in Probes :
        Verifiable(base, m, live) /\ Passes(base, m, d, live) =>
            \A p \in Serving(base, m) : live[p.name] >= Published(base, m, d)

\* Where the proxy, started with whatever providers disabled, publishes more
\* than one of them is known to take, though limits-check let the route pass,
\* /diagnostics names that provider as a gap.  (A proxy that has lost all of
\* its routes has one nobody has checked, even if it bears the same name.)
GapsAreListed ==
    Quiet /\ proxy # Down /\ (LegacyMode(proxy) <=> LegacyMode(base)) =>
        \A m \in RouteNames(proxy), d \in Dimensions, live \in Probes :
            Passes(base, m, d, live) =>
                \A p \in Serving(proxy, m) :
                    live[p.name] \in 1 .. Published(proxy, m, d) - 1
                        => p.name \in Silent(proxy, m, d)

=============================================================================
