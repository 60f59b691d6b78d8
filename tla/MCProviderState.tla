-------------------------- MODULE MCProviderState --------------------------
(* Instances of ProviderState and Limits: what config.yaml may say. *)
EXTENDS Limits, TLC

CONSTANTS p1, p2, p3    \* the providers

Broker(name, priority, alias, aliases, limits) ==
    [name |-> name, priority |-> priority, alias |-> alias, aliases |-> aliases, limits |-> limits]

Silence == <<>>     \* no model_limits

Limit(models, context, output) == [m \in models |-> [context |-> context, output |-> output]]

Route(providers, fallback) == [providers |-> providers, fallback |-> fallback]

\* "deep" lists p3, who does serve it, and p2, who does not; "fast" is for
\* whoever serves it, in the order p3, p2, p1, and p2 says nothing of its context;
\* p2 serves "smart" as well but is not in its list.
Chain ==
    [providers |-> <<Broker(p1, 1, FALSE, {"smart", "fast"}, Limit({"smart", "fast"}, 1, 2)),
                     Broker(p2, 2, TRUE, {"smart", "fast"}, Limit({"smart", "fast"}, 0, 1)),
                     Broker(p3, 3, FALSE, {"deep", "fast"}, Limit({"fast"}, 2, 2))>>,
     routes |-> [m \in {"deep", "smart", "fast"} |->
                    CASE m = "deep"  -> Route(<<p2, p3>>, "smart")
                      [] m = "smart" -> Route(<<p1>>, "fast")
                      [] m = "fast"  -> Route(<<>>, NoRoute)]]

\* One route with a provider of its own, and a provider with a scalar alias.
Lone == [providers |-> <<Broker(p1, 1, FALSE, {"smart"}, Silence), Broker(p2, 2, TRUE, {}, Silence)>>,
         routes |-> [m \in {"smart"} |-> Route(<<p1>>, NoRoute)]]

Legacy == [providers |-> <<Broker(p1, 1, TRUE, {}, Limit({Gonka}, 1, 2)),
                           Broker(p2, 2, TRUE, {}, Limit({Gonka}, 2, 0))>>,
           routes |-> <<>>]

\* A route with the name of the implicit one, and a provider outside of its list
\* who would serve that.
Namesake ==
    [providers |-> <<Broker(p1, 1, TRUE, {}, Silence), Broker(p2, 2, TRUE, {}, Limit({Gonka}, 2, 2))>>,
     routes |-> [m \in {Gonka} |-> Route(<<p1>>, NoRoute)]]

AllBases == {Chain, Lone, Legacy, Namesake}
LoneBases == {Lone}
\* The commands differ in nothing but their names.
Commands == Permutations(Command)

\* An operator has left a provider in it that is no longer configured; to all
\* others that is an empty file.
MCFirstFiles == {{"retired"}}

=============================================================================
