----------------------------- MODULE MCRouting -----------------------------
(* Instances of Routing: the configurations, the calls and the answers the *)
(* runs choose from.                                                       *)
EXTENDS Routing, TLC

CONSTANTS p1, p2    \* the providers

MCProviders == {p1, p2}

\* Requests are interchangeable (providers are not: routes list them in order).
Symmetry == Permutations(Request)

Broker(name, priority, alias, aliases) ==
    [name |-> name, priority |-> priority, alias |-> alias, aliases |-> aliases,
     limits |-> <<>>]

Route(providers, fallback) == [providers |-> providers, fallback |-> fallback]

\* Without model_routes: p2 before p1, by priority.
Legacy == [providers |-> <<Broker(p1, 1, TRUE, {}), Broker(p2, 2, TRUE, {})>>,
           routes |-> <<>>]

\* Accepted, though nobody serves "gonka": model_aliases win over model_alias.
LegacyWithoutGonka == [providers |-> <<Broker(p1, 1, TRUE, {"fast"})>>, routes |-> <<>>]

Brokers == <<Broker(p1, 1, FALSE, {"smart", "fast"}), Broker(p2, 1, TRUE, {"fast"})>>

\* "smart" is served by p1 alone and falls back to "fast", which both serve.
TwoRoutes == [providers |-> Brokers,
              routes |-> [m \in {"smart", "fast"} |->
                            IF m = "smart" THEN Route(<<p1>>, "fast") ELSE Route(<<>>, NoRoute)]]

\* Refused by Validate: the fallbacks go round.
Circle == [TwoRoutes EXCEPT !.routes["fast"] = Route(<<p2, p1>>, "smart")]

\* One provider, so that a single failure leaves nobody.
LegacyAlone == [providers |-> <<Broker(p1, 1, TRUE, {})>>, routes |-> <<>>]
RoutesAlone == [providers |-> <<Broker(p1, 1, FALSE, {"smart", "fast"})>>,
                routes |-> TwoRoutes.routes]

LegacyConfigs == {Legacy, LegacyWithoutGonka}
RouteConfigs == {TwoRoutes, Circle}
LiveConfigs == {LegacyAlone, RoutesAlone}

Call(model, endpoint, stream) ==
    [model |-> model, endpoint |-> endpoint, stream |-> stream, encodable |-> TRUE]

Unencodable == [Call("fast", "chat", FALSE) EXCEPT !.encodable = FALSE]

AllCalls == {Call("smart", "chat", FALSE), Call("fast", "responses", TRUE), Unencodable,
             Call("other", "chat", FALSE), Call(NoModel, "chat", FALSE)}
SmartCalls == {Call("smart", "chat", FALSE)}

Answer(status, hint) ==
    [status |-> status, events |-> FALSE, hint |-> hint, choices |-> Absent]

Said(content, tools) == [content |-> content, tools |-> tools]

Completion(finish, message) ==
    [Answer(OK, "none") EXCEPT
        !.choices = <<[finish |-> finish, message |-> message, delta |-> NoMessage]>>]

Full == Completion("stop", Said(TRUE, FALSE))
Empty == Completion("", Said(FALSE, FALSE))
Events == [Answer(OK, "none") EXCEPT !.events = TRUE]

AllAnswers == {Full, Empty, Events, Answer(429, "none"), Answer(401, "disabled"), Answer(404, "none")}
FewAnswers == {Full, Events, Answer(503, "none")}
LiveAnswers == {Full, Events, Answer(404, "none")}
EmptyAnswers == {Full, Empty}

=============================================================================
