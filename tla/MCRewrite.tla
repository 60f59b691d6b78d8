----------------------------- MODULE MCRewrite -----------------------------
(* Instances of Rewrite: one tool with all small schemas, two tools of all   *)
(* kinds, and all settings of the effort.                                    *)
EXTENDS Rewrite, TLC

Schema(own, ref, allOf, items) == [own |-> own, ref |-> ref, allOf |-> allOf, items |-> items]

\* C is never defined.
Refs == {<<"A">>, <<"B">>, <<"C">>, <<"A", "items">>}

Leaves == {Schema({"leaf"}, Nil, {}, {})} \cup {Schema({}, ref, {}, {}) : ref \in Refs}

AllOf(p) == Append(p, "allOf")
Items(p) == Append(p, "items")

\* What a definition may be: no schema, one alone, one with another below it.
Definitions(p, constraint) ==
    {<<>>}
        \cup {p :> Schema(own, ref, {}, {}) : own \in {{}, {constraint}}, ref \in Refs \cup {Nil}}
        \cup {(p :> Schema(own, ref, {AllOf(p)}, {})) @@ (AllOf(p) :> leaf) :
                  own \in {{}, {constraint}}, ref \in Refs \cup {Nil}, leaf \in Leaves}
        \cup {(p :> Schema(own, ref, {}, {Items(p)})) @@ (Items(p) :> leaf) :
                  own \in {{}, {constraint}}, ref \in Refs \cup {Nil}, leaf \in Leaves}

\* A root that uses A, and one that uses A and B.
Roots == {(<<>> :> root) @@ (<<"items">> :> Schema({}, <<"A">>, {}, {})) :
             root \in {Schema({"root"}, Nil, {}, {<<"items">>}), Schema({}, <<"B">>, {}, {<<"items">>})}}

Parameters == {[root |-> <<>>, nodes |-> root @@ a @@ b] :
                  root \in Roots, a \in Definitions(<<"A">>, "a"), b \in Definitions(<<"B">>, "b")}

\* A reference that leads nowhere, one that leads round, one that is followed.
Leading(to) == [root |-> <<>>,
                nodes |-> (<<>> :> Schema({"root"}, <<"A">>, {}, {})) @@ (<<"A">> :> Schema({"a"}, to, {}, {}))]
Few == {Leading(<<"C">>), Leading(<<"A">>), Leading(Nil)}

Tool(nested, params) == [nested |-> nested, parameters |-> params]

\* Two tools of either kind, one without parameters among them.
TwoTools == {<<first, second>> : first, second \in {Tool(FALSE, Nil)} \cup {Tool(nested, params) :
                                                       nested \in BOOLEAN, params \in Few}}

Tools == {<<Tool(TRUE, params)>> : params \in Parameters} \cup TwoTools \cup {Nil, Malformed, <<>>}

Default == [effort |-> Nil, entry |-> Nil]

Settings == [effort : {Nil, Null, "low", "high"}, entry : {Nil, Null, "low"}]

MCInputs ==
    {[tools |-> tools, global |-> "low", providers |-> <<Default, Default>>] : tools \in Tools}
        \cup {[tools |-> Nil, global |-> global, providers |-> providers] :
                 global \in {Null, "low", "high"}, providers \in [1 .. 2 -> Settings]}

=============================================================================
