------------------------------ MODULE Rewrite ------------------------------
(***************************************************************************)
(* What a provider is sent: the tools of the request with the local        *)
(* references in their parameters expanded, and the reasoning effort of    *)
(* config.yaml in the place of the client's.  One request is sent to one   *)
(* provider after the other, each time made anew from what the client sent.*)
(*                                                                         *)
(* The tools of a request are Nil (there is no such field), Malformed (the *)
(* field is no array) or a sequence, which is empty for a null.  A tool is *)
(* nested if it is an object whose function is an object whose parameters  *)
(* are one: the tool of a chat completion.  The parameters any other has,  *)
(* such as a tool of the Responses API at its top level, are not looked    *)
(* at; they are Nil if it has none.                                        *)
(*                                                                         *)
(* Parameters are a root and the schemas at its places.  A schema is       *)
(*   own   : the constraints it states itself, whatever they are           *)
(*   ref   : the place its local $ref leads to, or Nil                     *)
(*   allOf : the places of the schemas of its allOf                        *)
(*   items : the places of the schemas one level below it: it stands for   *)
(*           properties, items, anyOf and whatever else has schemas        *)
(* A place is a JSON pointer, the sequence of its tokens; what is absent,  *)
(* or is no schema but a number, a string or an array, has no place.       *)
(* Definitions are places like others, part of no schema.  References to   *)
(* anything but a definition are left as they are and count among own; a   *)
(* boolean schema is one with nothing but own.                             *)
(***************************************************************************)
EXTENDS Integers, Sequences, FiniteSets

CONSTANTS
    Inputs,         \* the requests, each with the settings that apply to it
    Nil,            \* no such field, no entry, no reference
    Malformed,      \* tools that are no array
    Null            \* the YAML null

\* JSON is a finite tree: a schema lies below the one it is part of.
IsDocument(params) ==
    /\ IsFiniteSet(DOMAIN params.nodes) /\ DOMAIN params.nodes \subseteq Seq(STRING)
    /\ params.root \in DOMAIN params.nodes
    /\ \A p \in DOMAIN params.nodes :
          \A q \in params.nodes[p].allOf \cup params.nodes[p].items :
             q \in DOMAIN params.nodes /\ Len(q) > Len(p)

\* The tools whose parameters are looked at.
Nested(tools) ==
    IF tools \in {Nil, Malformed} THEN {} ELSE {k \in DOMAIN tools : tools[k].nested}

\* The global effort is required.
ASSUME RewriteAssumption ==
    /\ Nil # Null /\ Nil # Malformed
    /\ \A request \in Inputs :
          /\ request.global # Nil
          /\ \A k \in Nested(request.tools) : IsDocument(request.tools[k].parameters)

VARIABLES
    input,          \* what the client asks, and what config.yaml says
    sent,           \* what the providers tried so far were sent, in their order
    refused         \* the request ended as one that cannot be encoded

rewriteVars == <<input, sent, refused>>

-----------------------------------------------------------------------------
(* expandSchemaNode.  A call of it is the place of the schema it is for and  *)
(* the references it is resolving.  A result is a schema, whose parts are    *)
(* the calls that made them, or an error.                                    *)

References(params) == {params.nodes[p].ref : p \in DOMAIN params.nodes} \ {Nil}

Calls(params) == (DOMAIN params.nodes) \X (SUBSET References(params))

Error == [failed |-> TRUE, schema |-> Nil]
Done(schema) == [failed |-> FALSE, schema |-> schema]

\* resolveSchemaReference, and what it finds is a schema.
Resolves(params, ref) == ref \in DOMAIN params.nodes

\* The calls for the parts of a schema.
Called(schema, resolving) ==
    [own |-> schema.own, ref |-> schema.ref,
     allOf |-> {<<p, resolving>> : p \in schema.allOf},
     items |-> {<<p, resolving>> : p \in schema.items}]

\* Faulty variant: constraints beside a reference are ignored, as in draft 7.
NoSchemasBeside(schema) == schema.allOf = {} /\ schema.items = {}

\* Nothing stands beside the reference.
IsBare(schema) == schema.own = {} /\ schema.allOf = {} /\ schema.items = {}

\* The target joins what the schema must satisfy.
Join(schema, target) ==
    [own |-> schema.own, ref |-> Nil, allOf |-> schema.allOf \cup {target}, items |-> schema.items]

\* A schema is expanded if all its parts are.  A target that has joined them is
\* expanded once more, to itself: nothing in it is left to follow.
Whole(f, schema) ==
    IF \E part \in schema.allOf \cup schema.items : f[part].failed THEN Error ELSE Done(schema)

\* Faulty variant: a reference that leads nowhere is left as it is.
LeaveUnresolved(params, f, schema, resolving) ==
    LET target == <<schema.ref, resolving \cup {schema.ref}>> IN
    IF ~Resolves(params, schema.ref) THEN Whole(f, schema)
    ELSE IF schema.ref \in resolving \/ f[target].failed THEN Error
    ELSE IF IsBare(schema) THEN f[target]
    ELSE Whole(f, Join(schema, target))

\* A schema that is but a reference is replaced by what that leads to.
Follow(params, f, schema, resolving) ==
    LET target == <<schema.ref, resolving \cup {schema.ref}>> IN
    IF ~Resolves(params, schema.ref) \/ schema.ref \in resolving \/ f[target].failed
    THEN Error
    ELSE IF IsBare(schema) THEN f[target]
    ELSE Whole(f, Join(schema, target))

ExpandCall(params, f, call) ==
    LET schema == Called(params.nodes[call[1]], call[2]) IN
    IF schema.ref = Nil THEN Whole(f, schema) ELSE Follow(params, f, schema, call[2])

\* expandSchemaNode: the result of every call.
Expand(params) ==
    LET f[call \in Calls(params)] == ExpandCall(params, f, call) IN f

\* The call for the parameters of one tool.
ExpandParameters(params) ==
    LET f == Expand(params)
        first == <<params.root, {}>>
    IN  [failed |-> f[first].failed,
         document |-> [root |-> first,
                       nodes |-> [call \in {x \in Calls(params) : ~f[x].failed} |-> f[call].schema]]]

\* Only the parameters of a nested tool are expanded.
ExpandTool(tool) ==
    IF tool.nested
    THEN LET expanded == ExpandParameters(tool.parameters) IN
         [failed |-> expanded.failed, tool |-> [tool EXCEPT !.parameters = expanded.document]]
    ELSE [failed |-> FALSE, tool |-> tool]

NormalizeTools(tools) ==
    IF tools = Malformed THEN [failed |-> TRUE, tools |-> Nil]
    ELSE LET expanded == [k \in DOMAIN tools |-> ExpandTool(tools[k])] IN
         [failed |-> \E k \in DOMAIN tools : expanded[k].failed,
          tools |-> [k \in DOMAIN tools |-> expanded[k].tool]]

-----------------------------------------------------------------------------
(* The reasoning effort.  A setting is an effort, Null or, absent, Nil. *)

\* Faulty variant: a null is no setting.
WithoutStrip(setting) ==
    [effort |-> IF setting = Null THEN Nil ELSE setting, strip |-> FALSE]

\* normalizeProvider
Normalize(setting) ==
    [effort |-> IF setting = Null THEN Nil ELSE setting, strip |-> setting = Null]

\* resolveReasoningEffort
ResolveEffort(global, provider) ==
    CASE provider.strip -> Nil
      [] ~provider.strip /\ provider.effort # Nil -> provider.effort
      [] OTHER -> global

\* resolveReasoningEffortForModel, of an entry of the provider for the model.
ResolveEffortForModel(effort, entry) ==
    CASE entry = Null -> Nil
      [] entry = Nil -> effort
      [] OTHER -> entry

\* The effort of provider i; a global null is a nil pointer as well.
Effort(i) ==
    LET settings == input.providers[i]
        global == IF input.global = Null THEN Nil ELSE input.global
    IN  ResolveEffortForModel(ResolveEffort(global, Normalize(settings.effort)), settings.entry)

-----------------------------------------------------------------------------
RewriteInit ==
    /\ input \in Inputs
    /\ sent = <<>>
    /\ refused = FALSE

\* A request without tools has nothing to normalize.
OverrideTools(tools) ==
    IF tools = Nil THEN [failed |-> FALSE, tools |-> Nil] ELSE NormalizeTools(tools)

\* The next provider is tried: applyUpstreamOverrides.
Send ==
    /\ ~refused /\ Len(sent) < Len(input.providers)
    /\ LET overridden == OverrideTools(input.tools) IN
       IF overridden.failed THEN refused' = TRUE /\ UNCHANGED sent
       ELSE /\ sent' = Append(sent, [tools |-> overridden.tools, effort |-> Effort(Len(sent) + 1)])
            /\ UNCHANGED refused
    /\ UNCHANGED input

RewriteSpec == RewriteInit /\ [][Send]_rewriteVars

-----------------------------------------------------------------------------
(* The properties. *)

\* What one comes to from a schema.
After(params, p) ==
    params.nodes[p].allOf \cup params.nodes[p].items \cup ({params.nodes[p].ref} \ {Nil})

\* There are schemas that hold all one can come to from the root, and among
\* which nothing goes round: no part of them leads back into itself from
\* everywhere.
Sound(params) ==
    \E reached \in SUBSET DOMAIN params.nodes :
        /\ params.root \in reached
        /\ \A p \in reached : After(params, p) \subseteq reached
        /\ \A part \in (SUBSET reached) \ {{}} : \E p \in part : After(params, p) \cap part = {}

\* The schemas that a value a schema is for has to satisfy as well.
Alike(document, p) ==
    LET schema == document.nodes[p] IN
    schema.allOf \cup (({schema.ref} \ {Nil}) \cap DOMAIN document.nodes)

\* What a schema demands, and how far below the value it is for, if M is what
\* the other schemas of the document demand.
Demands(document, M, p) ==
    {<<0, constraint>> : constraint \in document.nodes[p].own}
        \cup (UNION {M[q] : q \in Alike(document, p)})
        \cup {<<m[1] + 1, m[2]>> : m \in UNION {M[q] : q \in document.nodes[p].items}}

Meaning(document) ==
    LET M[p \in DOMAIN document.nodes] == Demands(document, M, p) IN M[document.root]

\* A request is refused for its tools exactly if they are no array, or if in
\* the parameters of a nested one a reference that matters leads nowhere, to
\* something that is no schema, or round in a circle; one that is merely used
\* twice, that nothing uses or that some other tool has does no harm.
RefusesOnlyUnsound ==
    LET fit == /\ input.tools # Malformed
               /\ \A k \in Nested(input.tools) : Sound(input.tools[k].parameters)
    IN  /\ refused => ~fit
        /\ sent # <<>> => fit

\* Every provider is sent the tools the client sent, in their order: the
\* parameters of the nested ones without local references and with the same
\* demands, where the client's have them; any other as it was, references
\* included.
SchemaKeepsMeaning ==
    \A i \in DOMAIN sent :
        /\ input.tools = Nil => sent[i].tools = Nil
        /\ input.tools # Nil =>
              /\ DOMAIN sent[i].tools = DOMAIN input.tools
              /\ \A k \in DOMAIN input.tools :
                    IF input.tools[k].nested
                    THEN LET params == sent[i].tools[k].parameters IN
                         /\ \A p \in DOMAIN params.nodes : params.nodes[p].ref = Nil
                         /\ Meaning(params) = Meaning(input.tools[k].parameters)
                    ELSE sent[i].tools[k] = input.tools[k]

\* README, "Reasoning effort": every provider is sent the effort of the closest
\* setting there is, for the model before the provider before all, or none if
\* that is null, whatever the client sent and whoever was tried before.
EffortIsClosest ==
    \A i \in DOMAIN sent :
        LET layers == <<input.global, input.providers[i].effort, input.providers[i].entry>>
            set == {k \in DOMAIN layers : layers[k] # Nil}
            closest == layers[CHOOSE k \in set : \A j \in set : j <= k]
        IN  sent[i].effort = IF closest = Null THEN Nil ELSE closest

=============================================================================
