------------------------ MODULE ProviderStateProofs ------------------------
(***************************************************************************)
(* Proofs about ProviderState and Limits, for any configurations that can  *)
(* be decoded, any number of processes and any probes.                     *)
(*                                                                         *)
(* The state file follows the commands, but for what those that overlap    *)
(* miss of each other; those facts do not look at what is in a             *)
(* configuration.  What FilterDisabledProviders                            *)
(* makes of one that Validate accepts - the same routes, in the same order, *)
(* less the disabled - and that it would be accepted again, follows from   *)
(* ConfigInv: what is running is what the filter made of config.yaml.      *)
(*                                                                         *)
(* The published limits are the minima of the same sets in the proxy and   *)
(* in limits-check.                                                        *)
(***************************************************************************)
EXTENDS Limits, ConfigProofs

\* A command about to save writes what it was told of its own names, and what is
\* wanted of those that nobody has toggled since it read the file.
Saves(c) ==
    LET own == command[c].names IN
    /\ \A x \in own : x \in command[c].next <=> command[c].disable
    /\ \A x : x \notin own \cup missed[c] \cup undone => (x \in command[c].next <=> x \in wanted)

CommandType ==
    /\ DOMAIN command = Command
    /\ command = [c \in Command |-> command[c]]
    /\ missed = [c \in Command |-> missed[c]]
    /\ \A c \in Command : command[c].pc \in {"idle", "save"}

OverlapInv ==
    /\ CommandType
    /\ file \ undone = wanted
    /\ \A c \in Command : command[c].pc = "save" => Saves(c)

-----------------------------------------------------------------------------
LEMMA OverlapInvInit == StateInit => OverlapInv
<1> SUFFICES ASSUME StateInit
             PROVE  OverlapInv
  OBVIOUS
<1>1. /\ command = [c \in Command |-> Finished] /\ missed = [c \in Command |-> {}]
      /\ file = wanted /\ undone = {}
  BY DEF StateInit
<1>2. \A c \in Command : command[c].pc = "idle"
  BY <1>1 DEF Finished
<1>3. CommandType
  BY <1>1, <1>2 DEF CommandType
<1>4. QED
  BY <1>1, <1>2, <1>3 DEF OverlapInv

\* A command has missed nothing when it has just read the file.
LEMMA ReadStateKeeps ==
  ASSUME OverlapInv, NEW c \in Command, NEW disable, NEW names, ReadState(c, disable, names)
  PROVE  OverlapInv'
<1> DEFINE read == [pc |-> "save", disable |-> disable, names |-> names,
                    next |-> Toggled(names, disable, file)]
<1>1. /\ command' = [command EXCEPT ![c] = read]
      /\ file' = file /\ missed' = missed /\ undone' = undone /\ wanted' = wanted
  BY DEF ReadState
<1>2. command'[c] = read /\ \A d \in Command \ {c} : command'[d] = command[d]
  BY <1>1 DEF OverlapInv, CommandType
<1>3. CommandType'
  BY <1>1, <1>2 DEF OverlapInv, CommandType
<1>4. Saves(c)'
  BY <1>1, <1>2 DEF Saves, Toggled, OverlapInv
<1>5. ASSUME NEW d \in Command, d # c, command'[d].pc = "save"
      PROVE  Saves(d)'
  BY <1>1, <1>2, <1>5 DEF Saves, OverlapInv
<1>6. QED
  BY <1>1, <1>3, <1>4, <1>5 DEF OverlapInv

\* What a command writes is wanted but for what it has missed; the others have
\* now missed what it was for.
LEMMA ReplaceKeeps ==
  ASSUME OverlapInv, NEW c \in Command, Replace(c)
  PROVE  OverlapInv'
<1> DEFINE own == command[c].names
<1>1. /\ command[c].pc = "save" /\ command' = [command EXCEPT ![c] = Finished]
      /\ file' = command[c].next
      /\ missed' = [d \in Command |-> IF d = c \/ command[d].pc = "idle" THEN {}
                                      ELSE missed[d] \cup (own \ command[d].names)]
      /\ undone' = (undone \ own) \cup missed[c]
      /\ wanted' = Toggled(own, command[c].disable, wanted) \ missed[c]
  BY DEF Replace
<1>2. command'[c].pc = "idle" /\ \A d \in Command \ {c} : command'[d] = command[d]
  BY <1>1 DEF OverlapInv, CommandType, Finished
<1>3. CommandType'
  BY <1>1, <1>2 DEF OverlapInv, CommandType
<1>4. Saves(c) /\ file \ undone = wanted
  BY <1>1 DEF OverlapInv
<1>5. file' \ undone' = wanted'
  <2>1. ASSUME NEW x
        PROVE  x \in file' \ undone' <=> x \in wanted'
    <3>1. CASE x \in own
      BY <1>1, <1>4, <3>1 DEF Saves, Toggled
    <3>2. CASE x \notin own
      BY <1>1, <1>4, <3>2 DEF Saves, Toggled
    <3>3. QED
      BY <3>1, <3>2
  <2>2. QED
    BY <2>1
<1>6. ASSUME NEW d \in Command, command'[d].pc = "save"
      PROVE  Saves(d)'
  <2>1. d # c /\ command'[d] = command[d] /\ command[d].pc = "save"
    BY <1>2, <1>6
  <2>2. missed'[d] = missed[d] \cup (own \ command[d].names)
    BY <1>1, <2>1
  <2>3. Saves(d)
    BY <2>1 DEF OverlapInv
  <2>4. ASSUME NEW x, x \notin command[d].names \cup missed'[d] \cup undone'
        PROVE  x \in command[d].next <=> x \in wanted'
    <3>1. x \notin own /\ x \notin undone /\ x \notin missed[c] /\ x \notin missed[d]
      BY <1>1, <2>2, <2>4
    <3>2. x \in wanted' <=> x \in wanted
      BY <1>1, <3>1 DEF Toggled
    <3>3. QED
      BY <2>3, <2>4, <3>1, <3>2 DEF Saves
  <2>5. QED
    BY <2>1, <2>3, <2>4 DEF Saves
<1>7. QED
  BY <1>3, <1>5, <1>6 DEF OverlapInv

LEMMA AbandonKeeps ==
  ASSUME OverlapInv, NEW c \in Command, Abandon(c)
  PROVE  OverlapInv'
<1>1. /\ command' = [command EXCEPT ![c] = Finished] /\ missed' = [missed EXCEPT ![c] = {}]
      /\ file' = file /\ undone' = undone /\ wanted' = wanted
  BY DEF Abandon
<1>2. /\ command'[c].pc = "idle"
      /\ \A d \in Command \ {c} : command'[d] = command[d] /\ missed'[d] = missed[d]
  BY <1>1 DEF OverlapInv, CommandType, Finished
<1>3. CommandType'
  BY <1>1, <1>2 DEF OverlapInv, CommandType
<1>4. ASSUME NEW d \in Command, command'[d].pc = "save"
      PROVE  Saves(d)'
  BY <1>1, <1>2, <1>4 DEF OverlapInv, Saves
<1>5. QED
  BY <1>1, <1>3, <1>4 DEF OverlapInv

LEMMA OverlapInvNext == OverlapInv /\ [StateNext]_stateVars => OverlapInv'
<1> SUFFICES ASSUME OverlapInv, [StateNext]_stateVars
             PROVE  OverlapInv'
  OBVIOUS
<1>1. CASE \E c \in Command : \E disable \in BOOLEAN, names \in SUBSET Names(base) :
              ReadState(c, disable, names)
  BY <1>1, ReadStateKeeps
<1>2. CASE \E c \in Command : Replace(c)
  BY <1>2, ReplaceKeeps
<1>3. CASE \E c \in Command : Abandon(c)
  BY <1>3, AbandonKeeps
<1>4. CASE UNCHANGED fileVars
  BY <1>4 DEF OverlapInv, CommandType, Saves, fileVars
<1>5. Start \/ Stop \/ UNCHANGED stateVars => UNCHANGED fileVars
  BY DEF Start, Stop, stateVars
<1>6. QED
  BY <1>1, <1>2, <1>3, <1>4, <1>5 DEF StateNext

\* Whatever the commands are, however they overlap and wherever they die, the
\* state file says what was last asked for of every provider, but for those
\* that a command toggled between another's reading and writing of the file.
THEOREM OnlyOverlapsUndoHolds == StateSpec => []OnlyOverlapsUndo
<1>1. OverlapInv => OnlyOverlapsUndo
  BY DEF OverlapInv, OnlyOverlapsUndo
<1>2. QED
  BY OverlapInvInit, OverlapInvNext, <1>1, PTL DEF StateSpec

-----------------------------------------------------------------------------
(* FilterDisabledProviders *)

\* Whoever is left of the providers is left in the same order.
LEMMA FilteredProviders ==
  ASSUME NEW c, IsConfig(c), NEW disabled
  PROVE  LET f == FilterDisabledProviders(c, disabled) IN
         /\ f.providers \in Seq(Elements(f.providers))
         /\ Elements(f.providers) = {p \in Elements(c.providers) : p.name \notin disabled}
         /\ Names(f) = Names(c) \ disabled
         /\ \E at : /\ \A k \in DOMAIN f.providers : at[k] \in DOMAIN c.providers
                    /\ \A i, j \in DOMAIN f.providers : i < j => at[i] < at[j]
                    /\ \A k \in DOMAIN f.providers : f.providers[k] = c.providers[at[k]]
<1> DEFINE f == FilterDisabledProviders(c, disabled)
           S == {p \in Elements(c.providers) : p.name \notin disabled}
<1>1. c.providers \in Seq(Elements(c.providers))
  BY ProvidersType
<1>2. f.providers = Kept(c.providers, S)
  BY DEF FilterDisabledProviders
<1>3. Elements(f.providers) = S
  BY <1>1, <1>2, KeptElements
<1>4. Names(f) = Names(c) \ disabled
  BY <1>3 DEF Names
<1>5. PICK at \in Seq(DOMAIN c.providers) : Keeping(at, c.providers, S)
  BY <1>1, KeptPlaces
<1>6. DOMAIN f.providers = DOMAIN at
  BY <1>2, <1>5 DEF Keeping
<1>7. \A k \in DOMAIN at : at[k] \in DOMAIN c.providers
  BY ElementOfSeq, LenProperties
<1>8. /\ \A i, j \in DOMAIN f.providers : i < j => at[i] < at[j]
      /\ \A k \in DOMAIN f.providers : f.providers[k] = c.providers[at[k]]
  BY <1>2, <1>5, <1>6 DEF Keeping
<1>9. f.providers \in Seq(Elements(f.providers))
  <2>1. Kept(c.providers, S) \in Seq(Elements(c.providers))
    BY <1>1, KeptPlaces
  <2>2. f.providers \in [1 .. Len(f.providers) -> Elements(f.providers)] /\ Len(f.providers) \in Nat
    <3>1. f.providers \in [1 .. Len(f.providers) -> Elements(c.providers)] /\ Len(f.providers) \in Nat
      BY <1>2, <2>1, LenProperties
    <3> HIDE DEF f
    <3>2. QED
      BY <3>1 DEF Elements
  <2> HIDE DEF f
  <2>3. QED
    BY <2>2, SeqDef
<1>10. QED
  BY <1>3, <1>4, <1>6, <1>7, <1>8, <1>9

LEMMA FilteredRoutes ==
  ASSUME NEW c, NEW disabled
  PROVE  LET f == FilterDisabledProviders(c, disabled) IN
         /\ DOMAIN f.routes = {m \in DOMAIN c.routes : Survives(c, disabled, m)}
         /\ \A m \in DOMAIN f.routes :
               /\ f.routes[m].providers = Remaining(c.routes[m].providers, disabled)
               /\ f.routes[m].fallback = FilteredFallback(c, disabled, m)
  BY DEF FilterDisabledProviders

\* What a route lists is left in the same order, too.
LEMMA RemainingNames ==
  ASSUME NEW T, NEW names \in Seq(T), NEW disabled
  PROVE  /\ Remaining(names, disabled) \in Seq(Elements(Remaining(names, disabled)))
         /\ Elements(Remaining(names, disabled)) = Elements(names) \ disabled
         /\ Remaining(names, disabled) = <<>> <=> Elements(names) \subseteq disabled
<1> DEFINE left == Remaining(names, disabled)
<1>1. left \in Seq(T)
  BY KeptPlaces DEF Remaining
<1>2. Elements(left) = Elements(names) \ disabled
  BY KeptElements DEF Remaining
<1>3. left \in [1 .. Len(left) -> T] /\ Len(left) \in Nat
  BY <1>1, LenProperties
<1> HIDE DEF left
<1>4. left \in Seq(Elements(left))
  <2>1. left \in [1 .. Len(left) -> Elements(left)]
    BY <1>3 DEF Elements
  <2>2. QED
    BY <1>3, <2>1, SeqDef
<1>5. left = <<>> <=> Elements(left) = {}
  BY <1>1, <1>3, EmptySeq DEF Elements
<1>6. QED
  BY <1>2, <1>4, <1>5 DEF left

LEMMA FilteredIsConfig ==
  ASSUME NEW c, IsConfig(c), NEW disabled
  PROVE  IsConfig(FilterDisabledProviders(c, disabled))
<1> DEFINE f == FilterDisabledProviders(c, disabled)
<1>1. f.providers \in Seq(Elements(f.providers)) /\ Elements(f.providers) \subseteq Elements(c.providers)
  BY FilteredProviders
<1>2. \A p \in Elements(f.providers) :
         /\ p.priority \in Int
         /\ \A m \in DOMAIN p.limits : p.limits[m] \in [context : Nat, output : Nat]
  BY <1>1 DEF IsConfig, Elements
<1>3. DOMAIN f.routes \subseteq DOMAIN c.routes
  BY FilteredRoutes
<1>4. IsFiniteSet(DOMAIN f.routes) /\ NoRoute \notin DOMAIN f.routes
  BY <1>3, FS_Subset DEF IsConfig
<1>5. ASSUME NEW m \in DOMAIN f.routes
      PROVE  f.routes[m].providers \in Seq(Elements(f.routes[m].providers))
  <2>1. c.routes[m].providers \in Seq(Elements(c.routes[m].providers))
    BY <1>3 DEF IsConfig, Elements
  <2>2. f.routes[m].providers = Remaining(c.routes[m].providers, disabled)
    BY FilteredRoutes
  <2>3. QED
    BY <2>1, <2>2, RemainingNames
<1> HIDE DEF f
<1>6. IsConfig(f)
  BY <1>1, <1>2, <1>4, <1>5 DEF IsConfig, Elements
<1>7. QED
  BY <1>6 DEF f

\* A route survives exactly if one of those it may use is left and serves it.
LEMMA SurvivesIff ==
  ASSUME NEW c, IsConfig(c), Valid(c), NEW disabled, NEW m \in DOMAIN c.routes
  PROVE  Survives(c, disabled, m) <=>
            \E p \in Elements(c.providers) :
               p.name \in Eligible(c, m) /\ p.name \notin disabled /\ Serves(p, m)
  BY CandidatesAreEligible DEF Survives

\* A route of both configurations may use whom it might before, but for the
\* disabled ones, and in the same order.
LEMMA FilteredOrder ==
  ASSUME NEW c, IsConfig(c), Valid(c), NEW disabled,
         LegacyMode(FilterDisabledProviders(c, disabled)) <=> LegacyMode(c),
         NEW m \in RouteNames(FilterDisabledProviders(c, disabled))
  PROVE  LET f == FilterDisabledProviders(c, disabled) IN
         /\ m \in RouteNames(c)
         /\ Listed(f, m) <=> Listed(c, m)
         /\ Eligible(f, m) = Eligible(c, m) \ disabled
         /\ TriedBefore(f, m) \subseteq TriedBefore(c, m)
<1> DEFINE f == FilterDisabledProviders(c, disabled)
<1>1. m \in RouteNames(c)
  BY FilteredRoutes DEF RouteNames
<1>2. PICK at : /\ \A k \in DOMAIN f.providers : at[k] \in DOMAIN c.providers
                /\ \A i, j \in DOMAIN f.providers : i < j => at[i] < at[j]
                /\ \A k \in DOMAIN f.providers : f.providers[k] = c.providers[at[k]]
  BY FilteredProviders
<1>3. Names(f) = Names(c) \ disabled
  BY FilteredProviders
<1>4. CASE Listed(c, m)
  <2> DEFINE names == c.routes[m].providers
             left == Remaining(names, disabled)
  <2>1. m \in DOMAIN c.routes /\ names \in Seq(Eligible(c, m)) /\ Eligible(c, m) = Elements(names)
    BY <1>1, <1>4, ListedNames DEF Eligible
  <2>2. m \in DOMAIN f.routes /\ Survives(c, disabled, m) /\ f.routes[m].providers = left
    BY <1>4, FilteredRoutes DEF RouteNames, Listed
  <2>3. Elements(left) = Elements(names) \ disabled /\ left # <<>>
    <3>1. ~(Elements(names) \subseteq disabled)
      BY <2>1, <2>2, SurvivesIff
    <3>2. QED
      BY <2>1, <3>1, RemainingNames
  <2>4. Listed(f, m)
    BY <1>4, <2>2, <2>3 DEF Listed
  <2>5. Eligible(f, m) = Eligible(c, m) \ disabled
    BY <2>1, <2>2, <2>3, <2>4 DEF Eligible
  <2>6. PICK place \in Seq(DOMAIN names) : Keeping(place, names, Elements(names) \ disabled)
    BY <2>1, KeptPlaces
  <2>7. /\ DOMAIN left = DOMAIN place
        /\ \A i, j \in DOMAIN place : i < j => place[i] < place[j]
        /\ \A i \in DOMAIN place : place[i] \in DOMAIN names /\ left[i] = names[place[i]]
    <3>1. left = [i \in DOMAIN place |-> names[place[i]]]
      BY <2>6 DEF Keeping, Remaining
    <3>2. \A i, j \in DOMAIN place : i < j => place[i] < place[j]
      BY <2>6 DEF Keeping
    <3>3. \A i \in DOMAIN place : place[i] \in DOMAIN names
      BY ElementOfSeq, LenProperties
    <3> HIDE DEF left, names
    <3>4. QED
      BY <3>1, <3>2, <3>3
  <2>8. TriedBefore(f, m) \subseteq TriedBefore(c, m)
    <3> SUFFICES ASSUME NEW ab \in TriedBefore(f, m)
                 PROVE  ab \in TriedBefore(c, m)
      OBVIOUS
    <3>1. PICK i \in DOMAIN left, j \in DOMAIN left : i < j /\ ab = <<left[i], left[j]>>
      BY <2>2, <2>4 DEF TriedBefore
    <3>2. ab \in Eligible(c, m) \X Eligible(c, m)
      BY <2>4, <2>5 DEF TriedBefore
    <3>3. place[i] < place[j] /\ ab = <<names[place[i]], names[place[j]]>>
          /\ place[i] \in DOMAIN names /\ place[j] \in DOMAIN names
      BY <2>7, <3>1
    <3>4. QED
      BY <1>4, <3>2, <3>3 DEF TriedBefore
  <2>9. QED
    BY <1>1, <1>4, <2>4, <2>5, <2>8
<1>5. CASE ~Listed(c, m)
  <2>1. ~Listed(f, m)
    <3>1. CASE LegacyMode(c)
      BY <3>1 DEF Listed
    <3>2. CASE ~LegacyMode(c)
      <4>1. m \in DOMAIN c.routes /\ m \in DOMAIN f.routes /\ c.routes[m].providers = <<>>
        BY <1>1, <1>5, <3>2 DEF Listed, RouteNames
      <4>2. f.routes[m].providers = Remaining(<<>>, disabled)
        BY <4>1, FilteredRoutes
      <4>3. <<>> \in Seq({}) /\ Elements(<<>>) = {}
        BY EmptySeq DEF Elements
      <4>4. f.routes[m].providers = <<>>
        BY <4>2, <4>3, RemainingNames
      <4>5. QED
        BY <4>4 DEF Listed
    <3>3. QED
      BY <3>1, <3>2
  <2>2. Eligible(f, m) = Eligible(c, m) \ disabled
    BY <1>3, <1>5, <2>1 DEF Eligible
  <2>3. TriedBefore(f, m) \subseteq TriedBefore(c, m)
    <3> SUFFICES ASSUME NEW ab \in TriedBefore(f, m)
                 PROVE  ab \in TriedBefore(c, m)
      OBVIOUS
    <3>1. PICK i \in DOMAIN f.providers, j \in DOMAIN f.providers :
             Sooner(f.providers, i, j) /\ ab = <<f.providers[i].name, f.providers[j].name>>
      BY <2>1 DEF TriedBefore
    <3>2. ab \in Eligible(c, m) \X Eligible(c, m)
      BY <2>1, <2>2 DEF TriedBefore
    <3>3. Sooner(c.providers, at[i], at[j])
      BY <1>2, <3>1 DEF Sooner
    <3>4. ab = <<c.providers[at[i]].name, c.providers[at[j]].name>>
      BY <1>2, <3>1
    <3>5. QED
      BY <1>2, <1>5, <3>2, <3>3, <3>4 DEF TriedBefore
  <2>4. QED
    BY <1>1, <1>5, <2>1, <2>2, <2>3
<1>6. QED
  BY <1>4, <1>5

-----------------------------------------------------------------------------
(* What the proxy runs with. *)

\* config.yaml was accepted, and so was what the proxy has made of it.
ConfigInv ==
    /\ base \in Bases /\ Valid(base)
    /\ proxy # Down => proxy = FilterDisabledProviders(base, applied) /\ Valid(proxy)

LEMMA ConfigInvHolds == StateSpec => []ConfigInv
<1>1. StateInit => ConfigInv
  BY DEF StateInit, ConfigInv
<1>2. ConfigInv /\ [StateNext]_stateVars => ConfigInv'
  <2> SUFFICES ASSUME ConfigInv, [StateNext]_stateVars
               PROVE  ConfigInv'
    OBVIOUS
  <2>1. base' = base
    BY DEF StateNext, ReadState, Replace, Abandon, Start, Stop, stateVars
  <2>2. UNCHANGED <<proxy, applied>> \/ Start \/ Stop
    BY DEF StateNext, ReadState, Replace, Abandon, stateVars
  <2>3. QED
    BY <2>1, <2>2 DEF ConfigInv, Start, Stop
<1>3. QED
  BY <1>1, <1>2, PTL DEF StateSpec

LEMMA BaseIsConfig ==
  ASSUME ConfigInv
  PROVE  /\ IsConfig(base) /\ Valid(base)
         /\ proxy # Down => /\ proxy = FilterDisabledProviders(base, applied)
                            /\ IsConfig(proxy) /\ Valid(proxy)
  BY BasesAssumption, FilteredIsConfig DEF ConfigInv

\* Those left of a route that can still be used.
LEMMA LeftOfRoute ==
  ASSUME IsConfig(base), Valid(base), NEW m \in RouteNames(base), NEW disabled
  PROVE  /\ Left(m, disabled) \in Seq(Eligible(base, m))
         /\ Elements(Left(m, disabled)) =
               {p.name : p \in {p \in Elements(base.providers) :
                   p.name \in Eligible(base, m) /\ Serves(p, m)}} \ disabled
         /\ Increasing(Left(m, disabled), TriedBefore(base, m))
<1>1. /\ RouteProviders(base, m) \in Seq(Eligible(base, m))
      /\ Elements(RouteProviders(base, m)) =
            {p.name : p \in {p \in Elements(base.providers) :
                                p.name \in Eligible(base, m) /\ Serves(p, m)}}
      /\ Increasing(RouteProviders(base, m), TriedBefore(base, m))
  BY RouteProvidersInOrder
<1>2. QED
  BY <1>1, KeptPlaces, KeptIncreasing, RemainingNames DEF Left, Remaining

\* A route survives exactly if somebody is left of it.
LEMMA SurvivesIfLeft ==
  ASSUME IsConfig(base), Valid(base), NEW m \in DOMAIN base.routes, NEW disabled
  PROVE  Survives(base, disabled, m) <=> Left(m, disabled) # <<>>
<1>1. m \in RouteNames(base)
  BY DEF RouteNames, LegacyMode
<1>2. RouteProviders(base, m) \in Seq(Eligible(base, m))
  BY <1>1, RouteProvidersInOrder
<1>3. Left(m, disabled) = <<>> <=> Elements(RouteProviders(base, m)) \subseteq disabled
  BY <1>2, RemainingNames DEF Left
<1>4. Elements(RouteProviders(base, m)) =
         {p.name : p \in {p \in Elements(base.providers) :
                             p.name \in Eligible(base, m) /\ Serves(p, m)}}
  BY <1>1, RouteProvidersInOrder
<1>5. QED
  BY <1>3, <1>4, SurvivesIff

LEMMA KeepsRoutesInv == ConfigInv => KeepsRoutes
<1> SUFFICES ASSUME ConfigInv, proxy # Down, LegacyMode(proxy) <=> LegacyMode(base)
             PROVE  /\ \A m \in RouteNames(proxy) :
                          /\ RouteProviders(proxy, m) = Left(m, applied)
                          /\ Fallback(proxy, m) = IF Fallback(base, m) \in RouteNames(proxy)
                                                  THEN Fallback(base, m) ELSE NoRoute
                    /\ ~LegacyMode(base) =>
                          RouteNames(proxy) = {m \in RouteNames(base) : Left(m, applied) # <<>>}
  BY DEF KeepsRoutes
<1>1. /\ IsConfig(base) /\ Valid(base) /\ IsConfig(proxy) /\ Valid(proxy)
      /\ proxy = FilterDisabledProviders(base, applied)
  BY BaseIsConfig
<1>2. ASSUME NEW m \in RouteNames(proxy)
      PROVE  RouteProviders(proxy, m) = Left(m, applied)
  <2> DEFINE S == Eligible(base, m)
             before == TriedBefore(base, m)
             now == RouteProviders(proxy, m)
  <2>1. /\ m \in RouteNames(base)
        /\ Eligible(proxy, m) = S \ applied
        /\ TriedBefore(proxy, m) \subseteq before
    BY <1>1, FilteredOrder
  <2>2. Orders(before, S)
    BY <1>1, <2>1, TriedBeforeOrders
  <2>3. /\ now \in Seq(S \ applied)
        /\ Elements(now) = {p.name : p \in {p \in Elements(proxy.providers) :
                                               p.name \in S \ applied /\ Serves(p, m)}}
        /\ Increasing(now, TriedBefore(proxy, m))
    BY <1>1, <2>1, RouteProvidersInOrder
  <2>4. now \in Seq(S) /\ Increasing(now, before)
    <3>1. Seq(S \ applied) \subseteq Seq(S)
      BY SeqMonotonic
    <3>2. QED
      BY <2>1, <2>3, <3>1 DEF Increasing
  <2>5. /\ Left(m, applied) \in Seq(S)
        /\ Elements(Left(m, applied)) =
              {p.name : p \in {p \in Elements(base.providers) :
                                  p.name \in S /\ Serves(p, m)}} \ applied
        /\ Increasing(Left(m, applied), before)
    BY <1>1, <2>1, LeftOfRoute
  <2>6. Elements(proxy.providers) = {p \in Elements(base.providers) : p.name \notin applied}
    BY <1>1, FilteredProviders
  <2>7. Elements(now) = Elements(Left(m, applied))
    BY <2>3, <2>5, <2>6
  <2> HIDE DEF S, before, now
  <2>8. now = Left(m, applied)
    BY <2>2, <2>4, <2>5, <2>7, OneOrder
  <2>9. QED
    BY <2>8 DEF now
<1>3. ASSUME NEW m \in RouteNames(proxy)
      PROVE  Fallback(proxy, m) = IF Fallback(base, m) \in RouteNames(proxy)
                                  THEN Fallback(base, m) ELSE NoRoute
  <2>1. CASE LegacyMode(base)
    BY <2>1 DEF Fallback
  <2>2. CASE ~LegacyMode(base)
    BY <1>1, <2>2, FilteredRoutes DEF Fallback, FilteredFallback, RouteNames
  <2>3. QED
    BY <2>1, <2>2
<1>4. ASSUME ~LegacyMode(base)
      PROVE  RouteNames(proxy) = {m \in RouteNames(base) : Left(m, applied) # <<>>}
  <2>1. RouteNames(base) = DOMAIN base.routes /\ RouteNames(proxy) = DOMAIN proxy.routes
    BY <1>4 DEF RouteNames
  <2>2. DOMAIN proxy.routes = {m \in DOMAIN base.routes : Survives(base, applied, m)}
    BY <1>1, FilteredRoutes
  <2>3. QED
    BY <1>1, <2>1, <2>2, SurvivesIfLeft
<1>5. QED
  BY <1>2, <1>3, <1>4

\* The proxy routes as config.yaml says, in the same order and with the same
\* fallbacks, but for the providers disabled when it started and the routes
\* nobody is left to serve: FilterDisabledProviders and the routes that
\* NewWithLogger builds, for any configuration and any state file.
THEOREM KeepsRoutesHolds == StateSpec => []KeepsRoutes
  BY ConfigInvHolds, KeepsRoutesInv, PTL

-----------------------------------------------------------------------------
(* What is left can be started with. *)

\* A ranking of the routes is one of those that are left, once its gaps are
\* closed.
LEMMA StillAcyclic ==
  ASSUME NEW routes, NEW fewer, Acyclic(routes),
         IsFiniteSet(DOMAIN fewer), DOMAIN fewer \subseteq DOMAIN routes,
         \A m \in DOMAIN fewer : fewer[m].fallback \in DOMAIN fewer
            => fewer[m].fallback = routes[m].fallback
  PROVE  Acyclic(fewer)
<1> DEFINE D == DOMAIN fewer
<1>1. PICK rank \in [DOMAIN routes -> 1 .. Cardinality(DOMAIN routes)] :
         \A m \in DOMAIN routes :
            routes[m].fallback \in DOMAIN routes => rank[routes[m].fallback] < rank[m]
  BY DEF Acyclic
<1> DEFINE Under(m) == {x \in D : rank[x] <= rank[m]}
           closed == [m \in D |-> Cardinality(Under(m))]
<1>2. \A m \in D : rank[m] \in Int
  BY <1>1
<1>3. \A m \in D : Under(m) \in SUBSET D /\ m \in Under(m)
  BY <1>2
<1>4. \A m \in D : IsFiniteSet(Under(m)) /\ Cardinality(Under(m)) \in 1 .. Cardinality(D)
  <2> SUFFICES ASSUME NEW m \in D
               PROVE  IsFiniteSet(Under(m)) /\ Cardinality(Under(m)) \in 1 .. Cardinality(D)
    OBVIOUS
  <2>1. IsFiniteSet(Under(m)) /\ Cardinality(Under(m)) <= Cardinality(D)
    BY <1>3, FS_Subset
  <2>2. Cardinality(D) \in Nat /\ Cardinality(Under(m)) \in Nat
    BY <2>1, FS_CardinalityType
  <2>3. Cardinality(Under(m)) # 0
    BY <1>3, <2>1, FS_EmptySet
  <2> HIDE DEF Under
  <2>4. QED
    BY <2>1, <2>2, <2>3
<1>5. \A m, n \in D : rank[m] < rank[n] => Cardinality(Under(m)) < Cardinality(Under(n))
  <2> SUFFICES ASSUME NEW m \in D, NEW n \in D, rank[m] < rank[n]
               PROVE  Cardinality(Under(m)) < Cardinality(Under(n))
    OBVIOUS
  <2>1. Under(m) \in SUBSET Under(n) /\ n \in Under(n) /\ n \notin Under(m)
    BY <1>2
  <2>2. Cardinality(Under(m)) <= Cardinality(Under(n)) /\ Cardinality(Under(m)) # Cardinality(Under(n))
    BY <1>4, <2>1, FS_Subset
  <2>3. Cardinality(Under(m)) \in 1 .. Cardinality(D) /\ Cardinality(Under(n)) \in 1 .. Cardinality(D)
    BY <1>4
  <2> HIDE DEF Under
  <2>4. QED
    BY <2>2, <2>3
<1>6. closed \in [D -> 1 .. Cardinality(D)]
  BY <1>4
<1>7. \A m \in D : fewer[m].fallback \in D => closed[fewer[m].fallback] < closed[m]
  <2> SUFFICES ASSUME NEW m \in D, fewer[m].fallback \in D
               PROVE  closed[fewer[m].fallback] < closed[m]
    OBVIOUS
  <2>1. rank[fewer[m].fallback] < rank[m]
    BY <1>1
  <2>2. QED
    BY <1>5, <2>1
<1> HIDE DEF closed
<1>8. QED
  BY <1>6, <1>7 DEF Acyclic

LEMMA FilteredRouteIsValid ==
  ASSUME NEW c, IsConfig(c), Valid(c), NEW disabled,
         NEW m \in DOMAIN FilterDisabledProviders(c, disabled).routes
  PROVE  ValidRoute(FilterDisabledProviders(c, disabled), m)
<1> DEFINE f == FilterDisabledProviders(c, disabled)
<1>1. /\ m \in DOMAIN c.routes /\ Survives(c, disabled, m)
      /\ f.routes[m].providers = Remaining(c.routes[m].providers, disabled)
      /\ f.routes[m].fallback = FilteredFallback(c, disabled, m)
  BY FilteredRoutes
<1>2. m \in RouteNames(c) /\ m \in RouteNames(f) /\ ~LegacyMode(c) /\ ~LegacyMode(f)
  BY <1>1 DEF RouteNames, LegacyMode
<1>3. ValidRoute(c, m)
  BY <1>1, <1>2 DEF Valid, ValidRoutes
<1> DEFINE names == c.routes[m].providers
           left == f.routes[m].providers
<1>4. /\ names \in Seq(Elements(names)) /\ left \in Seq(Elements(left))
      /\ Elements(left) = Elements(names) \ disabled
  <2>1. names \in Seq(Elements(names))
    BY <1>1 DEF IsConfig, Elements
  <2>2. left = Remaining(names, disabled)
    BY <1>1
  <2> HIDE DEF left, names
  <2>3. QED
    BY <2>1, <2>2, RemainingNames
<1>5. NoRepeats(left)
  <2>1. \A i, j \in DOMAIN names : names[i] = names[j] => i = j
    BY <1>3, <1>4, NoRepeatsIsInjective DEF ValidRoute
  <2>2. PICK at \in Seq(DOMAIN names) : Keeping(at, names, Elements(names) \ disabled)
    BY <1>4, KeptPlaces
  <2>3. \A i \in DOMAIN at : at[i] \in DOMAIN names
    BY ElementOfSeq, LenProperties
  <2>4. DOMAIN at = 1 .. Len(at) /\ Len(at) \in Nat /\ DOMAIN names = 1 .. Len(names) /\ Len(names) \in Nat
    BY <1>4, LenProperties
  <2>5. \A i, j \in DOMAIN at : i < j => at[i] < at[j]
    BY <2>2 DEF Keeping
  <2>6. left = [k \in DOMAIN at |-> names[at[k]]]
    BY <1>1, <2>2 DEF Keeping, Remaining
  <2> HIDE DEF left, names
  <2>7. \A i, j \in DOMAIN left : left[i] = left[j] => at[i] = at[j]
    BY <2>1, <2>3, <2>6
  <2>8. \A i, j \in DOMAIN left : left[i] = left[j] => i = j
    <3> SUFFICES ASSUME NEW i \in DOMAIN left, NEW j \in DOMAIN left, left[i] = left[j]
                 PROVE  i = j
      OBVIOUS
    <3>1. at[i] = at[j] /\ at[i] \in Nat
      BY <2>3, <2>4, <2>6, <2>7
    <3>2. ~(i < j) /\ ~(j < i)
      BY <2>5, <2>6, <3>1
    <3>3. QED
      BY <2>4, <2>6, <3>2
  <2>9. QED
    BY <1>4, <2>8, NoRepeatsIsInjective
<1>6. Elements(left) \subseteq Names(f)
  BY <1>3, <1>4, FilteredProviders DEF ValidRoute
<1>7. \E p \in Candidates(f, m) : Serves(p, m)
  <2>1. PICK p \in Elements(c.providers) :
           p.name \in Eligible(c, m) /\ p.name \notin disabled /\ Serves(p, m)
    BY <1>1, SurvivesIff
  <2>2. p \in Elements(f.providers) /\ p.name \in Eligible(f, m)
    BY <1>2, <2>1, FilteredProviders, FilteredOrder
  <2>3. CASE Listed(f, m)
    <3>1. p.name \in Elements(left) \cap Names(f)
      BY <2>2, <2>3 DEF Eligible, Names
    <3>2. Named(f, p.name) \in Elements(f.providers) /\ Named(f, p.name).name = p.name
      BY <2>2 DEF Named
    <3>3. Named(f, p.name) = p
      BY <2>1, <3>2, FilteredProviders, NamesAreUnique
    <3>4. QED
      BY <2>1, <2>3, <3>1, <3>3 DEF Candidates, Listed
  <2>4. CASE ~Listed(f, m)
    BY <1>2, <2>1, <2>2, <2>4 DEF Candidates, Listed
  <2>5. QED
    BY <2>3, <2>4
<1>8. f.routes[m].fallback \in (DOMAIN f.routes \cup {NoRoute}) \ {m}
  <2>1. NoRoute # m /\ c.routes[m].fallback # m
    BY <1>1, <1>3 DEF IsConfig, ValidRoute
  <2>2. QED
    BY <1>1, <2>1, FilteredRoutes DEF FilteredFallback
<1>9. QED
  BY <1>5, <1>6, <1>7, <1>8 DEF ValidRoute

\* What Validate asks of the providers is still so when some are left out.
LEMMA FilteredProvidersAreValid ==
  ASSUME NEW c, IsConfig(c), Valid(c), NEW disabled
  PROVE  LET f == FilterDisabledProviders(c, disabled) IN
         /\ \A i, j \in DOMAIN f.providers : f.providers[i].name = f.providers[j].name => i = j
         /\ \A p \in Elements(f.providers) : (p.alias \/ p.aliases # {}) /\ ValidLimits(p)
<1> DEFINE f == FilterDisabledProviders(c, disabled)
<1>1. PICK at : /\ \A k \in DOMAIN f.providers : at[k] \in DOMAIN c.providers
                /\ \A i, j \in DOMAIN f.providers : i < j => at[i] < at[j]
                /\ \A k \in DOMAIN f.providers : f.providers[k] = c.providers[at[k]]
  BY FilteredProviders
<1>2. DOMAIN f.providers \subseteq Nat /\ DOMAIN c.providers \subseteq Nat
  BY ProvidersType, FilteredProviders, LenProperties
<1>3. ASSUME NEW i \in DOMAIN f.providers, NEW j \in DOMAIN f.providers,
             f.providers[i].name = f.providers[j].name
      PROVE  i = j
  <2>1. at[i] = at[j] /\ at[i] \in Nat
    BY <1>1, <1>2, <1>3, NamesAreUnique
  <2>2. ~(i < j) /\ ~(j < i)
    BY <1>1, <2>1
  <2>3. QED
    BY <1>2, <2>2
<1>4. \A p \in Elements(f.providers) : (p.alias \/ p.aliases # {}) /\ ValidLimits(p)
  BY FilteredProviders DEF Valid
<1>5. QED
  BY <1>3, <1>4

LEMMA StartsInv == ConfigInv => StartsIfAnythingLeft
<1> DEFINE f == FilterDisabledProviders(base, file)
<1> SUFFICES ASSUME ConfigInv, ~LegacyMode(base),
                    NEW m \in RouteNames(base), Left(m, file) # <<>>
             PROVE  Valid(f)
  BY DEF StartsIfAnythingLeft
<1>1. IsConfig(base) /\ Valid(base)
  BY BaseIsConfig
<1>2. m \in DOMAIN base.routes /\ Survives(base, file, m)
  BY <1>1, SurvivesIfLeft DEF RouteNames
<1>3. m \in DOMAIN f.routes
  BY <1>2, FilteredRoutes
<1>4. f.providers # <<>>
  <2>1. \E p \in Elements(base.providers) : p.name \notin file
    BY <1>1, <1>2, SurvivesIff
  <2>2. Elements(f.providers) # {}
    BY <1>1, <2>1, FilteredProviders
  <2>3. QED
    BY <2>2 DEF Elements
<1>5. Acyclic(f.routes)
  <2>1. Acyclic(base.routes)
    BY <1>1 DEF Valid, ValidRoutes
  <2>2. /\ DOMAIN f.routes \subseteq DOMAIN base.routes
        /\ IsFiniteSet(DOMAIN f.routes) /\ NoRoute \notin DOMAIN f.routes
    <3>1. DOMAIN f.routes \subseteq DOMAIN base.routes /\ IsConfig(f)
      BY <1>1, FilteredRoutes, FilteredIsConfig
    <3> HIDE DEF f
    <3>2. QED
      BY <3>1 DEF IsConfig
  <2>3. \A n \in DOMAIN f.routes : f.routes[n].fallback \in DOMAIN f.routes
           => f.routes[n].fallback = base.routes[n].fallback
    BY <2>2, FilteredRoutes DEF FilteredFallback
  <2> HIDE DEF f
  <2>4. QED
    BY <2>1, <2>2, <2>3, StillAcyclic
<1>6. \A n \in DOMAIN f.routes : ValidRoute(f, n)
  BY <1>1, FilteredRouteIsValid
<1>7. ValidRoutes(f)
  BY <1>3, <1>5, <1>6 DEF ValidRoutes, LegacyMode
<1>8. /\ \A i, j \in DOMAIN f.providers : f.providers[i].name = f.providers[j].name => i = j
      /\ \A p \in Elements(f.providers) : (p.alias \/ p.aliases # {}) /\ ValidLimits(p)
  BY <1>1, FilteredProvidersAreValid
<1> HIDE DEF f
<1>9. QED
  BY <1>4, <1>7, <1>8 DEF Valid

\* Whatever providers the state file disables, the proxy can start as long as
\* one route has a provider left: what FilterDisabledProviders makes of a
\* configuration that Validate accepts is accepted as well.
THEOREM StartsIfAnythingLeftHolds == StateSpec => []StartsIfAnythingLeft
  BY ConfigInvHolds, StartsInv, PTL

-----------------------------------------------------------------------------
(* The limits. *)

LEMMA LeastIsLeast ==
  ASSUME NEW amounts \in SUBSET Nat
  PROVE  /\ Least(amounts) \in Nat
         /\ \A a \in amounts : a > 0 => Least(amounts) > 0 /\ Least(amounts) <= a
<1>1. CASE amounts \subseteq {0}
  BY <1>1 DEF Least
<1>2. CASE ~(amounts \subseteq {0})
  <2>1. Least(amounts) = Min(amounts \ {0})
    BY <1>2 DEF Least
  <2>2. \E n \in amounts \ {0} : \A k \in amounts \ {0} : n <= k
    BY <1>2, LeastNatural
  <2>3. Min(amounts \ {0}) \in amounts \ {0} /\ \A k \in amounts \ {0} : Min(amounts \ {0}) <= k
    BY <2>2 DEF Min
  <2>4. Min(amounts \ {0}) \in Nat /\ Min(amounts \ {0}) # 0
    BY <2>3
  <2>5. \A a \in amounts : a > 0 => Min(amounts \ {0}) <= a
    BY <2>3
  <2>6. Least(amounts) \in Nat /\ Least(amounts) > 0
    BY <2>1, <2>4
  <2>7. QED
    BY <2>1, <2>5, <2>6
<1>3. QED
  BY <1>1, <1>2

LEMMA DeclaredType ==
  ASSUME NEW c, IsConfig(c), NEW p \in Elements(c.providers), NEW m, NEW d \in Dimensions
  PROVE  Declared(p, m, d) \in Nat
<1>1. \A k \in DOMAIN p.limits : p.limits[k] \in [context : Nat, output : Nat]
  BY DEF IsConfig, Elements
<1>2. QED
  BY <1>1 DEF Declared, Dimensions

\* The proxy and limits-check find the same providers for a route.
LEMMA ServingAreChecked ==
  ASSUME NEW c, IsConfig(c), Valid(c), NEW m \in RouteNames(c)
  PROVE  /\ Serving(c, m) = {p \in Elements(c.providers) : p.name \in Eligible(c, m) /\ Serves(p, m)}
         /\ Serving(c, m) = CheckedProviders(c, m)
<1> DEFINE S == {p \in Elements(c.providers) : p.name \in Eligible(c, m) /\ Serves(p, m)}
<1>1. Serving(c, m) = {Named(c, name) : name \in {p.name : p \in S}}
  BY RouteProvidersInOrder DEF Serving
<1>2. \A p \in S : Named(c, p.name) = p
  BY NamesAreUnique
<1>3. Serving(c, m) = S
  <2>1. Serving(c, m) = {Named(c, p.name) : p \in S}
    BY <1>1
  <2> HIDE DEF S
  <2>2. QED
    BY <1>2, <2>1
<1>4. CheckedProviders(c, m) = S
  <2>1. CASE LegacyMode(c)
    BY <2>1 DEF CheckedProviders, Eligible, Listed, Names
  <2>2. CASE ~LegacyMode(c)
    <3>1. m \in DOMAIN c.routes
      BY <2>2 DEF RouteNames
    <3>2. Candidates(c, m) = {p \in Elements(c.providers) : p.name \in Eligible(c, m)}
      BY <3>1, CandidatesAreEligible
    <3>3. QED
      BY <2>2, <3>2 DEF CheckedProviders
  <2>3. QED
    BY <2>1, <2>2
<1>5. QED
  BY <1>3, <1>4

LEMMA SameFloorsInv == ConfigInv => SameFloors
<1> SUFFICES ASSUME ConfigInv
             PROVE  /\ CheckedRoutes(base) = {m \in RouteNames(base) : Serving(base, m) # {}}
                    /\ \A m \in RouteNames(base), d \in Dimensions :
                          Published(base, m, d) = CheckedFloor(base, m, d)
  BY DEF SameFloors
<1>1. IsConfig(base) /\ Valid(base)
  BY BaseIsConfig
<1>2. \A m \in RouteNames(base) : Serving(base, m) = CheckedProviders(base, m)
  BY <1>1, ServingAreChecked
<1>3. CASE LegacyMode(base)
  <2>1. RouteNames(base) = {Gonka}
    BY <1>3 DEF RouteNames
  <2>2. CheckedProviders(base, Gonka) = {p \in Elements(base.providers) : Serves(p, Gonka)}
    BY <1>3 DEF CheckedProviders
  <2>3. CheckedRoutes(base) = {m \in {Gonka} : \E p \in Elements(base.providers) : Serves(p, m)}
    BY <1>3 DEF CheckedRoutes
  <2>4. CheckedRoutes(base) = {m \in RouteNames(base) : Serving(base, m) # {}}
    BY <1>2, <2>1, <2>2, <2>3
  <2>5. QED
    BY <1>2, <2>4 DEF Published, CheckedFloor
<1>4. CASE ~LegacyMode(base)
  <2>1. RouteNames(base) = DOMAIN base.routes /\ CheckedRoutes(base) = DOMAIN base.routes
    BY <1>4 DEF RouteNames, CheckedRoutes
  <2>2. \A m \in DOMAIN base.routes : \E p \in Candidates(base, m) : Serves(p, m)
    BY <1>1, <1>4 DEF Valid, ValidRoutes, ValidRoute
  <2>3. \A m \in DOMAIN base.routes : CheckedProviders(base, m) # {}
    BY <1>4, <2>2 DEF CheckedProviders
  <2>4. QED
    BY <1>2, <2>1, <2>3 DEF Published, CheckedFloor
<1>5. QED
  BY <1>3, <1>4

LEMMA VerifiedInv == ConfigInv => VerifiedFloorsServable
<1> SUFFICES ASSUME ConfigInv, NEW m \in RouteNames(base), NEW d \in Dimensions, NEW live \in Probes,
                    Verifiable(base, m, live), Passes(base, m, d, live),
                    NEW p \in Serving(base, m)
             PROVE  live[p.name] >= Published(base, m, d)
  BY DEF VerifiedFloorsServable
<1> DEFINE checked == CheckedProviders(base, m)
           found == {live[q.name] : q \in checked}
<1>1. IsConfig(base) /\ Valid(base)
  BY BaseIsConfig
<1>2. Serving(base, m) = checked /\ checked \subseteq Elements(base.providers)
  BY <1>1, ServingAreChecked
<1>3. \A q \in checked : live[q.name] \in Nat /\ live[q.name] > 0
  BY <1>2, AmountsAssumption DEF Verifiable, Probes, Names
<1>4. Published(base, m, d) = CheckedFloor(base, m, d)
  BY <1>2 DEF Published, CheckedFloor
<1>5. CheckedFloor(base, m, d) \in {0, Least(found)}
  BY DEF Passes, Matches, LiveFloor
<1>6. found \in SUBSET Nat /\ live[p.name] \in found
  BY <1>2, <1>3
<1> HIDE DEF found, checked
<1>7. Least(found) \in Nat /\ Least(found) <= live[p.name]
  BY <1>2, <1>3, <1>6, LeastIsLeast
<1>8. QED
  BY <1>2, <1>3, <1>4, <1>5, <1>7

LEMMA GapsInv == ConfigInv => GapsAreListed
<1> SUFFICES ASSUME ConfigInv, proxy # Down, LegacyMode(proxy) <=> LegacyMode(base),
                    NEW m \in RouteNames(proxy), NEW d \in Dimensions, NEW live \in Probes,
                    Passes(base, m, d, live), NEW p \in Serving(proxy, m),
                    live[p.name] \in 1 .. Published(proxy, m, d) - 1
             PROVE  p.name \in Silent(proxy, m, d)
  BY DEF GapsAreListed
<1>1. /\ IsConfig(base) /\ Valid(base) /\ IsConfig(proxy) /\ Valid(proxy)
      /\ proxy = FilterDisabledProviders(base, applied)
  BY BaseIsConfig
<1>2. m \in RouteNames(base) /\ Eligible(proxy, m) \subseteq Eligible(base, m)
  BY <1>1, FilteredOrder
<1>3. Elements(proxy.providers) \subseteq Elements(base.providers)
  <2>1. Elements(FilterDisabledProviders(base, applied).providers)
           = {q \in Elements(base.providers) : q.name \notin applied}
    BY <1>1, FilteredProviders
  <2>2. QED
    BY <1>1, <2>1
<1>4. Serving(proxy, m) \subseteq CheckedProviders(base, m)
  BY <1>1, <1>2, <1>3, ServingAreChecked
<1>5. \A q \in Serving(proxy, m) : Declared(q, m, d) \in Nat
  BY <1>1, ServingAreChecked, DeclaredType
<1> DEFINE declared == {Declared(q, m, d) : q \in Serving(proxy, m)}
<1>6. Published(proxy, m, d) = Least(declared) /\ declared \in SUBSET Nat /\ Declared(p, m, d) \in declared
  BY <1>5 DEF Published
<1>7. ~(live[p.name] > 0 /\ Declared(p, m, d) > live[p.name])
  BY <1>4 DEF Passes, Over
<1> HIDE DEF declared
<1>8. Least(declared) \in Nat /\ (Declared(p, m, d) > 0 => Least(declared) <= Declared(p, m, d))
  BY <1>6, LeastIsLeast
<1>9. Declared(p, m, d) = 0
  <2>1. Declared(p, m, d) \in Nat
    BY <1>5
  <2>2. live[p.name] \in Nat /\ live[p.name] > 0 /\ live[p.name] < Least(declared)
    BY <1>6, <1>8
  <2>3. QED
    BY <1>7, <1>8, <2>1, <2>2
<1>10. QED
  BY <1>9 DEF Silent

\* limits-check and /v1/models, two pieces of code, agree on the routes that
\* there are and on the limits of each, for any configuration.
THEOREM SameFloorsHolds == StateSpec => []SameFloors
  BY ConfigInvHolds, SameFloorsInv, PTL

\* A route that limits-check has verified publishes no more than any of its
\* providers takes, those that declare nothing included.
THEOREM VerifiedFloorsServableHolds == StateSpec => []VerifiedFloorsServable
  BY ConfigInvHolds, VerifiedInv, PTL

\* If a proxy with providers disabled publishes more than one of the others
\* takes, though limits-check passed, then /diagnostics lists that one.
THEOREM GapsAreListedHolds == StateSpec => []GapsAreListed
  BY ConfigInvHolds, GapsInv, PTL
=============================================================================
