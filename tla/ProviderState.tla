--------------------------- MODULE ProviderState ---------------------------
(***************************************************************************)
(* The providers an operator has disabled: the state file, the brokerctl   *)
(* commands that rewrite it, and what the proxy makes of it and of         *)
(* config.yaml when it starts.                                             *)
(*                                                                         *)
(* The content of the file is the set of the names it disables; the order, *)
(* blanks and repetitions are gone once LoadProviderState has read it, and *)
(* a missing file is an empty set.  config.yaml does not change.           *)
(***************************************************************************)
EXTENDS Config

CONSTANTS
    Bases,          \* what config.yaml may say
    FirstFiles,     \* what the state file may say before the first command
    Command,        \* the brokerctl processes there can be at once
    Down            \* the null value: the proxy is not running

ASSUME BasesAssumption == \A c \in Bases : IsConfig(c)

VARIABLES
    base,           \* config.yaml
    file,           \* the state file: the names it disables
    command,        \* per process, what it is about to write
    proxy,          \* the configuration the proxy runs with, or Down
    applied,        \* history: the state file the proxy has started with
    missed,         \* history: per process, the other names toggled since it has read the file
    undone,         \* history: the names whose last toggle a process that missed it overwrote
    wanted          \* history: what the commands that reported success ask for of the others

fileVars == <<file, command, missed, undone, wanted>>
stateVars == <<base, fileVars, proxy, applied>>

Finished == [pc |-> "idle", disable |-> FALSE, names |-> {}, next |-> {}]

-----------------------------------------------------------------------------
(* FilterDisabledProviders *)

Remaining(names, disabled) == Kept(names, Elements(names) \ disabled)

\* Faulty variants: any provider will do; the fallback stays.
SurvivesByAny(c, disabled, m) ==
    \E p \in Elements(c.providers) : p.name \notin disabled /\ Serves(p, m)
KeepsFallback(c, disabled, m) == c.routes[m].fallback

\* A route survives while a provider it may use serves it.
Survives(c, disabled, m) ==
    \E p \in Candidates(c, m) : p.name \notin disabled /\ Serves(p, m)

FilteredFallback(c, disabled, m) ==
    LET target == c.routes[m].fallback IN
    IF target \in DOMAIN c.routes /\ Survives(c, disabled, target) THEN target ELSE NoRoute

FilterDisabledProviders(c, disabled) ==
    [providers |-> Kept(c.providers, {p \in Elements(c.providers) : p.name \notin disabled}),
     routes |-> [m \in {m \in DOMAIN c.routes : Survives(c, disabled, m)} |->
                    [providers |-> Remaining(c.routes[m].providers, disabled),
                     fallback |-> FilteredFallback(c, disabled, m)]]]

-----------------------------------------------------------------------------
StateInit ==
    /\ base \in {c \in Bases : Valid(c)}
    /\ file \in FirstFiles
    /\ command = [c \in Command |-> Finished]
    /\ proxy = Down /\ applied = {}
    /\ missed = [c \in Command |-> {}] /\ undone = {} /\ wanted = file

(* brokerctl: runToggle *)

Toggled(names, disable, disabled) == IF disable THEN disabled \cup names ELSE disabled \ names

\* The state file is read after the names have been found in config.yaml; a
\* command that names another provider ends without having read it.
ReadState(c, disable, names) ==
    /\ command[c].pc = "idle"
    /\ names # {} /\ names \subseteq Names(base)
    /\ command' = [command EXCEPT ![c] = [pc |-> "save", disable |-> disable, names |-> names,
                                          next |-> Toggled(names, disable, file)]]
    /\ UNCHANGED <<base, file, missed, undone, wanted, proxy, applied>>

\* SaveProviderState: the rename of the temporary file, and the report.
Replace(c) ==
    /\ command[c].pc = "save"
    /\ file' = command[c].next
    /\ command' = [command EXCEPT ![c] = Finished]
    /\ missed' = [d \in Command |->
                    IF d = c \/ command[d].pc = "idle" THEN {}
                    ELSE missed[d] \cup (command[c].names \ command[d].names)]
    /\ undone' = (undone \ command[c].names) \cup missed[c]
    /\ wanted' = Toggled(command[c].names, command[c].disable, wanted) \ missed[c]
    /\ UNCHANGED <<base, proxy, applied>>

\* Faulty variant: the file is written in place, and is left empty.
Truncate(c) ==
    /\ command[c].pc = "save"
    /\ file' = {}
    /\ command' = [command EXCEPT ![c] = Finished]
    /\ missed' = [missed EXCEPT ![c] = {}]
    /\ UNCHANGED <<base, undone, wanted, proxy, applied>>

\* It is killed before the rename, or a write to the temporary file fails.
Abandon(c) ==
    /\ command[c].pc = "save"
    /\ command' = [command EXCEPT ![c] = Finished]
    /\ missed' = [missed EXCEPT ![c] = {}]
    /\ UNCHANGED <<base, file, undone, wanted, proxy, applied>>

(* The proxy: runWithState.  It reads the state file at its start alone. *)

Start ==
    /\ proxy = Down
    /\ Valid(FilterDisabledProviders(base, file))
    /\ proxy' = FilterDisabledProviders(base, file)
    /\ applied' = file
    /\ UNCHANGED <<base, fileVars>>

Stop ==
    /\ proxy # Down
    /\ proxy' = Down
    /\ applied' = {}
    /\ UNCHANGED <<base, fileVars>>

StateNext ==
    \/ \E c \in Command :
          \/ \E disable \in BOOLEAN, names \in SUBSET Names(base) : ReadState(c, disable, names)
          \/ Replace(c) \/ Abandon(c)
    \/ Start \/ Stop

StateSpec == StateInit /\ [][StateNext]_stateVars

-----------------------------------------------------------------------------
\* The commands take no lock, so one may undo another.  It undoes no more than
\* what was written between its own reading and writing of the file: of any
\* other provider the state file says what was last asked for, whatever
\* commands failed or were killed in between.
OnlyOverlapsUndo ==
    file \ undone = wanted

\* What is left of route m of config.yaml.
Left(m, disabled) == Remaining(RouteProviders(base, m), disabled)

\* The proxy routes as it would with config.yaml, but for the disabled
\* providers: every route has those of its providers that are left, in their
\* order, and one with nobody left is gone, also as a fallback.
KeepsRoutes ==
    proxy # Down /\ (LegacyMode(proxy) <=> LegacyMode(base)) =>
        /\ \A m \in RouteNames(proxy) :
              /\ RouteProviders(proxy, m) = Left(m, applied)
              /\ Fallback(proxy, m) = IF Fallback(base, m) \in RouteNames(proxy)
                                      THEN Fallback(base, m) ELSE NoRoute
        /\ ~LegacyMode(base) =>
              RouteNames(proxy) = {m \in RouteNames(base) : Left(m, applied) # <<>>}

\* The comment on FilterDisabledProviders: routes that nobody serves any more
\* keep no other route from being served.  Whatever the file says, the proxy
\* can start when a route has a provider left.
StartsIfAnythingLeft ==
    ~LegacyMode(base) /\ (\E m \in RouteNames(base) : Left(m, file) # <<>>)
        => Valid(FilterDisabledProviders(base, file))

-----------------------------------------------------------------------------
\* The same comment: "requests for the removed one get a clean 503".
RemovedRoutesRefused ==
    proxy # Down =>
        \A m \in RouteNames(base) \ RouteNames(proxy) : RouteFor(proxy, m) \notin RouteNames(proxy)

=============================================================================
