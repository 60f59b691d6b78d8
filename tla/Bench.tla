------------------------------- MODULE Bench -------------------------------
(***************************************************************************)
(* What the cooldowns of the proxy promise, with neither clocks nor        *)
(* version numbers: a set of providers that are out of use, and a set of   *)
(* requests each waiting for one of them to come back.  A wait that ends   *)
(* by itself brings back the providers that were out of use when the wait  *)
(* began, and never one that has failed since.                             *)
(*                                                                         *)
(* Cooldown.tla implements this specification.                             *)
(***************************************************************************)

CONSTANTS
    Provider,   \* the upstream providers the proxy routes over
    Request     \* the client requests that can be in progress at once

VARIABLES
    benched,    \* the providers that are out of use
    waiting,    \* the requests in a Recovery Wait
    fresh       \* per waiting request, the providers that failed since its wait began

benchVars == <<benched, waiting, fresh>>

BenchTypeOK ==
    /\ benched \subseteq Provider
    /\ waiting \subseteq Request
    /\ fresh \in [Request -> SUBSET Provider]

BenchInit ==
    /\ benched = {}
    /\ waiting = {}
    /\ fresh = [r \in Request |-> {}]

\* Provider p has failed.  A failure that is reported only after its own
\* cooldown has run out is still a failure, but benches nobody.
Fail(p) ==
    /\ benched' \in {benched, benched \cup {p}}
    /\ fresh' = [r \in Request |-> IF r \in waiting THEN fresh[r] \cup {p} ELSE {}]
    /\ UNCHANGED waiting

\* The cooldowns of some providers run out.
Recover ==
    /\ benched' \subseteq benched
    /\ UNCHANGED <<waiting, fresh>>

BeginToWait(r) ==
    /\ r \notin waiting
    /\ waiting' = waiting \cup {r}
    /\ UNCHANGED <<benched, fresh>>

\* The whole wait has gone by: only those that failed meanwhile stay benched.
EndWait(r) ==
    /\ r \in waiting
    /\ waiting' = waiting \ {r}
    /\ benched' = benched \cap fresh[r]
    /\ fresh' = [fresh EXCEPT ![r] = {}]

\* The client has gone away: its wait must not bring anybody back.
AbandonWait(r) ==
    /\ r \in waiting
    /\ waiting' = waiting \ {r}
    /\ fresh' = [fresh EXCEPT ![r] = {}]
    /\ UNCHANGED benched

BenchNext ==
    \/ Recover
    \/ \E p \in Provider : Fail(p)
    \/ \E r \in Request : BeginToWait(r) \/ EndWait(r) \/ AbandonWait(r)

BenchSpec == BenchInit /\ [][BenchNext]_benchVars

=============================================================================
