------------------------------ MODULE Shutdown ------------------------------
(***************************************************************************)
(* The end of the proxy process (cmd/gonka-proxy/main.go): the signal, the *)
(* requestTracker that cancels the requests under way, and the time the    *)
(* server is given to finish them.                                         *)
(*                                                                         *)
(* A handler is the goroutine of one request, wrapped by the tracker; what *)
(* it does in between is Routing.tla, and a canceled handler may return    *)
(* whenever it likes, or never.                                            *)
(***************************************************************************)
EXTENDS FiniteSets

CONSTANTS
    Handler         \* the requests that come in during the life of the process

VARIABLES
    main,           \* where runWithState is
    result,         \* what it has returned
    signaled,       \* SIGTERM or an interrupt has come: the context of main is done
    serve,          \* the goroutine of server.Serve
    handler,        \* per request, where its goroutine is
    tracked,        \* requestTracker.active
    closed,         \* requestTracker.canceled
    toCancel,       \* the requests cancelAll has collected and not canceled yet
    canceled        \* the requests whose context is canceled

mainVars == <<main, result, toCancel>>
serverVars == <<signaled, serve>>
shutdownVars == <<mainVars, serverVars, handler, tracked, closed, canceled>>

-----------------------------------------------------------------------------
ShutdownTypeOK ==
    /\ main \in {"serving", "collect", "cancel", "drain", "exited"}
    /\ result \in {"none", "clean", "serve-error", "shutdown-timeout"}
    /\ signaled \in BOOLEAN
    /\ serve \in {"running", "failed"}
    /\ handler \in [Handler -> {"none", "starting", "running", "finishing", "gone"}]
    /\ tracked \subseteq Handler
    /\ closed \in BOOLEAN
    /\ toCancel \subseteq Handler
    /\ canceled \subseteq Handler

ShutdownInit ==
    /\ main = "serving" /\ result = "none"
    /\ signaled = FALSE /\ serve = "running"
    /\ handler = [h \in Handler |-> "none"]
    /\ tracked = {} /\ closed = FALSE
    /\ toCancel = {} /\ canceled = {}

Moves(h, from, to) == handler[h] = from /\ handler' = [handler EXCEPT ![h] = to]

-----------------------------------------------------------------------------
(* The world outside. *)

Signal ==
    /\ ~signaled
    /\ signaled' = TRUE
    /\ UNCHANGED <<mainVars, serve, handler, tracked, closed, canceled>>

\* The listener breaks.
ServeFails ==
    /\ main \in {"serving", "collect", "cancel"} /\ serve = "running"
    /\ serve' = "failed"
    /\ UNCHANGED <<mainVars, signaled, handler, tracked, closed, canceled>>

\* The signal reaches a request through the contexts its own derives from, at
\* some time after the main goroutine may have seen it; or its client leaves.
ContextEnds(h) ==
    /\ handler[h] \in {"starting", "running"}
    /\ canceled' = canceled \cup {h}
    /\ UNCHANGED <<mainVars, serverVars, handler, tracked, closed>>

\* The server accepts no connections once it shuts down, but a request that
\* has been sent on an old one may still come in.
Accept(h) ==
    /\ main # "exited"
    /\ Moves(h, "none", "starting")
    /\ UNCHANGED <<mainVars, serverVars, tracked, closed, canceled>>

(* requestTracker.wrap *)

\* Faulty variant: add does not look whether cancelAll has been there.
AddBlindly(h) ==
    /\ Moves(h, "starting", "running")
    /\ tracked' = tracked \cup {h}
    /\ UNCHANGED <<mainVars, serverVars, closed, canceled>>

Add(h) ==
    /\ Moves(h, "starting", "running")
    /\ IF closed THEN canceled' = canceled \cup {h} /\ UNCHANGED tracked
                 ELSE tracked' = tracked \cup {h} /\ UNCHANGED canceled
    /\ UNCHANGED <<mainVars, serverVars, closed>>

HandlerReturns(h) ==
    /\ Moves(h, "running", "finishing")
    /\ UNCHANGED <<mainVars, serverVars, tracked, closed, canceled>>

Remove(h) ==
    /\ Moves(h, "finishing", "gone")
    /\ tracked' = tracked \ {h}
    /\ canceled' = canceled \cup {h}
    /\ UNCHANGED <<mainVars, serverVars, closed>>

(* runWithState *)

ExitOnServeError ==
    /\ main = "serving" /\ serve = "failed"
    /\ main' = "exited" /\ result' = "serve-error"
    /\ UNCHANGED <<toCancel, serverVars, handler, tracked, closed, canceled>>

SeeSignal ==
    /\ main = "serving" /\ signaled
    /\ main' = "collect"
    /\ UNCHANGED <<result, toCancel, serverVars, handler, tracked, closed, canceled>>

\* cancelAll, with the lock held.
Collect ==
    /\ main = "collect"
    /\ main' = "cancel"
    /\ closed' = TRUE
    /\ toCancel' = tracked
    /\ UNCHANGED <<result, serverVars, handler, tracked, canceled>>

\* cancelAll, one turn of its loop without the lock.
CancelOne(h) ==
    /\ main = "cancel" /\ h \in toCancel
    /\ toCancel' = toCancel \ {h}
    /\ canceled' = canceled \cup {h}
    /\ UNCHANGED <<main, result, serverVars, handler, tracked, closed>>

\* cancelServerContext, which changes nothing any more, and server.Shutdown.
BeginToDrain ==
    /\ main = "cancel" /\ toCancel = {}
    /\ main' = "drain"
    /\ UNCHANGED <<result, toCancel, serverVars, handler, tracked, closed, canceled>>

\* server.Shutdown returns: no connection is in use.
Drained ==
    /\ main = "drain"
    /\ \A h \in Handler : handler[h] \in {"none", "gone"}
    /\ main' = "exited"
    /\ result' = IF serve = "failed" THEN "serve-error" ELSE "clean"
    /\ UNCHANGED <<toCancel, serverVars, handler, tracked, closed, canceled>>

\* Faulty variant: server.Shutdown is given a context without a deadline.
WaitForever == FALSE /\ UNCHANGED shutdownVars

\* shutdownTimeout has passed: server.Close.
TimesOut ==
    /\ main = "drain"
    /\ main' = "exited" /\ result' = "shutdown-timeout"
    /\ UNCHANGED <<toCancel, serverVars, handler, tracked, closed, canceled>>

-----------------------------------------------------------------------------
MainStep ==
    \/ ExitOnServeError \/ SeeSignal \/ Collect \/ BeginToDrain
    \/ \E h \in Handler : CancelOne(h)
    \/ Drained \/ TimesOut

HandlerStep(h) ==
    Accept(h) \/ Add(h) \/ HandlerReturns(h) \/ Remove(h) \/ ContextEnds(h)

ShutdownNext ==
    \/ Signal \/ ServeFails
    \/ MainStep
    \/ \E h \in Handler : HandlerStep(h)

ShutdownSpec == ShutdownInit /\ [][ShutdownNext]_shutdownVars

\* The main goroutine runs, and its timer fires.  A handler need not return.
FairShutdown == ShutdownSpec /\ WF_shutdownVars(MainStep)

-----------------------------------------------------------------------------
\* docs/docker-and-opencode.md: "SIGTERM cancels active upstream routing and
\* pending Recovery Waits before the process exits".  Once cancelAll is done,
\* no request routes on uncanceled, not even one that began while cancelAll
\* collected the others; without help from the context of the server.
NoneRoutesOn ==
    main = "drain" \/ (main = "exited" /\ closed)
        => \A h \in Handler : handler[h] = "running" => h \in canceled

\* A signal ends the process, though a handler may be stuck.
SignalEndsProcess == signaled ~> main = "exited"

(* Every request that runs is known to the tracker or canceled already, and *)
(* cancelAll overlooks none.                                                *)
ShutdownInv ==
    /\ ShutdownTypeOK
    /\ main \in {"serving", "collect"} => ~closed
    /\ main \in {"cancel", "drain"} => closed
    /\ main # "cancel" => toCancel = {}
    /\ \A h \in Handler :
        /\ h \in tracked => handler[h] \in {"running", "finishing"}
        /\ handler[h] = "running" =>
              h \in canceled \/ (IF closed THEN h \in toCancel ELSE h \in tracked)

=============================================================================
