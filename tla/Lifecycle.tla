------------------------------ MODULE Lifecycle ------------------------------
(***************************************************************************)
(* composition/module.go: how one process starts, serves and shuts down.   *)
(*                                                                         *)
(* Four kinds of goroutines meet here: the one that runs the Fx hooks, the *)
(* main one that waits for it under a deadline, the polling loops and the  *)
(* HTTP handlers.  What a loop or a handler does between two uses of the   *)
(* connection pool is the business of the other modules.                   *)
(*                                                                         *)
(* Hooks are numbered in the order appendLifecycleHooks registers them:    *)
(* the pool, the HTTP server, then one per loop (SQS consumer, reference   *)
(* worker and, when OutboxEnabled, outbox worker).                         *)
(***************************************************************************)
EXTENDS Integers

CONSTANTS
    LastHook,   \* hooks registered: 5, or 4 without the outbox worker
    Requests    \* HTTP requests that may arrive

ASSUME HooksAssumption == LastHook \in Nat /\ LastHook >= 2

PoolHook == 1
HTTPHook == 2
LoopHooks == 3 .. LastHook

VARIABLES
    phase,      \* where fx.App.Run is
    hook,       \* Fx numStarted: hooks started and not yet stopped
    stopping,   \* what the OnStop hook under way is waiting for
    expired,    \* the context of Start, or of Stop, is over
    drainOver,  \* drainCtx is over
    listener,   \* of the HTTP server
    closed,     \* Server.Close: the base context is cancelled
    request,    \* per request: its handler
    loop,       \* per loop: its goroutine; off when active is nil
    cancelled,  \* per loop: its run context is cancelled
    pool        \* of PostgreSQL connections

fx == <<phase, hook, stopping, expired>>
http == <<drainOver, listener, closed, request>>
loops == <<loop, cancelled>>
vars == <<fx, http, loops, pool>>

Unwinding == phase \in {"rollback", "stop"}

InFlight(r) == request[r] \in {"handling", "querying"}

(* Connections out of the pool.                                            *)
PoolInUse ==
    \/ \E k \in LoopHooks : loop[k] = "querying"
    \/ \E r \in Requests : request[r] = "querying"

-----------------------------------------------------------------------------
(* Start.                                                                  *)

(* Fx builds everything registerLifecycle asks for; newDatabase has pinged *)
(* the database.                                                           *)
Build ==
    /\ phase = "build"
    /\ phase' = "start" /\ pool' = "open"
    /\ UNCHANGED <<hook, stopping, expired, http, loops>>

(* A constructor fails (configuration, database, SQS client, verifier): no *)
(* hook is registered, so a pool opened before is left to the exit.        *)
BuildFails ==
    /\ phase = "build"
    /\ phase' = "unbuilt" /\ pool' \in {"none", "open"}
    /\ UNCHANGED <<hook, stopping, expired, http, loops>>

(* A hook that has started.                                                *)
Started == hook' = hook + 1 /\ UNCHANGED <<phase, stopping, expired>>

(* The first hook has no OnStart.                                          *)
StartPool ==
    /\ phase = "start" /\ hook + 1 = PoolHook /\ ~expired
    /\ Started
    /\ UNCHANGED <<http, loops, pool>>

(* Listen and Serve.                                                       *)
StartHTTP ==
    /\ phase = "start" /\ hook + 1 = HTTPHook /\ ~expired
    /\ listener' = "serving"
    /\ Started
    /\ UNCHANGED <<drainOver, closed, request, loops, pool>>

(* Listen finds the address in use.                                        *)
ListenFails ==
    /\ phase = "start" /\ hook + 1 = HTTPHook /\ ~expired
    /\ phase' = "rollback"
    /\ UNCHANGED <<hook, stopping, expired, http, loops, pool>>

(* Start of a loop: the goroutine gets a context of its own.               *)
StartLoop(k) ==
    /\ phase = "start" /\ hook + 1 = k /\ ~expired
    /\ loop' = [loop EXCEPT ![k] = "waiting"]
    /\ cancelled' = [cancelled EXCEPT ![k] = FALSE]
    /\ Started
    /\ UNCHANGED <<http, pool>>

(* The start context is over before the next hook, or startupCtx.Err().    *)
StartExpires ==
    /\ phase = "start" /\ hook < LastHook /\ expired
    /\ phase' = "rollback"
    /\ UNCHANGED <<hook, stopping, expired, http, loops, pool>>

(* Every hook has started.  A context that ended meanwhile still fails the *)
(* start, and then nothing is rolled back.                                 *)
StartDone ==
    /\ phase = "start" /\ hook = LastHook
    /\ phase' = IF expired THEN "failed" ELSE "run"
    /\ UNCHANGED <<hook, stopping, expired, http, loops, pool>>

(* SIGTERM or SIGINT: Stop gets a fresh context.                           *)
Signal ==
    /\ phase = "run"
    /\ phase' = "stop" /\ expired' = FALSE
    /\ UNCHANGED <<hook, stopping, http, loops, pool>>

(* fx.StartTimeout or fx.StopTimeout, 15 s by default.                     *)
Expire ==
    /\ phase \in {"start", "rollback", "stop"} /\ ~expired
    /\ expired' = TRUE
    /\ UNCHANGED <<phase, hook, stopping, http, loops, pool>>

-----------------------------------------------------------------------------
(* Stop, and the rollback of a failed start: the hooks in reverse, none    *)
(* once the context is over.                                               *)

Unwind(what) ==
    /\ Unwinding /\ ~expired /\ stopping = "none"
    /\ stopping' = what
    /\ UNCHANGED <<phase, hook, expired>>

(* A hook that has stopped, or given up.                                   *)
Unwound ==
    /\ hook' = hook - 1 /\ stopping' = "none"
    /\ UNCHANGED <<phase, expired>>

(* Stop of a loop, up to the select.                                       *)
StopLoop(k) ==
    /\ hook = k
    /\ Unwind("done")
    /\ cancelled' = [cancelled EXCEPT ![k] = TRUE]
    /\ UNCHANGED <<http, loop, pool>>

(* Seeded fault: Stop cancels and does not wait.                           *)
LoopNotAwaited(k) ==
    /\ stopping = "done" /\ hook = k
    /\ loop' = [loop EXCEPT ![k] = IF @ = "ended" THEN "off" ELSE @]
    /\ Unwound
    /\ UNCHANGED <<http, cancelled, pool>>

(* <-run.done                                                              *)
LoopStopped(k) ==
    /\ stopping = "done" /\ hook = k /\ loop[k] = "ended"
    /\ loop' = [loop EXCEPT ![k] = "off"]
    /\ Unwound
    /\ UNCHANGED <<http, cancelled, pool>>

(* <-ctx.Done(): the error is kept, the next hook is not reached.          *)
LoopOutlivesStop(k) ==
    /\ stopping = "done" /\ hook = k /\ expired
    /\ Unwound
    /\ UNCHANGED <<http, loops, pool>>

(* Shutdown: no new connections, then wait for the handlers.               *)
StopHTTP ==
    /\ hook = HTTPHook
    /\ Unwind("drain")
    /\ listener' = "closed"
    /\ UNCHANGED <<drainOver, closed, request, loops, pool>>

(* Seeded fault: the server is closed instead of drained.                  *)
DrainNotAwaited ==
    /\ stopping = "drain"
    /\ closed' = TRUE
    /\ Unwound
    /\ UNCHANGED <<drainOver, listener, request, loops, pool>>

(* Shutdown returns nil.                                                   *)
HTTPDrained ==
    /\ stopping = "drain" /\ \A r \in Requests : ~InFlight(r)
    /\ Unwound
    /\ UNCHANGED <<http, loops, pool>>

(* cfg.ShutdownTimeout.                                                    *)
DrainExpires ==
    /\ stopping = "drain" /\ ~drainOver
    /\ drainOver' = TRUE
    /\ UNCHANGED <<fx, listener, closed, request, loops, pool>>

(* Seeded fault: Close closes the connections and not the base context.    *)
CloseWithoutCancel ==
    /\ stopping = "drain" /\ (drainOver \/ expired)
    /\ Unwound
    /\ UNCHANGED <<http, loops, pool>>

(* Shutdown returns drainCtx's error: Close cancels the base context and   *)
(* does not wait for the handlers.                                         *)
CloseHTTP ==
    /\ stopping = "drain" /\ (drainOver \/ expired)
    /\ closed' = TRUE
    /\ Unwound
    /\ UNCHANGED <<drainOver, listener, request, loops, pool>>

(* Seeded fault: the pool is closed in the background.                     *)
PoolNotAwaited ==
    /\ stopping = "pool"
    /\ pool' = "closed"
    /\ Unwound
    /\ UNCHANGED <<http, loops>>

(* db.Close: the pool rejects new work at once and returns when every      *)
(* connection is back.                                                     *)
StopPool ==
    /\ hook = PoolHook
    /\ Unwind("pool")
    /\ pool' = "closing"
    /\ UNCHANGED <<http, loops>>

PoolClosed ==
    /\ stopping = "pool" /\ ~PoolInUse
    /\ pool' = "closed"
    /\ Unwound
    /\ UNCHANGED <<http, loops>>

(* Run returns: all hooks are done or the context is over, which main does *)
(* not wait out.  Exit code 0 is phase "exited".                           *)
Exit ==
    /\ Unwinding
    /\ hook = 0 \/ expired
    /\ phase' = IF phase = "stop" /\ ~expired THEN "exited" ELSE "failed"
    /\ UNCHANGED <<hook, stopping, expired, http, loops, pool>>

-----------------------------------------------------------------------------
(* The goroutines, while the process lives.                                *)

Alive == phase \notin {"build", "unbuilt", "exited", "failed"}

(* A database call of a loop; with a cancelled context, or on a closed     *)
(* pool, Acquire fails and the loop is where it was.                       *)
LoopQueries(k) ==
    /\ Alive /\ loop[k] = "waiting"
    /\ ~cancelled[k] /\ pool = "open"
    /\ loop' = [loop EXCEPT ![k] = "querying"]
    /\ UNCHANGED <<fx, http, cancelled, pool>>

(* It commits or rolls back and gives the connection back.                 *)
LoopReturns(k) ==
    /\ Alive /\ loop[k] = "querying"
    /\ loop' = [loop EXCEPT ![k] = "waiting"]
    /\ UNCHANGED <<fx, http, cancelled, pool>>

(* The loop sees ctx.Done() and closes done.                               *)
LoopEnds(k) ==
    /\ Alive /\ loop[k] = "waiting" /\ cancelled[k]
    /\ loop' = [loop EXCEPT ![k] = "ended"]
    /\ UNCHANGED <<fx, http, cancelled, pool>>

Accept(r) ==
    /\ Alive /\ listener = "serving" /\ request[r] = "none"
    /\ request' = [request EXCEPT ![r] = "handling"]
    /\ UNCHANGED <<fx, drainOver, listener, closed, loops, pool>>

(* Request contexts derive from the base context.                          *)
RequestQueries(r) ==
    /\ Alive /\ request[r] = "handling"
    /\ ~closed /\ pool = "open"
    /\ request' = [request EXCEPT ![r] = "querying"]
    /\ UNCHANGED <<fx, drainOver, listener, closed, loops, pool>>

RequestReturns(r) ==
    /\ Alive /\ request[r] = "querying"
    /\ request' = [request EXCEPT ![r] = "handling"]
    /\ UNCHANGED <<fx, drainOver, listener, closed, loops, pool>>

(* The handler writes its answer; on a closed connection it is lost.       *)
Answer(r) ==
    /\ Alive /\ request[r] = "handling"
    /\ request' = [request EXCEPT ![r] = IF closed THEN "cut" ELSE "answered"]
    /\ UNCHANGED <<fx, drainOver, listener, closed, loops, pool>>

-----------------------------------------------------------------------------
Init ==
    /\ phase = "build" /\ hook = 0 /\ stopping = "none" /\ expired = FALSE
    /\ drainOver = FALSE /\ listener = "none" /\ closed = FALSE
    /\ request = [r \in Requests |-> "none"]
    /\ loop = [k \in LoopHooks |-> "off"]
    /\ cancelled = [k \in LoopHooks |-> FALSE]
    /\ pool = "none"

StopHook ==
    \/ \E k \in LoopHooks : StopLoop(k) \/ LoopStopped(k) \/ LoopOutlivesStop(k)
    \/ StopHTTP \/ HTTPDrained \/ CloseHTTP
    \/ StopPool \/ PoolClosed

Next ==
    \/ Build \/ BuildFails
    \/ StartPool \/ StartHTTP \/ ListenFails
    \/ \E k \in LoopHooks : StartLoop(k)
    \/ StartExpires \/ StartDone \/ Signal \/ Expire
    \/ StopHook \/ DrainExpires \/ Exit
    \/ \E k \in LoopHooks : LoopQueries(k) \/ LoopReturns(k) \/ LoopEnds(k)
    \/ \E r \in Requests :
         Accept(r) \/ RequestQueries(r) \/ RequestReturns(r) \/ Answer(r)

Spec == Init /\ [][Next]_vars

(* The hooks' goroutine and main run, the drain budget runs out, and a     *)
(* database call ends once its context is cancelled.  Nothing is assumed   *)
(* of a handler or a query whose context is alive, nor of Fx's deadline.   *)
Fairness ==
    /\ WF_vars(StopHook) /\ WF_vars(Exit) /\ WF_vars(DrainExpires)
    /\ \A k \in LoopHooks :
         /\ WF_vars(cancelled[k] /\ LoopReturns(k))
         /\ WF_vars(LoopEnds(k))
    /\ \A r \in Requests : WF_vars(closed /\ RequestReturns(r))

FairSpec == Spec /\ Fairness

-----------------------------------------------------------------------------
\* Every variable stays in its type.
TypeOK ==
    /\ phase \in {"build", "unbuilt", "start", "run", "rollback", "stop",
                 "exited", "failed"}
    /\ hook \in 0 .. LastHook
    /\ stopping \in {"none", "done", "drain", "pool"}
    /\ expired \in BOOLEAN /\ drainOver \in BOOLEAN /\ closed \in BOOLEAN
    /\ listener \in {"none", "serving", "closed"}
    /\ request \in [Requests -> {"none", "handling", "querying", "answered", "cut"}]
    /\ loop \in [LoopHooks -> {"off", "waiting", "querying", "ended"}]
    /\ cancelled \in [LoopHooks -> BOOLEAN]
    /\ pool \in {"none", "open", "closing", "closed"}

\* "as dependências permanecem abertas até os workers encerrarem" (README): the
\* pool starts to close only when no loop is running and every handler still
\* running has had its context cancelled, whatever deadline passed on the way.
PoolOutlivesWork ==
    pool \in {"closing", "closed"} =>
        /\ \A k \in LoopHooks : loop[k] = "off"
        /\ listener # "serving"
        /\ \A r \in Requests : InFlight(r) => closed

\* A shutdown, or a rolled back start, that its context did not cut short
\* leaves nothing behind: no loop, no listener, no connection in use and a
\* closed pool.
CleanExit ==
    (phase = "exited" \/ (phase = "failed" /\ ~expired)) =>
        /\ \A k \in LoopHooks : loop[k] = "off"
        /\ listener # "serving"
        /\ pool = "closed" /\ ~PoolInUse

\* A request accepted before or during the shutdown is answered, unless the
\* drain budget ran out: the other hooks never cost a client its answer.
NoRequestLost ==
    phase = "exited" /\ ~drainOver =>
        \A r \in Requests : request[r] \in {"none", "answered"}

\* After a signal the process exits although a handler never finishes and Fx's
\* own deadline never strikes: no hook waits for ever.
ExitsAfterSignal == phase = "stop" ~> phase \in {"exited", "failed"}
=============================================================================
