--------------------------- MODULE LifecycleProofs ---------------------------
(***************************************************************************)
(* The shutdown of a process, for any number of loops and requests: the    *)
(* order of the hooks protects the pool whatever deadline passes.          *)
(***************************************************************************)
EXTENDS Lifecycle, TLAPS

(* The hooks are being undone, or were.                                    *)
Ending == phase \in {"rollback", "stop", "exited", "failed"}

(* The context of the stop or of the rollback is over: from here on no     *)
(* other hook is reached.                                                  *)
CutShort == phase \in {"rollback", "stop", "failed"} /\ expired

(* Where Run and the hooks are: which hook the one under way is, and what  *)
(* is left when Run returns.                                               *)
HooksInOrder ==
    /\ stopping # "none" => Ending
    /\ stopping = "done" => hook \in LoopHooks
    /\ stopping = "drain" => hook = HTTPHook
    /\ stopping = "pool" => hook = PoolHook /\ pool = "closing"
    /\ phase \in {"build", "unbuilt"} => hook = 0
    /\ phase = "run" => hook = LastHook /\ ~expired
    /\ phase = "exited" => hook = 0 /\ ~expired
    /\ phase = "failed" => hook = 0 \/ expired

(* A loop left running after its hook gave up means that no hook follows.  *)
LoopsInOrder ==
    \A k \in LoopHooks : loop[k] # "off" => k <= hook \/ CutShort

(* The listener closes before its hook is done, handlers that outlive the  *)
(* hook have a cancelled context, and only a deadline makes that happen.   *)
ServerInOrder ==
    /\ listener = "serving" => hook >= HTTPHook /\ stopping # "drain"
    /\ \A r \in Requests : InFlight(r) => hook >= HTTPHook \/ closed
    /\ \A r \in Requests : request[r] = "cut" => closed
    /\ closed => drainOver \/ CutShort

(* The pool is the last to go, and goes if anything is undone to the end.  *)
PoolInOrder ==
    /\ pool \in {"closing", "closed"} =>
         /\ Ending /\ hook <= PoolHook
         /\ \A k \in LoopHooks : loop[k] = "off"
    /\ pool = "closed" => ~PoolInUse
    /\ Ending /\ hook = 0 => pool = "closed" \/ expired

LifeInv == TypeOK /\ HooksInOrder /\ LoopsInOrder /\ ServerInOrder /\ PoolInOrder

(* Building the application, or failing to.                                 *)
LEMMA BuildOrders ==
    ASSUME LifeInv, Build \/ BuildFails
    PROVE  LifeInv'
  <1> USE HooksAssumption DEF LifeInv, TypeOK, HooksInOrder, Ending, PoolHook, HTTPHook,
          LoopHooks, fx, http, loops
  <1>1. TypeOK'
    BY DEF Build, BuildFails
  <1>2. HooksInOrder'
    BY DEF Build, BuildFails, PoolInOrder
  <1>3. LoopsInOrder'
    BY DEF Build, BuildFails, LoopsInOrder, CutShort
  <1>4. ServerInOrder'
    BY DEF Build, BuildFails, ServerInOrder, CutShort, InFlight
  <1>5. PoolInOrder'
    BY DEF Build, BuildFails, LoopsInOrder, CutShort, PoolInOrder, PoolInUse
  <1>6. QED
    BY <1>1, <1>2, <1>3, <1>4, <1>5

(* The OnStart hooks, in order.                                             *)
LEMMA StartOrders ==
    ASSUME LifeInv,
           StartPool \/ StartHTTP \/ ListenFails \/ StartExpires \/ StartDone
    PROVE  LifeInv'
  <1> USE HooksAssumption DEF LifeInv, TypeOK, HooksInOrder, Ending, PoolHook, HTTPHook,
          LoopHooks, fx, http, loops
  <1>1. TypeOK'
    BY DEF StartPool, Started, StartHTTP, ListenFails, StartExpires, StartDone
  <1>2. HooksInOrder'
    BY DEF StartPool, Started, StartHTTP, ListenFails, StartExpires, StartDone,
           PoolInOrder
  <1>3. LoopsInOrder'
    BY DEF StartPool, Started, StartHTTP, ListenFails, StartExpires, StartDone,
           LoopsInOrder, CutShort
  <1>4. ServerInOrder'
    BY DEF StartPool, Started, StartHTTP, ListenFails, StartExpires, StartDone,
           ServerInOrder, CutShort, InFlight
  <1>5. PoolInOrder'
    BY DEF StartPool, Started, StartHTTP, ListenFails, StartExpires, StartDone,
           LoopsInOrder, CutShort, PoolInOrder, PoolInUse
  <1>6. QED
    BY <1>1, <1>2, <1>3, <1>4, <1>5

(* The OnStart hook of a loop.                                              *)
LEMMA StartLoopOrders ==
    ASSUME LifeInv, NEW k \in LoopHooks, StartLoop(k)
    PROVE  LifeInv'
  <1> USE HooksAssumption DEF LifeInv, TypeOK, HooksInOrder, Ending, PoolHook, HTTPHook,
          LoopHooks, fx, http, loops
  <1>1. TypeOK'
    BY DEF StartLoop, Started
  <1>2. HooksInOrder'
    BY DEF StartLoop, Started, PoolInOrder
  <1>3. LoopsInOrder'
    BY DEF StartLoop, Started, LoopsInOrder, CutShort
  <1>4. ServerInOrder'
    BY DEF StartLoop, Started, ServerInOrder, CutShort, InFlight
  <1>5. PoolInOrder'
    BY DEF StartLoop, Started, LoopsInOrder, CutShort, PoolInOrder, PoolInUse
  <1>6. QED
    BY <1>1, <1>2, <1>3, <1>4, <1>5

(* A signal and a deadline.                                                 *)
LEMMA SignalOrders ==
    ASSUME LifeInv, Signal \/ Expire
    PROVE  LifeInv'
  <1> USE HooksAssumption DEF LifeInv, TypeOK, HooksInOrder, Ending, PoolHook, HTTPHook,
          LoopHooks, fx, http, loops
  <1>1. TypeOK'
    BY DEF Signal, Expire
  <1>2. HooksInOrder'
    BY DEF Signal, Expire, PoolInOrder
  <1>3. LoopsInOrder'
    BY DEF Signal, Expire, LoopsInOrder, CutShort
  <1>4. ServerInOrder'
    BY DEF Signal, Expire, ServerInOrder, CutShort, InFlight
  <1>5. PoolInOrder'
    BY DEF Signal, Expire, LoopsInOrder, CutShort, PoolInOrder, PoolInUse
  <1>6. QED
    BY <1>1, <1>2, <1>3, <1>4, <1>5

(* The OnStop hook of a loop.                                               *)
LEMMA StopLoopOrders ==
    ASSUME LifeInv, NEW k \in LoopHooks, 
           StopLoop(k) \/ LoopStopped(k) \/ LoopOutlivesStop(k)
    PROVE  LifeInv'
  <1> USE HooksAssumption DEF LifeInv, TypeOK, HooksInOrder, Ending, PoolHook, HTTPHook,
          LoopHooks, fx, http, loops
  <1>1. TypeOK'
    <2>1. CASE StopLoop(k)
      BY <2>1 DEF StopLoop, Unwind
    <2>2. CASE LoopStopped(k)
      BY <2>2 DEF LoopStopped, Unwound
    <2>3. CASE LoopOutlivesStop(k)
      BY <2>3 DEF LoopOutlivesStop, Unwound
    <2>4. QED
      BY <2>1, <2>2, <2>3
  <1>2. HooksInOrder'
    BY DEF StopLoop, Unwind, Unwinding, LoopStopped, Unwound, LoopOutlivesStop,
           PoolInOrder
  <1>3. LoopsInOrder'
    BY DEF StopLoop, Unwind, Unwinding, LoopStopped, Unwound, LoopOutlivesStop,
           LoopsInOrder, CutShort
  <1>4. ServerInOrder'
    BY DEF StopLoop, Unwind, Unwinding, LoopStopped, Unwound, LoopOutlivesStop,
           ServerInOrder, CutShort, InFlight
  <1>5. PoolInOrder'
    BY DEF StopLoop, Unwind, Unwinding, LoopStopped, Unwound, LoopOutlivesStop,
           LoopsInOrder, CutShort, PoolInOrder, PoolInUse
  <1>6. QED
    BY <1>1, <1>2, <1>3, <1>4, <1>5

(* The OnStop hook of the HTTP server.                                      *)
LEMMA StopHTTPOrders ==
    ASSUME LifeInv,
           StopHTTP \/ HTTPDrained \/ DrainExpires \/ CloseHTTP
    PROVE  LifeInv'
  <1> USE HooksAssumption DEF LifeInv, TypeOK, HooksInOrder, Ending, PoolHook, HTTPHook,
          LoopHooks, fx, http, loops
  <1>1. TypeOK'
    <2>1. CASE StopHTTP \/ DrainExpires
      BY <2>1 DEF StopHTTP, Unwind, DrainExpires
    <2>2. CASE HTTPDrained
      BY <2>2 DEF HTTPDrained, Unwound
    <2>3. CASE CloseHTTP
      BY <2>3 DEF CloseHTTP, Unwound
    <2>4. QED
      BY <2>1, <2>2, <2>3
  <1>2. HooksInOrder'
    BY DEF StopHTTP, Unwind, Unwinding, HTTPDrained, Unwound, DrainExpires, CloseHTTP,
           PoolInOrder
  <1>3. LoopsInOrder'
    BY DEF StopHTTP, Unwind, Unwinding, HTTPDrained, Unwound, DrainExpires, CloseHTTP,
           LoopsInOrder, CutShort
  <1>4. ServerInOrder'
    BY DEF StopHTTP, Unwind, Unwinding, HTTPDrained, Unwound, DrainExpires, CloseHTTP,
           ServerInOrder, CutShort, InFlight
  <1>5. PoolInOrder'
    BY DEF StopHTTP, Unwind, Unwinding, HTTPDrained, Unwound, DrainExpires, CloseHTTP,
           LoopsInOrder, CutShort, PoolInOrder, PoolInUse
  <1>6. QED
    BY <1>1, <1>2, <1>3, <1>4, <1>5

(* The OnStop hook of the pool, and the end of Run.                         *)
LEMMA StopPoolOrders ==
    ASSUME LifeInv, StopPool \/ PoolClosed \/ Exit
    PROVE  LifeInv'
  <1> USE HooksAssumption DEF LifeInv, TypeOK, HooksInOrder, Ending, PoolHook, HTTPHook,
          LoopHooks, fx, http, loops
  <1>1. TypeOK'
    BY DEF StopPool, Unwind, Unwinding, PoolClosed, Unwound, Exit
  <1>2. HooksInOrder'
    BY DEF StopPool, Unwind, Unwinding, PoolClosed, Unwound, Exit, PoolInOrder
  <1>3. LoopsInOrder'
    BY DEF StopPool, Unwind, Unwinding, PoolClosed, Unwound, Exit,
           LoopsInOrder, CutShort
  <1>4. ServerInOrder'
    BY DEF StopPool, Unwind, Unwinding, PoolClosed, Unwound, Exit,
           ServerInOrder, CutShort, InFlight
  <1>5. PoolInOrder'
    BY DEF StopPool, Unwind, Unwinding, PoolClosed, Unwound, Exit,
           LoopsInOrder, CutShort, PoolInOrder, PoolInUse
  <1>6. QED
    BY <1>1, <1>2, <1>3, <1>4, <1>5

(* The polling loops.                                                       *)
LEMMA LoopOrders ==
    ASSUME LifeInv, NEW k \in LoopHooks, 
           LoopQueries(k) \/ LoopReturns(k) \/ LoopEnds(k)
    PROVE  LifeInv'
  <1> USE HooksAssumption DEF LifeInv, TypeOK, HooksInOrder, Ending, PoolHook, HTTPHook,
          LoopHooks, fx, http, loops
  <1>1. TypeOK'
    BY DEF LoopQueries, LoopReturns, LoopEnds
  <1>2. HooksInOrder'
    BY DEF LoopQueries, LoopReturns, LoopEnds, PoolInOrder
  <1>3. LoopsInOrder'
    BY DEF LoopQueries, LoopReturns, LoopEnds, LoopsInOrder, CutShort
  <1>4. ServerInOrder'
    BY DEF LoopQueries, LoopReturns, LoopEnds, ServerInOrder, CutShort, InFlight
  <1>5. PoolInOrder'
    BY DEF LoopQueries, LoopReturns, LoopEnds,
           LoopsInOrder, CutShort, PoolInOrder, PoolInUse
  <1>6. QED
    BY <1>1, <1>2, <1>3, <1>4, <1>5

(* The HTTP handlers.                                                       *)
LEMMA RequestOrders ==
    ASSUME LifeInv, NEW r \in Requests, 
           Accept(r) \/ RequestQueries(r) \/ RequestReturns(r) \/ Answer(r)
    PROVE  LifeInv'
  <1> USE HooksAssumption DEF LifeInv, TypeOK, HooksInOrder, Ending, PoolHook, HTTPHook,
          LoopHooks, fx, http, loops
  <1>1. TypeOK'
    BY DEF Accept, RequestQueries, RequestReturns, Answer
  <1>2. HooksInOrder'
    BY DEF Accept, RequestQueries, RequestReturns, Answer, PoolInOrder
  <1>3. LoopsInOrder'
    BY DEF Accept, RequestQueries, RequestReturns, Answer,
           LoopsInOrder, CutShort
  <1>4. ServerInOrder'
    BY DEF Accept, RequestQueries, RequestReturns, Answer,
           ServerInOrder, CutShort, InFlight
  <1>5. PoolInOrder'
    BY DEF Accept, RequestQueries, RequestReturns, Answer,
           LoopsInOrder, CutShort, PoolInOrder, PoolInUse
  <1>6. QED
    BY <1>1, <1>2, <1>3, <1>4, <1>5
-----------------------------------------------------------------------------
(* The hooks, the loops, the server and the pool keep the order.           *)
LEMMA LifeInvariant == Spec => []LifeInv
  <1>1. Init => LifeInv
    <2>1. Init => TypeOK
      <3>1. 0 \in 0 .. LastHook
        BY HooksAssumption
      <3>2. Init => /\ loop \in [LoopHooks -> {"off", "waiting", "querying", "ended"}]
                    /\ cancelled \in [LoopHooks -> BOOLEAN]
        BY DEF Init
      <3>3. Init => request \in [Requests -> {"none", "handling", "querying",
                                             "answered", "cut"}]
        BY DEF Init
      <3>4. QED
        BY <3>1, <3>2, <3>3 DEF Init, TypeOK
    <2>2. Init => HooksInOrder
      BY DEF Init, HooksInOrder
    <2>3. Init => LoopsInOrder
      BY DEF Init, LoopsInOrder
    <2>4. Init => ServerInOrder
      BY DEF Init, ServerInOrder, InFlight
    <2>5. Init => PoolInOrder
      BY DEF Init, PoolInOrder, Ending
    <2>6. QED
      BY <2>1, <2>2, <2>3, <2>4, <2>5 DEF LifeInv
  <1>2. LifeInv /\ [Next]_vars => LifeInv'
    <2>1. SUFFICES ASSUME LifeInv, [Next]_vars PROVE LifeInv'
      OBVIOUS
    <2>2. CASE UNCHANGED vars
      BY <2>1, <2>2 DEF vars, fx, http, loops, LifeInv, TypeOK, HooksInOrder,
         LoopsInOrder, ServerInOrder, PoolInOrder, Ending, CutShort, InFlight,
         PoolInUse
    <2>3. CASE StopHook
      BY <2>1, <2>3, StopLoopOrders, StopHTTPOrders, StopPoolOrders DEF StopHook
    <2>4. CASE \E k \in LoopHooks :
                 StartLoop(k) \/ LoopQueries(k) \/ LoopReturns(k) \/ LoopEnds(k)
      BY <2>1, <2>4, StartLoopOrders, LoopOrders
    <2>5. CASE \E r \in Requests :
                 Accept(r) \/ RequestQueries(r) \/ RequestReturns(r) \/ Answer(r)
      BY <2>1, <2>5, RequestOrders
    <2>6. QED
      BY <2>1, <2>2, <2>3, <2>4, <2>5, BuildOrders, StartOrders, SignalOrders,
         StopHTTPOrders, StopPoolOrders DEF Next
  <1>3. QED
    BY <1>1, <1>2, PTL DEF Spec

\* The hooks of the composition keep every variable in its type: in particular
\* the count of started hooks never leaves 0 .. LastHook, on any path through
\* start, rollback, stop and the deadlines.
THEOREM LifecycleIsTyped == Spec => []TypeOK
  <1>1. LifeInv => TypeOK
    BY DEF LifeInv
  <1>2. QED
    BY <1>1, LifeInvariant, PTL

\* db.Close is reached only when no loop runs and no handler has a live context,
\* with any number of loops and requests and wherever the deadlines strike: a
\* loop that outlives its Stop implies that the context of the stop is over, and
\* then Fx runs no further hook.
THEOREM PoolIsClosedLast == Spec => []PoolOutlivesWork
  <1>1. LifeInv => PoolOutlivesWork
    BY DEF LifeInv, TypeOK, ServerInOrder, PoolInOrder, PoolOutlivesWork,
       PoolHook, HTTPHook
  <1>2. QED
    BY <1>1, LifeInvariant, PTL

\* A shutdown or a rollback that was not cut short has stopped every loop and
\* the listener, and has closed the pool with every connection back.
THEOREM UncutShutdownIsClean == Spec => []CleanExit
  <1>1. LifeInv => CleanExit
    BY DEF LifeInv, TypeOK, HooksInOrder, ServerInOrder, PoolInOrder, Ending,
       CleanExit, HTTPHook
  <1>2. QED
    BY <1>1, LifeInvariant, PTL

\* A process that exits with code 0 within the drain budget has answered every
\* request it accepted.
THEOREM AcceptedIsAnswered == Spec => []NoRequestLost
  <1>1. LifeInv => NoRequestLost
    BY DEF LifeInv, TypeOK, HooksInOrder, ServerInOrder, CutShort, InFlight,
       NoRequestLost, HTTPHook
  <1>2. QED
    BY <1>1, LifeInvariant, PTL
=============================================================================
