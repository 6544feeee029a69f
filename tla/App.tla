-------------------------------- MODULE App --------------------------------
(***************************************************************************)
(* The application lifecycle of rskit-bootstrap (app.rs, lifecycle.rs)     *)
(* composed with the component registry it owns: start(), the rollback of  *)
(* a failed start, run() and run_task(), and stop().                       *)
(*                                                                         *)
(* The App is the registry's only client.  A hook is dispatched and then   *)
(* awaited; the shutdown token, which anyone may hold, can be cancelled    *)
(* between any two steps.                                                  *)
(***************************************************************************)
EXTENDS Registry

CONSTANTS
    Hooks,         \* how many hooks are registered for each phase
    HangingHooks   \* phases whose hooks may never return

ASSUME AppAssumption ==
    /\ Clients = {"app"}
    /\ {"start_all", "stop_all"} \subseteq Ops /\ MaxOps >= 2
    /\ HangingHooks \subseteq DOMAIN Hooks
    /\ \A p \in DOMAIN Hooks : Hooks[p] \in Nat

VARIABLES
    stage,            \* where the application is
    hook,             \* hooks of the current phase that have returned
    awaiting,         \* a hook is being awaited
    shutdown,         \* shutdown_token is cancelled
    stop_components,  \* rollback_startup_failure()'s parameter
    error,            \* an error is to be returned
    container         \* the DI container: "open" or "closed"

app == <<stage, hook, awaiting, shutdown, stop_components, error, container>>
appVars == <<vars, app>>

LifecyclePhase == {"configure", "before_start", "after_start", "ready",
                   "before_stop", "after_stop"}

fail_when_cancelled == {"configure", "before_start", "after_start", "ready"}

\* run_hooks() runs in these stages; the rollback runs the before_stop hooks.
HookStages == LifecyclePhase \cup {"rollback"}
PhaseOf(s) == IF s = "rollback" THEN "before_stop" ELSE s

AppInit ==
    /\ Init
    /\ stage = "built" /\ hook = 0 /\ awaiting = FALSE
    /\ shutdown = FALSE /\ stop_components = FALSE
    /\ error = FALSE /\ container = "open"

Enter(s) == stage' = s /\ hook' = 0 /\ awaiting' = FALSE

\* The next stage, with or without an error to return.
Proceed(s, bad) ==
    /\ Enter(s)
    /\ error' = (error \/ bad)
    /\ UNCHANGED <<stop_components, container>>

\* rollback_startup_failure(error, components)
StartupFails(components) ==
    /\ Enter("rollback")
    /\ error' = TRUE
    /\ stop_components' = components
    /\ UNCHANGED container

(***************************************************************************)
(* run_hooks(), and where each caller goes afterwards                      *)
(***************************************************************************)
HooksSucceed ==
    \/ stage = "configure" /\ Proceed("before_start", FALSE)
    \/ stage = "before_start" /\ Proceed("start_all", FALSE)
    \/ stage = "after_start" /\ Proceed("ready", FALSE)
    \/ stage = "ready" /\ Proceed("started", FALSE)
    \/ stage = "before_stop" /\ Proceed("stop_all", FALSE)
    \/ stage = "after_stop" /\ Proceed("close", FALSE)
    \/ stage = "rollback" /\ Proceed(IF stop_components THEN "undo" ELSE "end", FALSE)

\* Mutant: an error of an after_start or ready hook is returned at once.
HooksFailWithoutRollback ==
    \/ stage \in fail_when_cancelled /\ Proceed("end", TRUE)
    \/ stage = "before_stop" /\ Proceed("stop_all", TRUE)
    \/ stage = "after_stop" /\ Proceed("close", TRUE)
    \/ stage = "rollback" /\ Proceed(IF stop_components THEN "undo" ELSE "end", TRUE)

\* Mutant: stop() returns the error of a before_stop hook at once.
HooksFailEarly ==
    \/ stage \in {"configure", "before_start"} /\ Proceed("end", TRUE)
    \/ stage \in {"after_start", "ready"} /\ StartupFails(TRUE)
    \/ stage = "before_stop" /\ Proceed("after_stop", TRUE)
    \/ stage = "after_stop" /\ Proceed("close", TRUE)
    \/ stage = "rollback" /\ Proceed(IF stop_components THEN "undo" ELSE "end", TRUE)

HooksFail ==
    \/ stage \in {"configure", "before_start"} /\ Proceed("end", TRUE)
    \/ stage \in {"after_start", "ready"} /\ StartupFails(TRUE)
    \/ stage = "before_stop" /\ Proceed("stop_all", TRUE)
    \/ stage = "after_stop" /\ Proceed("close", TRUE)
    \/ stage = "rollback" /\ Proceed(IF stop_components THEN "undo" ELSE "end", TRUE)

MoreHooks == hook < Hooks[PhaseOf(stage)]

\* One round of the loop up to the await, or its end.
DispatchHook ==
    /\ stage \in HookStages /\ ~awaiting
    /\ \/ ~MoreHooks /\ HooksSucceed
       \/ /\ MoreHooks
          /\ PhaseOf(stage) \in fail_when_cancelled /\ shutdown
          /\ HooksFail
       \/ /\ MoreHooks
          /\ PhaseOf(stage) \notin fail_when_cancelled \/ ~shutdown
          /\ awaiting' = TRUE
          /\ UNCHANGED <<stage, hook, stop_components, error, container>>
    /\ UNCHANGED <<vars, shutdown>>

\* The hook returns Ok, or Err, which skips the phase's remaining hooks.
HookReturns ==
    /\ awaiting
    /\ \/ /\ hook' = hook + 1
          /\ awaiting' = FALSE
          /\ UNCHANGED <<stage, stop_components, error, container>>
       \/ HooksFail
    /\ UNCHANGED <<vars, shutdown>>

\* Mutant: stop() awaits the before_stop hooks without a timeout.
GracefulTimeoutNever == FALSE /\ UNCHANGED appVars

\* graceful_timeout expires during the before_stop hooks of stop().
GracefulTimeout ==
    /\ stage = "before_stop"
    /\ Proceed("stop_all", TRUE)
    /\ UNCHANGED <<vars, shutdown>>

(***************************************************************************)
(* start()                                                                 *)
(***************************************************************************)
Start ==
    /\ stage = "built"
    /\ Proceed("configure", FALSE)
    /\ UNCHANGED <<vars, shutdown>>

\* Calls into the registry.
CallStartAll ==
    /\ stage = "start_all" /\ StartAll("app")
    /\ stage' = "starting"
    /\ UNCHANGED <<hook, awaiting, shutdown, stop_components, error, container>>

CallStopAll ==
    /\ stage \in {"stop_all", "undo"} /\ StopAll("app")
    /\ stage' = IF stage = "stop_all" THEN "stopping" ELSE "undoing"
    /\ UNCHANGED <<hook, awaiting, shutdown, stop_components, error, container>>

RegistryStep ==
    /\ \/ StartNext("app") \/ StartReturns("app") \/ StartTimesOut("app")
       \/ Cleanup("app") \/ Rollback("app")
       \/ StopNext("app") \/ StopReturns("app") \/ StopFails("app")
    /\ UNCHANGED app

\* The registry's operation has returned.
Returned == pc["app"] = "idle"
Erred == outcome["app"] # "ok"

\* A failed start_all() has stopped what it started: the rollback does not.
StartAllReturns ==
    /\ stage = "starting" /\ Returned
    /\ IF Erred THEN StartupFails(FALSE) ELSE Proceed("ready_check", FALSE)
    /\ UNCHANGED <<vars, shutdown>>

\* ready_check(): the components report their health, whatever it is.
ReadyCheck ==
    /\ stage = "ready_check"
    /\ StartupFails(TRUE) \/ Proceed("after_start", FALSE)
    /\ UNCHANGED <<vars, shutdown>>

\* stop_all() of rollback_startup_failure() has returned.
UndoReturns ==
    /\ stage = "undoing" /\ Returned
    /\ Proceed("end", Erred)
    /\ UNCHANGED <<vars, shutdown>>

(***************************************************************************)
(* run(), run_task() and stop()                                            *)
(***************************************************************************)

\* wait_for_signal(): SIGINT, which does not cancel the token, or the token.
Signal ==
    /\ stage = "started"
    /\ Proceed("before_stop", FALSE)
    /\ UNCHANGED <<vars, shutdown>>

\* run_task()'s task returns Ok or Err before any signal.
RunTaskReturns ==
    /\ stage = "started"
    /\ \E bad \in BOOLEAN : Proceed("before_stop", bad)
    /\ UNCHANGED <<vars, shutdown>>

\* Mutant: a later error replaces the recorded one, and so does a later success.
StopAllReturnsOverwrite ==
    /\ stage = "stopping" /\ Returned
    /\ Enter("after_stop")
    /\ error' = FALSE
    /\ UNCHANGED <<vars, shutdown, stop_components, container>>

StopAllReturns ==
    /\ stage = "stopping" /\ Returned
    /\ Proceed("after_stop", Erred)
    /\ UNCHANGED <<vars, shutdown>>

\* container.close(): everything is closed, some of it with an error.
CloseContainer ==
    /\ stage = "close"
    /\ container' = "closed"
    /\ Enter("end")
    /\ \E bad \in BOOLEAN : error' = (error \/ bad)
    /\ UNCHANGED <<vars, shutdown, stop_components>>

\* Any holder of the token cancels it.
CancelToken ==
    /\ ~shutdown
    /\ shutdown' = TRUE
    /\ UNCHANGED <<vars, stage, hook, awaiting, stop_components, error, container>>

AppStep ==
    \/ DispatchHook \/ GracefulTimeout
    \/ Start \/ CallStartAll \/ CallStopAll \/ RegistryStep
    \/ StartAllReturns \/ ReadyCheck \/ UndoReturns
    \/ StopAllReturns \/ CloseContainer

AppNext == AppStep \/ HookReturns \/ Signal \/ RunTaskReturns \/ CancelToken

AppSpec == AppInit /\ [][AppNext]_appVars

\* The runtime polls the App and its timers fire, hooks return, unless their phase
\* is one that may hang, and run() notices a cancelled token.
AppFairSpec ==
    /\ AppSpec
    /\ WF_appVars(AppStep)
    /\ WF_appVars(PhaseOf(stage) \notin HangingHooks /\ HookReturns)
    /\ WF_appVars(shutdown /\ Signal)

(***************************************************************************)
(* Properties                                                              *)
(***************************************************************************)

\* The stages, flags and counters have their types.
AppTypeOK ==
    /\ stage \in {"built", "start_all", "starting", "ready_check", "started",
                  "undo", "undoing", "stop_all", "stopping", "close", "end"}
                 \cup HookStages
    /\ hook \in Nat
    /\ stage \in HookStages => hook <= Hooks[PhaseOf(stage)]
    /\ awaiting \in BOOLEAN
    /\ awaiting => stage \in HookStages
    /\ shutdown \in BOOLEAN /\ stop_components \in BOOLEAN /\ error \in BOOLEAN
    /\ container \in {"open", "closed"}

NoneUp == \A i \in 1..N : state[i] # "Running" /\ comp[i] \notin {"up", "starting"}

\* after_stop hooks run, and the container is closed, only when no component is
\* up any more, whatever failed before.
ReleasedInOrder ==
    stage \in {"after_stop", "close"} \/ container = "closed" => NoneUp

\* Startup is all or nothing to the end: from the after_start hooks to the
\* before_stop hooks of stop() every component is up and tracked as Running; and
\* however the application ends, by a failed start in any phase or by stop(), no
\* component stays up, and none that start_all() gave up on is left uncleaned.
AllUpOrDown ==
    /\ stage \in {"after_start", "ready", "started", "before_stop"} =>
        \A i \in 1..N : state[i] = "Running" /\ comp[i] = "up"
    /\ stage = "end" => NoneUp /\ \A i \in 1..N : comp[i] # "partial"

\* An application that reports success has started, has stopped every component
\* cleanly and has closed its container: no error on the way was lost.
OkMeansClean ==
    stage = "end" /\ ~error =>
        /\ \A i \in 1..N : state[i] = "Stopped" /\ comp[i] = "down"
        /\ container = "closed"

\* stop() comes to its end, although before_stop hooks may hang and stop() of a
\* component may time out.
StopEnds == stage = "before_stop" ~> stage = "end"
=============================================================================
