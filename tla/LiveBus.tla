------------------------------ MODULE LiveBus ------------------------------
(***************************************************************************)
(* The bus of the live subscribers: subscriptions and their index,         *)
(* Publish, PublishSync and Close (internal/bus/channel_bus.go), the       *)
(* goroutine of each handler with its timeout and fallback                 *)
(* (internal/bus/exec/exec.go), and the end of Shutdown, which waits for   *)
(* the Forgets and closes the dispatcher and then the bus                  *)
(* (internal/processor/processor.go).                                      *)
(*                                                                         *)
(* The dispatcher appears as its workers, one per aggregate, that take the *)
(* aggregate's events one after the other, and publish them with           *)
(* PublishSync or pass over them; what they do besides is module Delivery. *)
(* One action is one access to shared state: a hold of subMu or of         *)
(* publishMu, a load of the index, the start or the end of a handler.      *)
(***************************************************************************)
EXTENDS Naturals

CONSTANTS
    Aggs,           \* aggregates; each has one worker, which publishes with PublishSync
    Callers,        \* goroutines that publish one event with Publish
    Subs,           \* subscriptions
    Applications,   \* the sets of subscriptions an application may make
    Pattern,        \* Pattern[s]: the publishers whose events match s
    Timed,          \* subscriptions with a timeout
    WithFallback,   \* subscriptions with a fallback handler
    MaxEvents,      \* bound: events per aggregate
    MaxTimeouts     \* bound: calls of Shutdown that give up

ASSUME LiveBusConstants ==
    /\ Aggs \cap Callers = {}
    /\ Applications \subseteq SUBSET Subs
    /\ Pattern \in [Subs -> SUBSET (Aggs \cup Callers)]
    /\ Timed \subseteq Subs
    /\ WithFallback \subseteq Subs
    /\ MaxEvents \in Nat \ {0}
    /\ MaxTimeouts \in Nat

VARIABLES
    subscribe,      \* where the call of Subscribe for s is
    idx,            \* the subscriptions in the published index
    closed,         \* ChannelBus.closed
    inFlight,       \* the handlers inFlightWg counts
    pub,            \* the publishers
    run,            \* run[e][s]: the handler of s for event e
    forgets,        \* the Forgets in flight (Processor.forgets)
    shutdown,       \* where Shutdown is
    stopping,       \* the dispatcher has told its workers to stop
    cancelled,      \* the dispatcher has cancelled the contexts of its jobs
    timeouts        \* calls of Shutdown that have given up

subscriptions == <<subscribe, idx>>
handlers == <<run, inFlight>>
life == <<forgets, shutdown, stopping, cancelled, timeouts>>
busVars == <<subscriptions, closed, handlers, pub, life>>

Publishers == Aggs \cup Callers
Events == Publishers \X (1..MaxEvents)

\* PublishSync waits for its own handlers; only those of Publish are counted.
IsSync(e) == e[1] \in Aggs

-----------------------------------------------------------------------------
(* Subscribe and Unsubscribe.  subMu is held from the test of closed to    *)
(* the new index; Close does not take it.                                  *)

SubMuFree == \A s \in Subs : subscribe[s] # "checked"

IndexWith(old, s) == old \cup {s}
IndexWithout(old, s) == old \ {s}

CheckOpen(s) ==
    /\ subscribe[s] = "new"
    /\ SubMuFree
    /\ ~closed
    /\ subscribe' = [subscribe EXCEPT ![s] = "checked"]
    /\ UNCHANGED <<idx, closed, handlers, pub, life>>

AddSubscription(s) ==
    /\ subscribe[s] = "checked"
    /\ subscribe' = [subscribe EXCEPT ![s] = "done"]
    /\ idx' = IndexWith(idx, s)
    /\ UNCHANGED <<closed, handlers, pub, life>>

\* An id that is not registered any more changes nothing.
Unsubscribe(s) ==
    /\ subscribe[s] = "done"
    /\ SubMuFree
    /\ idx' = IndexWithout(idx, s)
    /\ UNCHANGED <<subscribe, closed, handlers, pub, life>>

-----------------------------------------------------------------------------
(* Publish and PublishSync.                                                *)

Matches(p) == {s \in idx : p \in Pattern[s]}

Current(p) == <<p, pub[p].n>>

\* What is left to publish: a caller of Publish publishes once.
MorePending(p) == pub[p].n < (IF p \in Aggs THEN MaxEvents ELSE 1)

\* publishLive: the index is loaded, lock-free.  shown is a history variable.
LoadIndex(p) ==
    /\ pub[p].st = "idle"
    /\ MorePending(p)
    /\ ~(cancelled /\ p \in Aggs)
    /\ pub' = [pub EXCEPT ![p].st = "matched", ![p].n = @ + 1, ![p].targets = Matches(p),
                          ![p].shown = @ \cup {pub[p].n + 1}]
    /\ UNCHANGED <<subscriptions, closed, handlers, life>>

\* The aggregate's next event is never published: a park holds it (heldByPark) or
\* has thrown it out, it is redelivered (SkipLive), or its job is cancelled.  When
\* there is a park is up to module Delivery; here it is at any time.
PassOver(p) ==
    /\ p \in Aggs
    /\ pub[p].st = "idle"
    /\ MorePending(p)
    /\ pub' = [pub EXCEPT ![p].n = @ + 1]
    /\ UNCHANGED <<subscriptions, closed, handlers, life>>

Spawned(p) ==
    [run EXCEPT ![Current(p)] =
        [s \in Subs |-> IF s \in pub[p].targets THEN "spawned" ELSE @[s]]]

Refused(p) ==
    /\ closed
    /\ pub' = [pub EXCEPT ![p].st = "idle", ![p].targets = {}]
    /\ UNCHANGED handlers

\* Slip: the handlers are counted without a look at closed.
AdmitUnchecked(p) ==
    /\ pub[p].st = "matched"
    /\ run' = Spawned(p)
    /\ inFlight' = IF p \in Aggs THEN inFlight
                   ELSE inFlight \cup ({Current(p)} \X pub[p].targets)
    /\ pub' = [pub EXCEPT ![p].st = IF p \in Aggs THEN "wait" ELSE "idle", ![p].targets = {}]
    /\ UNCHANGED <<subscriptions, closed, life>>

\* Under publishMu: closed is tested and the handlers are counted; then they start.
Admit(p) ==
    /\ pub[p].st = "matched"
    /\ \/ Refused(p)
       \/ /\ ~closed
          /\ run' = Spawned(p)
          /\ inFlight' = IF p \in Aggs THEN inFlight
                         ELSE inFlight \cup ({Current(p)} \X pub[p].targets)
          /\ pub' = [pub EXCEPT ![p].st = IF p \in Aggs THEN "wait" ELSE "idle",
                                ![p].targets = {}]
    /\ UNCHANGED <<subscriptions, closed, life>>

\* localWg.Wait returns.
PublishReturns(p) ==
    /\ pub[p].st = "wait"
    /\ \A s \in Subs : run[Current(p)][s] \in {"none", "stray"}
    /\ pub' = [pub EXCEPT ![p].st = "idle"]
    /\ UNCHANGED <<subscriptions, closed, handlers, life>>

\* The worker has been told to stop and has drained its queue.
WorkerExits(p) ==
    /\ p \in Aggs
    /\ stopping
    /\ pub[p].st = "idle"
    /\ pub' = [pub EXCEPT ![p].st = "exited"]
    /\ UNCHANGED <<subscriptions, closed, handlers, life>>

PublisherStep(p) ==
    LoadIndex(p) \/ PassOver(p) \/ Admit(p) \/ PublishReturns(p) \/ WorkerExits(p)

-----------------------------------------------------------------------------
(* ExecuteHandler.  A handler is "overdue" once its timeout is reported    *)
(* and the publisher still waits for it, and "stray" when nobody does.     *)

\* The handler, or its fallback, is over; wg.Done unless it was called before.
Ended(e, s) ==
    /\ run' = [run EXCEPT ![e][s] = "none"]
    /\ inFlight' = inFlight \ {<<e, s>>}

StartHandler(e, s) ==
    /\ run[e][s] = "spawned"
    /\ run' = [run EXCEPT ![e][s] = "running"]
    /\ UNCHANGED <<subscriptions, closed, inFlight, pub, life>>

\* It returns, or panics with nothing to fall back on.
HandlerEnds(e, s) ==
    /\ run[e][s] \in {"running", "overdue", "stray", "fallback"}
    /\ Ended(e, s)
    /\ UNCHANGED <<subscriptions, closed, pub, life>>

\* A panic under a timeout ends in runGuarded and has no fallback.
FallBackOnPanic(e, s) ==
    /\ run[e][s] = "running"
    /\ s \in WithFallback \ Timed
    /\ run' = [run EXCEPT ![e][s] = "fallback"]
    /\ UNCHANGED <<subscriptions, closed, inFlight, pub, life>>

\* Slip: WaitAfterTimeout is left out, and nobody waits after a timeout.
TimesOutUnwaited(e, s) ==
    /\ run[e][s] = "running"
    /\ s \in Timed
    /\ run' = [run EXCEPT ![e][s] = "stray"]
    /\ inFlight' = inFlight \ {<<e, s>>}
    /\ UNCHANGED <<subscriptions, closed, pub, life>>

\* WaitAfterTimeout is set for PublishSync alone.
TimesOut(e, s) ==
    /\ run[e][s] = "running"
    /\ s \in Timed
    /\ run' = [run EXCEPT ![e][s] = IF IsSync(e) THEN "overdue" ELSE "stray"]
    /\ inFlight' = IF IsSync(e) THEN inFlight ELSE inFlight \ {<<e, s>>}
    /\ UNCHANGED <<subscriptions, closed, pub, life>>

HandlerStep(e, s) ==
    StartHandler(e, s) \/ HandlerEnds(e, s) \/ FallBackOnPanic(e, s) \/ TimesOut(e, s)

-----------------------------------------------------------------------------
(* Forget as the life cycle sees it, and Shutdown once the commands are    *)
(* over (module ShardPool).  A call whose context ends returns its error,  *)
(* and Shutdown may be called again.                                       *)

\* Under lifeMu: refused once Shutdown has begun, else Shutdown will wait for it.
BeginForget(p) ==
    /\ shutdown = "open"
    /\ p \notin forgets
    /\ forgets' = forgets \cup {p}
    /\ UNCHANGED <<subscriptions, closed, handlers, pub, shutdown, stopping, cancelled, timeouts>>

EndForget(p) ==
    /\ p \in forgets
    /\ forgets' = forgets \ {p}
    /\ UNCHANGED <<subscriptions, closed, handlers, pub, shutdown, stopping, cancelled, timeouts>>

BeginShutdown ==
    /\ shutdown \in {"open", "failed"}
    /\ shutdown' = "forgets"
    /\ UNCHANGED <<subscriptions, closed, handlers, pub, forgets, stopping, cancelled, timeouts>>

CloseDispatcher ==
    /\ shutdown = "forgets"
    /\ forgets = {}
    /\ shutdown' = "dispatcher"
    /\ stopping' = TRUE
    /\ UNCHANGED <<subscriptions, closed, handlers, pub, forgets, cancelled, timeouts>>

\* The workers have ended; the bus is closed and its handlers waited for.
CloseBus ==
    /\ shutdown = "dispatcher"
    /\ \A p \in Aggs : pub[p].st = "exited"
    /\ closed' = TRUE
    /\ shutdown' = "bus"
    /\ UNCHANGED <<subscriptions, handlers, pub, forgets, stopping, cancelled, timeouts>>

ShutdownReturns ==
    /\ shutdown = "bus"
    /\ inFlight = {}
    /\ shutdown' = "down"
    /\ UNCHANGED <<subscriptions, closed, handlers, pub, forgets, stopping, cancelled, timeouts>>

\* A dispatcher that cannot close in time cancels the contexts of its jobs.
ShutdownGivesUp ==
    /\ shutdown \in {"forgets", "dispatcher", "bus"}
    /\ timeouts < MaxTimeouts
    /\ timeouts' = timeouts + 1
    /\ cancelled' = (cancelled \/ shutdown = "dispatcher")
    /\ shutdown' = "failed"
    /\ UNCHANGED <<subscriptions, closed, handlers, pub, forgets, stopping>>

LifeStep ==
    \/ \E p \in Aggs : BeginForget(p) \/ EndForget(p)
    \/ BeginShutdown \/ CloseDispatcher \/ CloseBus \/ ShutdownReturns \/ ShutdownGivesUp

-----------------------------------------------------------------------------
BusInit ==
    /\ \E made \in Applications :
        subscribe = [s \in Subs |-> IF s \in made THEN "new" ELSE "unused"]
    /\ idx = {}
    /\ closed = FALSE
    /\ inFlight = {}
    /\ pub = [p \in Publishers |-> [st |-> "idle", n |-> 0, targets |-> {}, shown |-> {}]]
    /\ run = [e \in Events |-> [s \in Subs |-> "none"]]
    /\ forgets = {}
    /\ shutdown = "open"
    /\ stopping = FALSE
    /\ cancelled = FALSE
    /\ timeouts = 0

BusNext ==
    \/ \E s \in Subs : CheckOpen(s) \/ AddSubscription(s) \/ Unsubscribe(s)
    \/ \E p \in Publishers : PublisherStep(p)
    \/ \E e \in Events, s \in Subs : HandlerStep(e, s)
    \/ LifeStep

BusSpec == BusInit /\ [][BusNext]_busVars

-----------------------------------------------------------------------------
(***************************************************************************)
(* The next event of an aggregate never starts while a subscriber still    *)
(* handles the previous one, also when that one has timed out: a handler   *)
(* of an aggregate's event is running only while its worker waits in       *)
(* PublishSync for that very event (exec.go:27-31).                        *)
(***************************************************************************)
OneAtATime ==
    \A p \in Aggs, n \in 1..MaxEvents, s \in Subs :
        run[<<p, n>>][s] # "none" => pub[p].st = "wait" /\ pub[p].n = n

(***************************************************************************)
(* Once Shutdown has returned nil no Forget is in flight, no live handler  *)
(* runs and none will start, whatever was published, subscribed or given   *)
(* up meanwhile: the workers end before the bus closes, and Publish counts *)
(* its handlers before Close looks at the count (channel_bus.go:166-178).  *)
(* The one exception is a timed-out handler of Publish, which nobody waits *)
(* for.                                                                    *)
(***************************************************************************)
ShutdownIsQuiet ==
    shutdown = "down" =>
        /\ closed
        /\ forgets = {}
        /\ \A p \in Aggs : pub[p].st = "exited"
        /\ \A e \in Events, s \in Subs : run[e][s] \in {"none", "stray"}

=============================================================================
