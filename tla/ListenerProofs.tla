--------------------------- MODULE ListenerProofs ---------------------------
(***************************************************************************)
(* Theorems about the live bus and its listeners, for any number of        *)
(* aggregates, subscriptions and events.                                   *)
(*                                                                         *)
(* The bus is proved alone (BusSpec); that a bus with listeners is such a  *)
(* bus (ListenersUseTheBus) carries its properties over.  Then the channel *)
(* of a listener: what is sent on it is safe to send, and is the stream.   *)
(***************************************************************************)
EXTENDS Listener, TLAPS

RunStates == {"none", "spawned", "running", "overdue", "stray", "fallback"}

PublisherStates ==
    [st : {"idle", "matched", "wait", "exited"}, n : 0..MaxEvents, targets : SUBSET Subs,
     shown : SUBSET (1..MaxEvents)]

BusTypeOK ==
    /\ subscribe \in [Subs -> {"new", "unused", "checked", "done"}]
    /\ idx \subseteq Subs
    /\ closed \in BOOLEAN
    /\ inFlight \subseteq Events \X Subs
    /\ pub \in [Publishers -> PublisherStates]
    /\ run \in [Events -> [Subs -> RunStates]]
    /\ forgets \subseteq Aggs
    /\ shutdown \in {"open", "forgets", "dispatcher", "bus", "down", "failed"}
    /\ stopping \in BOOLEAN

\* A publisher about to spawn handlers has an event.
EventInHand == \A p \in Publishers : pub[p].st \in {"matched", "wait"} => pub[p].n >= 1

\* PublishSync waits for every handler.
SyncNeverStray ==
    \A p \in Aggs, n \in 1..MaxEvents, s \in Subs : run[<<p, n>>][s] # "stray"

\* inFlightWg counts every handler of Publish that has not ended or timed out.
Counted ==
    \A e \in Events, s \in Subs :
        ~IsSync(e) /\ run[e][s] \notin {"none", "stray"} => <<e, s>> \in inFlight

\* The order of Shutdown.
Order ==
    /\ stopping => shutdown # "open" /\ forgets = {}
    /\ shutdown \in {"dispatcher", "bus", "down"} => stopping
    /\ shutdown \in {"bus", "down"} => closed
    /\ closed => stopping /\ \A p \in Aggs : pub[p].st = "exited"
    /\ shutdown = "down" => inFlight = {}

BusInv == BusTypeOK /\ EventInHand /\ OneAtATime /\ SyncNeverStray /\ Counted /\ Order

-----------------------------------------------------------------------------
\* An event is the publisher that publishes it and its place in that stream.
LEMMA EventsAre ==
  /\ \A p \in Publishers, n \in 1..MaxEvents : <<p, n>> \in Events
  /\ \A e \in Events : e = <<e[1], e[2]>> /\ e[1] \in Publishers /\ e[2] \in 1..MaxEvents
  /\ \A p \in Aggs : p \in Publishers
  BY DEF Events, Publishers

\* The invariant of the bus holds of a bus nobody has used yet.
LEMMA BusInitInv == BusInit => BusInv
  <1> SUFFICES ASSUME BusInit PROVE BusInv
    OBVIOUS
  <1>1. BusTypeOK
    <2>1. subscribe \in [Subs -> {"new", "unused", "checked", "done"}]
      BY DEF BusInit
    <2>2. pub \in [Publishers -> PublisherStates]
      BY LiveBusConstants DEF BusInit, PublisherStates
    <2>3. run \in [Events -> [Subs -> RunStates]]
      BY DEF BusInit, RunStates
    <2> QED
      BY <2>1, <2>2, <2>3 DEF BusInit, BusTypeOK
  <1>2. \A e \in Events, s \in Subs : run[e][s] = "none"
    BY DEF BusInit
  <1>3. OneAtATime /\ SyncNeverStray /\ Counted
    BY <1>2, EventsAre DEF OneAtATime, SyncNeverStray, Counted
  <1>4. EventInHand /\ Order
    BY DEF BusInit, EventInHand, Order
  <1> QED
    BY <1>1, <1>3, <1>4 DEF BusInv

\* Subscriptions and handlers do not meet.
LEMMA SubscriptionSteps ==
  ASSUME BusInv, NEW s \in Subs, CheckOpen(s) \/ AddSubscription(s) \/ Unsubscribe(s)
  PROVE  BusInv'
  <1>1. UNCHANGED <<closed, handlers, pub, life>>
    BY DEF CheckOpen, AddSubscription, Unsubscribe
  <1>2. BusTypeOK'
    BY <1>1 DEF BusInv, BusTypeOK, CheckOpen, AddSubscription, Unsubscribe, IndexWith,
                IndexWithout, handlers, life
  <1>3. (EventInHand /\ OneAtATime /\ SyncNeverStray /\ Counted /\ Order)'
    BY <1>1 DEF BusInv, EventInHand, OneAtATime, SyncNeverStray, Counted, Order, handlers, life
  <1> QED
    BY <1>2, <1>3 DEF BusInv

\* An idle publisher has no handlers, so it may go on to its next event.
LEMMA NextEventStep ==
  ASSUME BusInv, NEW p \in Publishers, LoadIndex(p) \/ PassOver(p)
  PROVE  BusInv'
  <1>1. /\ UNCHANGED <<subscriptions, closed, handlers, life>>
        /\ pub[p].st = "idle" /\ pub[p] \in PublisherStates
        /\ pub[p].n \in 0..MaxEvents /\ pub[p].n + 1 \in 1..MaxEvents
    BY LiveBusConstants
       DEF LoadIndex, PassOver, MorePending, BusInv, BusTypeOK, PublisherStates
  <1>2. /\ pub' \in [Publishers -> PublisherStates]
        /\ pub'[p].st \in {"idle", "matched"} /\ pub'[p].n >= 1
        /\ \A q \in Publishers : q # p => pub'[q] = pub[q]
    <2>1. CASE LoadIndex(p)
      <3>1. Matches(p) \subseteq Subs
        BY DEF Matches, BusInv, BusTypeOK
      <3> QED
        BY <1>1, <2>1, <3>1 DEF LoadIndex, BusInv, BusTypeOK, PublisherStates
    <2>2. CASE PassOver(p)
      BY <1>1, <2>2 DEF PassOver, BusInv, BusTypeOK, PublisherStates
    <2> QED
      BY <2>1, <2>2
  <1>3. BusTypeOK'
    BY <1>1, <1>2 DEF BusInv, BusTypeOK, subscriptions, handlers, life
  <1>4. EventInHand'
    BY <1>2 DEF BusInv, EventInHand
  <1>5. OneAtATime'
    BY <1>1, <1>2, EventsAre DEF BusInv, OneAtATime, handlers
  <1>6. SyncNeverStray' /\ Counted'
    BY <1>1 DEF BusInv, SyncNeverStray, Counted, handlers
  <1>7. Order'
    BY <1>1, <1>2, EventsAre DEF BusInv, Order, handlers, life
  <1> QED
    BY <1>3, <1>4, <1>5, <1>6, <1>7 DEF BusInv

\* The handlers are spawned for the event in hand, and counted if nobody waits.
LEMMA AdmitStep ==
  ASSUME BusInv, NEW p \in Publishers, Admit(p)
  PROVE  BusInv'
  <1>0. UNCHANGED <<subscriptions, closed, life>> /\ pub[p].st = "matched"
    BY DEF Admit
  <1>1. pub[p] \in PublisherStates
    BY DEF BusInv, BusTypeOK
  <1>2. CASE Refused(p)
    <2>1. /\ UNCHANGED handlers /\ closed
          /\ pub' \in [Publishers -> PublisherStates]
          /\ pub'[p].st = "idle"
          /\ \A q \in Publishers : q # p => pub'[q] = pub[q]
      BY <1>1, <1>2 DEF Refused, BusInv, BusTypeOK, PublisherStates
    <2>2. p \notin Aggs
      BY <1>0, <2>1 DEF BusInv, Order
    <2>3. BusTypeOK' /\ EventInHand'
      BY <1>0, <2>1 DEF BusInv, BusTypeOK, EventInHand, subscriptions, handlers, life
    <2>4. OneAtATime' /\ SyncNeverStray' /\ Counted'
      BY <2>1, <2>2, EventsAre DEF BusInv, OneAtATime, SyncNeverStray, Counted, handlers
    <2>5. Order'
      BY <1>0, <2>1, <2>2, EventsAre DEF BusInv, Order, handlers, life
    <2> QED
      BY <2>3, <2>4, <2>5 DEF BusInv
  <1>3. CASE ~Refused(p)
    <2>1. /\ ~closed
          /\ run' = Spawned(p)
          /\ inFlight' = IF p \in Aggs THEN inFlight
                         ELSE inFlight \cup ({Current(p)} \X pub[p].targets)
          /\ pub' = [pub EXCEPT ![p].st = IF p \in Aggs THEN "wait" ELSE "idle",
                                ![p].targets = {}]
      BY <1>3 DEF Admit
    <2>2. Current(p) \in Events /\ Current(p) = <<p, pub[p].n>> /\ pub[p].n \in 1..MaxEvents
      BY <1>0, <1>1, EventsAre DEF Current, BusInv, EventInHand, PublisherStates
    <2>3. /\ run' \in [Events -> [Subs -> RunStates]]
          /\ \A e \in Events, s \in Subs :
                run'[e][s] = IF e = Current(p) /\ s \in pub[p].targets THEN "spawned"
                             ELSE run[e][s]
      <3>1. run[Current(p)] \in [Subs -> RunStates]
        BY <2>2 DEF BusInv, BusTypeOK
      <3> QED
        BY <2>1, <2>2, <3>1 DEF Spawned, RunStates, BusInv, BusTypeOK
    <2>4. /\ pub' \in [Publishers -> PublisherStates]
          /\ pub'[p].st = IF p \in Aggs THEN "wait" ELSE "idle"
          /\ pub'[p].n = pub[p].n
          /\ \A q \in Publishers : q # p => pub'[q] = pub[q]
      BY <1>1, <2>1 DEF BusInv, BusTypeOK, PublisherStates
    <2>5. inFlight' \subseteq Events \X Subs
      BY <1>1, <2>1, <2>2 DEF BusInv, BusTypeOK, PublisherStates
    <2>6. BusTypeOK' /\ EventInHand'
      BY <1>0, <2>2, <2>3, <2>4, <2>5 DEF BusInv, BusTypeOK, EventInHand, subscriptions, life
    <2>7. OneAtATime' /\ SyncNeverStray'
      <3> SUFFICES ASSUME NEW q \in Aggs, NEW n \in 1..MaxEvents, NEW s \in Subs
                   PROVE  /\ run'[<<q, n>>][s] # "none" => pub'[q].st = "wait" /\ pub'[q].n = n
                          /\ run'[<<q, n>>][s] # "stray"
        BY DEF OneAtATime, SyncNeverStray
      <3>1. <<q, n>> \in Events /\ q \in Publishers
        BY EventsAre
      <3>2. CASE <<q, n>> = Current(p) /\ s \in pub[p].targets
        <4>1. q = p /\ n = pub[p].n /\ run'[<<q, n>>][s] = "spawned"
          BY <2>2, <2>3, <3>1, <3>2
        <4> QED
          BY <2>4, <4>1
      <3>3. CASE ~(<<q, n>> = Current(p) /\ s \in pub[p].targets)
        <4>1. run'[<<q, n>>][s] = run[<<q, n>>][s]
          BY <2>3, <3>1, <3>3
        <4> QED
          BY <1>0, <2>4, <3>1, <4>1 DEF BusInv, OneAtATime, SyncNeverStray
      <3> QED
        BY <3>2, <3>3
    <2>8. Counted'
      <3> SUFFICES ASSUME NEW e \in Events, NEW s \in Subs, ~IsSync(e),
                          run'[e][s] \notin {"none", "stray"}
                   PROVE  <<e, s>> \in inFlight'
        BY DEF Counted, IsSync
      <3>1. CASE e = Current(p) /\ s \in pub[p].targets
        <4>1. p \notin Aggs
          BY <2>2, <3>1 DEF IsSync
        <4> QED
          BY <2>1, <3>1, <4>1
      <3>2. CASE ~(e = Current(p) /\ s \in pub[p].targets)
        <4>1. <<e, s>> \in inFlight
          BY <2>3, <3>2 DEF BusInv, Counted
        <4> QED
          BY <2>1, <4>1
      <3> QED
        BY <3>1, <3>2
    <2>9. Order'
      BY <1>0, <2>1 DEF BusInv, Order, life
    <2> QED
      BY <2>6, <2>7, <2>8, <2>9 DEF BusInv
  <1> QED
    BY <1>2, <1>3

\* A worker goes on, or ends, when its event has no handler left.
LEMMA WorkerSteps ==
  ASSUME BusInv, NEW p \in Publishers, PublishReturns(p) \/ WorkerExits(p)
  PROVE  BusInv'
  <1>0. UNCHANGED <<subscriptions, closed, handlers, life>>
    BY DEF PublishReturns, WorkerExits
  <1>1. pub[p] \in PublisherStates
    BY DEF BusInv, BusTypeOK
  <1>2. /\ pub' \in [Publishers -> PublisherStates]
        /\ pub'[p].st \in {"idle", "exited"}
        /\ \A q \in Publishers : q # p => pub'[q] = pub[q]
    <2>1. PICK st \in {"idle", "exited"} : pub' = [pub EXCEPT ![p].st = st]
      BY DEF PublishReturns, WorkerExits
    <2>2. pub \in [Publishers -> PublisherStates]
      BY DEF BusInv, BusTypeOK
    <2>3. [pub[p] EXCEPT !.st = st] \in PublisherStates
      BY <1>1 DEF PublisherStates
    <2> QED
      BY <1>1, <2>1, <2>2, <2>3 DEF PublisherStates
  <1>3. BusTypeOK' /\ EventInHand'
    BY <1>0, <1>2 DEF BusInv, BusTypeOK, EventInHand, subscriptions, handlers, life
  <1>4. p \in Aggs => \A n \in 1..MaxEvents, s \in Subs : run[<<p, n>>][s] = "none"
    <2>1. CASE PublishReturns(p)
      BY <2>1 DEF PublishReturns, Current, BusInv, OneAtATime, SyncNeverStray
    <2>2. CASE WorkerExits(p)
      BY <2>2 DEF WorkerExits, BusInv, OneAtATime
    <2> QED
      BY <2>1, <2>2
  <1>5. OneAtATime'
    BY <1>0, <1>2, <1>4, EventsAre DEF BusInv, OneAtATime, handlers
  <1>6. SyncNeverStray' /\ Counted'
    BY <1>0 DEF BusInv, SyncNeverStray, Counted, handlers
  <1>7. Order'
    <2>1. closed /\ p \in Aggs => pub'[p].st = "exited"
      BY DEF PublishReturns, WorkerExits, BusInv, Order
    <2> QED
      BY <1>0, <1>2, <2>1, EventsAre DEF BusInv, Order, handlers, life
  <1> QED
    BY <1>3, <1>5, <1>6, <1>7 DEF BusInv

\* A handler moves on, and is counted until it ends or times out.
LEMMA HandlerSteps ==
  ASSUME BusInv, NEW e \in Events, NEW s \in Subs, HandlerStep(e, s)
  PROVE  BusInv'
  <1>0. UNCHANGED <<subscriptions, closed, pub, life>> /\ run[e][s] # "none"
    BY DEF HandlerStep, StartHandler, HandlerEnds, FallBackOnPanic, TimesOut
  <1>1. PICK new \in RunStates :
            /\ run' = [run EXCEPT ![e][s] = new]
            /\ new = "stray" => ~IsSync(e)
            /\ run[e][s] = "stray" => new = "none"
            /\ \/ inFlight' = inFlight
               \/ inFlight' = inFlight \ {<<e, s>>} /\ new \in {"none", "stray"}
    BY DEF HandlerStep, StartHandler, HandlerEnds, FallBackOnPanic, TimesOut, Ended, RunStates
  <1>2. /\ run' \in [Events -> [Subs -> RunStates]]
        /\ \A f \in Events, u \in Subs :
              run'[f][u] = IF f = e /\ u = s THEN new ELSE run[f][u]
    BY <1>1 DEF BusInv, BusTypeOK
  <1>3. BusTypeOK' /\ EventInHand'
    BY <1>0, <1>1, <1>2 DEF BusInv, BusTypeOK, EventInHand, subscriptions, life
  <1>4. OneAtATime' /\ SyncNeverStray'
    <2> SUFFICES ASSUME NEW p \in Aggs, NEW n \in 1..MaxEvents, NEW u \in Subs
                 PROVE  /\ run'[<<p, n>>][u] # "none" => pub'[p].st = "wait" /\ pub'[p].n = n
                        /\ run'[<<p, n>>][u] # "stray"
      BY DEF OneAtATime, SyncNeverStray
    <2>1. <<p, n>> \in Events
      BY EventsAre
    <2>2. CASE <<p, n>> = e /\ u = s
      <3>1. run'[<<p, n>>][u] = new /\ run[<<p, n>>][u] # "none" /\ IsSync(e)
        BY <1>0, <1>2, <2>1, <2>2 DEF IsSync
      <3> QED
        BY <1>0, <1>1, <3>1 DEF BusInv, OneAtATime
    <2>3. CASE ~(<<p, n>> = e /\ u = s)
      <3>1. run'[<<p, n>>][u] = run[<<p, n>>][u]
        BY <1>2, <2>1, <2>3
      <3> QED
        BY <1>0, <3>1 DEF BusInv, OneAtATime, SyncNeverStray
    <2> QED
      BY <2>2, <2>3
  <1>5. Counted'
    <2> SUFFICES ASSUME NEW f \in Events, NEW u \in Subs, ~IsSync(f),
                        run'[f][u] \notin {"none", "stray"}
                 PROVE  <<f, u>> \in inFlight'
      BY DEF Counted, IsSync
    <2>1. run[f][u] \notin {"none", "stray"}
      BY <1>0, <1>1, <1>2
    <2>2. <<f, u>> \in inFlight
      BY <2>1 DEF BusInv, Counted
    <2> QED
      BY <1>1, <1>2, <2>2
  <1>6. Order'
    BY <1>0, <1>1 DEF BusInv, Order, life
  <1> QED
    BY <1>3, <1>4, <1>5, <1>6 DEF BusInv

\* Shutdown goes on when what it waits for has ended.
LEMMA LifeSteps ==
  ASSUME BusInv, LifeStep
  PROVE  BusInv'
  <1>0. UNCHANGED <<subscriptions, handlers, pub>>
    BY DEF LifeStep, BeginForget, EndForget, BeginShutdown, CloseDispatcher, CloseBus,
           ShutdownReturns, ShutdownGivesUp
  <1>1. (EventInHand /\ OneAtATime /\ SyncNeverStray /\ Counted)'
    BY <1>0 DEF BusInv, EventInHand, OneAtATime, SyncNeverStray, Counted, handlers
  <1>2. CASE \E p \in Aggs : BeginForget(p) \/ EndForget(p)
    <2>1. /\ forgets' \subseteq Aggs
          /\ stopping => forgets' = {}
          /\ UNCHANGED <<closed, shutdown, stopping>>
      BY <1>2 DEF BeginForget, EndForget, BusInv, BusTypeOK, Order
    <2> QED
      BY <1>0, <1>1, <2>1 DEF BusInv, BusTypeOK, Order, subscriptions, handlers
  <1>3. CASE BeginShutdown
    BY <1>0, <1>1, <1>3 DEF BeginShutdown, BusInv, BusTypeOK, Order, subscriptions, handlers
  <1>4. CASE CloseDispatcher
    BY <1>0, <1>1, <1>4 DEF CloseDispatcher, BusInv, BusTypeOK, Order, subscriptions, handlers
  <1>5. CASE CloseBus
    BY <1>0, <1>1, <1>5 DEF CloseBus, BusInv, BusTypeOK, Order, subscriptions, handlers
  <1>6. CASE ShutdownReturns
    BY <1>0, <1>1, <1>6 DEF ShutdownReturns, BusInv, BusTypeOK, Order, subscriptions, handlers
  <1>7. CASE ShutdownGivesUp
    BY <1>0, <1>1, <1>7 DEF ShutdownGivesUp, BusInv, BusTypeOK, Order, subscriptions, handlers
  <1> QED
    BY <1>2, <1>3, <1>4, <1>5, <1>6, <1>7 DEF LifeStep

\* Every step of the bus keeps its invariant.
LEMMA BusInvInductive == BusInv /\ [BusNext]_busVars => BusInv'
  <1> SUFFICES ASSUME BusInv, [BusNext]_busVars PROVE BusInv'
    OBVIOUS
  <1>1. CASE \E s \in Subs : CheckOpen(s) \/ AddSubscription(s) \/ Unsubscribe(s)
    BY <1>1, SubscriptionSteps
  <1>2. CASE \E p \in Publishers : PublisherStep(p)
    BY <1>2, NextEventStep, AdmitStep, WorkerSteps DEF PublisherStep
  <1>3. CASE \E e \in Events, s \in Subs : HandlerStep(e, s)
    BY <1>3, HandlerSteps
  <1>4. CASE LifeStep
    BY <1>4, LifeSteps
  <1>5. CASE UNCHANGED busVars
    BY <1>5 DEF busVars, subscriptions, handlers, life, BusInv, BusTypeOK, EventInHand,
                OneAtATime, SyncNeverStray, Counted, Order
  <1> QED
    BY <1>1, <1>2, <1>3, <1>4, <1>5 DEF BusNext

\* What the invariant of the bus says to the code that publishes and shuts down.
LEMMA BusInvMeans == BusInv => OneAtATime /\ ShutdownIsQuiet
  <1> SUFFICES ASSUME BusInv PROVE OneAtATime /\ ShutdownIsQuiet
    OBVIOUS
  <1>1. OneAtATime
    BY DEF BusInv
  <1>2. ASSUME shutdown = "down", NEW e \in Events, NEW s \in Subs
        PROVE  run[e][s] \in {"none", "stray"}
    <2>1. closed /\ inFlight = {} /\ \A p \in Aggs : pub[p].st = "exited"
      BY <1>2 DEF BusInv, Order
    <2>2. CASE IsSync(e)
      <3>1. PICK n \in 1..MaxEvents : e = <<e[1], n>>
        BY EventsAre
      <3> QED
        BY <1>1, <2>1, <2>2, <3>1 DEF IsSync, OneAtATime
    <2>3. CASE ~IsSync(e)
      BY <2>1, <2>3 DEF BusInv, Counted
    <2> QED
      BY <2>2, <2>3
  <1>3. ShutdownIsQuiet
    BY <1>2 DEF ShutdownIsQuiet, BusInv, Order
  <1> QED
    BY <1>1, <1>3

(***************************************************************************)
(* A handler of an aggregate's event runs only while the aggregate's       *)
(* worker waits for that event in PublishSync, timed out or not            *)
(* (exec.go:27-31).                                                        *)
(***************************************************************************)
THEOREM BusOneAtATime == BusSpec => []OneAtATime
  <1>1. BusInv => OneAtATime
    BY BusInvMeans
  <1> QED
    BY <1>1, BusInitInv, BusInvInductive, PTL DEF BusSpec

(***************************************************************************)
(* After a Shutdown that returned nil nothing runs on the live bus but a   *)
(* timed-out handler of Publish, and no Forget is in flight                *)
(* (channel_bus.go:166-178, processor.go:487-509).                         *)
(***************************************************************************)
THEOREM BusShutdownIsQuiet == BusSpec => []ShutdownIsQuiet
  <1>1. BusInv => ShutdownIsQuiet
    BY BusInvMeans
  <1> QED
    BY <1>1, BusInitInv, BusInvInductive, PTL DEF BusSpec

-----------------------------------------------------------------------------
(* The bus with its listeners.                                             *)

\* What handle does is to the bus the start or the end of a handler, or nothing.
LEMMA HandleStepOnBus ==
  ASSUME NEW e \in Events, NEW l \in Listeners, HandleStep(e, l)
  PROVE  StartHandler(e, l) \/ HandlerEnds(e, l) \/ UNCHANGED busVars
  BY DEF HandleStep, StartHandle, Handle, SendUnbounded, LockSend, SendBounded, UnlockSend,
         HandleReturns

\* A listener and its consumer touch the bus only to unsubscribe.
LEMMA ListenerStepOnBus ==
  ASSUME NEW l \in Listeners, ListenerStep(l) \/ Receive(l) \/ Leave(l)
  PROVE  Unsubscribe(l) \/ UNCHANGED busVars
  BY DEF ListenerStep, PublishSubscription, LeaveBus, CloseCh, UnsubscribeWhenPublished,
         Receive, Leave

\* Every step of the bus with its listeners is a step of the bus.
LEMMA NextIsBusNext == [Next]_vars => [BusNext]_busVars
  <1> SUFFICES ASSUME [Next]_vars PROVE [BusNext]_busVars
    OBVIOUS
  <1>0. Listeners \subseteq Subs
    BY ListenerConstants
  <1>1. CASE BusStep
    BY <1>1 DEF BusStep, BusNext, Plain
  <1>2. CASE \E e \in Events, l \in Listeners : HandleStep(e, l)
    BY <1>0, <1>2, HandleStepOnBus DEF BusNext, HandlerStep
  <1>3. CASE \E l \in Listeners : ListenerStep(l) \/ Receive(l) \/ Leave(l)
    BY <1>0, <1>3, ListenerStepOnBus DEF BusNext
  <1>4. CASE UNCHANGED vars
    BY <1>4 DEF vars
  <1> QED
    BY <1>1, <1>2, <1>3, <1>4 DEF Next

(***************************************************************************)
(* Listeners use the bus as any subscriber does: every behaviour of the    *)
(* bus with its listeners is one of the bus alone (asynx.go calls only     *)
(* Subscribe and Unsubscribe, and its handlers end or go on).              *)
(***************************************************************************)
THEOREM ListenersUseTheBus == Spec => BusSpec
  <1>1. Init => BusInit
    BY DEF Init
  <1> QED
    BY <1>1, NextIsBusNext, PTL DEF Spec, BusSpec

Places == {"out", "handle", "select", "lock", "send", "sent"}
Fields == [received : Nat, closed : BOOLEAN, done : BOOLEAN, ready : BOOLEAN, chClosed : BOOLEAN]

ListenerTypeOK ==
    /\ lis \in [Listeners -> Fields]
    /\ mu \in [Listeners -> Events \cup {Free}]
    /\ at \in [Events -> [Listeners -> Places]]
    /\ sent \in [Listeners -> Seq(Events)]
    /\ taken \in [Listeners -> Nat]
    /\ leave \in [Listeners -> {"no", "unsubscribe", "close", "left"}]

\* Which of the two senders a handler is in, and sendMu while it sends.
InHandle ==
    \A e \in Events, l \in Listeners :
        /\ at[e][l] = "select" => ~IsBounded(l)
        /\ at[e][l] \in {"lock", "send", "sent"} => IsBounded(l)
        /\ at[e][l] \in {"send", "sent"} => mu[l] = e
        /\ at[e][l] = "send" => ~lis[l].chClosed /\ Len(sent[l]) < Count[l]

\* A channel closes after its listener has; while sendMu is free an open listener
\* is short of its count.
Closing ==
    \A l \in Listeners :
        /\ lis[l].chClosed => lis[l].closed /\ IsBounded(l)
        /\ leave[l] \in {"unsubscribe", "close"} => lis[l].closed
        /\ leave[l] = "close" => IsBounded(l)
        /\ IsBounded(l) => Len(sent[l]) <= Count[l]
        /\ IsBounded(l) /\ mu[l] = Free /\ ~lis[l].closed => Len(sent[l]) < Count[l]

ListenerInv == ListenerTypeOK /\ InHandle /\ Closing

\* No event can be taken for a free sendMu.
LEMMA EventsAreNotFree == \A e \in Events : e # Free
  BY EventsAre DEF Free

\* The invariant of the listeners holds before anyone listens.
LEMMA ListenerInitInv == Init => ListenerInv
  <1> SUFFICES ASSUME Init PROVE ListenerInv
    OBVIOUS
  <1>0. Count \in [Listeners -> Nat]
    BY ListenerConstants
  <1>1. ListenerTypeOK
    BY DEF Init, ListenerTypeOK, Fields, Places
  <1>2. InHandle
    BY DEF Init, InHandle
  <1>3. Closing
    BY <1>0 DEF Init, Closing, IsBounded
  <1> QED
    BY <1>1, <1>2, <1>3 DEF ListenerInv

\* What a step of handle does to the places, whatever else it does.
LEMMA PlacesMove ==
  ASSUME ListenerInv, NEW e \in Events, NEW l \in Listeners, NEW pos \in Places,
         at' = [at EXCEPT ![e][l] = pos]
  PROVE  /\ at' \in [Events -> [Listeners -> Places]]
         /\ \A f \in Events, k \in Listeners :
               at'[f][k] = IF f = e /\ k = l THEN pos ELSE at[f][k]
  BY DEF ListenerInv, ListenerTypeOK

\* handle without a lock: only the place moves, and received.
LEMMA UnlockedSteps ==
  ASSUME ListenerInv, NEW e \in Events, NEW l \in Listeners,
         StartHandle(e, l) \/ Handle(e, l)
  PROVE  ListenerInv'
  <1>0. UNCHANGED <<mu, sent, taken, leave>>
    BY DEF StartHandle, Handle
  <1>1. PICK pos \in {"out", "handle", "select", "lock"} :
            /\ at' = [at EXCEPT ![e][l] = pos]
            /\ pos = "select" => ~IsBounded(l)
            /\ pos = "lock" => IsBounded(l)
    BY DEF StartHandle, Handle, HandleReturns, Goto
  <1>2. /\ at' \in [Events -> [Listeners -> Places]]
        /\ \A f \in Events, k \in Listeners :
              at'[f][k] = IF f = e /\ k = l THEN pos ELSE at[f][k]
    <2>1. pos \in Places
      BY DEF Places
    <2> QED
      BY <1>1, <2>1, PlacesMove
  <1>3. /\ lis' \in [Listeners -> Fields]
        /\ \A k \in Listeners : /\ lis'[k].closed = lis[k].closed
                                /\ lis'[k].chClosed = lis[k].chClosed
    <2>1. lis \in [Listeners -> Fields] /\ lis[l] \in Fields
      BY DEF ListenerInv, ListenerTypeOK
    <2>2. CASE lis' = lis
      BY <2>1, <2>2
    <2>3. CASE lis' = [lis EXCEPT ![l].received = @ + 1]
      BY <2>1, <2>3 DEF Fields
    <2> QED
      BY <2>2, <2>3 DEF StartHandle, Handle
  <1>4. ListenerTypeOK'
    BY <1>0, <1>2, <1>3 DEF ListenerInv, ListenerTypeOK
  <1>5. InHandle'
    BY <1>0, <1>1, <1>2, <1>3 DEF ListenerInv, InHandle, IsBounded
  <1>6. Closing'
    BY <1>0, <1>3 DEF ListenerInv, Closing, IsBounded
  <1> QED
    BY <1>4, <1>5, <1>6 DEF ListenerInv

\* A send on the channel of an unbounded listener.
LEMMA SendUnboundedStep ==
  ASSUME ListenerInv, NEW e \in Events, NEW l \in Listeners, SendUnbounded(e, l)
  PROVE  ListenerInv'
  <1>0. UNCHANGED <<lis, mu, taken, leave>> /\ ~IsBounded(l)
    BY DEF SendUnbounded, ListenerInv, InHandle
  <1>1. /\ at' \in [Events -> [Listeners -> Places]]
        /\ \A f \in Events, k \in Listeners :
              at'[f][k] = IF f = e /\ k = l THEN "out" ELSE at[f][k]
    <2>1. "out" \in Places /\ at' = [at EXCEPT ![e][l] = "out"]
      BY DEF SendUnbounded, HandleReturns, Goto, Places
    <2> QED
      BY <2>1, PlacesMove
  <1>2. /\ sent' \in [Listeners -> Seq(Events)]
        /\ \A k \in Listeners : k # l => sent'[k] = sent[k]
    <2>1. sent \in [Listeners -> Seq(Events)] /\ Append(sent[l], e) \in Seq(Events)
      BY DEF ListenerInv, ListenerTypeOK
    <2>2. sent' = sent \/ sent' = [sent EXCEPT ![l] = Append(sent[l], e)]
      BY DEF SendUnbounded
    <2> QED
      BY <2>1, <2>2
  <1>3. ListenerTypeOK'
    BY <1>0, <1>1, <1>2 DEF ListenerInv, ListenerTypeOK
  <1>4. InHandle'
    <2> SUFFICES ASSUME NEW f \in Events, NEW k \in Listeners,
                        at'[f][k] \in {"select", "lock", "send", "sent"}
                 PROVE  /\ at'[f][k] = "select" => ~IsBounded(k)
                        /\ at'[f][k] \in {"lock", "send", "sent"} => IsBounded(k)
                        /\ at'[f][k] \in {"send", "sent"} => mu'[k] = f
                        /\ at'[f][k] = "send" => ~lis'[k].chClosed /\ Len(sent'[k]) < Count[k]
      BY DEF InHandle, IsBounded
    <2>1. at'[f][k] = at[f][k]
      BY <1>1
    <2>2. at[f][k] = "send" => k # l
      BY <1>0 DEF ListenerInv, InHandle
    <2> QED
      BY <1>0, <1>2, <2>1, <2>2 DEF ListenerInv, InHandle
  <1>5. Closing'
    BY <1>0, <1>2 DEF ListenerInv, Closing, IsBounded
  <1> QED
    BY <1>3, <1>4, <1>5 DEF ListenerInv

\* Only a listener that is open, and so short of its count, is locked to send.
LEMMA LockSendStep ==
  ASSUME ListenerInv, NEW e \in Events, NEW l \in Listeners, LockSend(e, l)
  PROVE  ListenerInv'
  <1>0. UNCHANGED <<lis, sent, taken, leave>> /\ mu[l] = Free /\ IsBounded(l)
    BY DEF LockSend, ListenerInv, InHandle
  <1>1. PICK pos \in {"out", "send"} :
            /\ at' = [at EXCEPT ![e][l] = pos]
            /\ pos = "out" => mu' = mu
            /\ pos = "send" => mu' = [mu EXCEPT ![l] = e] /\ ~lis[l].closed
    BY DEF LockSend, HandleReturns, Goto
  <1>2. /\ at' \in [Events -> [Listeners -> Places]]
        /\ \A f \in Events, k \in Listeners :
              at'[f][k] = IF f = e /\ k = l THEN pos ELSE at[f][k]
    <2>1. pos \in Places
      BY DEF Places
    <2> QED
      BY <1>1, <2>1, PlacesMove
  <1>3. /\ mu' \in [Listeners -> Events \cup {Free}]
        /\ \A k \in Listeners : mu'[k] = IF k = l /\ pos = "send" THEN e ELSE mu[k]
    BY <1>1 DEF ListenerInv, ListenerTypeOK
  <1>4. ListenerTypeOK'
    BY <1>0, <1>2, <1>3 DEF ListenerInv, ListenerTypeOK
  <1>5. pos = "send" => ~lis[l].chClosed /\ Len(sent[l]) < Count[l]
    BY <1>0, <1>1 DEF ListenerInv, Closing
  <1>6. \A f \in Events : at[f][l] \notin {"send", "sent"}
    BY <1>0, EventsAreNotFree DEF ListenerInv, InHandle
  <1>7. InHandle'
    BY <1>0, <1>2, <1>3, <1>5, <1>6 DEF ListenerInv, InHandle, IsBounded
  <1>8. Closing'
    BY <1>0, <1>3, EventsAreNotFree DEF ListenerInv, Closing, IsBounded
  <1> QED
    BY <1>4, <1>7, <1>8 DEF ListenerInv

\* The holder of sendMu sends.
LEMMA SendBoundedStep ==
  ASSUME ListenerInv, NEW e \in Events, NEW l \in Listeners, SendBounded(e, l)
  PROVE  ListenerInv'
  <1>0. /\ UNCHANGED <<lis, mu, taken, leave>>
        /\ mu[l] = e /\ IsBounded(l) /\ Len(sent[l]) < Count[l]
    BY DEF SendBounded, ListenerInv, InHandle
  <1>1. /\ at' \in [Events -> [Listeners -> Places]]
        /\ \A f \in Events, k \in Listeners :
              at'[f][k] = IF f = e /\ k = l THEN "sent" ELSE at[f][k]
    <2>1. "sent" \in Places /\ at' = [at EXCEPT ![e][l] = "sent"]
      BY DEF SendBounded, Goto, Places
    <2> QED
      BY <2>1, PlacesMove
  <1>2. /\ sent' \in [Listeners -> Seq(Events)]
        /\ Len(sent'[l]) = Len(sent[l]) + 1
        /\ \A k \in Listeners : k # l => sent'[k] = sent[k]
    <2>1. /\ sent \in [Listeners -> Seq(Events)] /\ Append(sent[l], e) \in Seq(Events)
          /\ Len(Append(sent[l], e)) = Len(sent[l]) + 1
      BY DEF ListenerInv, ListenerTypeOK
    <2>2. sent' = [sent EXCEPT ![l] = Append(sent[l], e)]
      BY DEF SendBounded
    <2> QED
      BY <2>1, <2>2
  <1>3. ListenerTypeOK'
    BY <1>0, <1>1, <1>2 DEF ListenerInv, ListenerTypeOK
  <1>4. InHandle'
    <2> SUFFICES ASSUME NEW f \in Events, NEW k \in Listeners
                 PROVE  /\ at'[f][k] = "select" => ~IsBounded(k)
                        /\ at'[f][k] \in {"lock", "send", "sent"} => IsBounded(k)
                        /\ at'[f][k] \in {"send", "sent"} => mu'[k] = f
                        /\ at'[f][k] = "send" => ~lis'[k].chClosed /\ Len(sent'[k]) < Count[k]
      BY DEF InHandle, IsBounded
    <2>1. CASE k = l /\ f = e
      BY <1>0, <1>1, <2>1
    <2>2. CASE ~(k = l /\ f = e)
      <3>1. at'[f][k] = at[f][k]
        BY <1>1, <2>2
      <3>2. at[f][k] = "send" => k # l
        BY <1>0, <2>2 DEF ListenerInv, InHandle
      <3> QED
        BY <1>0, <1>2, <3>1, <3>2 DEF ListenerInv, InHandle
    <2> QED
      BY <2>1, <2>2
  <1>5. Closing'
    <2>1. mu[l] # Free /\ Len(sent'[l]) <= Count[l]
      <3>1. Len(sent[l]) \in Nat /\ Count[l] \in Nat
        BY ListenerConstants DEF ListenerInv, ListenerTypeOK
      <3> QED
        BY <1>0, <1>2, <3>1, EventsAreNotFree
    <2> QED
      BY <1>0, <1>2, <2>1 DEF ListenerInv, Closing, IsBounded
  <1> QED
    BY <1>3, <1>4, <1>5 DEF ListenerInv

\* The holder unlocks, and closes the channel with the last event.
LEMMA UnlockSendStep ==
  ASSUME ListenerInv, NEW e \in Events, NEW l \in Listeners, UnlockSend(e, l)
  PROVE  ListenerInv'
  <1>0. /\ UNCHANGED <<sent, taken, leave>>
        /\ mu[l] = e /\ IsBounded(l)
    BY DEF UnlockSend, ListenerInv, InHandle
  <1>1. /\ at' \in [Events -> [Listeners -> Places]]
        /\ \A f \in Events, k \in Listeners :
              at'[f][k] = IF f = e /\ k = l THEN "out" ELSE at[f][k]
    <2>1. "out" \in Places /\ at' = [at EXCEPT ![e][l] = "out"]
      BY DEF UnlockSend, HandleReturns, Goto, Places
    <2> QED
      BY <2>1, PlacesMove
  <1>2. /\ mu' \in [Listeners -> Events \cup {Free}]
        /\ \A k \in Listeners : k # l => mu'[k] = mu[k]
    BY DEF UnlockSend, ListenerInv, ListenerTypeOK
  <1>3. /\ lis' \in [Listeners -> Fields]
        /\ \A k \in Listeners : k # l => lis'[k] = lis[k]
        /\ lis'[l].chClosed => lis'[l].closed
        /\ lis'[l].closed \/ Len(sent[l]) # Count[l]
        /\ lis[l].closed => lis'[l].closed
    <2>1. lis \in [Listeners -> Fields] /\ lis[l] \in Fields
      BY DEF ListenerInv, ListenerTypeOK
    <2>2. CASE IsLast(l)
      <3>1. lis' = [lis EXCEPT ![l].closed = TRUE, ![l].chClosed = TRUE]
        BY <2>2 DEF UnlockSend
      <3> QED
        BY <2>1, <3>1 DEF Fields
    <2>3. CASE ~IsLast(l)
      <3>1. lis' = lis
        BY <2>3 DEF UnlockSend
      <3> QED
        BY <2>1, <2>3, <3>1 DEF IsLast, ListenerInv, Closing
    <2> QED
      BY <2>2, <2>3
  <1>4. ListenerTypeOK'
    BY <1>0, <1>1, <1>2, <1>3 DEF ListenerInv, ListenerTypeOK
  <1>5. \A f \in Events : at[f][l] \in {"send", "sent"} => f = e
    BY <1>0 DEF ListenerInv, InHandle
  <1>6. InHandle'
    <2> SUFFICES ASSUME NEW f \in Events, NEW k \in Listeners
                 PROVE  /\ at'[f][k] = "select" => ~IsBounded(k)
                        /\ at'[f][k] \in {"lock", "send", "sent"} => IsBounded(k)
                        /\ at'[f][k] \in {"send", "sent"} => mu'[k] = f
                        /\ at'[f][k] = "send" => ~lis'[k].chClosed /\ Len(sent'[k]) < Count[k]
      BY DEF InHandle, IsBounded
    <2>1. CASE k = l
      BY <1>0, <1>1, <1>5, <2>1 DEF ListenerInv, InHandle
    <2>2. CASE k # l
      BY <1>0, <1>1, <1>2, <1>3, <2>2 DEF ListenerInv, InHandle
    <2> QED
      BY <2>1, <2>2
  <1>7. Closing'
    <2>1. Len(sent[l]) \in Nat /\ Count[l] \in Nat
      BY ListenerConstants DEF ListenerInv, ListenerTypeOK
    <2> QED
      BY <1>0, <1>2, <1>3, <2>1 DEF ListenerInv, Closing, IsBounded
  <1> QED
    BY <1>4, <1>6, <1>7 DEF ListenerInv

\* The consumer and the goroutine that unsubscribes close only what nobody sends on.
LEMMA ConsumerSteps ==
  ASSUME ListenerInv, NEW l \in Listeners, ListenerStep(l) \/ Receive(l) \/ Leave(l)
  PROVE  ListenerInv'
  <1>0. UNCHANGED <<mu, at, sent>>
    BY DEF ListenerStep, PublishSubscription, LeaveBus, CloseCh, UnsubscribeWhenPublished,
           Receive, Leave
  <1>1. lis \in [Listeners -> Fields] /\ lis[l] \in Fields
    BY DEF ListenerInv, ListenerTypeOK
  <1>2. CASE PublishSubscription(l)
    <2>1. /\ lis' \in [Listeners -> Fields]
          /\ \A k \in Listeners : /\ lis'[k].closed = lis[k].closed
                                  /\ lis'[k].chClosed = lis[k].chClosed
      BY <1>1, <1>2 DEF PublishSubscription, Fields
    <2>2. UNCHANGED <<taken, leave>>
      BY <1>2 DEF PublishSubscription
    <2> QED
      BY <1>0, <2>1, <2>2 DEF ListenerInv, ListenerTypeOK, InHandle, Closing, IsBounded
  <1>3. CASE LeaveBus(l)
    <2>1. /\ UNCHANGED <<lis, taken>> /\ lis[l].closed
          /\ leave' = [leave EXCEPT ![l] = IF IsBounded(l) THEN "close" ELSE "left"]
      BY <1>3 DEF LeaveBus, ListenerInv, Closing
    <2> QED
      BY <1>0, <2>1 DEF ListenerInv, ListenerTypeOK, InHandle, Closing, IsBounded
  <1>4. CASE CloseCh(l)
    <2>1. /\ lis' \in [Listeners -> Fields]
          /\ \A k \in Listeners : k # l => lis'[k] = lis[k]
          /\ lis'[l].closed = lis[l].closed
      BY <1>1, <1>4 DEF CloseCh, Fields
    <2>2. UNCHANGED taken /\ mu[l] = Free /\ lis[l].closed /\ IsBounded(l)
      BY <1>4 DEF CloseCh, ListenerInv, Closing
    <2>3. leave' = [leave EXCEPT ![l] = "left"]
      BY <1>4 DEF CloseCh
    <2>4. \A f \in Events : at[f][l] \notin {"send", "sent"}
      BY <2>2, EventsAreNotFree DEF ListenerInv, InHandle
    <2>5. ListenerTypeOK'
      BY <1>0, <2>1, <2>2, <2>3 DEF ListenerInv, ListenerTypeOK
    <2>6. InHandle'
      BY <1>0, <2>1, <2>4 DEF ListenerInv, InHandle, IsBounded
    <2>7. Closing'
      BY <1>0, <2>1, <2>2, <2>3 DEF ListenerInv, ListenerTypeOK, Closing, IsBounded
    <2> QED
      BY <2>5, <2>6, <2>7 DEF ListenerInv
  <1>5. CASE UnsubscribeWhenPublished(l)
    BY <1>0, <1>5 DEF UnsubscribeWhenPublished, ListenerInv, ListenerTypeOK, InHandle, Closing,
                      IsBounded
  <1>6. CASE Receive(l)
    <2>1. UNCHANGED <<lis, leave>> /\ taken' \in [Listeners -> Nat]
      BY <1>6 DEF Receive, ListenerInv, ListenerTypeOK
    <2> QED
      BY <1>0, <2>1 DEF ListenerInv, ListenerTypeOK, InHandle, Closing, IsBounded
  <1>7. CASE Leave(l)
    <2>1. /\ lis' \in [Listeners -> Fields]
          /\ \A k \in Listeners : k # l => lis'[k] = lis[k]
          /\ lis'[l].closed
          /\ lis'[l].chClosed = lis[l].chClosed
      <3>1. \/ lis' = lis /\ lis[l].closed
            \/ lis' = [lis EXCEPT ![l].closed = TRUE, ![l].done = TRUE]
        BY <1>7 DEF Leave
      <3>2. CASE lis' = lis /\ lis[l].closed
        BY <1>1, <3>2
      <3>3. CASE lis' = [lis EXCEPT ![l].closed = TRUE, ![l].done = TRUE]
        BY <1>1, <3>3 DEF Fields
      <3> QED
        BY <3>1, <3>2, <3>3
    <2>2. /\ UNCHANGED taken
          /\ \/ leave' = [leave EXCEPT ![l] = "left"]
             \/ leave' = [leave EXCEPT ![l] = "unsubscribe"]
      BY <1>7 DEF Leave
    <2>3. ListenerTypeOK'
      BY <1>0, <2>1, <2>2 DEF ListenerInv, ListenerTypeOK
    <2>4. InHandle'
      BY <1>0, <2>1 DEF ListenerInv, InHandle, IsBounded
    <2>5. Closing'
      BY <1>0, <2>1, <2>2 DEF ListenerInv, ListenerTypeOK, Closing, IsBounded
    <2> QED
      BY <2>3, <2>4, <2>5 DEF ListenerInv
  <1> QED
    BY <1>2, <1>3, <1>4, <1>5, <1>6, <1>7 DEF ListenerStep

\* Every step keeps the invariant of the listeners.
LEMMA ListenerInvInductive == ListenerInv /\ [Next]_vars => ListenerInv'
  <1> SUFFICES ASSUME ListenerInv, [Next]_vars PROVE ListenerInv'
    OBVIOUS
  <1>1. CASE UNCHANGED listenerVars
    BY <1>1 DEF listenerVars, ListenerInv, ListenerTypeOK, InHandle, Closing, IsBounded
  <1>2. CASE \E e \in Events, l \in Listeners : HandleStep(e, l)
    BY <1>2, UnlockedSteps, SendUnboundedStep, LockSendStep, SendBoundedStep, UnlockSendStep
       DEF HandleStep
  <1>3. CASE \E l \in Listeners : ListenerStep(l) \/ Receive(l) \/ Leave(l)
    BY <1>3, ConsumerSteps
  <1> QED
    BY <1>1, <1>2, <1>3 DEF Next, vars

(***************************************************************************)
(* No handler ever sends on a closed channel or blocks in a send while it  *)
(* holds sendMu, for any count, any number of listeners and any mix of     *)
(* last event, unsubscription and late publication (asynx.go:303-367).     *)
(***************************************************************************)
THEOREM ListenerSendsAreSafe == Spec => []SendsAreSafe
  <1>1. ListenerInv => SendsAreSafe
    <2> SUFFICES ASSUME ListenerInv, NEW e \in Events, NEW l \in Listeners
                 PROVE  /\ at[e][l] = "send" => mu[l] = e /\ ~lis[l].chClosed /\ HasRoom(l)
                        /\ at[e][l] = "select" => ~lis[l].chClosed
      BY DEF SendsAreSafe
    <2>1. Len(sent[l]) \in Nat /\ taken[l] \in Nat /\ Count[l] \in Nat
      BY ListenerConstants DEF ListenerInv, ListenerTypeOK
    <2>2. ASSUME at[e][l] = "send" PROVE HasRoom(l)
      <3>1. Len(sent[l]) < Count[l] /\ Capacity(l) = Count[l]
        BY <2>2 DEF ListenerInv, InHandle, Capacity
      <3> QED
        BY <2>1, <3>1 DEF HasRoom
    <2>3. at[e][l] = "send" => mu[l] = e /\ ~lis[l].chClosed
      BY DEF ListenerInv, InHandle
    <2>4. at[e][l] = "select" => ~lis[l].chClosed
      BY DEF ListenerInv, InHandle, Closing
    <2> QED
      BY <2>2, <2>3, <2>4
  <1> QED
    BY <1>1, ListenerInitInv, ListenerInvInductive, PTL DEF Spec

-----------------------------------------------------------------------------
(* What a listener sees.                                                   *)

\* Event e is on the channel of l.
Sent(l, e) == \E i \in DOMAIN sent[l] : sent[l][i] = e

\* Event n of publisher p is the next one for the channel of l: what is there of p
\* is earlier, and nothing that p has shown since is missing.
Due(l, p, n) ==
    \A m \in 1..MaxEvents : Sent(l, <<p, m>>) =>
        /\ m < n
        /\ \A k \in 1..MaxEvents : k \in pub[p].shown /\ m < k /\ k < n => Sent(l, <<p, k>>)

\* No handler that starts now will send to l.
Over(l) == lis[l].closed \/ (IsBounded(l) /\ lis[l].received >= Count[l])

\* The handler of l for event e is going to send, unless l closes.
Coming(e, l) ==
    \/ at[e][l] \in {"select", "lock", "send"}
    \/ ~Over(l) /\ (run[e][l] = "spawned" \/ at[e][l] = "handle")

Publishing(p) == pub[p].st = "matched"

\* A caller of Publish publishes one event.
OnceEach == \A p \in Callers : pub[p].n <= 1

\* A listener is on the bus from its subscription until it has closed, and
\* nobody but the goroutine of a handler is in handle.
OnTheBus ==
    \A l \in Listeners :
        /\ l \in idx => subscribe[l] = "done"
        /\ subscribe[l] = "done" => l \in idx \/ lis[l].closed
        /\ lis[l].done \/ auto[l] = "waiting" => lis[l].closed
        /\ \A e \in Events : /\ run[e][l] \in {"none", "spawned", "running"}
                             /\ at[e][l] # "out" <=> run[e][l] = "running"

\* A handler of a listener is for the last event of its publisher.
ForTheLast ==
    /\ \A e \in Events, l \in Listeners : run[e][l] # "none" =>
            /\ e[2] = pub[e[1]].n /\ ~Publishing(e[1])
            /\ subscribe[l] = "done" /\ e[1] \in Pattern[l]
    /\ \A p \in Publishers, l \in Listeners : Publishing(p) /\ l \in pub[p].targets =>
            subscribe[l] = "done" /\ p \in Pattern[l]

\* What is on a channel has been published, and was subscribed to.
Published ==
    \A l \in Listeners, p \in Publishers, m \in 1..MaxEvents : Sent(l, <<p, m>>) =>
        /\ m <= pub[p].n /\ (Publishing(p) => m < pub[p].n)
        /\ subscribe[l] = "done" /\ p \in Pattern[l]

\* A publisher has shown none of its events to come.
ShownSoFar == \A p \in Publishers, k \in 1..MaxEvents : k \in pub[p].shown => k <= pub[p].n

\* What is going to be sent is the next event.
NextInTurn ==
    /\ \A e \in Events, l \in Listeners : Coming(e, l) => Due(l, e[1], e[2])
    /\ \A p \in Publishers, l \in Listeners :
            ~Over(l) /\ Publishing(p) /\ l \in pub[p].targets => Due(l, p, pub[p].n)

\* Event k of p is on the channel of l, or on its way to it.
Kept(l, p, k) ==
    \/ Sent(l, <<p, k>>)
    \/ Coming(<<p, k>>, l)
    \/ Publishing(p) /\ k = pub[p].n /\ l \in pub[p].targets

\* An open listener that has seen an event of p misses none that p shows later.
NoneMissed ==
    \A p \in Publishers, l \in Listeners, m, k \in 1..MaxEvents :
        ~Over(l) /\ Sent(l, <<p, m>>) /\ k \in pub[p].shown /\ m < k => Kept(l, p, k)

\* A channel that its consumer has not left is closed with the count.
ClosedFull == \A l \in Listeners : lis[l].chClosed /\ leave[l] = "no" => Len(sent[l]) = Count[l]

Turn ==
    /\ OnceEach /\ OnTheBus /\ ForTheLast /\ Published /\ ShownSoFar /\ NextInTurn
    /\ NoneMissed /\ ClosedFull /\ \A l \in Listeners : InOrder(sent[l])

\* Turn is inductive relative to what is proved of the bus and of a channel.
StreamInv == BusInv /\ ListenerInv /\ Turn

\* A step of handle moves the handler of l for e, and no other.
Moves(e, l, pos, new) ==
    \A f \in Events, k \in Listeners :
        /\ at'[f][k] = IF f = e /\ k = l THEN pos ELSE at[f][k]
        /\ run'[f][k] = IF f = e /\ k = l THEN new ELSE run[f][k]

\* A step that sends nothing moves no channel.
LEMMA SameSent ==
  ASSUME sent' = sent
  PROVE  /\ \A l, e : Sent(l, e)' <=> Sent(l, e)
         /\ \A l, p, n : pub'[p].shown = pub[p].shown => (Due(l, p, n)' <=> Due(l, p, n))
  BY DEF Sent, Due

\* A channel is in order after a step that leaves it and the publishers alone.
LEMMA SameOrder ==
  ASSUME NEW q, InOrder(q), NEW l, sent'[l] = q, pub' = pub
  PROVE  InOrder(sent[l])'
  BY DEF InOrder

\* A channel stays in order when nothing is shown that would belong before its end.
LEMMA OrderKept ==
  ASSUME ListenerInv, sent' = sent, \A l \in Listeners : InOrder(sent[l]),
         \A l \in Listeners, p \in Publishers, m, k \in 1..MaxEvents :
            Sent(l, <<p, m>>) /\ k <= m /\ k \in pub'[p].shown => k \in pub[p].shown
  PROVE  \A l \in Listeners : InOrder(sent[l])'
  <1> SUFFICES ASSUME NEW l \in Listeners PROVE InOrder(sent[l])'
    OBVIOUS
  <1> DEFINE q == sent[l]
  <1>a. sent'[l] = q /\ InOrder(q)
    OBVIOUS
  <1> SUFFICES ASSUME NEW i \in DOMAIN q, NEW j \in DOMAIN q, i < j, q[i][1] = q[j][1]
               PROVE  /\ q[i][2] < q[j][2]
                      /\ \A n \in pub'[q[i][1]].shown \cap (q[i][2]..q[j][2]) :
                            \E k \in i..j : q[k] = <<q[i][1], n>>
    <2> HIDE DEF q
    <2> QED
      BY <1>a DEF InOrder
  <1>0. sent[l][i][1] = sent[l][j][1]
    OBVIOUS
  <1> DEFINE p == sent[l][i][1]
             m == sent[l][j][2]
  <1>1. sent[l][i] \in Events /\ sent[l][j] \in Events
    BY <1>0 DEF ListenerInv, ListenerTypeOK
  <1>2. /\ p \in Publishers /\ m \in 1..MaxEvents /\ sent[l][i][2] \in 1..MaxEvents
        /\ sent[l][j] = <<p, m>>
    BY <1>0, <1>1, EventsAre
  <1>3. Sent(l, <<p, m>>)
    BY <1>0, <1>2 DEF Sent
  <1>4. /\ sent[l][i][2] < m
        /\ \A n \in pub[p].shown \cap (sent[l][i][2]..m) : \E k \in i..j : sent[l][k] = <<p, n>>
    BY <1>0 DEF InOrder
  <1> HIDE DEF p, m
  <1>5. ASSUME NEW n \in pub'[p].shown \cap (sent[l][i][2]..m)
        PROVE  \E k \in i..j : sent[l][k] = <<p, n>>
    <2>1. n \in 1..MaxEvents /\ n <= m
      BY <1>2, LiveBusConstants
    <2>2. n \in pub[p].shown
      BY <1>2, <1>3, <2>1
    <2> QED
      BY <1>4, <2>2
  <1> QED
    BY <1>0, <1>4, <1>5 DEF p, m

\* A handler that does not move is coming, or not, as before.
LEMMA SameComing ==
  ASSUME lis' = lis, at' = at
  PROVE  /\ \A l : Over(l)' <=> Over(l)
         /\ \A e, l : run'[e][l] = run[e][l] => (Coming(e, l)' <=> Coming(e, l))
  BY DEF Over, Coming, IsBounded

\* Nothing is subscribed, published or sent.
LEMMA TurnInit == Init => Turn
  <1> SUFFICES ASSUME Init PROVE Turn
    OBVIOUS
  <1>0. Listeners \subseteq Subs
    BY ListenerConstants
  <1>1. \A l \in Listeners : sent[l] = <<>>
    BY DEF Init
  <1>2. \A l \in Listeners : \A e : ~Sent(l, e)
    BY <1>1 DEF Sent
  <1>3. \A l \in Listeners : \A p, n : Due(l, p, n)
    BY <1>2 DEF Due
  <1>4. \A l \in Listeners : InOrder(sent[l])
    BY <1>1 DEF InOrder
  <1>5. Published /\ NextInTurn /\ NoneMissed
    BY <1>2, <1>3 DEF Published, NextInTurn, NoneMissed
  <1>7. OnceEach /\ ClosedFull /\ ShownSoFar
    BY DEF Init, BusInit, Publishers, OnceEach, ClosedFull, ShownSoFar
  <1>8. ForTheLast
    BY <1>0, EventsAre DEF Init, BusInit, Publishing, ForTheLast
  <1>6. OnTheBus
    BY <1>0 DEF Init, BusInit, OnTheBus
  <1> QED
    BY <1>4, <1>5, <1>6, <1>7, <1>8 DEF Turn

\* A step of the bus that no handler or publisher of a listener notices.
LEMMA UnnoticedStep ==
  ASSUME Turn, UNCHANGED <<lis, mu, at, sent, taken, leave, auto, pub>>,
         \A e \in Events, l \in Listeners : run'[e][l] = run[e][l],
         \A l \in Listeners : /\ subscribe[l] = "done" => subscribe'[l] = "done"
                              /\ l \in idx' => subscribe'[l] = "done"
                              /\ subscribe'[l] = "done" => l \in idx' \/ lis[l].closed
  PROVE  Turn'
  <1>1. /\ \A l, e : Sent(l, e)' <=> Sent(l, e)
        /\ \A l, p, n : Due(l, p, n)' <=> Due(l, p, n)
    BY SameSent
  <1>2. /\ \A l : Over(l)' <=> Over(l)
        /\ \A e \in Events, l \in Listeners : Coming(e, l)' <=> Coming(e, l)
    BY SameComing
  <1>3. \A p : Publishing(p)' <=> Publishing(p)
    BY DEF Publishing
  <1>4. OnceEach' /\ ClosedFull' /\ ShownSoFar' /\ \A l \in Listeners : InOrder(sent[l])'
    <2>1. \A l \in Listeners : InOrder(sent[l])'
      BY SameOrder DEF Turn
    <2> QED
      BY <2>1 DEF Turn, OnceEach, ClosedFull, ShownSoFar
  <1>5. OnTheBus'
    BY DEF Turn, OnTheBus
  <1>6. ForTheLast' /\ Published' /\ NextInTurn'
    BY <1>1, <1>2, <1>3 DEF Turn, ForTheLast, Published, NextInTurn
  <1>7. NoneMissed'
    <2> SUFFICES ASSUME NEW p \in Publishers, NEW l \in Listeners, NEW m \in 1..MaxEvents,
                        NEW k \in 1..MaxEvents, ~Over(l), Sent(l, <<p, m>>),
                        k \in pub[p].shown, m < k
                 PROVE  Kept(l, p, k)'
      BY <1>1, <1>2 DEF NoneMissed
    <2>1. Kept(l, p, k) /\ <<p, k>> \in Events
      BY EventsAre DEF Turn, NoneMissed
    <2> QED
      BY <1>1, <1>2, <1>3, <2>1 DEF Kept
  <1> QED
    BY <1>4, <1>5, <1>6, <1>7 DEF Turn

\* Subscriptions, the handlers of the application, and the life cycle.
LEMMA TurnBusSteps ==
  ASSUME BusInv, Turn, UNCHANGED listenerVars,
         \/ \E s \in Subs : CheckOpen(s) \/ AddSubscription(s)
         \/ \E s \in Plain : Unsubscribe(s)
         \/ \E e \in Events, s \in Plain : HandlerStep(e, s)
         \/ LifeStep
  PROVE  Turn'
  <1>0. UNCHANGED <<lis, mu, at, sent, taken, leave, auto>> /\ Listeners \subseteq Subs
    BY ListenerConstants DEF listenerVars
  <1>1. \A l \in Listeners : /\ l \in idx => subscribe[l] = "done"
                             /\ subscribe[l] = "done" => l \in idx \/ lis[l].closed
    BY DEF Turn, OnTheBus
  <1>2. ASSUME NEW s \in Subs, CheckOpen(s) \/ AddSubscription(s)
        PROVE  Turn'
    <2>1. UNCHANGED <<pub, run>>
      BY <1>2 DEF CheckOpen, AddSubscription, handlers
    <2>2. \A l \in Listeners : /\ subscribe[l] = "done" => subscribe'[l] = "done"
                               /\ l \in idx' => subscribe'[l] = "done"
                               /\ subscribe'[l] = "done" => l \in idx' \/ lis[l].closed
      BY <1>0, <1>1, <1>2 DEF CheckOpen, AddSubscription, IndexWith, BusInv, BusTypeOK
    <2> QED
      BY <1>0, <2>1, <2>2, UnnoticedStep
  <1>3. ASSUME NEW s \in Plain, Unsubscribe(s)
        PROVE  Turn'
    <2>1. UNCHANGED <<pub, run, subscribe>>
      BY <1>3 DEF Unsubscribe, handlers
    <2>2. \A l \in Listeners : l \in idx' <=> l \in idx
      BY <1>3 DEF Unsubscribe, IndexWithout, Plain
    <2> QED
      BY <1>0, <1>1, <2>1, <2>2, UnnoticedStep
  <1>4. ASSUME NEW e \in Events, NEW s \in Plain, HandlerStep(e, s)
        PROVE  Turn'
    <2>1. UNCHANGED <<pub, idx, subscribe>>
      BY <1>4 DEF HandlerStep, StartHandler, HandlerEnds, FallBackOnPanic, TimesOut, subscriptions
    <2>2. PICK new : run' = [run EXCEPT ![e][s] = new]
      BY <1>4 DEF HandlerStep, StartHandler, HandlerEnds, FallBackOnPanic, TimesOut, Ended
    <2>3. \A f \in Events, l \in Listeners : run'[f][l] = run[f][l]
      BY <1>0, <2>2 DEF Plain, BusInv, BusTypeOK
    <2> QED
      BY <1>0, <1>1, <2>1, <2>3, UnnoticedStep
  <1>5. ASSUME LifeStep
        PROVE  Turn'
    <2>1. UNCHANGED <<pub, run, idx, subscribe>>
      BY <1>5 DEF LifeStep, BeginForget, EndForget, BeginShutdown, CloseDispatcher, CloseBus,
                  ShutdownReturns, ShutdownGivesUp, subscriptions, handlers
    <2> QED
      BY <1>0, <1>1, <2>1, UnnoticedStep
  <1> QED
    BY <1>2, <1>3, <1>4, <1>5

\* A worker that goes on to its next event has handed over the last one it showed;
\* the listeners it finds in the index are the ones it has handed it to.
LEMMA TurnNextEvent ==
  ASSUME BusInv, ListenerInv, Turn, UNCHANGED listenerVars, NEW p \in Publishers,
         LoadIndex(p) \/ PassOver(p)
  PROVE  Turn'
  <1>0. /\ UNCHANGED <<lis, mu, at, sent, taken, leave, auto>> /\ Listeners \subseteq Subs
        /\ UNCHANGED <<subscribe, idx, run>>
    BY ListenerConstants DEF listenerVars, LoadIndex, PassOver, subscriptions, handlers
  <1>1. /\ \A l, e : Sent(l, e)' <=> Sent(l, e)
        /\ \A l, q, n : pub'[q].shown = pub[q].shown => (Due(l, q, n)' <=> Due(l, q, n))
    BY <1>0, SameSent
  <1>2. /\ \A l : Over(l)' <=> Over(l)
        /\ \A e, l : Coming(e, l)' <=> Coming(e, l)
    BY <1>0, SameComing
  <1>3. /\ pub[p].st = "idle" /\ pub[p].n \in 0..MaxEvents /\ pub'[p].n = pub[p].n + 1
        /\ pub[p].n + 1 \in 1..MaxEvents /\ (p \in Callers => pub[p].n = 0)
        /\ \A q \in Publishers : q # p => pub'[q] = pub[q]
        /\ \/ pub'[p].st = "idle" /\ pub'[p].shown = pub[p].shown
           \/ /\ pub'[p].st = "matched" /\ pub'[p].targets = Matches(p)
              /\ pub'[p].shown = pub[p].shown \cup {pub'[p].n}
    <2>1. pub[p] \in PublisherStates /\ pub \in [Publishers -> PublisherStates]
      BY DEF BusInv, BusTypeOK
    <2>2. CASE LoadIndex(p)
      BY <2>1, <2>2, LiveBusConstants DEF LoadIndex, MorePending, PublisherStates
    <2>3. CASE PassOver(p)
      BY <2>1, <2>3, LiveBusConstants DEF PassOver, MorePending, PublisherStates
    <2> QED
      BY <2>2, <2>3
  <1>4. \A e \in Events, l \in Listeners : e[1] = p => run[e][l] = "none" /\ ~Coming(e, l)
    <2> SUFFICES ASSUME NEW e \in Events, NEW l \in Listeners, e[1] = p
                 PROVE  run[e][l] = "none" /\ ~Coming(e, l)
      OBVIOUS
    <2>1. e = <<p, e[2]>> /\ e[2] \in 1..MaxEvents
      BY EventsAre
    <2>2. run[e][l] = "none"
      <3>1. CASE p \in Aggs
        BY <1>0, <1>3, <2>1, <3>1 DEF BusInv, OneAtATime
      <3>2. CASE p \in Callers
        BY <1>3, <2>1, <3>2 DEF Turn, ForTheLast
      <3> QED
        BY <3>1, <3>2 DEF Publishers
    <2>3. at[e][l] = "out"
      BY <2>2 DEF Turn, OnTheBus
    <2> QED
      BY <2>2, <2>3 DEF Coming
  <1>5. \A q : q # p /\ q \in Publishers => (Publishing(q)' <=> Publishing(q))
    BY <1>3 DEF Publishing
  <1>6. ~Publishing(p)
    BY <1>3 DEF Publishing
  <1>s. \A l \in Listeners, m \in 1..MaxEvents : Sent(l, <<p, m>>) => m < pub'[p].n
    BY <1>3 DEF Turn, Published
  <1>t. \A k \in 1..MaxEvents : k \in pub'[p].shown => k \in pub[p].shown \/ k = pub'[p].n
    BY <1>3
  <1>7. OnceEach' /\ ClosedFull' /\ OnTheBus' /\ ShownSoFar'
    <2>1. OnceEach'
      BY <1>3, LiveBusConstants DEF Turn, OnceEach, Publishers
    <2>2. ShownSoFar'
      BY <1>3, <1>t DEF Turn, ShownSoFar
    <2> QED
      BY <1>0, <2>1, <2>2 DEF Turn, ClosedFull, OnTheBus
  <1>o. \A l \in Listeners : InOrder(sent[l])'
    <2>1. ASSUME NEW l \in Listeners, NEW q \in Publishers, NEW m \in 1..MaxEvents,
                 NEW k \in 1..MaxEvents, Sent(l, <<q, m>>), k <= m, k \in pub'[q].shown
          PROVE  k \in pub[q].shown
      <3>1. CASE q = p
        <4>1. k # pub'[p].n
          BY <1>3, <1>s, <2>1, <3>1
        <4> QED
          BY <1>t, <2>1, <3>1, <4>1
      <3>2. CASE q # p
        BY <1>3, <2>1, <3>2
      <3> QED
        BY <3>1, <3>2
    <2> QED
      BY <1>0, <2>1, OrderKept DEF Turn
  <1>8. ForTheLast'
    <2>1. \A l \in Matches(p) : l \in Listeners => subscribe[l] = "done" /\ p \in Pattern[l]
      BY DEF Matches, Turn, OnTheBus
    <2>2. Publishing(p)' => pub'[p].targets = Matches(p)
      BY <1>3 DEF Publishing
    <2> QED
      BY <1>0, <1>3, <1>4, <1>5, <2>1, <2>2, EventsAre DEF Turn, ForTheLast
  <1>9. Published'
    <2> SUFFICES ASSUME NEW l \in Listeners, NEW q \in Publishers, NEW m \in 1..MaxEvents,
                        Sent(l, <<q, m>>)
                 PROVE  /\ m <= pub'[q].n /\ (Publishing(q)' => m < pub'[q].n)
                        /\ subscribe'[l] = "done" /\ q \in Pattern[l]
      BY <1>1 DEF Published
    <2>1. /\ m <= pub[q].n /\ (Publishing(q) => m < pub[q].n)
          /\ subscribe[l] = "done" /\ q \in Pattern[l]
      BY DEF Turn, Published
    <2> QED
      BY <1>0, <1>3, <1>5, <2>1
  <1>10. ASSUME NEW l \in Listeners, NEW m \in 1..MaxEvents, Sent(l, <<p, m>>), ~Over(l)
         PROVE  /\ Publishing(p)' => l \in pub'[p].targets
                /\ \A k \in 1..MaxEvents : k \in pub[p].shown /\ m < k => Sent(l, <<p, k>>)
    <2>1. subscribe[l] = "done" /\ p \in Pattern[l]
      BY <1>10 DEF Turn, Published
    <2>2. l \in idx
      BY <1>10, <2>1 DEF Turn, OnTheBus, Over
    <2>3. Publishing(p)' => l \in pub'[p].targets
      BY <1>3, <2>1, <2>2 DEF Publishing, Matches
    <2>4. ASSUME NEW k \in 1..MaxEvents, k \in pub[p].shown, m < k
          PROVE  Sent(l, <<p, k>>)
      <3>1. Kept(l, p, k) /\ <<p, k>> \in Events
        BY <1>10, <2>4, EventsAre DEF Turn, NoneMissed
      <3> QED
        BY <1>4, <1>6, <3>1 DEF Kept
    <2> QED
      BY <2>3, <2>4
  <1>11. NextInTurn'
    <2>1. ASSUME NEW e \in Events, NEW l \in Listeners, Coming(e, l)'
          PROVE  Due(l, e[1], e[2])'
      <3>1. Coming(e, l) /\ e[1] # p /\ e[1] \in Publishers
        BY <1>2, <1>4, <2>1, EventsAre
      <3>2. Due(l, e[1], e[2]) /\ pub'[e[1]].shown = pub[e[1]].shown
        BY <1>3, <3>1 DEF Turn, NextInTurn
      <3> QED
        BY <1>1, <3>2
    <2>2. ASSUME NEW q \in Publishers, NEW l \in Listeners, ~Over(l), Publishing(q)',
                 l \in pub'[q].targets
          PROVE  Due(l, q, pub[q].n)'
      <3>1. CASE q = p
        <4> SUFFICES ASSUME NEW m \in 1..MaxEvents, Sent(l, <<p, m>>),
                            NEW k \in 1..MaxEvents, k \in pub'[p].shown, m < k, k < pub'[p].n
                     PROVE  Sent(l, <<p, k>>)
          BY <1>1, <1>s, <3>1 DEF Due
        <4>1. k \in pub[p].shown
          BY <1>3, <1>t
        <4> QED
          BY <1>10, <2>2, <4>1
      <3>2. CASE q # p
        <4>1. Due(l, q, pub[q].n) /\ pub'[q] = pub[q]
          BY <1>3, <1>5, <2>2, <3>2 DEF Turn, NextInTurn
        <4> QED
          BY <1>1, <4>1
      <3> QED
        BY <3>1, <3>2
    <2> QED
      BY <1>2, <2>1, <2>2 DEF NextInTurn
  <1>12. NoneMissed'
    <2> SUFFICES ASSUME NEW q \in Publishers, NEW l \in Listeners, NEW m \in 1..MaxEvents,
                        NEW k \in 1..MaxEvents, ~Over(l), Sent(l, <<q, m>>),
                        k \in pub'[q].shown, m < k
                 PROVE  Kept(l, q, k)'
      BY <1>1, <1>2 DEF NoneMissed
    <2>1. CASE q = p
      <3>1. CASE k \in pub[p].shown
        BY <1>1, <1>10, <2>1, <3>1 DEF Kept
      <3>2. CASE k \notin pub[p].shown
        <4>1. Publishing(p)' /\ k = pub'[p].n
          BY <1>3, <1>t, <2>1, <3>2 DEF Publishing
        <4> QED
          BY <1>10, <2>1, <4>1 DEF Kept
      <3> QED
        BY <3>1, <3>2
    <2>2. CASE q # p
      <3>1. Kept(l, q, k) /\ pub'[q] = pub[q]
        BY <1>3, <2>2 DEF Turn, NoneMissed
      <3> QED
        BY <1>1, <1>2, <1>5, <2>2, <3>1 DEF Kept
    <2> QED
      BY <2>1, <2>2
  <1> QED
    BY <1>7, <1>8, <1>9, <1>11, <1>12, <1>o DEF Turn

\* Handlers are spawned for the listeners the index had, for the event in hand.
LEMMA TurnAdmit ==
  ASSUME BusInv, ListenerInv, Turn, UNCHANGED listenerVars, NEW p \in Publishers, Admit(p)
  PROVE  Turn'
  <1>0. /\ UNCHANGED <<lis, mu, at, sent, taken, leave, auto>> /\ Listeners \subseteq Subs
        /\ UNCHANGED <<subscribe, idx>> /\ Publishing(p)
    BY ListenerConstants DEF listenerVars, Admit, subscriptions, Publishing
  <1>1. /\ \A l, e : Sent(l, e)' <=> Sent(l, e)
        /\ \A l, q, n : pub'[q].shown = pub[q].shown => (Due(l, q, n)' <=> Due(l, q, n))
    BY <1>0, SameSent
  <1>2. /\ \A l : Over(l)' <=> Over(l)
        /\ \A e, l : run'[e][l] = run[e][l] => (Coming(e, l)' <=> Coming(e, l))
    BY <1>0, SameComing
  <1>3. /\ pub[p].st = "matched" /\ pub[p].n \in 1..MaxEvents /\ pub[p].targets \subseteq Subs
        /\ pub'[p].n = pub[p].n /\ pub'[p].st # "matched" /\ pub'[p].shown = pub[p].shown
        /\ \A q \in Publishers : q # p => pub'[q] = pub[q]
    <2>1. pub[p] \in PublisherStates
      BY DEF BusInv, BusTypeOK
    <2> QED
      BY <1>0, <2>1 DEF Admit, Refused, BusInv, BusTypeOK, EventInHand, Publishing,
                         PublisherStates
  <1>4. /\ ~Publishing(p)'
        /\ \A q \in Publishers : q # p => (Publishing(q)' <=> Publishing(q))
        /\ \A q \in Publishers : pub'[q].shown = pub[q].shown /\ pub'[q].n = pub[q].n
    BY <1>3 DEF Publishing
  <1>5. \A e \in Events, l \in Listeners : e[1] = p => run[e][l] = "none" /\ at[e][l] = "out"
    BY <1>0 DEF Turn, ForTheLast, OnTheBus
  <1>6. OnceEach' /\ ClosedFull' /\ ShownSoFar' /\ \A l \in Listeners : InOrder(sent[l])'
    <2>1. OnceEach' /\ ShownSoFar'
      BY <1>4 DEF Turn, OnceEach, ShownSoFar, Publishers
    <2>2. \A l \in Listeners : InOrder(sent[l])'
      BY <1>0, <1>4, OrderKept DEF Turn
    <2> QED
      BY <1>0, <2>1, <2>2 DEF Turn, ClosedFull
  <1>7. Published'
    <2> SUFFICES ASSUME NEW l \in Listeners, NEW q \in Publishers, NEW m \in 1..MaxEvents,
                        Sent(l, <<q, m>>)
                 PROVE  /\ m <= pub'[q].n /\ (Publishing(q)' => m < pub'[q].n)
                        /\ subscribe'[l] = "done" /\ q \in Pattern[l]
      BY <1>1 DEF Published
    <2>1. /\ m <= pub[q].n /\ (Publishing(q) => m < pub[q].n)
          /\ subscribe[l] = "done" /\ q \in Pattern[l]
      BY DEF Turn, Published
    <2> QED
      BY <1>0, <1>3, <1>4, <2>1
  <1>8. CASE Refused(p)
    <2>1. run' = run
      BY <1>8 DEF Refused, handlers
    <2>2. p \notin Aggs /\ pub[p].n = 1
      <3>1. p \notin Aggs
        BY <1>3, <1>8 DEF Refused, BusInv, Order
      <3> QED
        BY <1>3, <3>1 DEF Turn, OnceEach, Publishers
    <2>3. \A l \in Listeners, m \in 1..MaxEvents : ~Sent(l, <<p, m>>)
      BY <1>0, <2>2 DEF Turn, Published
    <2>4. OnTheBus' /\ ForTheLast'
      BY <1>0, <1>3, <1>4, <1>5, <2>1, EventsAre DEF Turn, OnTheBus, ForTheLast
    <2>5. NextInTurn'
      BY <1>1, <1>2, <1>3, <1>4, <2>1, EventsAre DEF Turn, NextInTurn
    <2>6. NoneMissed'
      <3> SUFFICES ASSUME NEW q \in Publishers, NEW l \in Listeners, NEW m \in 1..MaxEvents,
                          NEW k \in 1..MaxEvents, ~Over(l), Sent(l, <<q, m>>),
                          k \in pub[q].shown, m < k
                   PROVE  Kept(l, q, k)'
        BY <1>1, <1>2, <1>4 DEF NoneMissed
      <3>1. q # p /\ Kept(l, q, k)
        BY <2>3 DEF Turn, NoneMissed
      <3> QED
        BY <1>1, <1>2, <1>3, <1>4, <2>1, <3>1 DEF Kept
    <2> QED
      BY <1>6, <1>7, <2>4, <2>5, <2>6 DEF Turn
  <1>9. CASE ~Refused(p)
    <2>1. run' = Spawned(p) /\ Current(p) = <<p, pub[p].n>> /\ Current(p) \in Events
      BY <1>3, <1>9, EventsAre DEF Admit, Current
    <2>2. \A e \in Events, l \in Listeners :
             run'[e][l] = IF e[1] = p /\ e[2] = pub[p].n /\ l \in pub[p].targets
                          THEN "spawned" ELSE run[e][l]
      <3>1. run[Current(p)] \in [Subs -> RunStates]
        BY <2>1 DEF BusInv, BusTypeOK
      <3>2. \A e \in Events, l \in Subs :
               run'[e][l] = IF e = Current(p) /\ l \in pub[p].targets
                            THEN "spawned" ELSE run[e][l]
        BY <2>1, <3>1 DEF Spawned, BusInv, BusTypeOK
      <3>3. \A e \in Events : e = Current(p) <=> e[1] = p /\ e[2] = pub[p].n
        BY <2>1, EventsAre
      <3> QED
        BY <1>0, <3>2, <3>3
    <2>3. OnTheBus'
      BY <1>0, <1>5, <2>2 DEF Turn, OnTheBus
    <2>4. ForTheLast'
      <3>1. ASSUME NEW e \in Events, NEW l \in Listeners, run'[e][l] # "none"
            PROVE  /\ e[2] = pub'[e[1]].n /\ ~Publishing(e[1])'
                   /\ subscribe'[l] = "done" /\ e[1] \in Pattern[l]
        <4>1. e[1] \in Publishers
          BY EventsAre
        <4>2. CASE e[1] = p
          BY <1>0, <1>3, <1>4, <1>5, <2>2, <3>1, <4>2 DEF Turn, ForTheLast
        <4>3. CASE e[1] # p
          BY <1>0, <1>3, <1>4, <2>2, <3>1, <4>1, <4>3 DEF Turn, ForTheLast
        <4> QED
          BY <4>2, <4>3
      <3> QED
        BY <1>0, <1>3, <1>4, <3>1 DEF Turn, ForTheLast
    <2>5. \A e \in Events, l \in Listeners : e[1] # p => (Coming(e, l)' <=> Coming(e, l))
      BY <1>2, <2>2
    <2>6. \A e \in Events, l \in Listeners : e[1] = p =>
             (Coming(e, l)' <=> ~Over(l) /\ e[2] = pub[p].n /\ l \in pub[p].targets)
      <3> SUFFICES ASSUME NEW e \in Events, NEW l \in Listeners, e[1] = p
                   PROVE  Coming(e, l)' <=> ~Over(l) /\ e[2] = pub[p].n /\ l \in pub[p].targets
        OBVIOUS
      <3>1. at'[e][l] = "out" /\ run[e][l] = "none"
        BY <1>0, <1>5
      <3>2. run'[e][l] = "spawned" <=> e[2] = pub[p].n /\ l \in pub[p].targets
        BY <2>2, <3>1
      <3> QED
        BY <1>2, <3>1, <3>2 DEF Coming
    <2>7. NextInTurn'
      <3>1. ASSUME NEW e \in Events, NEW l \in Listeners, Coming(e, l)'
            PROVE  Due(l, e[1], e[2])
        <4>1. CASE e[1] = p
          BY <1>0, <2>6, <3>1, <4>1 DEF Turn, NextInTurn
        <4>2. CASE e[1] # p
          BY <2>5, <3>1, <4>2 DEF Turn, NextInTurn
        <4> QED
          BY <4>1, <4>2
      <3>2. ASSUME NEW q \in Publishers, NEW l \in Listeners, ~Over(l), Publishing(q)',
                   l \in pub'[q].targets
            PROVE  Due(l, q, pub[q].n)
        BY <1>3, <1>4, <3>2 DEF Turn, NextInTurn
      <3> QED
        BY <1>1, <1>2, <1>4, <3>1, <3>2, EventsAre DEF NextInTurn
    <2>8. NoneMissed'
      <3> SUFFICES ASSUME NEW q \in Publishers, NEW l \in Listeners, NEW m \in 1..MaxEvents,
                          NEW k \in 1..MaxEvents, ~Over(l), Sent(l, <<q, m>>),
                          k \in pub[q].shown, m < k
                   PROVE  Kept(l, q, k)'
        BY <1>1, <1>2, <1>4 DEF NoneMissed
      <3>1. Kept(l, q, k) /\ <<q, k>> \in Events
        BY EventsAre DEF Turn, NoneMissed
      <3>2. CASE q = p
        <4>1. ~Coming(<<p, k>>, l)
          BY <1>5, <3>1, <3>2 DEF Coming
        <4>2. Sent(l, <<p, k>>) \/ (k = pub[p].n /\ l \in pub[p].targets)
          BY <3>1, <3>2, <4>1 DEF Kept
        <4> QED
          BY <1>1, <2>6, <3>1, <3>2, <4>2 DEF Kept
      <3>3. CASE q # p
        BY <1>1, <1>3, <1>4, <2>5, <3>1, <3>3 DEF Kept
      <3> QED
        BY <3>2, <3>3
    <2> QED
      BY <1>6, <1>7, <2>3, <2>4, <2>7, <2>8 DEF Turn
  <1> QED
    BY <1>8, <1>9

\* PublishSync returns when every listener has had the event; a worker ends idle.
LEMMA TurnWorker ==
  ASSUME BusInv, ListenerInv, Turn, UNCHANGED listenerVars, NEW p \in Publishers,
         PublishReturns(p) \/ WorkerExits(p)
  PROVE  Turn'
  <1>0. /\ UNCHANGED <<lis, mu, at, sent, taken, leave, auto>> /\ Listeners \subseteq Subs
        /\ UNCHANGED <<subscribe, idx, run>>
    BY ListenerConstants DEF listenerVars, PublishReturns, WorkerExits, subscriptions, handlers
  <1>1. /\ \A l, e : Sent(l, e)' <=> Sent(l, e)
        /\ \A l, q, n : pub'[q].shown = pub[q].shown => (Due(l, q, n)' <=> Due(l, q, n))
    BY <1>0, SameSent
  <1>2. /\ \A l : Over(l)' <=> Over(l)
        /\ \A e, l : Coming(e, l)' <=> Coming(e, l)
    BY <1>0, SameComing
  <1>3. /\ pub[p].st \in {"wait", "idle"} /\ pub'[p].n = pub[p].n
        /\ pub'[p].st \in {"idle", "exited"} /\ pub'[p].targets = pub[p].targets
        /\ pub'[p].shown = pub[p].shown
        /\ \A q \in Publishers : q # p => pub'[q] = pub[q]
    <2>1. pub[p] \in PublisherStates
      BY DEF BusInv, BusTypeOK
    <2> QED
      BY <2>1 DEF PublishReturns, WorkerExits, BusInv, BusTypeOK, PublisherStates
  <1>4. \A q \in Publishers : (Publishing(q)' <=> Publishing(q)) /\ pub'[q].n = pub[q].n
                              /\ pub'[q].targets = pub[q].targets
                              /\ pub'[q].shown = pub[q].shown
    BY <1>3 DEF Publishing
  <1>5. OnceEach' /\ ClosedFull' /\ ShownSoFar' /\ \A l \in Listeners : InOrder(sent[l])'
    <2>1. OnceEach' /\ ShownSoFar'
      BY <1>4 DEF Turn, OnceEach, ShownSoFar, Publishers
    <2>2. \A l \in Listeners : InOrder(sent[l])'
      BY <1>0, <1>4, OrderKept DEF Turn
    <2> QED
      BY <1>0, <2>1, <2>2 DEF Turn, ClosedFull
  <1>6. OnTheBus' /\ ForTheLast' /\ Published'
    BY <1>0, <1>1, <1>4, EventsAre DEF Turn, OnTheBus, ForTheLast, Published
  <1>7. NextInTurn'
    BY <1>1, <1>2, <1>4, EventsAre DEF Turn, NextInTurn
  <1>8. NoneMissed'
    <2> SUFFICES ASSUME NEW q \in Publishers, NEW l \in Listeners, NEW m \in 1..MaxEvents,
                        NEW k \in 1..MaxEvents, ~Over(l), Sent(l, <<q, m>>),
                        k \in pub[q].shown, m < k
                 PROVE  Kept(l, q, k)'
      BY <1>1, <1>2, <1>4 DEF NoneMissed
    <2>1. Kept(l, q, k)
      BY DEF Turn, NoneMissed
    <2> QED
      BY <1>1, <1>2, <1>4, <2>1 DEF Kept
  <1> QED
    BY <1>5, <1>6, <1>7, <1>8 DEF Turn

\* A step of handle that sends nothing: it starts, goes on or gives up.
LEMMA TurnNoSend ==
  ASSUME Turn, NEW e \in Events, NEW l \in Listeners, NEW pos, NEW new \in {"none", "running"},
         UNCHANGED <<sent, leave, subscribe, idx, pub>>,
         run[e][l] # "none", pos # "out" <=> new = "running",
         Moves(e, l, pos, new),
         \A k \in Listeners : k # l => lis'[k] = lis[k] /\ auto'[k] = auto[k],
         Over(l) => Over(l)', lis[l].closed => lis'[l].closed,
         lis'[l].done \/ auto'[l] = "waiting" => lis'[l].closed,
         lis'[l].chClosed /\ leave[l] = "no" => Len(sent[l]) = Count[l],
         Coming(e, l)' => Coming(e, l), Coming(e, l) /\ ~Over(l)' => Coming(e, l)'
  PROVE  Turn'
  <1>m. \A f \in Events, k \in Listeners :
           /\ at'[f][k] = IF f = e /\ k = l THEN pos ELSE at[f][k]
           /\ run'[f][k] = IF f = e /\ k = l THEN new ELSE run[f][k]
    BY DEF Moves
  <1>1. /\ \A k, f : Sent(k, f)' <=> Sent(k, f)
        /\ \A k, q, n : Due(k, q, n)' <=> Due(k, q, n)
    BY SameSent
  <1>2. \A k \in Listeners : Over(k) => Over(k)'
    BY DEF Over
  <1>3. ASSUME NEW f \in Events, NEW k \in Listeners
        PROVE  /\ Coming(f, k)' => Coming(f, k)
               /\ Coming(f, k) /\ ~Over(k)' => Coming(f, k)'
    <2>1. CASE f = e /\ k = l
      BY <2>1
    <2>2. CASE ~(f = e /\ k = l)
      <3>1. at'[f][k] = at[f][k] /\ run'[f][k] = run[f][k]
        BY <1>m, <2>2
      <3> QED
        BY <1>2, <3>1 DEF Coming
    <2> QED
      BY <2>1, <2>2
  <1>4. \A p : Publishing(p)' <=> Publishing(p)
    BY DEF Publishing
  <1>5. OnceEach' /\ ShownSoFar' /\ \A k \in Listeners : InOrder(sent[k])'
    <2>1. \A k \in Listeners : InOrder(sent[k])'
      BY SameOrder DEF Turn
    <2> QED
      BY <2>1 DEF Turn, OnceEach, ShownSoFar
  <1>6. ClosedFull' /\ OnTheBus'
    BY <1>m DEF Turn, ClosedFull, OnTheBus
  <1>7. ForTheLast' /\ Published'
    BY <1>m, <1>1, <1>4 DEF Turn, ForTheLast, Published
  <1>8. NextInTurn'
    BY <1>1, <1>2, <1>3, <1>4 DEF Turn, NextInTurn
  <1>9. NoneMissed'
    <2> SUFFICES ASSUME NEW q \in Publishers, NEW k \in Listeners, NEW m \in 1..MaxEvents,
                        NEW n \in 1..MaxEvents, ~Over(k)', Sent(k, <<q, m>>),
                        n \in pub[q].shown, m < n
                 PROVE  Kept(k, q, n)'
      BY <1>1 DEF NoneMissed
    <2>1. Kept(k, q, n) /\ <<q, n>> \in Events
      BY <1>2, EventsAre DEF Turn, NoneMissed
    <2> QED
      BY <1>1, <1>3, <1>4, <2>1 DEF Kept
  <1> QED
    BY <1>5, <1>6, <1>7, <1>8, <1>9 DEF Turn

\* The next event, put at the end of a channel, keeps it in order.
LEMMA InOrderAppend ==
  ASSUME NEW q \in Seq(Events), InOrder(q), NEW e \in Events,
         \A i \in DOMAIN q : q[i][1] = e[1] =>
            /\ q[i][2] < e[2]
            /\ \A n \in 1..MaxEvents : n \in pub[e[1]].shown /\ q[i][2] < n /\ n < e[2] =>
                  \E k \in DOMAIN q : q[k] = <<e[1], n>>
  PROVE  InOrder(Append(q, e))
  <1> DEFINE t == Append(q, e)
  <1>0. /\ Len(q) \in Nat /\ DOMAIN q = 1..Len(q) /\ DOMAIN t = 1..(Len(q) + 1)
        /\ \A i \in 1..Len(q) : t[i] = q[i] /\ q[i] \in Events
        /\ t[Len(q) + 1] = e
    OBVIOUS
  <1> HIDE DEF t
  <1>1. \A f \in Events : f[2] \in 1..MaxEvents /\ f = <<f[1], f[2]>>
    BY EventsAre
  <1>2. MaxEvents \in Nat
    BY LiveBusConstants
  <1> SUFFICES ASSUME NEW i \in DOMAIN t, NEW j \in DOMAIN t, i < j, t[i][1] = t[j][1]
               PROVE  /\ t[i][2] < t[j][2]
                      /\ \A n \in pub[t[i][1]].shown \cap (t[i][2]..t[j][2]) :
                            \E k \in i..j : t[k] = <<t[i][1], n>>
    BY DEF InOrder, t
  <1>3. i \in 1..Len(q) /\ j \in 1..(Len(q) + 1) /\ t[i] = q[i] /\ q[i] \in Events
    BY <1>0
  <1>4. CASE j \in 1..Len(q)
    <2>0. i \in DOMAIN q /\ j \in DOMAIN q /\ t[j] = q[j]
      BY <1>0, <1>3, <1>4
    <2>1. /\ q[i][2] < q[j][2]
          /\ \A n \in pub[q[i][1]].shown \cap (q[i][2]..q[j][2]) :
                \E k \in i..j : q[k] = <<q[i][1], n>>
      BY <1>3, <2>0 DEF InOrder
    <2>2. \A k \in i..j : t[k] = q[k]
      BY <1>0, <1>3, <1>4
    <2> QED
      BY <1>3, <2>0, <2>1, <2>2
  <1>5. CASE j = Len(q) + 1
    <2>1. t[j] = e /\ q[i][1] = e[1] /\ q[i][2] < e[2]
      BY <1>0, <1>3, <1>5
    <2>2. q[i][2] \in 1..MaxEvents /\ e[2] \in 1..MaxEvents
      BY <1>1, <1>3
    <2>5. ASSUME NEW n \in pub[e[1]].shown \cap (q[i][2]..e[2])
          PROVE  \E x \in i..j : t[x] = <<e[1], n>>
      <3>0. n \in 1..MaxEvents /\ q[i][2] <= n /\ n <= e[2]
        BY <1>2, <2>2
      <3>1. CASE n = e[2]
        <4>1. j \in i..j /\ t[j] = <<e[1], n>>
          BY <1>0, <1>1, <1>3, <1>5, <2>1, <3>1
        <4> QED
          BY <4>1
      <3>2. CASE n = q[i][2]
        <4>1. i \in i..j /\ t[i] = <<e[1], n>>
          BY <1>0, <1>1, <1>3, <1>5, <2>1, <3>2
        <4> QED
          BY <4>1
      <3>3. CASE n # e[2] /\ n # q[i][2]
        <4>1. q[i][2] < n /\ n < e[2]
          BY <1>2, <2>2, <3>0, <3>3
        <4>i. i \in DOMAIN q
          BY <1>0, <1>3
        <4>2. PICK x \in DOMAIN q : q[x] = <<e[1], n>>
          BY <2>1, <3>0, <4>1, <4>i
        <4>3. x < i => q[x][2] < q[i][2]
          BY <2>1, <4>2, <4>i DEF InOrder
        <4>4. ~(x < i)
          BY <1>2, <2>2, <3>0, <4>1, <4>2, <4>3
        <4>5. x \in i..j /\ t[x] = q[x]
          BY <1>0, <1>3, <1>5, <4>4
        <4> QED
          BY <4>2, <4>5
      <3> QED
        BY <3>1, <3>2, <3>3
    <2> QED
      BY <1>3, <2>1, <2>5
  <1>6. j \in 1..Len(q) \/ j = Len(q) + 1
    BY <1>0, <1>3
  <1> QED
    BY <1>4, <1>5, <1>6

\* A step of handle that sends: what is sent is due, and then it is not coming.
LEMMA TurnSend ==
  ASSUME BusInv, ListenerInv, Turn, NEW e \in Events, NEW l \in Listeners,
         NEW pos \in {"out", "sent"}, NEW new \in {"none", "running"},
         at[e][l] \in {"select", "send"},
         UNCHANGED <<lis, leave, auto, subscribe, idx, pub>>,
         sent' = [sent EXCEPT ![l] = Append(@, e)],
         pos # "out" <=> new = "running", Moves(e, l, pos, new)
  PROVE  Turn'
  <1>m. \A f \in Events, k \in Listeners :
           /\ at'[f][k] = IF f = e /\ k = l THEN pos ELSE at[f][k]
           /\ run'[f][k] = IF f = e /\ k = l THEN new ELSE run[f][k]
    BY DEF Moves
  <1>0. /\ sent[l] \in Seq(Events) /\ sent'[l] = Append(sent[l], e)
        /\ \A k \in Listeners : k # l => sent'[k] = sent[k]
    BY DEF ListenerInv, ListenerTypeOK
  <1>1. /\ run[e][l] = "running" /\ ~lis[l].chClosed /\ Due(l, e[1], e[2])
        /\ e[2] = pub[e[1]].n /\ ~Publishing(e[1]) /\ subscribe[l] = "done" /\ e[1] \in Pattern[l]
    BY DEF Turn, OnTheBus, ForTheLast, NextInTurn, Coming, ListenerInv, InHandle, Closing
  <1>2. /\ \A f : Sent(l, f)' <=> Sent(l, f) \/ f = e
        /\ \A k \in Listeners : k # l => \A f : Sent(k, f)' <=> Sent(k, f)
    <2>1. ASSUME NEW f PROVE Sent(l, f)' <=> Sent(l, f) \/ f = e
      <3>1. /\ DOMAIN sent[l] = 1..Len(sent[l]) /\ Len(sent[l]) \in Nat
            /\ DOMAIN sent'[l] = 1..(Len(sent[l]) + 1)
            /\ \A i \in 1..Len(sent[l]) : sent'[l][i] = sent[l][i]
            /\ sent'[l][Len(sent[l]) + 1] = e
        BY <1>0
      <3> QED
        BY <3>1 DEF Sent
    <2>2. ASSUME NEW k \in Listeners, k # l, NEW f PROVE Sent(k, f)' <=> Sent(k, f)
      BY <1>0, <2>2 DEF Sent
    <2> QED
      BY <2>1, <2>2
  <1>3. \A k \in Listeners : \A q, n : k # l \/ q # e[1] => (Due(k, q, n)' <=> Due(k, q, n))
    <2>1. ASSUME NEW k \in Listeners, NEW q, NEW n, k # l \/ q # e[1]
          PROVE  \A m : Sent(k, <<q, m>>)' <=> Sent(k, <<q, m>>)
      <3>1. \A m : <<q, m>> = e => q = e[1]
        OBVIOUS
      <3> QED
        BY <1>2, <2>1, <3>1
    <2> QED
      BY <2>1 DEF Due
  <1>4. \A k \in Listeners : Over(k)' <=> Over(k)
    BY DEF Over
  <1>5. \A p : Publishing(p)' <=> Publishing(p)
    BY DEF Publishing
  <1>6. /\ ~Coming(e, l)'
        /\ \A f \in Events, k \in Listeners : ~(f = e /\ k = l) => (Coming(f, k)' <=> Coming(f, k))
    BY <1>m, <1>4 DEF Coming
  <1>7. \A f \in Events : Coming(f, l) /\ f[1] = e[1] => f = e
    <2> SUFFICES ASSUME NEW f \in Events, Coming(f, l), f[1] = e[1] PROVE f = e
      OBVIOUS
    <2>1. run[f][l] # "none"
      BY DEF Coming, Turn, OnTheBus
    <2>2. f[2] = pub[f[1]].n
      BY <2>1 DEF Turn, ForTheLast
    <2> QED
      BY <1>1, <2>2, EventsAre
  <1>8. \A k \in Listeners : InOrder(sent[k])'
    <2>1. \A i \in DOMAIN sent[l] : sent[l][i][1] = e[1] =>
             /\ sent[l][i][2] < e[2]
             /\ \A n \in 1..MaxEvents : n \in pub[e[1]].shown /\ sent[l][i][2] < n /\ n < e[2] =>
                   \E k \in DOMAIN sent[l] : sent[l][k] = <<e[1], n>>
      <3> SUFFICES ASSUME NEW i \in DOMAIN sent[l], sent[l][i][1] = e[1]
                   PROVE  /\ sent[l][i][2] < e[2]
                          /\ \A n \in 1..MaxEvents :
                                n \in pub[e[1]].shown /\ sent[l][i][2] < n /\ n < e[2]
                                => Sent(l, <<e[1], n>>)
        BY DEF Sent
      <3>1. sent[l][i] \in Events
        BY <1>0
      <3>2. sent[l][i] = <<e[1], sent[l][i][2]>> /\ sent[l][i][2] \in 1..MaxEvents
        BY <3>1, EventsAre
      <3>3. Sent(l, <<e[1], sent[l][i][2]>>)
        BY <3>2 DEF Sent
      <3> QED
        BY <1>1, <3>2, <3>3 DEF Due
    <2>2. InOrder(sent[l]) /\ \A k \in Listeners : InOrder(sent[k])
      BY DEF Turn
    <2>3. InOrder(Append(sent[l], e))
      BY <1>0, <2>1, <2>2, InOrderAppend
    <2> QED
      BY <1>0, <2>2, <2>3, SameOrder
  <1>9. OnceEach' /\ OnTheBus' /\ ForTheLast' /\ ShownSoFar'
    BY <1>m, <1>1, <1>5 DEF Turn, OnceEach, OnTheBus, ForTheLast, ShownSoFar
  <1>10. ClosedFull'
    BY <1>0, <1>1 DEF Turn, ClosedFull
  <1>11. Published'
    <2> SUFFICES ASSUME NEW k \in Listeners, NEW p \in Publishers, NEW m \in 1..MaxEvents,
                        Sent(k, <<p, m>>)'
                 PROVE  /\ m <= pub[p].n /\ (Publishing(p) => m < pub[p].n)
                        /\ subscribe[k] = "done" /\ p \in Pattern[k]
      BY <1>5 DEF Published
    <2>1. CASE Sent(k, <<p, m>>)
      BY <2>1 DEF Turn, Published
    <2>2. CASE ~Sent(k, <<p, m>>)
      <3>1. k = l /\ p = e[1] /\ m = e[2]
        BY <1>2, <2>2
      <3> QED
        BY <1>1, <3>1
    <2> QED
      BY <2>1, <2>2
  <1>12. NextInTurn'
    <2>1. ASSUME NEW f \in Events, NEW k \in Listeners, Coming(f, k)'
          PROVE  Due(k, f[1], f[2])'
      <3>1. Coming(f, k) /\ (k # l \/ f[1] # e[1])
        BY <1>6, <1>7, <2>1
      <3> QED
        BY <1>3, <3>1 DEF Turn, NextInTurn
    <2>2. ASSUME NEW p \in Publishers, NEW k \in Listeners, ~Over(k), Publishing(p),
                 k \in pub[p].targets
          PROVE  Due(k, p, pub[p].n)'
      <3>1. p # e[1] /\ Due(k, p, pub[p].n)
        BY <1>1, <2>2 DEF Turn, NextInTurn
      <3>2. pub'[p].n = pub[p].n
        OBVIOUS
      <3> QED
        BY <1>3, <3>1, <3>2
    <2> QED
      BY <1>4, <1>5, <2>1, <2>2 DEF NextInTurn
  <1>13. NoneMissed'
    <2> SUFFICES ASSUME NEW p \in Publishers, NEW k \in Listeners, NEW m \in 1..MaxEvents,
                        NEW n \in 1..MaxEvents, ~Over(k), Sent(k, <<p, m>>)',
                        n \in pub[p].shown, m < n
                 PROVE  Kept(k, p, n)'
      BY <1>4 DEF NoneMissed
    <2>0. <<p, n>> \in Events
      BY EventsAre
    <2>1. Sent(k, <<p, m>>)
      <3>1. CASE k = l /\ <<p, m>> = e
        <4>1. m = pub[p].n /\ n <= pub[p].n
          BY <1>1, <3>1 DEF Turn, ShownSoFar
        <4>2. m \in Nat /\ n \in Nat
          BY LiveBusConstants
        <4> QED
          BY <4>1, <4>2
      <3>2. CASE ~(k = l /\ <<p, m>> = e)
        BY <1>2, <3>2
      <3> QED
        BY <3>1, <3>2
    <2>2. Kept(k, p, n)
      BY <2>1 DEF Turn, NoneMissed
    <2>3. CASE k = l /\ <<p, n>> = e
      BY <1>2, <2>3 DEF Kept
    <2>4. CASE ~(k = l /\ <<p, n>> = e)
      BY <1>2, <1>5, <1>6, <2>0, <2>2, <2>4 DEF Kept
    <2> QED
      BY <2>3, <2>4
  <1> QED
    BY <1>8, <1>9, <1>10, <1>11, <1>12, <1>13 DEF Turn

\* What a step of handle does to the bus: nothing, or its handler starts or ends.
LEMMA HandlerOnBus ==
  ASSUME BusInv, NEW e \in Events, NEW l \in Listeners,
         UNCHANGED busVars \/ StartHandler(e, l) \/ HandlerEnds(e, l)
  PROVE  /\ UNCHANGED <<subscribe, idx, pub>>
         /\ \A f \in Events, k \in Listeners :
               run'[f][k] = IF f = e /\ k = l
                            THEN IF StartHandler(e, l) THEN "running"
                                 ELSE IF HandlerEnds(e, l) THEN "none" ELSE run[e][l]
                            ELSE run[f][k]
  <1>0. Listeners \subseteq Subs
    BY ListenerConstants
  <1>1. UNCHANGED <<subscribe, idx, pub>>
    BY DEF busVars, subscriptions, StartHandler, HandlerEnds
  <1>2. CASE StartHandler(e, l)
    BY <1>0, <1>1, <1>2 DEF StartHandler, BusInv, BusTypeOK
  <1>3. CASE HandlerEnds(e, l)
    <2>1. run' = [run EXCEPT ![e][l] = "none"] /\ ~StartHandler(e, l)
      BY <1>3 DEF HandlerEnds, Ended, StartHandler
    <2> QED
      BY <1>0, <1>1, <1>3, <2>1 DEF BusInv, BusTypeOK
  <1>4. CASE UNCHANGED busVars /\ ~StartHandler(e, l) /\ ~HandlerEnds(e, l)
    BY <1>1, <1>4 DEF busVars, handlers
  <1> QED
    BY <1>2, <1>3, <1>4

\* The goroutine of a handler comes to handle.
LEMMA TurnStartHandle ==
  ASSUME BusInv, ListenerInv, Turn, NEW e \in Events, NEW l \in Listeners, StartHandle(e, l)
  PROVE  Turn'
  <1>1. /\ UNCHANGED <<lis, mu, sent, taken, leave, auto>> /\ run[e][l] = "spawned"
        /\ at' = [at EXCEPT ![e][l] = "handle"] /\ StartHandler(e, l)
    BY DEF StartHandle, StartHandler, Goto
  <1>2. \A f \in Events, k \in Listeners :
           at'[f][k] = IF f = e /\ k = l THEN "handle" ELSE at[f][k]
    BY <1>1 DEF ListenerInv, ListenerTypeOK
  <1>3. /\ UNCHANGED <<subscribe, idx, pub>>
        /\ \A f \in Events, k \in Listeners :
              run'[f][k] = IF f = e /\ k = l THEN "running" ELSE run[f][k]
    BY <1>1, HandlerOnBus
  <1>4. /\ Over(l)' <=> Over(l)
        /\ lis[l].done \/ auto[l] = "waiting" => lis[l].closed
        /\ lis[l].chClosed /\ leave[l] = "no" => Len(sent[l]) = Count[l]
    BY <1>1 DEF Over, Turn, OnTheBus, ClosedFull
  <1>5. Coming(e, l)' <=> Coming(e, l)
    <2>1. at[e][l] = "out"
      BY <1>1 DEF Turn, OnTheBus
    <2> QED
      BY <1>1, <1>2, <1>3, <1>4, <2>1 DEF Coming
  <1>m. Moves(e, l, "handle", "running")
    BY <1>2, <1>3 DEF Moves
  <1> QED
    BY <1>1, <1>m, <1>3, <1>4, <1>5, TurnNoSend

\* handle goes on unless its listener is over.
LEMMA TurnHandle ==
  ASSUME BusInv, ListenerInv, Turn, NEW e \in Events, NEW l \in Listeners, Handle(e, l)
  PROVE  Turn'
  <1>1. /\ UNCHANGED <<mu, sent, taken, leave, auto>> /\ at[e][l] = "handle"
        /\ run[e][l] = "running"
    BY DEF Handle, Turn, OnTheBus
  <1>2. lis \in [Listeners -> Fields] /\ lis[l] \in Fields /\ Count[l] \in Nat
    BY ListenerConstants DEF ListenerInv, ListenerTypeOK
  <1>3. /\ lis[l].done \/ auto[l] = "waiting" => lis[l].closed
        /\ lis[l].chClosed /\ leave[l] = "no" => Len(sent[l]) = Count[l]
    BY DEF Turn, OnTheBus, ClosedFull
  <1>4. CASE HandleReturns(e, l)
    <2>1. at' = [at EXCEPT ![e][l] = "out"] /\ HandlerEnds(e, l) /\ ~StartHandler(e, l)
      BY <1>1, <1>4 DEF HandleReturns, Goto, StartHandler
    <2>2. \A f \in Events, k \in Listeners :
             at'[f][k] = IF f = e /\ k = l THEN "out" ELSE at[f][k]
      BY <2>1 DEF ListenerInv, ListenerTypeOK
    <2>3. /\ UNCHANGED <<subscribe, idx, pub>>
          /\ \A f \in Events, k \in Listeners :
                run'[f][k] = IF f = e /\ k = l THEN "none" ELSE run[f][k]
      BY <2>1, HandlerOnBus
    <2>4. ~Coming(e, l)'
      BY <2>2, <2>3 DEF Coming
    <2>5. /\ \A k \in Listeners : k # l => lis'[k] = lis[k]
          /\ lis'[l].closed = lis[l].closed /\ lis'[l].done = lis[l].done
          /\ lis'[l].chClosed = lis[l].chClosed
          /\ lis' = lis \/ lis'[l].received = lis[l].received + 1
      BY <1>2 DEF Handle, Fields
    <2>6. Over(l)
      <3>1. at'[e][l] = "out"
        BY <2>2
      <3>2. lis[l].closed \/ (IsBounded(l) /\ ~(lis[l].received < Count[l]))
        <4>1. at' # [at EXCEPT ![e][l] = "select"] /\ at' # [at EXCEPT ![e][l] = "lock"]
          BY <3>1 DEF ListenerInv, ListenerTypeOK
        <4> QED
          BY <1>2, <4>1 DEF Handle, Goto
      <3> QED
        BY <1>2, <3>2 DEF Over, Fields
    <2>7. Over(l)'
      BY <1>2, <2>5, <2>6 DEF Over, Fields, IsBounded
    <2>m. Moves(e, l, "out", "none")
      BY <2>2, <2>3 DEF Moves
    <2> QED
      BY <1>1, <1>3, <2>m, <2>3, <2>4, <2>5, <2>7, TurnNoSend
  <1>5. CASE ~HandleReturns(e, l)
    <2>1. /\ ~lis[l].closed /\ UNCHANGED busVars
          /\ \/ at' = [at EXCEPT ![e][l] = "select"] /\ lis' = lis /\ ~IsBounded(l)
             \/ /\ at' = [at EXCEPT ![e][l] = "lock"] /\ lis[l].received < Count[l]
                /\ lis' = [lis EXCEPT ![l].received = @ + 1]
      BY <1>5 DEF Handle, Goto
    <2>2. PICK pos \in {"select", "lock"} :
              \A f \in Events, k \in Listeners :
                 at'[f][k] = IF f = e /\ k = l THEN pos ELSE at[f][k]
      BY <2>1 DEF ListenerInv, ListenerTypeOK
    <2>3. /\ UNCHANGED <<subscribe, idx, pub>>
          /\ \A f \in Events, k \in Listeners :
                run'[f][k] = IF f = e /\ k = l THEN "running" ELSE run[f][k]
      BY <1>1, <2>1 DEF busVars, subscriptions, handlers, life
    <2>4. ~Over(l)
      BY <1>2, <2>1 DEF Over, Fields
    <2>5. Coming(e, l) /\ Coming(e, l)'
      BY <1>1, <2>2, <2>4 DEF Coming
    <2>6. /\ \A k \in Listeners : k # l => lis'[k] = lis[k]
          /\ lis'[l].closed = lis[l].closed /\ lis'[l].done = lis[l].done
          /\ lis'[l].chClosed = lis[l].chClosed
      BY <1>2, <2>1 DEF Fields
    <2>m. Moves(e, l, pos, "running")
      BY <2>2, <2>3 DEF Moves
    <2> QED
      BY <1>1, <1>3, <2>m, <2>3, <2>4, <2>5, <2>6, TurnNoSend
  <1> QED
    BY <1>4, <1>5

\* handle returns without a send, and its listener is over.
LEMMA TurnReturns ==
  ASSUME BusInv, ListenerInv, Turn, NEW e \in Events, NEW l \in Listeners, HandleReturns(e, l),
         UNCHANGED <<sent, leave>>,
         \A k \in Listeners : k # l => lis'[k] = lis[k] /\ auto'[k] = auto[k],
         Over(l) => Over(l)', lis[l].closed => lis'[l].closed,
         lis'[l].done \/ auto'[l] = "waiting" => lis'[l].closed,
         lis'[l].chClosed /\ leave[l] = "no" => Len(sent[l]) = Count[l],
         Coming(e, l) => Over(l)'
  PROVE  Turn'
  <1>1. /\ at' = [at EXCEPT ![e][l] = "out"] /\ HandlerEnds(e, l)
        /\ run[e][l] # "spawned" /\ run[e][l] # "none" /\ ~StartHandler(e, l)
    BY DEF HandleReturns, Goto, StartHandler, HandlerEnds
  <1>2. \A f \in Events, k \in Listeners :
           at'[f][k] = IF f = e /\ k = l THEN "out" ELSE at[f][k]
    BY <1>1 DEF ListenerInv, ListenerTypeOK
  <1>3. /\ UNCHANGED <<subscribe, idx, pub>>
        /\ \A f \in Events, k \in Listeners :
              run'[f][k] = IF f = e /\ k = l THEN "none" ELSE run[f][k]
    BY <1>1, HandlerOnBus
  <1>4. ~Coming(e, l)'
    BY <1>2, <1>3 DEF Coming
  <1>m. Moves(e, l, "out", "none")
    BY <1>2, <1>3 DEF Moves
  <1> QED
    BY <1>1, <1>m, <1>3, <1>4, TurnNoSend

\* A send of an unbounded listener, or its end by done.
LEMMA TurnSendUnbounded ==
  ASSUME BusInv, ListenerInv, Turn, NEW e \in Events, NEW l \in Listeners, SendUnbounded(e, l)
  PROVE  Turn'
  <1>1. /\ UNCHANGED <<lis, mu, taken, leave, auto>> /\ at[e][l] = "select" /\ HandleReturns(e, l)
    BY DEF SendUnbounded
  <1>2. /\ lis[l].done \/ auto[l] = "waiting" => lis[l].closed
        /\ lis[l].chClosed /\ leave[l] = "no" => Len(sent[l]) = Count[l]
    BY DEF Turn, OnTheBus, ClosedFull
  <1>3. CASE sent' = sent
    <2>1. lis[l].done
      <3>1. sent' # [sent EXCEPT ![l] = Append(@, e)]
        <4>1. sent[l] \in Seq(Events) /\ Len(Append(sent[l], e)) # Len(sent[l])
          BY DEF ListenerInv, ListenerTypeOK
        <4>2. sent \in [Listeners -> Seq(Events)]
          BY DEF ListenerInv, ListenerTypeOK
        <4> QED
          BY <1>3, <4>1, <4>2
      <3> QED
        BY <3>1 DEF SendUnbounded
    <2>2. Over(l) /\ Over(l)'
      BY <1>1, <1>2, <2>1 DEF Over
    <2> QED
      BY <1>1, <1>2, <1>3, <2>2, TurnReturns
  <1>4. CASE sent' # sent
    <2>1. sent' = [sent EXCEPT ![l] = Append(@, e)]
      BY <1>4 DEF SendUnbounded
    <2>2. at' = [at EXCEPT ![e][l] = "out"] /\ HandlerEnds(e, l) /\ ~StartHandler(e, l)
      BY <1>1 DEF HandleReturns, Goto, HandlerEnds, StartHandler
    <2>3. \A f \in Events, k \in Listeners :
             at'[f][k] = IF f = e /\ k = l THEN "out" ELSE at[f][k]
      BY <2>2 DEF ListenerInv, ListenerTypeOK
    <2>4. /\ UNCHANGED <<subscribe, idx, pub>>
          /\ \A f \in Events, k \in Listeners :
                run'[f][k] = IF f = e /\ k = l THEN "none" ELSE run[f][k]
      BY <2>2, HandlerOnBus
    <2>m. Moves(e, l, "out", "none")
      BY <2>3, <2>4 DEF Moves
    <2> QED
      BY <1>1, <2>1, <2>m, <2>4, TurnSend
  <1> QED
    BY <1>3, <1>4

\* sendMu, and closed under it.
LEMMA TurnLockSend ==
  ASSUME BusInv, ListenerInv, Turn, NEW e \in Events, NEW l \in Listeners, LockSend(e, l)
  PROVE  Turn'
  <1>1. UNCHANGED <<lis, sent, taken, leave, auto>> /\ at[e][l] = "lock" /\ run[e][l] = "running"
    BY DEF LockSend, Turn, OnTheBus
  <1>2. /\ lis[l].done \/ auto[l] = "waiting" => lis[l].closed
        /\ lis[l].chClosed /\ leave[l] = "no" => Len(sent[l]) = Count[l]
        /\ Over(l)' <=> Over(l)
    BY <1>1 DEF Turn, OnTheBus, ClosedFull, Over
  <1>3. CASE lis[l].closed
    <2>1. HandleReturns(e, l) /\ Over(l)
      BY <1>3 DEF LockSend, Over
    <2> QED
      BY <1>1, <1>2, <2>1, TurnReturns
  <1>4. CASE ~lis[l].closed
    <2>1. at' = [at EXCEPT ![e][l] = "send"] /\ UNCHANGED busVars
      BY <1>4 DEF LockSend, Goto
    <2>2. \A f \in Events, k \in Listeners :
             at'[f][k] = IF f = e /\ k = l THEN "send" ELSE at[f][k]
      BY <2>1 DEF ListenerInv, ListenerTypeOK
    <2>3. /\ UNCHANGED <<subscribe, idx, pub>>
          /\ \A f \in Events, k \in Listeners :
                run'[f][k] = IF f = e /\ k = l THEN "running" ELSE run[f][k]
      BY <1>1, <2>1 DEF busVars, subscriptions, handlers, life
    <2>4. Coming(e, l) /\ Coming(e, l)'
      BY <1>1, <2>2 DEF Coming
    <2>m. Moves(e, l, "send", "running")
      BY <2>2, <2>3 DEF Moves
    <2> QED
      BY <1>1, <1>2, <2>m, <2>3, <2>4, TurnNoSend
  <1> QED
    BY <1>3, <1>4

\* The holder of sendMu sends.
LEMMA TurnSendBounded ==
  ASSUME BusInv, ListenerInv, Turn, NEW e \in Events, NEW l \in Listeners, SendBounded(e, l)
  PROVE  Turn'
  <1>1. /\ UNCHANGED <<busVars, lis, mu, taken, leave, auto>> /\ at[e][l] = "send"
        /\ sent' = [sent EXCEPT ![l] = Append(@, e)] /\ at' = [at EXCEPT ![e][l] = "sent"]
        /\ run[e][l] = "running"
    BY DEF SendBounded, Goto, Turn, OnTheBus
  <1>2. \A f \in Events, k \in Listeners :
           at'[f][k] = IF f = e /\ k = l THEN "sent" ELSE at[f][k]
    BY <1>1 DEF ListenerInv, ListenerTypeOK
  <1>3. /\ UNCHANGED <<subscribe, idx, pub>>
        /\ \A f \in Events, k \in Listeners :
              run'[f][k] = IF f = e /\ k = l THEN "running" ELSE run[f][k]
    BY <1>1 DEF busVars, subscriptions, handlers, life
  <1>m. Moves(e, l, "sent", "running")
    BY <1>2, <1>3 DEF Moves
  <1> QED
    BY <1>1, <1>m, <1>3, TurnSend

\* The last event closes the channel, with the count.
LEMMA TurnUnlockSend ==
  ASSUME BusInv, ListenerInv, Turn, NEW e \in Events, NEW l \in Listeners, UnlockSend(e, l)
  PROVE  Turn'
  <1>1. UNCHANGED <<sent, taken, leave>> /\ at[e][l] = "sent" /\ HandleReturns(e, l)
    BY DEF UnlockSend
  <1>2. ~Coming(e, l)
    <2>1. run[e][l] = "running"
      BY <1>1 DEF Turn, OnTheBus
    <2> QED
      BY <1>1, <2>1 DEF Coming
  <1>3. lis \in [Listeners -> Fields] /\ lis[l] \in Fields
    BY DEF ListenerInv, ListenerTypeOK
  <1>4. CASE IsLast(l)
    <2>1. /\ lis' = [lis EXCEPT ![l].closed = TRUE, ![l].chClosed = TRUE]
          /\ auto' = [auto EXCEPT ![l] = "waiting"]
      BY <1>4 DEF UnlockSend
    <2>2. /\ \A k \in Listeners : k # l => lis'[k] = lis[k] /\ auto'[k] = auto[k]
          /\ lis'[l].closed
      BY <1>3, <2>1 DEF Fields
    <2>3. Over(l)'
      BY <2>2 DEF Over
    <2>4. Len(sent[l]) = Count[l]
      BY <1>4 DEF IsLast
    <2> QED
      BY <1>1, <1>2, <2>2, <2>3, <2>4, TurnReturns
  <1>5. CASE ~IsLast(l)
    <2>1. lis' = lis /\ auto' = auto
      BY <1>5 DEF UnlockSend
    <2>2. /\ lis[l].done \/ auto[l] = "waiting" => lis[l].closed
          /\ lis[l].chClosed /\ leave[l] = "no" => Len(sent[l]) = Count[l]
          /\ Over(l) => Over(l)'
      BY <2>1 DEF Turn, OnTheBus, ClosedFull, Over
    <2> QED
      BY <1>1, <1>2, <2>1, <2>2, TurnReturns
  <1> QED
    BY <1>4, <1>5

\* The consumer and the goroutine that unsubscribes: a listener leaves the bus
\* after it has closed.
LEMMA TurnConsumer ==
  ASSUME BusInv, ListenerInv, Turn, NEW l \in Listeners, ListenerStep(l) \/ Receive(l) \/ Leave(l)
  PROVE  Turn'
  <1>0. UNCHANGED <<at, sent, run, pub, subscribe>>
    BY DEF ListenerStep, PublishSubscription, LeaveBus, CloseCh, UnsubscribeWhenPublished,
           Receive, Leave, Unsubscribe, busVars, subscriptions, handlers, life
  <1>1. lis \in [Listeners -> Fields] /\ lis[l] \in Fields
    BY DEF ListenerInv, ListenerTypeOK
  <1>2. /\ \A k \in Listeners : k # l => /\ lis'[k] = lis[k] /\ auto'[k] = auto[k]
                                         /\ leave'[k] = leave[k]
        /\ lis'[l].received = lis[l].received
        /\ lis[l].closed => lis'[l].closed
        /\ lis'[l].done => lis'[l].closed
        /\ auto'[l] = "waiting" => auto[l] = "waiting"
        /\ lis'[l].chClosed /\ leave'[l] = "no" => lis[l].chClosed /\ leave[l] = "no"
    <2>0. /\ leave \in [Listeners -> {"no", "unsubscribe", "close", "left"}]
          /\ lis[l].done => lis[l].closed
      BY DEF ListenerInv, ListenerTypeOK, Turn, OnTheBus
    <2>1. CASE PublishSubscription(l)
      BY <1>1, <2>0, <2>1 DEF PublishSubscription, Fields
    <2>2. CASE LeaveBus(l)
      BY <2>0, <2>2 DEF LeaveBus
    <2>3. CASE CloseCh(l)
      BY <1>1, <2>0, <2>3 DEF CloseCh, Fields
    <2>4. CASE UnsubscribeWhenPublished(l)
      <3>1. /\ lis' = lis /\ leave' = leave /\ auto[l] = "waiting"
            /\ \A k \in Listeners : k # l => auto'[k] = auto[k]
        BY <2>4 DEF UnsubscribeWhenPublished
      <3> QED
        BY <2>0, <3>1
    <2>5. CASE Receive(l)
      BY <2>0, <2>5 DEF Receive
    <2>6. CASE Leave(l)
      BY <1>1, <2>0, <2>6 DEF Leave, Fields
    <2> QED
      BY <2>1, <2>2, <2>3, <2>4, <2>5, <2>6 DEF ListenerStep
  <1>3. /\ \A k \in Listeners : k # l => (k \in idx' <=> k \in idx)
        /\ l \in idx' => l \in idx
        /\ l \in idx => l \in idx' \/ lis[l].closed
    <2>1. CASE Unsubscribe(l) /\ lis[l].closed
      BY <2>1 DEF Unsubscribe, IndexWithout
    <2>2. CASE UNCHANGED idx
      BY <2>2
    <2>3. (Unsubscribe(l) /\ lis[l].closed) \/ UNCHANGED idx
      <3>1. leave[l] = "unsubscribe" \/ auto[l] = "waiting" => lis[l].closed
        BY DEF ListenerInv, Closing, Turn, OnTheBus
      <3> QED
        BY <3>1 DEF ListenerStep, PublishSubscription, LeaveBus, CloseCh, UnsubscribeWhenPublished,
                    Receive, Leave, busVars, subscriptions
    <2> QED
      BY <2>1, <2>2, <2>3
  <1>4. /\ \A k, f : Sent(k, f)' <=> Sent(k, f)
        /\ \A k, q, n : Due(k, q, n)' <=> Due(k, q, n)
    BY <1>0, SameSent
  <1>5. \A k \in Listeners : Over(k) => Over(k)'
    BY <1>2 DEF Over
  <1>6. \A f \in Events, k \in Listeners : /\ Coming(f, k)' => Coming(f, k)
                                           /\ Coming(f, k) /\ ~Over(k)' => Coming(f, k)'
    BY <1>0, <1>5 DEF Coming
  <1>7. \A p : Publishing(p)' <=> Publishing(p)
    BY <1>0 DEF Publishing
  <1>8. OnceEach' /\ ShownSoFar' /\ \A k \in Listeners : InOrder(sent[k])'
    <2>1. \A k \in Listeners : InOrder(sent[k])'
      BY <1>0, SameOrder DEF Turn
    <2> QED
      BY <1>0, <2>1 DEF Turn, OnceEach, ShownSoFar
  <1>9. ClosedFull'
    BY <1>0, <1>2 DEF Turn, ClosedFull
  <1>10. OnTheBus'
    BY <1>0, <1>2, <1>3 DEF Turn, OnTheBus
  <1>11. ForTheLast' /\ Published'
    BY <1>0, <1>4, <1>7 DEF Turn, ForTheLast, Published
  <1>12. NextInTurn'
    BY <1>0, <1>4, <1>5, <1>6, <1>7 DEF Turn, NextInTurn
  <1>13. NoneMissed'
    <2> SUFFICES ASSUME NEW q \in Publishers, NEW k \in Listeners, NEW m \in 1..MaxEvents,
                        NEW n \in 1..MaxEvents, ~Over(k)', Sent(k, <<q, m>>),
                        n \in pub[q].shown, m < n
                 PROVE  Kept(k, q, n)'
      BY <1>0, <1>4 DEF NoneMissed
    <2>1. Kept(k, q, n) /\ <<q, n>> \in Events
      BY <1>5, EventsAre DEF Turn, NoneMissed
    <2> QED
      BY <1>0, <1>4, <1>6, <1>7, <2>1 DEF Kept
  <1> QED
    BY <1>8, <1>9, <1>10, <1>11, <1>12, <1>13 DEF Turn

\* Every step of the bus and its listeners keeps StreamInv.
LEMMA StreamInvInductive == StreamInv /\ [Next]_vars => StreamInv'
  <1> SUFFICES ASSUME StreamInv, [Next]_vars PROVE StreamInv'
    OBVIOUS
  <1>0. BusInv /\ ListenerInv /\ Turn
    BY DEF StreamInv
  <1>1. BusInv'
    BY <1>0, NextIsBusNext, BusInvInductive
  <1>2. ListenerInv'
    BY <1>0, ListenerInvInductive
  <1>3. CASE BusStep /\ UNCHANGED listenerVars
    <2>1. ASSUME \E p \in Publishers : PublisherStep(p) PROVE Turn'
      BY <1>0, <1>3, <2>1, TurnNextEvent, TurnAdmit, TurnWorker DEF PublisherStep
    <2>2. ASSUME ~\E p \in Publishers : PublisherStep(p) PROVE Turn'
      BY <1>0, <1>3, <2>2, TurnBusSteps DEF BusStep
    <2>3. Turn'
      BY <2>1, <2>2
    <2> QED
      BY <1>1, <1>2, <2>3 DEF StreamInv
  <1>4. CASE \E e \in Events, l \in Listeners : HandleStep(e, l)
    <2>1. Turn'
      BY <1>0, <1>4, TurnStartHandle, TurnHandle, TurnSendUnbounded, TurnLockSend,
         TurnSendBounded, TurnUnlockSend DEF HandleStep
    <2> QED
      BY <1>1, <1>2, <2>1 DEF StreamInv
  <1>5. CASE \E l \in Listeners : ListenerStep(l) \/ Receive(l) \/ Leave(l)
    <2>1. Turn'
      BY <1>0, <1>5, TurnConsumer
    <2> QED
      BY <1>1, <1>2, <2>1 DEF StreamInv
  <1>6. CASE UNCHANGED vars
    <2>1. UNCHANGED <<lis, mu, at, sent, taken, leave, auto, pub, run, subscribe, idx>>
      BY <1>6 DEF vars, busVars, listenerVars, subscriptions, handlers
    <2>2. \A l \in Listeners : /\ l \in idx => subscribe[l] = "done"
                               /\ subscribe[l] = "done" => l \in idx \/ lis[l].closed
      BY <1>0 DEF Turn, OnTheBus
    <2>3. Turn'
      BY <1>0, <2>1, <2>2, UnnoticedStep
    <2> QED
      BY <1>1, <1>2, <2>3 DEF StreamInv
  <1> QED
    BY <1>3, <1>4, <1>5, <1>6 DEF Next

(***************************************************************************)
(* A listener's channel holds each aggregate's events in order, never one  *)
(* twice, and from the first one it saw every event the worker published,  *)
(* whichever the worker passes over and whatever races with it: other      *)
(* publishers, the last event, unsubscription, cancelled jobs, shutdown;   *)
(* and a bounded channel the consumer has not left closes with exactly     *)
(* `count' events (asynx.go:315-330, 382-387; aggregate_pool.go:117-165).  *)
(***************************************************************************)
THEOREM ListenersSeeTheStream == Spec => []SeesTheStream
  <1>1. Init => StreamInv
    <2>1. Init => BusInv
      BY BusInitInv DEF Init
    <2> QED
      BY <2>1, ListenerInitInv, TurnInit DEF StreamInv
  <1>2. StreamInv => SeesTheStream
    BY DEF StreamInv, Turn, ClosedFull, ListenerInv, Closing, SeesTheStream
  <1> QED
    BY <1>1, <1>2, StreamInvInductive, PTL DEF Spec

=============================================================================
