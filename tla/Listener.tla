------------------------------ MODULE Listener ------------------------------
(***************************************************************************)
(* Listen and SubscribeWait (asynx.go): channels fed by subscriptions of   *)
(* the live bus.  A listener's handle is a handler of LiveBus: its steps   *)
(* are taken while the bus has the handler running, and its end is the     *)
(* bus's HandlerEnds.  The other subscriptions have handlers of the        *)
(* application, which take as long as they like and may panic.             *)
(*                                                                         *)
(* One action is one access to the listener's shared state: an atomic, a   *)
(* hold of sendMu, a send, or a call of the bus.                           *)
(***************************************************************************)
EXTENDS LiveBus, Sequences

CONSTANTS
    Listeners,      \* the subscriptions made by Listen
    Count,          \* Count[l]: the count given to Listen, 0 when unbounded
    Buffer          \* capacity of an unbounded listener's channel (16 in the code)

ASSUME ListenerConstants ==
    /\ Listeners \subseteq Subs \ (Timed \cup WithFallback)
    /\ Count \in [Listeners -> Nat]
    /\ Buffer \in Nat \ {0}

VARIABLES
    lis,            \* lis[l]: the fields of listener l that handlers and callers share
    mu,             \* mu[l]: sendMu, the event whose handler holds it
    at,             \* at[e][l]: where handle is with event e
    sent,           \* sent[l]: the events sent on the channel, in order
    taken,          \* taken[l]: how many of them the consumer has received
    leave,          \* leave[l]: where the consumer's call of unsubscribe is
    auto            \* auto[l]: the goroutine unsubscribeWhenPublished

listenerVars == <<lis, mu, at, sent, taken, leave, auto>>
vars == <<busVars, listenerVars>>

Plain == Subs \ Listeners
IsBounded(l) == Count[l] > 0
Capacity(l) == IF IsBounded(l) THEN Count[l] ELSE Buffer
HasRoom(l) == Len(sent[l]) - taken[l] < Capacity(l)

Free == <<>>

Goto(e, l, pos) == at' = [at EXCEPT ![e][l] = pos]

\* handle returns.
HandleReturns(e, l) ==
    /\ Goto(e, l, "out")
    /\ HandlerEnds(e, l)

-----------------------------------------------------------------------------
(* handle, in the goroutine of the event's handler.                        *)

StartHandle(e, l) ==
    /\ StartHandler(e, l)
    /\ Goto(e, l, "handle")
    /\ UNCHANGED <<lis, mu, sent, taken, leave, auto>>

\* The load of closed and received.Add; closed is tested again under sendMu.
Handle(e, l) ==
    /\ at[e][l] = "handle"
    /\ \/ /\ lis[l].closed
          /\ HandleReturns(e, l)
          /\ UNCHANGED lis
       \/ /\ ~lis[l].closed /\ ~IsBounded(l)
          /\ Goto(e, l, "select")
          /\ UNCHANGED <<busVars, lis>>
       \/ /\ ~lis[l].closed /\ IsBounded(l)
          /\ lis' = [lis EXCEPT ![l].received = @ + 1]
          /\ IF lis[l].received < Count[l]
             THEN Goto(e, l, "lock") /\ UNCHANGED busVars
             ELSE HandleReturns(e, l)
    /\ UNCHANGED <<mu, sent, taken, leave, auto>>

\* Slip: only the channel can release a blocked sender.
SendUnboundedBlocks(e, l) ==
    /\ at[e][l] = "select"
    /\ HasRoom(l) /\ sent' = [sent EXCEPT ![l] = Append(@, e)]
    /\ HandleReturns(e, l)
    /\ UNCHANGED <<lis, mu, taken, leave, auto>>

\* Slip: an event for which there is no room is dropped.
SendUnboundedOrDrop(e, l) ==
    /\ at[e][l] = "select"
    /\ \/ HasRoom(l) /\ sent' = [sent EXCEPT ![l] = Append(@, e)]
       \/ (lis[l].done \/ ~HasRoom(l)) /\ UNCHANGED sent
    /\ HandleReturns(e, l)
    /\ UNCHANGED <<lis, mu, taken, leave, auto>>

SendUnbounded(e, l) ==
    /\ at[e][l] = "select"
    /\ \/ HasRoom(l) /\ sent' = [sent EXCEPT ![l] = Append(@, e)]
       \/ lis[l].done /\ UNCHANGED sent
    /\ HandleReturns(e, l)
    /\ UNCHANGED <<lis, mu, taken, leave, auto>>

\* deliver: sendMu, then closed.
LockSend(e, l) ==
    /\ at[e][l] = "lock"
    /\ mu[l] = Free
    /\ \/ /\ lis[l].closed
          /\ HandleReturns(e, l)
          /\ UNCHANGED mu
       \/ /\ ~lis[l].closed
          /\ mu' = [mu EXCEPT ![l] = e]
          /\ Goto(e, l, "send")
          /\ UNCHANGED busVars
    /\ UNCHANGED <<lis, sent, taken, leave, auto>>

SendBounded(e, l) ==
    /\ at[e][l] = "send"
    /\ HasRoom(l)
    /\ sent' = [sent EXCEPT ![l] = Append(@, e)]
    /\ Goto(e, l, "sent")
    /\ UNCHANGED <<busVars, lis, mu, taken, leave, auto>>

\* delivered counts the events sent.
IsLast(l) == Len(sent[l]) = Count[l]

\* The last event closes the channel, and a goroutine is to unsubscribe.
UnlockSend(e, l) ==
    /\ at[e][l] = "sent"
    /\ mu' = [mu EXCEPT ![l] = Free]
    /\ \/ /\ IsLast(l)
          /\ lis' = [lis EXCEPT ![l].closed = TRUE, ![l].chClosed = TRUE]
          /\ auto' = [auto EXCEPT ![l] = "waiting"]
       \/ /\ ~IsLast(l)
          /\ UNCHANGED <<lis, auto>>
    /\ HandleReturns(e, l)
    /\ UNCHANGED <<sent, taken, leave>>

HandleStep(e, l) ==
    \/ StartHandle(e, l) \/ Handle(e, l) \/ SendUnbounded(e, l)
    \/ LockSend(e, l) \/ SendBounded(e, l) \/ UnlockSend(e, l)

-----------------------------------------------------------------------------
(* Listen, and the consumer of its channel.                                *)

\* publishSubscription, after Subscribe: the id is there, and Listen returns.
PublishSubscription(l) ==
    /\ subscribe[l] = "done" /\ ~lis[l].ready
    /\ mu[l] = Free
    /\ lis' = [lis EXCEPT ![l].ready = TRUE]
    /\ UNCHANGED <<busVars, mu, at, sent, taken, leave, auto>>

Receive(l) ==
    /\ lis[l].ready /\ leave[l] = "no"
    /\ taken[l] < Len(sent[l])
    /\ taken' = [taken EXCEPT ![l] = @ + 1]
    /\ UNCHANGED <<busVars, lis, mu, at, sent, leave, auto>>

\* unsubscribe: the compare-and-swap, which a closed listener loses, and done.
Leave(l) ==
    /\ lis[l].ready /\ leave[l] = "no"
    /\ \/ /\ lis[l].closed
          /\ leave' = [leave EXCEPT ![l] = "left"]
          /\ UNCHANGED lis
       \/ /\ ~lis[l].closed
          /\ lis' = [lis EXCEPT ![l].closed = TRUE, ![l].done = TRUE]
          /\ leave' = [leave EXCEPT ![l] = "unsubscribe"]
    /\ UNCHANGED <<busVars, mu, at, sent, taken, auto>>

LeaveBus(l) ==
    /\ leave[l] = "unsubscribe"
    /\ Unsubscribe(l)
    /\ leave' = [leave EXCEPT ![l] = IF IsBounded(l) THEN "close" ELSE "left"]
    /\ UNCHANGED <<lis, mu, at, sent, taken, auto>>

\* Slip: the channel is closed without sendMu.
CloseChUnlocked(l) ==
    /\ leave[l] = "close"
    /\ lis' = [lis EXCEPT ![l].chClosed = TRUE]
    /\ leave' = [leave EXCEPT ![l] = "left"]
    /\ UNCHANGED <<busVars, mu, at, sent, taken, auto>>

\* closeChLocked: a channel that is closed stays so.
CloseCh(l) ==
    /\ leave[l] = "close"
    /\ mu[l] = Free
    /\ lis' = [lis EXCEPT ![l].chClosed = TRUE]
    /\ leave' = [leave EXCEPT ![l] = "left"]
    /\ UNCHANGED <<busVars, mu, at, sent, taken, auto>>

\* Slip: the goroutine gives up when the id is not there yet.
UnsubscribeIfPublished(l) ==
    /\ auto[l] = "waiting"
    /\ IF lis[l].ready THEN Unsubscribe(l) ELSE UNCHANGED busVars
    /\ auto' = [auto EXCEPT ![l] = "done"]
    /\ UNCHANGED <<lis, mu, at, sent, taken, leave>>

UnsubscribeWhenPublished(l) ==
    /\ auto[l] = "waiting"
    /\ lis[l].ready
    /\ Unsubscribe(l)
    /\ auto' = [auto EXCEPT ![l] = "done"]
    /\ UNCHANGED <<lis, mu, at, sent, taken, leave>>

ListenerStep(l) ==
    PublishSubscription(l) \/ LeaveBus(l) \/ CloseCh(l) \/ UnsubscribeWhenPublished(l)

-----------------------------------------------------------------------------
Init ==
    /\ BusInit
    /\ lis = [l \in Listeners |-> [received |-> 0, closed |-> FALSE, done |-> FALSE,
                                   ready |-> FALSE, chClosed |-> FALSE]]
    /\ mu = [l \in Listeners |-> Free]
    /\ at = [e \in Events |-> [l \in Listeners |-> "out"]]
    /\ sent = [l \in Listeners |-> <<>>]
    /\ taken = [l \in Listeners |-> 0]
    /\ leave = [l \in Listeners |-> "no"]
    /\ auto = [l \in Listeners |-> "no"]

\* The bus, but for the handlers and the unsubscription of the listeners.
BusStep ==
    \/ \E s \in Subs : CheckOpen(s) \/ AddSubscription(s)
    \/ \E s \in Plain : Unsubscribe(s)
    \/ \E p \in Publishers : PublisherStep(p)
    \/ \E e \in Events, s \in Plain : HandlerStep(e, s)
    \/ LifeStep

Next ==
    \/ BusStep /\ UNCHANGED listenerVars
    \/ \E e \in Events, l \in Listeners : HandleStep(e, l)
    \/ \E l \in Listeners : ListenerStep(l) \/ Receive(l) \/ Leave(l)

Spec == Init /\ [][Next]_vars

\* What happens by itself: the steps of goroutines that have been started.
Progress ==
    \/ /\ \/ \E s \in Subs : AddSubscription(s)
          \/ \E p \in Publishers : Admit(p) \/ PublishReturns(p)
          \/ \E e \in Events, s \in Plain : StartHandler(e, s) \/ HandlerEnds(e, s)
       /\ UNCHANGED listenerVars
    \/ \E e \in Events, l \in Listeners : HandleStep(e, l)
    \/ \E l \in Listeners : ListenerStep(l)
    \/ \E l \in Listeners : ~IsBounded(l) /\ Receive(l)

(***************************************************************************)
(* The goroutines of the program run, handlers of the application return   *)
(* (the bus cannot interrupt them), and the consumer of an unbounded       *)
(* channel reads it until it unsubscribes.  Nobody has to read a bounded   *)
(* channel, to unsubscribe, to publish, or to shut down.  Each of these    *)
(* goroutines takes finitely many steps, so that weak fairness of them     *)
(* together is no more than weak fairness of each.                         *)
(***************************************************************************)
Fairness == WF_vars(Progress)

FairSpec == Spec /\ Fairness

-----------------------------------------------------------------------------
(***************************************************************************)
(* A handler about to send on a bounded channel is the only one, the       *)
(* channel is open and has room: no send on a closed channel brings the    *)
(* process down and none blocks while it holds sendMu, although the last   *)
(* event, the consumer and the late publication of the subscription id     *)
(* all touch the channel (asynx.go:303-367).  An unbounded channel is      *)
(* never closed.                                                           *)
(***************************************************************************)
SendsAreSafe ==
    \A e \in Events, l \in Listeners :
        /\ at[e][l] = "send" => mu[l] = e /\ ~lis[l].chClosed /\ HasRoom(l)
        /\ at[e][l] = "select" => ~lis[l].chClosed

\* A publisher's events on a channel: one after the other, and none of those that
\* it published in between is left out.
InOrder(q) ==
    \A i, j \in DOMAIN q : i < j /\ q[i][1] = q[j][1] =>
        /\ q[i][2] < q[j][2]
        /\ \A n \in pub[q[i][1]].shown \cap (q[i][2]..q[j][2]) :
                \E k \in i..j : q[k] = <<q[i][1], n>>

(***************************************************************************)
(* What a listener sees: each aggregate's events in order, never one       *)
(* twice, and from the first one on every event its worker published, so   *)
(* that the only gaps are the events the worker passed over, those that    *)
(* came while the aggregate was parked and those of cancelled jobs ("a     *)
(* live stream is never repeated or sent out of order; it just misses what *)
(* was committed while parked", guarantees.md:134); and, when it is        *)
(* bounded and the consumer has not unsubscribed, a channel that closes    *)
(* with exactly `count' events, so that SubscribeWait never returns an     *)
(* event that is not there (asynx.go:315-330, 382-387).                    *)
(***************************************************************************)
SeesTheStream ==
    \A l \in Listeners :
        /\ InOrder(sent[l])
        /\ IsBounded(l) => Len(sent[l]) <= Count[l]
        /\ lis[l].chClosed /\ leave[l] = "no" => Len(sent[l]) = Count[l]

(***************************************************************************)
(* A listener that has had its events, or whose consumer has left, is      *)
(* taken off the bus, also when its last event came before Listen had the  *)
(* id of its subscription (asynx.go:332-335).                              *)
(***************************************************************************)
ListenerIsRemoved ==
    \A l \in Listeners : lis[l].closed ~> (l \notin idx)

(***************************************************************************)
(* PublishSync returns: a worker is never left waiting for a live handler, *)
(* not for one that is blocked on the channel of a consumer that has       *)
(* unsubscribed, nor for a bounded listener nobody reads.                  *)
(***************************************************************************)
PublishSyncReturns ==
    \A p \in Aggs : pub[p].st = "wait" ~> pub[p].st # "wait"

=============================================================================
