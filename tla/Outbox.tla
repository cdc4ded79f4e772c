------------------------------- MODULE Outbox -------------------------------
(***************************************************************************)
(* What the library promises a durable subscriber (guarantees 2, 4 and 6   *)
(* of docs/spec/guarantees.md), with no word on queues, workers, parks,    *)
(* resumes, fences, crashes or restarts.  Each aggregate has a stream and  *)
(* owes its subscribers some of the stream's events.  An event is given    *)
(* out only in turn: nothing earlier is owed, and nothing later has been   *)
(* given before.  It is given again as often as it takes ("at least once") *)
(* and is owed until everybody has accepted it.                            *)
(***************************************************************************)
EXTENDS Naturals, Sequences

CONSTANTS
    Aggs,       \* aggregates
    Subs,       \* durable subscribers
    Versions    \* versions of events

VARIABLES
    stream,     \* stream[a]: the kinds of the events of a, by version
    owed,       \* owed[a]: the versions that are still to be delivered
    given,      \* given[a]: the versions that handlers have been called with
    accepted,   \* accepted[a][v]: the subscribers that have accepted event v
    letters     \* letters[a]: the versions the dead-letter handler has taken

outbox == <<stream, owed, given, accepted, letters>>

Nobody == [v \in Versions |-> {}]

Init ==
    /\ stream = [a \in Aggs |-> <<>>]
    /\ owed = [a \in Aggs |-> {}]
    /\ given = [a \in Aggs |-> {}]
    /\ accepted = [a \in Aggs |-> Nobody]
    /\ letters = [a \in Aggs |-> {}]

NewVersion(a) == Len(stream[a]) + 1

\* An event and what it obliges to become facts together.
Publish(a, kind) ==
    /\ stream' = [stream EXCEPT ![a] = Append(@, kind)]
    /\ owed' = IF kind = "durable" THEN [owed EXCEPT ![a] = @ \cup {NewVersion(a)}] ELSE owed
    /\ UNCHANGED <<given, accepted, letters>>

\* A deletion marker takes the place of all that was owed.
MarkDeleted(a) ==
    /\ stream[a] # <<>>
    /\ stream' = [stream EXCEPT ![a] = Append(@, "forget")]
    /\ owed' = [owed EXCEPT ![a] = {NewVersion(a)}]
    /\ UNCHANGED <<given, accepted, letters>>

InTurn(a, v) ==
    /\ \A u \in owed[a] : v <= u
    /\ \A u \in given[a] : u <= v

\* Handlers are called with event v, for the first time or again.
Give(a, v) ==
    /\ v \in DOMAIN stream[a] /\ stream[a][v] # "live"
    /\ InTurn(a, v)
    /\ given' = [given EXCEPT ![a] = @ \cup {v}]
    /\ UNCHANGED <<stream, owed, accepted, letters>>

Accept(a, v, subs) ==
    /\ v \in given[a] /\ InTurn(a, v)
    /\ accepted' = [accepted EXCEPT ![a][v] = @ \cup subs]
    /\ UNCHANGED <<stream, owed, given, letters>>

\* The dead-letter handler takes an event in the place of the subscribers, but no marker.
Letter(a, v) ==
    /\ v \in given[a] /\ InTurn(a, v)
    /\ stream[a][v] = "durable"
    /\ letters' = [letters EXCEPT ![a] = @ \cup {v}]
    /\ UNCHANGED <<stream, owed, given, accepted>>

\* Except for a marker, only acceptance ends what is owed.
Settle(a, v) ==
    /\ v \in owed[a] /\ v \in given[a] /\ InTurn(a, v)
    /\ accepted[a][v] = Subs \/ v \in letters[a]
    /\ owed' = [owed EXCEPT ![a] = @ \ {v}]
    /\ UNCHANGED <<stream, given, accepted, letters>>

\* An aggregate goes when every subscriber has accepted its marker and nothing follows it.
Erase(a) ==
    /\ stream[a] # <<>> /\ stream[a][Len(stream[a])] = "forget"
    /\ owed[a] = {} /\ accepted[a][Len(stream[a])] = Subs
    /\ stream' = [stream EXCEPT ![a] = <<>>]
    /\ given' = [given EXCEPT ![a] = {}]
    /\ accepted' = [accepted EXCEPT ![a] = Nobody]
    /\ letters' = [letters EXCEPT ![a] = {}]
    /\ UNCHANGED owed

Next ==
    \E a \in Aggs :
        \/ \E kind \in {"live", "durable"} : Publish(a, kind)
        \/ MarkDeleted(a) \/ Erase(a)
        \/ \E v \in Versions : Give(a, v) \/ Letter(a, v) \/ Settle(a, v)
        \/ \E v \in Versions, subs \in SUBSET Subs : Accept(a, v, subs)

Spec == Init /\ [][Next]_outbox

=============================================================================
