-------------------------------- MODULE Stream --------------------------------
(***************************************************************************)
(* The live events of one session: RedisSSEPublisher and the route that    *)
(* streams them.  Publishers push an event on a Redis list and then trim   *)
(* the list, in two calls; the list expires 25 hours after the last event. *)
(* A stream first replays what its client has missed and then polls the    *)
(* list; a client whose connection breaks asks again with the id of the    *)
(* last event it received.                                                 *)
(*                                                                         *)
(* Event ids are drawn at random; here they are numbered in the order in   *)
(* which Redis got them.  Abstracted: what an event says, but for the mark *)
(* of a terminal one; the counters of connections, which nothing calls.    *)
(***************************************************************************)
EXTENDS Naturals, Sequences, FiniteSets, SequencesExt

CONSTANTS
    Clients,
    Publishers,   \* requests that publish
    Retained,     \* MAX_EVENTS_PER_SESSION
    MaxEvents,    \* model bound
    MaxStreams    \* model bound: connections of a client

StreamAssumption ==
    Retained \in Nat \ {0} /\ MaxEvents \in Nat /\ MaxStreams \in Nat \ {0}

VARIABLES
    events,     \* the Redis list of ids
    terminal,   \* the ids of terminal events
    trimming,   \* publishers between their two calls
    dropped,    \* the ids no longer in the list
    stream,     \* the connection of each client
    got,        \* what each client received
    opened      \* how often each client has connected

streamVars == <<events, terminal, trimming, dropped, stream, got, opened>>

NoId == 0
Closed == [pc |-> "closed", after |-> NoId, pending |-> <<>>, ended |-> FALSE]

\* How many events there have been.
Count == Cardinality(dropped) + Len(events)

Init ==
    /\ events = <<>> /\ terminal = {} /\ trimming = {} /\ dropped = {}
    /\ stream = [c \in Clients |-> Closed]
    /\ got = [c \in Clients |-> <<>>]
    /\ opened = [c \in Clients |-> 0]

----------------------------------------------------------------------------
(* RedisSSEPublisher.  *)

\* publish_turn, publish_terminal: rpush.
Push(p) ==
    /\ p \notin trimming /\ Count < MaxEvents
    /\ events' = Append(events, Count + 1)
    /\ terminal' \in {terminal, terminal \cup {Count + 1}}
    /\ trimming' = trimming \cup {p}
    /\ UNCHANGED <<dropped, stream, got, opened>>

\* publish_turn: ltrim, and expire.
Trim(p) ==
    /\ p \in trimming
    /\ trimming' = trimming \ {p}
    /\ events' = IF Len(events) > Retained
                 THEN SubSeq(events, Len(events) - Retained + 1, Len(events)) ELSE events
    /\ dropped' = dropped \cup (ToSet(events) \ ToSet(events'))
    /\ UNCHANGED <<terminal, stream, got, opened>>

\* The publisher's request ends between the two calls.
PublisherDies(p) ==
    /\ p \in trimming
    /\ trimming' = trimming \ {p}
    /\ UNCHANGED <<events, terminal, dropped, stream, got, opened>>

\* 25 hours without an event.
Expire ==
    /\ events # <<>> /\ trimming = {}
    /\ events' = <<>>
    /\ dropped' = dropped \cup ToSet(events)
    /\ UNCHANGED <<terminal, trimming, stream, got, opened>>

\* Mutation check only: the event the client names is sent again.
EventsFrom(id) ==
    IF id \in ToSet(events)
    THEN SelectSeq(events, LAMBDA e : e >= id) ELSE events

\* get_events_since: all of them if the id is not, or no longer, in the list.
EventsSince(id) ==
    IF id \in ToSet(events)
    THEN SubSeq(events, (CHOOSE i \in DOMAIN events : events[i] = id) + 1, Len(events))
    ELSE events

----------------------------------------------------------------------------
(* stream_session.  *)

LastGot(c) == IF got[c] = <<>> THEN NoId ELSE Last(got[c])

\* The generator starts: it reads what it will replay.
Connect(c) ==
    /\ stream[c].pc = "closed" /\ opened[c] < MaxStreams
    /\ opened' = [opened EXCEPT ![c] = @ + 1]
    /\ LET missed == EventsSince(LastGot(c))
       IN  stream' = [stream EXCEPT ![c] =
              [pc |-> "replay", pending |-> missed, ended |-> FALSE,
               after |-> IF missed = <<>> THEN LastGot(c) ELSE Last(missed)]]
    /\ UNCHANGED <<events, terminal, trimming, dropped, got>>

\* A connection that has yielded its first event.  A polled terminal event
\* closes the stream, a replayed one does not.
Yielded(s) ==
    IF s.pc = "poll" /\ Head(s.pending) \in terminal THEN [Closed EXCEPT !.ended = TRUE]
    ELSE [s EXCEPT !.pending = Tail(s.pending),
                   !.after = IF s.pc = "poll" THEN Head(s.pending) ELSE s.after]

\* It yields an event.
Yield(c) ==
    /\ stream[c].pending # <<>>
    /\ got' = [got EXCEPT ![c] = Append(@, Head(stream[c].pending))]
    /\ stream' = [stream EXCEPT ![c] = Yielded(@)]
    /\ UNCHANGED <<events, terminal, trimming, dropped, opened>>

\* Nothing is left to yield: it polls.
Poll(c) ==
    /\ stream[c].pc \in {"replay", "poll"} /\ stream[c].pending = <<>>
    /\ stream' = [stream EXCEPT ![c] =
            [@ EXCEPT !.pc = "poll", !.pending = EventsSince(stream[c].after)]]
    /\ UNCHANGED <<events, terminal, trimming, dropped, got, opened>>

\* The connection breaks, with what was still to be yielded.
Break(c) ==
    /\ stream[c].pc # "closed"
    /\ stream' = [stream EXCEPT ![c] = Closed]
    /\ UNCHANGED <<events, terminal, trimming, dropped, got, opened>>

Next ==
    \/ \E p \in Publishers : Push(p) \/ Trim(p) \/ PublisherDies(p)
    \/ Expire
    \/ \E c \in Clients : Connect(c) \/ Yield(c) \/ Poll(c) \/ Break(c)

Spec == Init /\ [][Next]_streamVars

----------------------------------------------------------------------------
(* Properties. *)

\* Over broken connections, trims and expiries a client gets every event at most
\* once and in order, it skips none that could still be read, and a stream that
\* ends by itself has given the client a terminal event last.
StreamMissesNothing ==
    \A c \in Clients :
        /\ \A i \in 1..Len(got[c]) - 1 : got[c][i] < got[c][i + 1]
        /\ 1..LastGot(c) \subseteq ToSet(got[c]) \cup dropped
        /\ stream[c].ended => LastGot(c) \in terminal
=============================================================================
