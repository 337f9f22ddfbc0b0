----------------------------- MODULE WriteEvents ----------------------------
(***************************************************************************)
(* The events that tell of committed writes, the live bus that carries     *)
(* them to event streams and the delivery rows that carry them to webhooks *)
(* (hooks.rs, tinycloud-core/src/write_hooks.rs).                          *)
(*                                                                         *)
(* A path is the sequence of its segments and a prefix a path; the prefix  *)
(* that is not given is the empty one, which covers every path.            *)
(***************************************************************************)
EXTENDS Integers, Sequences, SequencesExt

CONSTANTS
    Capacity,       \* sse_broadcast_capacity
    MaxStreams      \* max_active_sse_streams

VARIABLES
    bus,            \* what was published so far; the channel holds the end of it
    active,         \* active_streams: the counter
    stream,         \* stream[r]: the state of an event stream
    subs,           \* hook_subscription: the rows, by the request that made them
    outbox          \* hook_delivery: pairs of a subscription and an event

eventVars == <<bus, active, stream, subs, outbox>>

-----------------------------------------------------------------------------
Event(space, service, ability, path, epoch, index) ==
    [space |-> space, service |-> service, ability |-> ability, path |-> path,
     id |-> <<epoch, index>>]

\* A prefix covers itself and what is below it, by whole segments.
Covers(prefix, path) == IsPrefix(prefix, path)

\* matches_scope, and subscription_matches_event for a subscription of the
\* event's space and service.
Matches(event, scope) ==
    /\ event.space = scope.space
    /\ event.service = scope.service
    /\ scope.abilities = {} \/ event.ability \in scope.abilities
    /\ Covers(scope.prefix, event.path)

\* validate_subscription.
AllowedAbilities(service) ==
    CASE service = "kv" -> {"put", "del"}
      [] service \in {"sql", "duckdb"} -> {"write"}
      [] OTHER -> {}

Supported(scope) ==
    AllowedAbilities(scope.service) # {} /\ scope.abilities \subseteq AllowedAbilities(scope.service)

\* is_hook_action_authorized: hook_scope_path lies within the path of a
\* capability for that action on the hooks of the space.
Authorises(cap, action, scope) ==
    /\ cap.action = action
    /\ cap.space = scope.space
    /\ IsPrefix(cap.path, <<scope.service>> \o scope.prefix)

\* The rows of hook_subscription and hook_delivery; a subscription also keeps
\* how many writes were committed when it was made.
Subscription(scope, since) == [scope |-> scope, active |-> TRUE, since |-> since]
Delivery(r, event) == <<r, event>>

ActiveSubs(space) == {r \in DOMAIN subs : subs[r].active /\ subs[r].scope.space = space}

\* list_active_hook_subscriptions: the rows whose prefix is the given one or
\* lies below it; every row of the service when none is given.
Listed(space, service, prefix) ==
    {r \in ActiveSubs(space) :
        subs[r].scope.service = service /\ IsPrefix(prefix, subs[r].scope.prefix)}

\* hook_delivery_id: a row for the same subscription and event is the same.
Deliveries(event, rows) ==
    {Delivery(r, event) : r \in {r \in rows : Matches(event, subs[r].scope)}}

-----------------------------------------------------------------------------
NoStream == [state |-> "none", scopes |-> {}, next |-> 0, from |-> 0, until |-> 0,
             lagged |-> FALSE, got |-> <<>>]

Streaming == {r \in DOMAIN stream : stream[r].state = "open"}

Publish(events) == bus' = bus \o events

\* The oldest event the channel still holds.
Oldest == IF Len(bus) > Capacity THEN Len(bus) - Capacity + 1 ELSE 1

\* try_acquire_stream.
Lease == active < MaxStreams

\* The receiver is created at the end of the channel.
Subscribe(r, scopes, until) ==
    stream' = [stream EXCEPT ![r] =
        [state |-> "open", scopes |-> scopes, next |-> Len(bus) + 1, from |-> Len(bus),
         until |-> until, lagged |-> FALSE, got |-> <<>>]]

\* An event is yielded when a scope of the ticket matches it.
Receive(r) ==
    /\ stream[r].state = "open"
    /\ stream[r].next <= Len(bus)
    /\ stream[r].next >= Oldest
    /\ stream' = [stream EXCEPT
            ![r].next = @ + 1,
            ![r].got = IF \E s \in stream[r].scopes : Matches(bus[stream[r].next], s)
                       THEN Append(@, bus[stream[r].next]) ELSE @]

\* RecvError::Lagged: the receiver goes on with the oldest event that is left.
Lag(r) ==
    /\ stream[r].state = "open"
    /\ stream[r].next < Oldest
    /\ stream' = [stream EXCEPT ![r].next = Oldest, ![r].lagged = TRUE]

\* The stream ends and its lease is dropped.
Close(r) ==
    /\ stream[r].state = "open"
    /\ stream' = [stream EXCEPT ![r].state = "closed"]
    /\ active' = active - 1
=============================================================================
