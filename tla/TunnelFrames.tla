----------------------------- MODULE TunnelFrames -----------------------------
(***************************************************************************)
(* The requests that are multiplexed over a live tunnel                     *)
(* (src/tinycloud-node-server/src/tunnel/connection.rs, protocol.rs): the   *)
(* connection loop reassembles `request` and `requestBody` frames and       *)
(* spawns one task per complete request; the task calls the loopback API    *)
(* and writes `response` and `responseBody` frames back.  The tasks share    *)
(* the sink of the socket and lock it for one frame at a time.              *)
(*                                                                         *)
(* A body is its length.  External: the relay that sends the frames, and     *)
(* the loopback API that answers.                                            *)
(***************************************************************************)
EXTENDS Naturals, Sequences, FiniteSets, Functions

CONSTANTS
    Ids,         \* request ids
    MaxPending,  \* max_pending_requests
    MaxBody,     \* DEFAULT_MAX_BODY_BYTES
    Chunk,       \* BODY_CHUNK_BYTES
    Upstream     \* [Ids -> the lengths the loopback API may answer with]

ASSUME FramesAssumption ==
    /\ MaxPending \in Nat \ {0}
    /\ MaxBody \in Nat
    /\ Chunk \in Nat \ {0}

VARIABLES
    sock,     \* names the socket: counts the sockets that opened and ended
    inbox,    \* frames the relay will still send on this socket
    pending,  \* [ids being reassembled -> length of the body so far]
    tasks,    \* spawned tasks that have not ended, of this and earlier sockets
    out,      \* frames written to the socket
    called    \* history: the bodies the loopback API was called with

frameVars == <<sock, inbox, pending, tasks, out, called>>

\* What the relay sends.  A path is the set of what is wrong with it.
Frame ==
    [kind : {"request"}, id : Ids, path : SUBSET {"no_slash", "scheme", "space_or_control"}]
    \cup [kind : {"body"}, id : Ids, size : Nat, done : BOOLEAN, decodes : BOOLEAN]
    \cup [kind : {"error"}, id : Ids]

Nothing == [i \in {} |-> 0]

FramesInit ==
    /\ sock = 0
    /\ inbox = << >>
    /\ pending = Nothing
    /\ tasks = {}
    /\ out = << >>
    /\ called = {}

\* The socket is gone: the loop drops what it was reassembling.  The tasks go
\* on, but what they still write goes nowhere.
SocketEnds ==
    /\ inbox' = << >>
    /\ pending' = Nothing
    /\ out' = << >>
    /\ sock' = sock + 1
    /\ UNCHANGED <<tasks, called>>

\* The runtime is gone, and the tasks with it.
RuntimeEnds ==
    /\ inbox' = << >>
    /\ pending' = Nothing
    /\ out' = << >>
    /\ tasks' = {}
    /\ UNCHANGED <<sock, called>>

SocketOpens(frames) ==
    /\ sock' = sock + 1
    /\ inbox' = frames
    /\ UNCHANGED <<pending, tasks, out, called>>

Without(id) == [i \in DOMAIN pending \ {id} |-> pending[i]]
With(id, n) == [i \in DOMAIN pending \cup {id} |-> IF i = id THEN n ELSE pending[i]]

ErrorTask(id) == [sock |-> sock, id |-> id, pc |-> "error", left |-> 0]
ServeTask(id, body) == [sock |-> sock, id |-> id, pc |-> "call", left |-> body]

-----------------------------------------------------------------------------
(* handle_frame *)

validate_request_path(path) == path \cap {"no_slash", "scheme", "space_or_control"} = {}

Room == Cardinality(DOMAIN pending) < MaxPending

\* A request head: refused for its path or because too many are pending.
OnRequest(f) ==
    /\ f.kind = "request"
    /\ IF validate_request_path(f.path) /\ Room
       THEN pending' = With(f.id, 0) /\ UNCHANGED tasks
       ELSE tasks' = tasks \cup {ErrorTask(f.id)} /\ UNCHANGED pending

\* A body chunk of an id that is not pending is ignored; one that does not
\* decode or makes the body too long ends the request.
Extended(id, n) == pending[id] + n
Fits(id, n) == Extended(id, n) <= MaxBody

OnBody(f) ==
    /\ f.kind = "body"
    /\ \/ /\ f.id \notin DOMAIN pending
          /\ UNCHANGED <<pending, tasks>>
       \/ /\ f.id \in DOMAIN pending
          /\ f.size > 0 /\ ~(f.decodes /\ Fits(f.id, f.size))
          /\ pending' = Without(f.id)
          /\ tasks' = tasks \cup {ErrorTask(f.id)}
       \/ /\ f.id \in DOMAIN pending
          /\ f.size = 0 \/ (f.decodes /\ Fits(f.id, f.size))
          /\ IF f.done
             THEN /\ pending' = Without(f.id)
                  /\ tasks' = tasks \cup {ServeTask(f.id, Extended(f.id, f.size))}
             ELSE pending' = With(f.id, Extended(f.id, f.size)) /\ UNCHANGED tasks

OnError(f) ==
    /\ f.kind = "error"
    /\ pending' = Without(f.id)
    /\ UNCHANGED tasks

handle_frame ==
    /\ inbox # << >>
    /\ inbox' = Tail(inbox)
    /\ OnRequest(Head(inbox)) \/ OnBody(Head(inbox)) \/ OnError(Head(inbox))
    /\ UNCHANGED <<sock, out, called>>

-----------------------------------------------------------------------------
(* serve_request and spawn_send_error *)

Becomes(t, u) == tasks' = (tasks \ {t}) \cup {u}
Ends(t) == tasks' = tasks \ {t}
Write(t, f) == out' = IF t.sock = sock THEN Append(out, f) ELSE out

\* The method is no method, or the loopback API does not answer.
CallFails(t) ==
    /\ t.pc = "call"
    /\ Becomes(t, [t EXCEPT !.pc = "error"])
    /\ UNCHANGED <<sock, inbox, pending, out, called>>

\* It answers with a body of n bytes; a body that is too long is an error.
CallAnswers(t, n) ==
    /\ t.pc = "call"
    /\ called' = called \cup {[id |-> t.id, body |-> t.left]}
    /\ Becomes(t, IF n <= MaxBody THEN [t EXCEPT !.pc = "head", !.left = n]
                  ELSE [t EXCEPT !.pc = "error"])
    /\ UNCHANGED <<sock, inbox, pending, out>>

\* (mutant of SendError: the failure is only logged)
FailSilently(t) ==
    /\ t.pc = "error"
    /\ Ends(t)
    /\ UNCHANGED <<sock, inbox, pending, out, called>>

SendError(t) ==
    /\ t.pc = "error"
    /\ Write(t, [id |-> t.id, kind |-> "error", size |-> 0, done |-> TRUE])
    /\ Ends(t)
    /\ UNCHANGED <<sock, inbox, pending, called>>

SendHead(t) ==
    /\ t.pc = "head"
    /\ Write(t, [id |-> t.id, kind |-> "response", size |-> t.left, done |-> FALSE])
    /\ Becomes(t, [t EXCEPT !.pc = "body"])
    /\ UNCHANGED <<sock, inbox, pending, called>>

\* The length of the next chunk, and whether it is the last one.
ChunkOf(left) == IF left < Chunk THEN left ELSE Chunk
LastChunk(left) == left <= Chunk

SendChunk(t) ==
    /\ t.pc = "body"
    /\ Write(t, [id |-> t.id, kind |-> "body", size |-> ChunkOf(t.left), done |-> LastChunk(t.left)])
    /\ IF LastChunk(t.left) THEN Ends(t)
       ELSE Becomes(t, [t EXCEPT !.left = @ - ChunkOf(t.left)])
    /\ UNCHANGED <<sock, inbox, pending, called>>

TaskStep(t) ==
    \/ CallFails(t)
    \/ \E n \in Upstream[t.id] : CallAnswers(t, n)
    \/ SendError(t) \/ SendHead(t) \/ SendChunk(t)

TasksStep == \E t \in tasks : TaskStep(t)

-----------------------------------------------------------------------------
(* What the relay may rely on *)

FramesOf(id) == SelectSeq(out, LAMBDA f : f.id = id)

\* What the task of one request writes is never torn apart or mixed up by the
\* tasks that share the sink: an error alone, or the head of the response and
\* then its body in full chunks, the last one marked, adding up to its length
\* (serve_request, send_frame).
ResponsesWellFormed ==
    \A id \in Ids :
        LET fs == FramesOf(id)
            rest == IF fs = << >> THEN << >> ELSE Tail(fs)
            sent == FoldFunction(LAMBDA f, n : f.size + n, 0, rest)
        IN fs = << >> \/ (Len(fs) = 1 /\ fs[1].kind = "error")
           \/ /\ fs[1].kind = "response"
              /\ \A i \in 1..Len(rest) :
                    /\ rest[i].kind = "body"
                    /\ rest[i].done <=> (i = Len(rest) /\ sent = fs[1].size)
                    /\ ~rest[i].done => rest[i].size = Chunk

\* The loopback API is called with the whole body the relay sent for that
\* request, whatever else was interleaved with it (handle_frame).
BodyOf(frames, id) ==
    FoldFunction(LAMBDA f, n : f.size + n, 0, SelectSeq(frames, LAMBDA f : f.id = id /\ f.kind = "body"))

=============================================================================
