---------------------------- MODULE CaptureDelivery ----------------------------
(***************************************************************************)
(* How a capture gets from an application to the store and its answer back: *)
(* the SDK client (sdk/go/client.go, sdk/python/.../_client.py and          *)
(* sdk/typescript/src/client.ts) prepares a body once and sends it until it *)
(* is answered or its retries are used up; the server (server/server.go)    *)
(* runs one handler for each request that arrives, and turns what comes of  *)
(* AppendBatch into a status.  A client that stops waiting does not stop    *)
(* the handler: a request can take effect after its successor did.          *)
(*                                                                          *)
(* A capture is the single record of Append or the batch of AppendBatch     *)
(* under its id.  AppendBatch is the subject of HistoryAppend; here it is   *)
(* the two steps a client can tell apart, the segment and its delta.        *)
(***************************************************************************)
EXTENDS Integers, Sequences

CONSTANTS
    Calls,          \* capture calls of applications, each repeated by its own
    Captures,       \* Captures[c]: what call c may ask for: an id, a content, a time
    NoID, NoTime,   \* an id and a time the application leaves to the SDK
    Malformed,      \* contents the server refuses
    Times,          \* what the SDK reads from its clock
    Nothing,        \* no body
    Rereading,      \* calls of SDKs that try again when an answer breaks off
    MaxRetries,     \* max_retries
    MaxTurns,       \* BOUND: captures of the same thing by the application
    MaxTroubles     \* BOUND: failures of the network and of the store

\* An id the SDK makes up: 128 random bits, so no other.
Generated(c, n) == [call |-> c, turn |-> n]

MaxRequests == MaxTurns * (MaxRetries + 1)

Asks == UNION {Captures[c] : c \in Calls}

ASSUME DeliveryAssumption ==
    /\ MaxRetries \in Nat /\ MaxTurns \in Nat /\ MaxTroubles \in Nat
    /\ \A a \in Asks :
          /\ a.time \in Times \union {NoTime}
          /\ \A c \in Calls, n \in 0..MaxRequests : a.id # Generated(c, n)
    /\ Times # {}

VARIABLES
    asked,          \* asked[c]: the capture the application of call c wants
    turn,           \* turn[c]: how often it has called the SDK
    body,           \* body[c]: what the SDK sends in this turn
    attempt,        \* attempt[c]: the attempt of this turn, from 0
    phase,          \* phase[c]: where the call is, or how it ended
    request,        \* request[c]: every request sent for c, in order
    store,          \* the committed segments, each as the body it came from
    listed,         \* those whose projection delta is committed
    troubles,       \* troubles[c]: failed attempts of this turn
    failures        \* all failures so far

callVars == <<asked, turn, body, attempt, phase, troubles>>
storeVars == <<store, listed>>
vars == <<callVars, request, storeVars, failures>>

-----------------------------------------------------------------------------
\* Statuses.

\* writeDomainError, for the errors an append can end in, and the success of
\* appendRecord and appendSegment.
Status(result) ==
    CASE result = "committed" -> 201
      [] result = "FH_IDEMPOTENCY_CONFLICT" -> 409
      [] result = "FH_INVALID_RECORD" -> 400
      [] result \in {"FH_SEGMENT_WRITE_FAILED", "FH_PROJECTION_WRITE_FAILED"} -> 422

RetryableStatus(status) == status \in {408, 425, 429, 500, 502, 503, 504}

-----------------------------------------------------------------------------
\* Bodies.

\* PrepareCapture / prepare_event / prepareEvent: the id and the time the
\* application did not give are filled in.
Prepared(c, n, time) ==
    [id      |-> IF asked[c].id = NoID THEN Generated(c, n) ELSE asked[c].id,
     content |-> asked[c].content,
     time    |-> IF asked[c].time = NoTime THEN time ELSE asked[c].time]

Ids == {a.id : a \in Asks} \union {Generated(c, n) : c \in Calls, n \in 1..MaxTurns}

Contents == {a.content : a \in Asks}

Bodies == [id : Ids, content : Contents, time : Times]

\* The committed segments that hold the id of a body.
Under(b) == {s \in store : s.id = b.id}

\* A request that was answered and read, or is lost.
Gone == [body |-> Nothing, at |-> "gone", status |-> 0]

Requests ==
    {Gone} \union [body : Bodies, at : {"sent", "projecting", "answered"},
                  status : {0, 201, 400, 409, 422, 500, 503}]

Last(c) == Len(request[c])

Current(c) == request[c][Last(c)]

Ended == {"stored", "conflict", "invalid", "failed", "unknown", "cancelled"}

-----------------------------------------------------------------------------
Init ==
    /\ asked \in [Calls -> Asks] /\ \A c \in Calls : asked[c] \in Captures[c]
    /\ turn = [c \in Calls |-> 0]
    /\ body = [c \in Calls |-> Nothing]
    /\ attempt = [c \in Calls |-> 0]
    /\ phase = [c \in Calls |-> "idle"]
    /\ request = [c \in Calls |-> <<>>]
    /\ store = {} /\ listed = {}
    /\ troubles = [c \in Calls |-> 0]
    /\ failures = 0

-----------------------------------------------------------------------------
\* The client.

Request(b) == [body |-> b, at |-> "sent", status |-> 0]

\* Capture, CapturePreparedBatch: the body is prepared and encoded before the
\* first attempt.  An application calls again after a failure, with the same
\* arguments.
Capture(c) ==
    /\ phase[c] \in {"idle", "failed", "unknown"}
    /\ turn[c] < MaxTurns
    /\ \E time \in Times :
          LET b == Prepared(c, turn[c] + 1, time) IN
          /\ body' = [body EXCEPT ![c] = b]
          /\ request' = [request EXCEPT ![c] = Append(@, Request(b))]
    /\ turn' = [turn EXCEPT ![c] = @ + 1]
    /\ attempt' = [attempt EXCEPT ![c] = 0]
    /\ troubles' = [troubles EXCEPT ![c] = 0]
    /\ phase' = [phase EXCEPT ![c] = "waiting"]
    /\ UNCHANGED <<asked, storeVars, failures>>

\* Mutant of Resent: each attempt has an id of its own.
ResentRenamed(c) ==
    IF asked[c].id = NoID
    THEN [body[c] EXCEPT !.id = Generated(c, turn[c] + attempt[c] + 1)]
    ELSE body[c]

\* The body of the next attempt, which is the body of the first one.
Resent(c) == body[c]

\* The pause before an attempt is over.
Resend(c) ==
    /\ phase[c] = "pausing"
    /\ phase' = [phase EXCEPT ![c] = "waiting"]
    /\ attempt' = [attempt EXCEPT ![c] = @ + 1]
    /\ request' = [request EXCEPT ![c] = Append(@, Request(Resent(c)))]
    /\ UNCHANGED <<asked, turn, body, storeVars, troubles, failures>>

\* Mutant of AfterFailure: one attempt too many.
AfterFailureLate(c) == IF attempt[c] <= MaxRetries THEN "pausing" ELSE "unknown"

\* A failed attempt is followed by another while retries are left.
AfterFailure(c) == IF attempt[c] < MaxRetries THEN "pausing" ELSE "unknown"

\* How a status ends the call, or the attempt.
Outcome(c, status) ==
    CASE status = 201 -> "stored"
      [] RetryableStatus(status) -> AfterFailure(c)
      [] status = 409 -> "conflict"
      [] status = 400 -> "invalid"
      [] OTHER -> "failed"

\* An answer arrives; the request is history.
Receive(c) ==
    /\ phase[c] = "waiting"
    /\ Current(c).at = "answered"
    /\ phase' = [phase EXCEPT ![c] = Outcome(c, Current(c).status)]
    /\ troubles' = [troubles EXCEPT ![c] =
                      IF RetryableStatus(Current(c).status) THEN @ + 1 ELSE @]
    /\ request' = [request EXCEPT ![c][Last(c)] = Gone]
    /\ UNCHANGED <<asked, turn, body, attempt, storeVars, failures>>

\* The connection is lost with the request or its answer.
Disconnect(c) ==
    /\ phase[c] = "waiting"
    /\ Current(c).at = "gone"
    /\ phase' = [phase EXCEPT ![c] = AfterFailure(c)]
    /\ troubles' = [troubles EXCEPT ![c] = @ + 1]
    /\ UNCHANGED <<asked, turn, body, attempt, request, storeVars, failures>>

\* The client waits no longer, or the connection is lost on its side: the attempt
\* has failed for the client, whatever becomes of the request.
Timeout(c) ==
    /\ phase[c] = "waiting"
    /\ Current(c).at # "gone"
    /\ failures < MaxTroubles
    /\ failures' = failures + 1
    /\ phase' = [phase EXCEPT ![c] = AfterFailure(c)]
    /\ troubles' = [troubles EXCEPT ![c] = @ + 1]
    /\ UNCHANGED <<asked, turn, body, attempt, request, storeVars>>

\* An answer breaks off in its body.  The Go client gives up; TypeScript's and,
\* when the connection was reset, Python's try again.
Truncated(c) ==
    /\ phase[c] = "waiting"
    /\ Current(c).at = "answered"
    /\ failures < MaxTroubles
    /\ failures' = failures + 1
    /\ phase' = [phase EXCEPT ![c] = IF c \in Rereading THEN AfterFailure(c) ELSE "unknown"]
    /\ troubles' = [troubles EXCEPT ![c] = @ + 1]
    /\ request' = [request EXCEPT ![c][Last(c)] = Gone]
    /\ UNCHANGED <<asked, turn, body, attempt, storeVars>>

\* The context is done or the signal aborted, while waiting or pausing.
Cancel(c) ==
    /\ phase[c] \in {"waiting", "pausing"}
    /\ failures < MaxTroubles
    /\ failures' = failures + 1
    /\ phase' = [phase EXCEPT ![c] = "cancelled"]
    /\ UNCHANGED <<asked, turn, body, attempt, troubles, request, storeVars>>

-----------------------------------------------------------------------------
\* The server.  k numbers the requests of call c.

\* Whether the client still waits for request k.
Awaited(c, k) == phase[c] = "waiting" /\ k = Last(c)

Answered(r, status) == [body |-> r.body, at |-> "answered", status |-> status]

\* An answer nobody waits for is dropped with its connection.
Reply(c, k, result) ==
    request' = [request EXCEPT ![c][k] =
                  IF Awaited(c, k)
                  THEN Answered(@, Status(result))
                  ELSE Gone]

\* The body is decoded, and its records are checked before anything is written.
Refuse(c, k) ==
    /\ request[c][k].at = "sent"
    /\ request[c][k].body.content \in Malformed
    /\ Reply(c, k, "FH_INVALID_RECORD")
    /\ UNCHANGED <<callVars, storeVars, failures>>

\* Mutant of Matches: no capture under the id will do.
MatchesNone(b) == FALSE

\* sameBatch: what is committed under the id is this capture, time included.
Matches(b) == b \in store

\* The segment is committed, or found committed by an earlier request.
Commit(c, k) ==
    LET b == request[c][k].body IN
    /\ request[c][k].at = "sent"
    /\ b.content \notin Malformed
    /\ Under(b) = {} \/ Matches(b)
    /\ store' = IF Under(b) = {} THEN store \union {b} ELSE store
    /\ request' = [request EXCEPT ![c][k].at = "projecting"]
    /\ UNCHANGED <<callVars, listed, failures>>

Conflict(c, k) ==
    LET b == request[c][k].body IN
    /\ request[c][k].at = "sent"
    /\ b.content \notin Malformed
    /\ Under(b) # {} /\ ~Matches(b)
    /\ Reply(c, k, "FH_IDEMPOTENCY_CONFLICT")
    /\ UNCHANGED <<callVars, storeVars, failures>>

\* Mutant of Project: a committed segment is not projected again.
ProjectNothing(c, k) ==
    /\ request[c][k].at = "projecting"
    /\ Reply(c, k, "committed")
    /\ UNCHANGED <<callVars, storeVars, failures>>

\* projectSource, and the answer.
Project(c, k) ==
    /\ request[c][k].at = "projecting"
    /\ listed' = listed \union {request[c][k].body}
    /\ Reply(c, k, "committed")
    /\ UNCHANGED <<callVars, store, failures>>

\* A store call fails, with or without effect; so may the read after a conflict.
StoreFails(c, k) ==
    LET b == request[c][k].body IN
    /\ failures < MaxTroubles
    /\ failures' = failures + 1
    /\ \/ /\ request[c][k].at = "sent"
          /\ b.content \notin Malformed
          /\ store' \in {store, IF Under(b) = {} THEN store \union {b} ELSE store}
          /\ UNCHANGED listed
          /\ Reply(c, k, "FH_SEGMENT_WRITE_FAILED")
       \/ /\ request[c][k].at = "projecting"
          /\ listed' \in {listed, listed \union {b}}
          /\ UNCHANGED store
          /\ Reply(c, k, "FH_PROJECTION_WRITE_FAILED")
    /\ UNCHANGED callVars

\* The proxy in front of the server or the server itself is overloaded or broken.
Unavailable(c, k) ==
    /\ request[c][k].at = "sent"
    /\ Awaited(c, k)
    /\ failures < MaxTroubles
    /\ failures' = failures + 1
    /\ \E status \in {500, 503} :
          request' = [request EXCEPT ![c][k] = Answered(@, status)]
    /\ UNCHANGED <<callVars, storeVars>>

\* A request is lost, its server crashes, or its answer is.
Vanish(c, k) ==
    /\ request[c][k].at # "gone"
    /\ failures < MaxTroubles
    /\ failures' = failures + 1
    /\ request' = [request EXCEPT ![c][k] = Gone]
    /\ UNCHANGED <<callVars, storeVars>>

\* The server notices that the client is gone: the context of the request is
\* cancelled and its next store call fails.
Abandon(c, k) ==
    /\ request[c][k].at # "gone"
    /\ ~Awaited(c, k)
    /\ request' = [request EXCEPT ![c][k] = Gone]
    /\ UNCHANGED <<callVars, storeVars, failures>>

-----------------------------------------------------------------------------
Handle(c, k) == Refuse(c, k) \/ Commit(c, k) \/ Conflict(c, k) \/ Project(c, k)

Break(c, k) == StoreFails(c, k) \/ Unavailable(c, k) \/ Vanish(c, k) \/ Abandon(c, k)

Client(c) == Capture(c) \/ Resend(c) \/ Receive(c) \/ Disconnect(c)

Next ==
    \E c \in Calls :
        \/ Client(c) \/ Timeout(c) \/ Truncated(c) \/ Cancel(c)
        \/ \E k \in DOMAIN request[c] : Handle(c, k) \/ Break(c, k)

Spec == Init /\ [][Next]_vars

\* A client goes on, notices a dead connection, and its application calls again;
\* a request that has arrived is handled.
Fairness ==
    \A c \in Calls :
        /\ WF_vars(Client(c))
        /\ \A k \in 1..MaxRequests : WF_vars(k \in DOMAIN request[c] /\ Handle(c, k))

FairSpec == Spec /\ Fairness

-----------------------------------------------------------------------------
\* Every variable has its type, and a call under way has sent its body last.
TypeOK ==
    /\ asked \in [Calls -> Asks]
    /\ turn \in [Calls -> 0..MaxTurns]
    /\ body \in [Calls -> Bodies \union {Nothing}]
    /\ attempt \in [Calls -> 0..MaxRetries]
    /\ phase \in [Calls -> {"idle", "waiting", "pausing"} \union Ended]
    /\ request \in [Calls -> Seq(Requests)]
    /\ store \subseteq Bodies
    /\ listed \subseteq store
    /\ troubles \in [Calls -> Nat]
    /\ failures \in 0..MaxTroubles
    /\ \A c \in Calls : phase[c] = "waiting" => Last(c) > 0

\* A capture that returned is committed and listed, as the SDK sent it: no answer
\* of another request was taken for its own (doJSON, appendSegment).
AnswerIsTrue ==
    \A c \in Calls : phase[c] = "stored" => body[c] \in store /\ body[c] \in listed

\* One segment for an id, and one id for each capture that came without, however
\* often it was sent and in whatever order its requests were handled.
OneSegmentEach ==
    /\ \A s, t \in store : s.id = t.id => s = t
    /\ \A c \in Calls, n \in 1..MaxRequests, s \in store : s.id = Generated(c, n) => n <= turn[c]

\* A call is told of a conflict only when another capture, or an earlier one of
\* the same application that carried another time, holds its id: never because an
\* attempt of its own got there first.
ConflictIsReal ==
    \A c \in Calls : phase[c] = "conflict" =>
        /\ asked[c].id # NoID
        /\ body[c] \notin store
        /\ \E s \in store : s.id = body[c].id

\* The outcome of a call is left open only after each of its attempts has failed
\* (doJSON gives up at attempt = retries), but for the Go client's broken answers.
GivesUpLast ==
    \A c \in Calls : phase[c] = "unknown" /\ c \in Rereading => troubles[c] = MaxRetries + 1

\* A committed capture whose application gave its id and time, and calls again
\* while it is told of failures, gets listed: "retry with the same id to repair it"
\* (conversation_projection.go:158).
RetryRepairs ==
    \A c \in Calls :
        (asked[c].id # NoID /\ asked[c].time # NoTime /\ phase[c] = "failed" /\ body[c] \in store)
        ~> (body[c] \in listed \/ phase[c] = "cancelled")

\* The same whether or not the application gave the time: what docs/storage.md:65
\* says of a retry with the same record or segment id.
\* (The code does not keep this promise; README, section 6.)
RetryWithIDRepairs ==
    \A c \in Calls :
        (asked[c].id # NoID /\ phase[c] = "failed" /\ body[c] \in store)
        ~> (\E b \in listed : b.id = asked[c].id) \/ phase[c] = "cancelled"

=============================================================================
