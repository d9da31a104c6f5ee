------------------------- MODULE CaptureDeliveryProofs -------------------------
(***************************************************************************)
(* Theorems about CaptureDelivery, for any calls and captures, any number  *)
(* of retries and of repeated captures, and any number of failures.        *)
(***************************************************************************)
EXTENDS CaptureDelivery, TLAPS

\* The ids the requests of a call may carry.
Names(c) ==
    IF asked[c].id = NoID THEN {Generated(c, n) : n \in 1..turn[c]} ELSE {asked[c].id}

\* What is known of a body with the id that the SDK made up last for a call.
Latest(b) == \A c \in Calls : b.id = Generated(c, turn[c]) => b = body[c]

\* A request that conflicts found its id taken by something else.
Taken(c, b) == asked[c].id # NoID /\ b \notin store /\ \E s \in store : s.id = b.id

\* A request carries what its call prepared, and its answer is true of the store.
Sound(c, r) ==
    /\ r.body.id \in Names(c) /\ Latest(r.body)
    /\ r.at = "projecting" => r.body \in store
    /\ r.at = "answered" /\ r.status = 201 => r.body \in listed
    /\ r.at = "answered" /\ r.status = 409 => Taken(c, r.body)

RequestState ==
    \A c \in Calls : \A k \in DOMAIN request[c] :
        request[c][k] # Gone => Sound(c, request[c][k])

\* Every segment comes from a request, and no other has its id.
StoreState ==
    /\ \A s, t \in store : s.id = t.id => s = t
    /\ \A s \in store : Latest(s) /\ \E c \in Calls : s.id \in Names(c)

\* A call under way counts its failed attempts, and waits for what it sent last.
CallState ==
    \A c \in Calls :
        /\ phase[c] \in {"waiting", "pausing"} =>
              /\ turn[c] > 0 /\ body[c] \in Bodies /\ Latest(body[c])
              /\ body[c].id = IF asked[c].id = NoID THEN Generated(c, turn[c]) ELSE asked[c].id
        /\ phase[c] = "waiting" => troubles[c] = attempt[c]
        /\ phase[c] = "waiting" /\ Current(c) # Gone => Current(c).body = body[c]
        /\ phase[c] = "pausing" => troubles[c] = attempt[c] + 1 /\ attempt[c] < MaxRetries

\* AnswerIsTrue, ConflictIsReal and GivesUpLast.
Outcomes ==
    \A c \in Calls :
        /\ phase[c] = "stored" => body[c] \in listed
        /\ phase[c] = "conflict" => Taken(c, body[c])
        /\ phase[c] = "unknown" /\ c \in Rereading => troubles[c] = MaxRetries + 1

IInv == TypeOK /\ RequestState /\ StoreState /\ CallState /\ Outcomes

-----------------------------------------------------------------------------
\* Lemmas about the operators of the specification.

\* There are ids enough for the attempts of every turn.
LEMMA EnoughNames == MaxTurns \in Nat /\ MaxRequests \in Nat /\ MaxTurns <= MaxRequests
<1>1. MaxTurns \in Nat /\ MaxRetries \in Nat
  BY DeliveryAssumption
<1>2. MaxTurns * (MaxRetries + 1) = MaxTurns * MaxRetries + MaxTurns
  BY <1>1
<1>3. MaxTurns * MaxRetries \in Nat
  BY <1>1
<1> QED
  BY <1>1, <1>2, <1>3 DEF MaxRequests

\* Ids generated for different calls or turns differ.
LEMMA GeneratedFacts ==
    ASSUME NEW c \in Calls, NEW n, NEW d \in Calls, NEW m
    PROVE  Generated(c, n) = Generated(d, m) => c = d /\ n = m
<1>1. Generated(c, n).call = c /\ Generated(c, n).turn = n
  BY DEF Generated
<1>2. Generated(d, m).call = d /\ Generated(d, m).turn = m
  BY DEF Generated
<1> QED
  BY <1>1, <1>2

\* A request in hand is well formed.
LEMMA RequestFacts ==
    ASSUME NEW r \in Requests, r # Gone
    PROVE  /\ r.body \in Bodies
           /\ r.at \in {"sent", "projecting", "answered"}
           /\ r.status \in {0, 201, 400, 409, 422, 500, 503}
BY DEF Requests

\* A request that moves on, or is answered.
LEMMA MovedRequest ==
    ASSUME NEW r \in Requests, r # Gone
    PROVE  \E q \in Requests :
              /\ q = [r EXCEPT !.at = "projecting"]
              /\ q # Gone /\ q.body = r.body /\ q.at = "projecting"
<1> DEFINE q == [r EXCEPT !.at = "projecting"]
<1>1. r \in [body : Bodies, at : {"sent", "projecting", "answered"},
            status : {0, 201, 400, 409, 422, 500, 503}]
  BY DEF Requests
<1>2. q \in Requests /\ q.body = r.body /\ q.at = "projecting"
  BY <1>1 DEF Requests
<1>3. q # Gone
  BY <1>2 DEF Gone
<1> QED
  BY <1>2, <1>3

\* An answered request is a request with the same body.
LEMMA AnsweredRequest ==
    ASSUME NEW r \in Requests, r # Gone, NEW status \in {201, 400, 409, 422, 500, 503}
    PROVE  \E q \in Requests :
              /\ q = Answered(r, status)
              /\ q.body = r.body /\ q.at = "answered" /\ q.status = status
<1>1. r.body \in Bodies
  BY RequestFacts
<1>2. Answered(r, status) \in Requests
  BY <1>1 DEF Requests, Answered
<1> QED
  BY <1>2 DEF Answered

\* A lost request is one.
LEMMA GoneIsRequest == Gone \in Requests
BY DEF Requests

\* A request that has just been sent.
LEMMA NewRequest ==
    ASSUME NEW b \in Bodies
    PROVE  Request(b) \in Requests \ {Gone} /\ Request(b).body = b /\ Request(b).at = "sent"
BY DEF Requests, Request, Gone

\* What changing one request changes.
LEMMA ChangedRequest ==
    ASSUME request \in [Calls -> Seq(Requests)],
           NEW c \in Calls, NEW k \in DOMAIN request[c], NEW r \in Requests,
           request' = [request EXCEPT ![c][k] = r]
    PROVE  /\ request' \in [Calls -> Seq(Requests)]
           /\ \A d \in Calls : DOMAIN request'[d] = DOMAIN request[d] /\ Len(request'[d]) = Len(request[d])
           /\ \A d \in Calls : \A j \in DOMAIN request[d] :
                 request'[d][j] = IF d = c /\ j = k THEN r ELSE request[d][j]
           /\ \A d \in Calls : DOMAIN request[d] = 1..Len(request[d]) /\ Len(request[d]) \in Nat
<1>1. request[c] \in Seq(Requests)
  OBVIOUS
<1>2. [request[c] EXCEPT ![k] = r] \in Seq(Requests) /\ Len([request[c] EXCEPT ![k] = r]) = Len(request[c])
  BY <1>1
<1>3. \A d \in Calls : request'[d] = IF d = c THEN [request[c] EXCEPT ![k] = r] ELSE request[d]
  OBVIOUS
<1> QED
  BY <1>1, <1>2, <1>3

\* What sending a request changes.
LEMMA AddedRequest ==
    ASSUME request \in [Calls -> Seq(Requests)],
           NEW c \in Calls, NEW r \in Requests,
           request' = [request EXCEPT ![c] = Append(@, r)]
    PROVE  /\ request' \in [Calls -> Seq(Requests)]
           /\ \A d \in Calls : d # c => request'[d] = request[d]
           /\ Len(request'[c]) = Len(request[c]) + 1 /\ Len(request[c]) \in Nat
           /\ DOMAIN request'[c] = DOMAIN request[c] \union {Len(request'[c])}
           /\ \A j \in DOMAIN request[c] : request'[c][j] = request[c][j]
           /\ request'[c][Len(request'[c])] = r
<1>1. request[c] \in Seq(Requests)
  OBVIOUS
<1>2. request' = [request EXCEPT ![c] = Append(request[c], r)]
  OBVIOUS
<1>3. Append(request[c], r) \in Seq(Requests)
  BY <1>1
<1>4. request'[c] = Append(request[c], r)
  BY <1>2
<1>5. Len(request'[c]) = Len(request[c]) + 1 /\ Len(request[c]) \in Nat /\ DOMAIN request[c] = 1..Len(request[c])
      /\ DOMAIN request'[c] = 1..Len(request'[c])
  BY <1>1, <1>4
<1>6. \A j \in DOMAIN request[c] : request'[c][j] = request[c][j]
  BY <1>1, <1>4
<1>7. request'[c][Len(request'[c])] = r
  BY <1>1, <1>4, <1>5
<1>8. DOMAIN request'[c] = DOMAIN request[c] \union {Len(request'[c])}
  BY <1>5
<1> QED
  BY <1>2, <1>3, <1>5, <1>6, <1>7, <1>8

-----------------------------------------------------------------------------
\* Steps of the server: one request changes, and the store grows.

\* Request k of call c becomes r.
ServerChange(c, k, r) ==
    /\ request' = [request EXCEPT ![c][k] = r]
    /\ UNCHANGED callVars
    /\ store \subseteq store' /\ store' \subseteq Bodies /\ StoreState'
    /\ listed \subseteq listed' /\ listed' \subseteq store'
    /\ failures' \in 0..MaxTroubles
    /\ r # Gone =>
          /\ request[c][k] # Gone /\ r.body = request[c][k].body
          /\ r.at = "projecting" => r.body \in store'
          /\ r.at = "answered" /\ r.status = 201 => r.body \in listed'
          /\ r.at = "answered" /\ r.status = 409 => Taken(c, r.body)'

\* The invariant survives every step of a handler that changes one request and
\* grows the store as ServerChange says (server.go, AppendBatch).
LEMMA ServerStep ==
    ASSUME IInv, NEW c \in Calls, NEW k \in DOMAIN request[c], NEW r \in Requests,
           ServerChange(c, k, r)
    PROVE  IInv'
<1> USE DEF ServerChange, callVars
<1>0. request \in [Calls -> Seq(Requests)]
  BY DEF IInv, TypeOK
<1>1. TypeOK'
  BY <1>0, ChangedRequest DEF IInv, TypeOK, Last
<1>2. \A d \in Calls : \A b : Taken(d, b) => Taken(d, b)'
  BY DEF Taken, StoreState
<1>3. \A d \in Calls : Names(d)' = Names(d)
  BY DEF Names
<1>4. \A b : Latest(b) => Latest(b)'
  <2> SUFFICES ASSUME NEW b, Latest(b) PROVE Latest(b)'
    OBVIOUS
  <2> QED
    BY DEF Latest
<1>5. RequestState'
  <2> SUFFICES ASSUME NEW d \in Calls, NEW j \in DOMAIN request[d], request'[d][j] # Gone
               PROVE  Sound(d, request[d][j])'
    <3>1. \A d \in Calls : DOMAIN request'[d] = DOMAIN request[d]
      BY <1>0, ChangedRequest
    <3> QED
      BY <3>1 DEF RequestState
  <2>1. CASE d = c /\ j = k
    <3>1. request'[d][j] = r
      BY <1>0, <2>1, ChangedRequest
    <3>2. r.body.id \in Names(c) /\ Latest(r.body)
      BY <2>1, <3>1 DEF IInv, RequestState, Sound
    <3> QED
      BY <2>1, <3>1, <3>2 DEF Sound, Names, Latest
  <2>2. CASE ~(d = c /\ j = k)
    <3>1. request'[d][j] = request[d][j]
      BY <1>0, <2>2, ChangedRequest
    <3>2. Sound(d, request[d][j])
      BY <3>1 DEF IInv, RequestState
    <3> QED
      BY <1>2, <3>1, <3>2 DEF Sound, Names, Latest
  <2> QED
    BY <2>1, <2>2
<1>6. CallState'
  <2>1. \A d \in Calls : Current(d)' # Gone /\ Last(d) > 0 =>
            Current(d) # Gone /\ (Current(d)').body = Current(d).body
    BY <1>0, ChangedRequest DEF Current, Last
  <2>2. \A d \in Calls : phase[d] = "waiting" => Last(d) > 0
    BY DEF IInv, TypeOK
  <2> QED
    BY <1>3, <1>4, <2>1, <2>2 DEF IInv, CallState
<1>7. Outcomes'
  BY <1>2 DEF IInv, Outcomes
<1> QED
  BY <1>1, <1>5, <1>6, <1>7 DEF IInv

\* StoreState, when a request's body is committed.
LEMMA StoreGrows ==
    ASSUME IInv, NEW c \in Calls, NEW k \in DOMAIN request[c], request[c][k] # Gone,
           UNCHANGED callVars,
           store' = store \/ (Under(request[c][k].body) = {} /\ store' = store \union {request[c][k].body})
    PROVE  StoreState' /\ store \subseteq store' /\ store' \subseteq Bodies
<1> DEFINE b == request[c][k].body
<1>1. b \in Bodies /\ b.id \in Names(c) /\ Latest(b)
  <2>1. request[c][k] \in Requests
    BY DEF IInv, TypeOK
  <2>2. b \in Bodies
    BY <2>1, RequestFacts
  <2> QED
    BY <2>2 DEF IInv, RequestState, Sound
<1>2. \A d \in Calls : Names(d)' = Names(d)
  BY DEF Names, callVars
<1>3. \A s : Latest(s) => Latest(s)'
  <2> SUFFICES ASSUME NEW s, Latest(s) PROVE Latest(s)'
    OBVIOUS
  <2> QED
    BY DEF Latest, callVars
<1>4. \A s \in store : Under(b) = {} => s.id # b.id
  BY DEF Under
<1>5. store' \subseteq Bodies /\ store \subseteq store'
  BY <1>1 DEF IInv, TypeOK
<1>6. \A s, t \in store' : s.id = t.id => s = t
  BY <1>4 DEF IInv, StoreState
<1>7. \A s \in store' : Latest(s) /\ \E d \in Calls : s.id \in Names(d)
  BY <1>1 DEF IInv, StoreState
<1> QED
  BY <1>2, <1>3, <1>5, <1>6, <1>7 DEF StoreState

\* An answer becomes of its request's body, or of nothing.
LEMMA ReplyFacts ==
    ASSUME IInv, NEW c \in Calls, NEW k \in DOMAIN request[c], request[c][k] # Gone,
           NEW result \in {"committed", "FH_IDEMPOTENCY_CONFLICT", "FH_INVALID_RECORD",
                           "FH_SEGMENT_WRITE_FAILED", "FH_PROJECTION_WRITE_FAILED"},
           Reply(c, k, result)
    PROVE  \E r \in Requests :
              /\ request' = [request EXCEPT ![c][k] = r]
              /\ r # Gone =>
                    /\ Awaited(c, k) /\ r.body = request[c][k].body
                    /\ r.at = "answered" /\ r.status = Status(result)
<1>1. request[c][k] \in Requests
  BY DEF IInv, TypeOK
<1>2. CASE Awaited(c, k)
  <2>1. Status(result) \in {201, 400, 409, 422}
    BY DEF Status
  <2>2. PICK r \in Requests :
            /\ r = Answered(request[c][k], Status(result))
            /\ r.body = request[c][k].body /\ r.at = "answered" /\ r.status = Status(result)
    BY <1>1, <2>1, AnsweredRequest
  <2>3. request' = [request EXCEPT ![c][k] = r]
    BY <1>2, <2>2 DEF Reply
  <2> QED
    BY <1>2, <2>2, <2>3
<1>3. CASE ~Awaited(c, k)
  BY <1>3, GoneIsRequest DEF Reply
<1> QED
  BY <1>2, <1>3

\* Refuse, a body the server does not accept.
LEMMA RefuseStep ==
    ASSUME IInv, NEW c \in Calls, NEW k \in DOMAIN request[c], Refuse(c, k) PROVE IInv'
<1> USE DEF Refuse
<1>1. request[c][k] # Gone
  BY DEF Gone
<1>2. PICK r \in Requests :
          /\ request' = [request EXCEPT ![c][k] = r]
          /\ r # Gone => r.body = request[c][k].body /\ r.at = "answered" /\ r.status = Status("FH_INVALID_RECORD")
  BY <1>1, ReplyFacts
<1>3. Status("FH_INVALID_RECORD") = 400
  BY DEF Status
<1>4. StoreState' /\ store \subseteq store' /\ store' \subseteq Bodies
  BY <1>1, StoreGrows DEF storeVars
<1>5. listed \subseteq listed' /\ listed' \subseteq store' /\ failures' \in 0..MaxTroubles
  BY <1>4 DEF IInv, TypeOK, storeVars
<1>6. ServerChange(c, k, r)
  BY <1>1, <1>2, <1>3, <1>4, <1>5 DEF ServerChange
<1> QED
  BY <1>6, ServerStep

\* Commit, the segment's PutIfAbsent.
LEMMA CommitStep ==
    ASSUME IInv, NEW c \in Calls, NEW k \in DOMAIN request[c], Commit(c, k) PROVE IInv'
<1> USE DEF Commit
<1>1. request[c][k] # Gone /\ request[c][k] \in Requests
  BY DEF Gone, IInv, TypeOK
<1>2. PICK r \in Requests :
          /\ r = [request[c][k] EXCEPT !.at = "projecting"]
          /\ r.body = request[c][k].body /\ r.at = "projecting"
  BY <1>1, MovedRequest
<1>3. request' = [request EXCEPT ![c][k] = r]
  BY <1>2
<1>4. StoreState' /\ store \subseteq store' /\ store' \subseteq Bodies
  BY <1>1, StoreGrows
<1>5. r.body \in store'
  BY <1>2 DEF Matches
<1>6. listed' = listed /\ listed \subseteq store /\ failures' \in 0..MaxTroubles
  BY DEF IInv, TypeOK
<1>7. ServerChange(c, k, r)
  BY <1>1, <1>2, <1>3, <1>4, <1>5, <1>6 DEF ServerChange
<1> QED
  BY <1>7, ServerStep

\* Conflict, an id that holds something else.
LEMMA ConflictStep ==
    ASSUME IInv, NEW c \in Calls, NEW k \in DOMAIN request[c], Conflict(c, k) PROVE IInv'
<1> USE DEF Conflict
<1> DEFINE b == request[c][k].body
<1>1. request[c][k] # Gone
  BY DEF Gone
<1>2. PICK r \in Requests :
          /\ request' = [request EXCEPT ![c][k] = r]
          /\ r # Gone => /\ Awaited(c, k) /\ r.body = b
                         /\ r.at = "answered" /\ r.status = Status("FH_IDEMPOTENCY_CONFLICT")
  BY <1>1, ReplyFacts
<1>3. Status("FH_IDEMPOTENCY_CONFLICT") = 409
  BY DEF Status
<1>4. StoreState' /\ store \subseteq store' /\ store' \subseteq Bodies
  BY <1>1, StoreGrows DEF storeVars
<1>5. b \notin store /\ \E s \in store : s.id = b.id
  BY DEF Matches, Under
\* A waiting call whose id the SDK made up would have found its own body.
<1>6. ASSUME Awaited(c, k) PROVE asked[c].id # NoID
  <2> SUFFICES ASSUME asked[c].id = NoID PROVE FALSE
    OBVIOUS
  <2>1. phase[c] = "waiting" /\ b = body[c]
    BY <1>1, <1>6 DEF Awaited, IInv, CallState, Current
  <2>2. PICK s \in store : s.id = b.id
    BY <1>5
  <2>3. b.id = Generated(c, turn[c])
    BY <2>1 DEF IInv, CallState
  <2> QED
    BY <1>5, <2>1, <2>2, <2>3 DEF IInv, StoreState, Latest
<1>7. r # Gone => Taken(c, r.body)'
  BY <1>2, <1>5, <1>6 DEF Taken, callVars, storeVars
<1>8. listed \subseteq listed' /\ listed' \subseteq store' /\ failures' \in 0..MaxTroubles
  BY <1>4 DEF IInv, TypeOK, storeVars
<1>9. ServerChange(c, k, r)
  BY <1>1, <1>2, <1>3, <1>4, <1>7, <1>8 DEF ServerChange
<1> QED
  BY <1>9, ServerStep

\* Project, the delta and the answer.
LEMMA ProjectStep ==
    ASSUME IInv, NEW c \in Calls, NEW k \in DOMAIN request[c], Project(c, k) PROVE IInv'
<1> USE DEF Project
<1>1. request[c][k] # Gone
  BY DEF Gone
<1>2. PICK r \in Requests :
          /\ request' = [request EXCEPT ![c][k] = r]
          /\ r # Gone => r.body = request[c][k].body /\ r.at = "answered" /\ r.status = Status("committed")
  BY <1>1, ReplyFacts
<1>3. Status("committed") = 201
  BY DEF Status
<1>4. StoreState' /\ store \subseteq store' /\ store' \subseteq Bodies
  BY <1>1, StoreGrows
<1>5. request[c][k].body \in store
  BY <1>1 DEF IInv, RequestState, Sound
<1>6. listed \subseteq listed' /\ listed' \subseteq store' /\ failures' \in 0..MaxTroubles
  BY <1>4, <1>5 DEF IInv, TypeOK
<1>7. ServerChange(c, k, r)
  BY <1>1, <1>2, <1>3, <1>4, <1>5, <1>6 DEF ServerChange
<1> QED
  BY <1>7, ServerStep

\* StoreFails, a store call that fails with or without effect.
LEMMA StoreFailsStep ==
    ASSUME IInv, NEW c \in Calls, NEW k \in DOMAIN request[c], StoreFails(c, k) PROVE IInv'
<1> USE DEF StoreFails
<1>1. request[c][k] # Gone
  BY DEF Gone
<1>2. StoreState' /\ store \subseteq store' /\ store' \subseteq Bodies
  BY <1>1, StoreGrows
<1>3. PICK r \in Requests :
          /\ request' = [request EXCEPT ![c][k] = r]
          /\ r # Gone => r.body = request[c][k].body /\ r.at = "answered" /\ r.status = 422
  <2>1. Status("FH_SEGMENT_WRITE_FAILED") = 422 /\ Status("FH_PROJECTION_WRITE_FAILED") = 422
    BY DEF Status
  <2> QED
    BY <1>1, <2>1, ReplyFacts
<1>4. listed \subseteq listed' /\ listed' \subseteq store'
  BY <1>1, <1>2 DEF IInv, TypeOK, RequestState, Sound
<1>5. failures' \in 0..MaxTroubles
  BY DeliveryAssumption DEF IInv, TypeOK
<1>6. ServerChange(c, k, r)
  BY <1>1, <1>2, <1>3, <1>4, <1>5 DEF ServerChange
<1> QED
  BY <1>6, ServerStep

\* Unavailable, an answer of a proxy.
LEMMA UnavailableStep ==
    ASSUME IInv, NEW c \in Calls, NEW k \in DOMAIN request[c], Unavailable(c, k) PROVE IInv'
<1> USE DEF Unavailable
<1>1. request[c][k] # Gone /\ request[c][k] \in Requests
  BY DEF Gone, IInv, TypeOK
<1>2. PICK status \in {500, 503} :
          request' = [request EXCEPT ![c][k] = Answered(@, status)]
  OBVIOUS
<1>3. PICK r \in Requests :
          /\ r = Answered(request[c][k], status)
          /\ r.body = request[c][k].body /\ r.at = "answered" /\ r.status \notin {201, 409}
  BY <1>1, AnsweredRequest
<1>4. request' = [request EXCEPT ![c][k] = r]
  BY <1>2, <1>3
<1>5. StoreState' /\ store \subseteq store' /\ store' \subseteq Bodies
  BY <1>1, StoreGrows DEF storeVars
<1>6. listed' = listed /\ listed \subseteq store' /\ failures' \in 0..MaxTroubles
  BY DeliveryAssumption DEF IInv, TypeOK, storeVars
<1>7. ServerChange(c, k, r)
  BY <1>1, <1>2, <1>3, <1>4, <1>5, <1>6 DEF ServerChange
<1> QED
  BY <1>7, ServerStep

\* Vanish and Abandon, a request that is lost.
LEMMA VanishStep ==
    ASSUME IInv, NEW c \in Calls, NEW k \in DOMAIN request[c], Vanish(c, k) \/ Abandon(c, k)
    PROVE  IInv'
<1> USE DEF Vanish, Abandon
<1>1. request[c][k] # Gone
  BY DEF Gone
<1>2. StoreState' /\ store \subseteq store' /\ store' \subseteq Bodies
  BY <1>1, StoreGrows DEF storeVars
<1>3. failures' \in 0..MaxTroubles
  BY DeliveryAssumption DEF IInv, TypeOK
<1>4. ServerChange(c, k, Gone)
  BY <1>1, <1>2, <1>3 DEF ServerChange, IInv, TypeOK, storeVars
<1> QED
  BY <1>4, GoneIsRequest, ServerStep

-----------------------------------------------------------------------------
\* Steps of the client that end an attempt.

\* Call c goes on to a pause or ends, and request[c][Last(c)] may be used up.
ClientChange(c, to, n) ==
    /\ UNCHANGED <<asked, turn, body, attempt, store, listed>>
    /\ phase' = [phase EXCEPT ![c] = to]
    /\ troubles' = [troubles EXCEPT ![c] = n]
    /\ \/ request' = request
       \/ Last(c) \in DOMAIN request[c] /\ request' = [request EXCEPT ![c][Last(c)] = Gone]
    /\ failures' \in 0..MaxTroubles
    /\ phase[c] \in {"waiting", "pausing"}
    /\ to \in {"pausing"} \union Ended
    /\ to = "pausing" => n = attempt[c] + 1 /\ attempt[c] < MaxRetries
    /\ to = "stored" => body[c] \in listed
    /\ to = "conflict" => Taken(c, body[c])
    /\ to = "unknown" /\ c \in Rereading => n = MaxRetries + 1

\* The invariant survives every step of a client that ends an attempt as
\* ClientChange says (doJSON).
LEMMA ClientStep ==
    ASSUME IInv, NEW c \in Calls, NEW to, NEW n \in Nat, ClientChange(c, to, n)
    PROVE  IInv'
<1> USE DEF ClientChange
<1>1. request \in [Calls -> Seq(Requests)]
  BY DEF IInv, TypeOK
\* Whatever else there was of requests is still there.
<1>2. /\ request' \in [Calls -> Seq(Requests)]
      /\ \A d \in Calls : DOMAIN request'[d] = DOMAIN request[d] /\ Len(request'[d]) = Len(request[d])
      /\ \A d \in Calls : \A j \in DOMAIN request[d] : request'[d][j] \in {request[d][j], Gone}
      /\ \A d \in Calls : d # c => request'[d] = request[d]
  <2>1. CASE request' = request
    BY <1>1, <2>1
  <2>2. CASE Last(c) \in DOMAIN request[c] /\ request' = [request EXCEPT ![c][Last(c)] = Gone]
    <3>1. \A d \in Calls : d # c => request'[d] = request[d]
      BY <1>1, <2>2
    <3> QED
      BY <1>1, <2>2, <3>1, GoneIsRequest, ChangedRequest
  <2> QED
    BY <2>1, <2>2
<1>3. to \in {"idle", "waiting", "pausing"} \union Ended /\ to # "waiting"
  BY DEF Ended
<1>4. TypeOK'
  BY <1>2, <1>3 DEF IInv, TypeOK, Last
<1>5. RequestState'
  <2> SUFFICES ASSUME NEW d \in Calls, NEW j \in DOMAIN request[d], request'[d][j] # Gone
               PROVE  Sound(d, request[d][j])'
    BY <1>2 DEF RequestState
  <2>1. request'[d][j] = request[d][j] /\ Sound(d, request[d][j])
    BY <1>2 DEF IInv, RequestState
  <2> QED
    BY <2>1 DEF Sound, Names, Latest, Taken
<1>6. StoreState'
  BY DEF IInv, StoreState, Latest, Names
<1>7. CallState'
  <2> SUFFICES ASSUME NEW d \in Calls
               PROVE  /\ phase'[d] \in {"waiting", "pausing"} =>
                            /\ turn'[d] > 0 /\ body'[d] \in Bodies /\ Latest(body[d])'
                            /\ body'[d].id = IF asked'[d].id = NoID THEN Generated(d, turn'[d]) ELSE asked'[d].id
                      /\ phase'[d] = "waiting" => troubles'[d] = attempt'[d]
                      /\ phase'[d] = "waiting" /\ (Current(d) # Gone)' => (Current(d).body = body[d])'
                      /\ phase'[d] = "pausing" => troubles'[d] = attempt'[d] + 1 /\ attempt'[d] < MaxRetries
    BY DEF CallState
  <2>1. CASE d = c
    BY <1>3, <2>1 DEF IInv, CallState, Latest, TypeOK
  <2>2. CASE d # c
    <3>1. phase'[d] = phase[d] /\ troubles'[d] = troubles[d] /\ request'[d] = request[d]
      BY <1>2, <2>2 DEF IInv
    <3> QED
      BY <3>1 DEF IInv, CallState, Latest, Current, Last
  <2> QED
    BY <2>1, <2>2
<1>8. Outcomes'
  BY DEF IInv, Outcomes, Taken, TypeOK
<1> QED
  BY <1>4, <1>5, <1>6, <1>7, <1>8 DEF IInv

\* After one more failure a waiting call pauses, or has made all its attempts.
LEMMA FailureFacts ==
    ASSUME IInv, NEW c \in Calls, phase[c] = "waiting"
    PROVE  /\ troubles[c] + 1 \in Nat
           /\ AfterFailure(c) \in {"pausing", "unknown"}
           /\ AfterFailure(c) = "pausing" => troubles[c] + 1 = attempt[c] + 1 /\ attempt[c] < MaxRetries
           /\ AfterFailure(c) = "unknown" => troubles[c] + 1 = MaxRetries + 1
<1>1. troubles[c] = attempt[c] /\ attempt[c] \in 0..MaxRetries
  BY DEF IInv, CallState, TypeOK
<1> QED
  BY <1>1, DeliveryAssumption DEF AfterFailure

\* Receive, an answer.
LEMMA ReceiveStep ==
    ASSUME IInv, NEW c \in Calls, Receive(c) PROVE IInv'
<1> USE DEF Receive
<1> DEFINE status == Current(c).status
<1>1. Current(c) # Gone /\ Last(c) \in DOMAIN request[c] /\ Current(c) \in Requests
  <2>1. Last(c) > 0 /\ request[c] \in Seq(Requests)
    BY DEF IInv, TypeOK
  <2> QED
    BY <2>1 DEF Gone, Current, Last
<1>2. Sound(c, Current(c)) /\ Current(c).body = body[c]
  BY <1>1 DEF IInv, RequestState, CallState, Current
<1>3. status = 201 => body[c] \in listed
  BY <1>2 DEF Sound
<1>4. status = 409 => Taken(c, body[c])
  BY <1>2 DEF Sound
<1> DEFINE n == IF RetryableStatus(status) THEN troubles[c] + 1 ELSE troubles[c]
<1>5. n \in Nat
  BY FailureFacts DEF IInv, TypeOK
<1>6. Outcome(c, status) \in {"pausing", "stored", "conflict", "invalid", "failed", "unknown"}
      /\ (Outcome(c, status) \in {"pausing", "unknown"} =>
             RetryableStatus(status) /\ Outcome(c, status) = AfterFailure(c))
      /\ (Outcome(c, status) = "stored" => status = 201)
      /\ (Outcome(c, status) = "conflict" => status = 409)
  BY FailureFacts DEF Outcome
<1>7. troubles' = [troubles EXCEPT ![c] = n]
  BY DEF IInv
<1>8. ClientChange(c, Outcome(c, status), n)
  BY <1>1, <1>3, <1>4, <1>6, <1>7, FailureFacts DEF ClientChange, Ended, IInv, TypeOK, storeVars
<1> QED
  BY <1>5, <1>8, ClientStep

\* Disconnect and Timeout, an attempt without one.
LEMMA DisconnectStep ==
    ASSUME IInv, NEW c \in Calls, Disconnect(c) \/ Timeout(c) PROVE IInv'
<1> USE DEF Disconnect, Timeout
<1>1. troubles' = [troubles EXCEPT ![c] = troubles[c] + 1]
  OBVIOUS
<1>2. failures' \in 0..MaxTroubles
  BY DeliveryAssumption DEF IInv, TypeOK
<1>3. ClientChange(c, AfterFailure(c), troubles[c] + 1)
  BY <1>1, <1>2, FailureFacts DEF ClientChange, Ended, storeVars
<1> QED
  BY <1>3, FailureFacts, ClientStep

\* Truncated, an answer that breaks off.
LEMMA TruncatedStep ==
    ASSUME IInv, NEW c \in Calls, Truncated(c) PROVE IInv'
<1> USE DEF Truncated
<1> DEFINE to == IF c \in Rereading THEN AfterFailure(c) ELSE "unknown"
<1>1. troubles' = [troubles EXCEPT ![c] = troubles[c] + 1]
  OBVIOUS
<1>2. failures' \in 0..MaxTroubles
  BY DeliveryAssumption DEF IInv, TypeOK
<1>3. Last(c) \in DOMAIN request[c]
  <2>1. Last(c) > 0 /\ request[c] \in Seq(Requests)
    BY DEF IInv, TypeOK
  <2> QED
    BY <2>1 DEF Last
<1>4. ClientChange(c, to, troubles[c] + 1)
  BY <1>1, <1>2, <1>3, FailureFacts DEF ClientChange, Ended, storeVars
<1> QED
  BY <1>4, FailureFacts, ClientStep

\* Cancel, the end of the caller's patience.
LEMMA CancelStep ==
    ASSUME IInv, NEW c \in Calls, Cancel(c) PROVE IInv'
<1> USE DEF Cancel
<1>1. troubles' = [troubles EXCEPT ![c] = troubles[c]] /\ troubles[c] \in Nat
  BY DEF IInv, TypeOK
<1>2. failures' \in 0..MaxTroubles
  BY DeliveryAssumption DEF IInv, TypeOK
<1>3. ClientChange(c, "cancelled", troubles[c])
  BY <1>1, <1>2 DEF ClientChange, Ended, storeVars
<1> QED
  BY <1>1, <1>3, ClientStep

-----------------------------------------------------------------------------
\* Steps of the client that send a request.

\* Resend, the next attempt with the body of the first.
LEMMA ResendStep ==
    ASSUME IInv, NEW c \in Calls, Resend(c) PROVE IInv'
<1> USE DEF Resend, Resent
<1> DEFINE r == Request(body[c])
<1>1. body[c] \in Bodies /\ attempt[c] < MaxRetries /\ troubles[c] = attempt[c] + 1 /\ attempt[c] \in 0..MaxRetries
  BY DEF IInv, CallState, TypeOK
<1>2. r \in Requests /\ r # Gone /\ r.body = body[c] /\ r.at = "sent"
  BY <1>1, NewRequest
<1>3. /\ request' \in [Calls -> Seq(Requests)]
      /\ \A d \in Calls : d # c => request'[d] = request[d]
      /\ Len(request'[c]) > 0
      /\ \A j \in DOMAIN request'[c] :
            \/ j \in DOMAIN request[c] /\ request'[c][j] = request[c][j]
            \/ request'[c][j] = r
      /\ request'[c][Len(request'[c])] = r
  BY <1>2, AddedRequest DEF IInv, TypeOK
<1>4. TypeOK'
  BY <1>1, <1>3, DeliveryAssumption DEF IInv, TypeOK, Last, storeVars
<1>5. Sound(c, r)
  <2>1. body[c].id \in Names(c) /\ Latest(body[c])
    BY DEF IInv, CallState, Names, TypeOK
  <2> QED
    BY <1>2, <2>1 DEF Sound
<1>6. RequestState'
  <2> SUFFICES ASSUME NEW d \in Calls, NEW j \in DOMAIN request'[d], request'[d][j] # Gone
               PROVE  Sound(d, request[d][j])'
    BY DEF RequestState
  <2>1. CASE d = c /\ request'[d][j] = r
    BY <1>2, <1>5, <2>1 DEF Sound, Names, Latest
  <2>2. CASE j \in DOMAIN request[d] /\ request'[d][j] = request[d][j]
    <3>1. Sound(d, request[d][j])
      BY <2>2 DEF IInv, RequestState
    <3> QED
      BY <2>2, <3>1 DEF Sound, Names, Latest, Taken, storeVars
  <2> QED
    BY <1>3, <2>1, <2>2
<1>7. StoreState'
  BY DEF IInv, StoreState, Latest, Names, storeVars
<1>8. CallState'
  BY <1>1, <1>2, <1>3 DEF IInv, CallState, Latest, Current, Last, TypeOK
<1>9. Outcomes'
  BY DEF IInv, Outcomes, Taken, storeVars
<1> QED
  BY <1>4, <1>6, <1>7, <1>8, <1>9 DEF IInv

\* The ids made up so far are those of turns that have begun.
LEMMA FreshName ==
    ASSUME IInv, NEW c \in Calls, turn[c] < MaxTurns
    PROVE  \A d \in Calls : Generated(c, turn[c] + 1) \notin Names(d)
<1> SUFFICES ASSUME NEW d \in Calls, Generated(c, turn[c] + 1) \in Names(d) PROVE FALSE
  OBVIOUS
<1>1. turn \in [Calls -> 0..MaxTurns] /\ asked[d] \in Asks
  BY DEF IInv, TypeOK
<1>2. turn[c] + 1 \in 0..MaxRequests
  BY <1>1, EnoughNames
<1>3. asked[d].id # Generated(c, turn[c] + 1)
  BY <1>1, <1>2, DeliveryAssumption
<1>4. PICK n \in 1..turn[d] : Generated(c, turn[c] + 1) = Generated(d, n)
  BY <1>3 DEF Names
<1>5. c = d /\ n = turn[c] + 1
  BY <1>4, GeneratedFacts
<1> QED
  BY <1>1, <1>5

\* Capture, a turn with a body of its own.
LEMMA CaptureStep ==
    ASSUME IInv, NEW c \in Calls, Capture(c) PROVE IInv'
<1> USE DEF Capture
<1>0. PICK time \in Times :
          /\ body' = [body EXCEPT ![c] = Prepared(c, turn[c] + 1, time)]
          /\ request' = [request EXCEPT ![c] = Append(@, Request(Prepared(c, turn[c] + 1, time)))]
  OBVIOUS
<1>1. PICK b : b = Prepared(c, turn[c] + 1, time)
  OBVIOUS
<1> DEFINE r == Request(b)
<1>2. turn \in [Calls -> 0..MaxTurns] /\ asked[c] \in Asks /\ turn[c] + 1 \in 1..MaxTurns
  BY DeliveryAssumption DEF IInv, TypeOK
<1>3. b.id = IF asked[c].id = NoID THEN Generated(c, turn[c] + 1) ELSE asked[c].id
  BY <1>1 DEF Prepared
<1>4. b \in Bodies
  <2>1. b.id \in Ids
    BY <1>2, <1>3 DEF Ids
  <2>2. b.content \in Contents /\ b.time \in Times
    BY <1>2, <1>1, DeliveryAssumption DEF Prepared, Contents
  <2> QED
    BY <1>1, <2>1, <2>2 DEF Prepared, Bodies
<1>5. r \in Requests /\ r # Gone /\ r.body = b /\ r.at = "sent"
  BY <1>4, NewRequest
<1>6. /\ request' \in [Calls -> Seq(Requests)]
      /\ \A d \in Calls : d # c => request'[d] = request[d]
      /\ Len(request'[c]) > 0
      /\ \A j \in DOMAIN request'[c] :
            \/ j \in DOMAIN request[c] /\ request'[c][j] = request[c][j]
            \/ request'[c][j] = r
      /\ request'[c][Len(request'[c])] = r
  BY <1>0, <1>5, <1>1, AddedRequest DEF IInv, TypeOK
<1>7. /\ turn' = [turn EXCEPT ![c] = turn[c] + 1]
      /\ body' = [body EXCEPT ![c] = b]
      /\ UNCHANGED <<asked, store, listed, failures>>
  BY <1>0, <1>1 DEF storeVars
<1>8. TypeOK'
  BY <1>2, <1>4, <1>6, <1>7, DeliveryAssumption DEF IInv, TypeOK, Last
<1>9. \A d \in Calls : Names(d) \subseteq Names(d)'
  BY <1>2, <1>7 DEF Names
\* A body known before carries no id of the new turn, and the new body does.
<1>10. ASSUME NEW q, NEW d \in Calls, q.id \in Names(d), Latest(q)
       PROVE  Latest(q)'
  <2> SUFFICES ASSUME NEW e \in Calls, q.id = Generated(e, turn'[e]) PROVE q = body'[e]
    BY DEF Latest
  <2>1. CASE e = c
    BY <1>2, <1>7, <1>10, <2>1, FreshName DEF IInv
  <2>2. CASE e # c
    BY <1>2, <1>7, <1>10, <2>2 DEF Latest, IInv
  <2> QED
    BY <2>1, <2>2
<1>11. b.id \in Names(c)'
  BY <1>2, <1>3, <1>7 DEF Names
<1>12. \A d \in Calls : d # c => b.id # Generated(d, turn[d])
  <2> SUFFICES ASSUME NEW d \in Calls, d # c, b.id = Generated(d, turn[d]) PROVE FALSE
    OBVIOUS
  <2>1. turn[d] \in 0..MaxRequests
    BY <1>2, EnoughNames
  <2>2. asked[c].id # Generated(d, turn[d])
    BY <1>2, <2>1, DeliveryAssumption
  <2>3. b.id = Generated(c, turn[c] + 1)
    BY <1>3, <2>2
  <2>4. Generated(c, turn[c] + 1) = Generated(d, turn[d])
    BY <2>3
  <2> QED
    BY <2>4, GeneratedFacts
<1>13. Latest(b)'
  <2> SUFFICES ASSUME NEW e \in Calls, b.id = Generated(e, turn'[e]) PROVE b = body'[e]
    BY DEF Latest
  <2> QED
    BY <1>2, <1>7, <1>12 DEF IInv, TypeOK
<1>14. RequestState'
  <2> SUFFICES ASSUME NEW d \in Calls, NEW j \in DOMAIN request'[d], request'[d][j] # Gone
               PROVE  Sound(d, request[d][j])'
    BY DEF RequestState
  <2>1. CASE d = c /\ request'[d][j] = r
    BY <1>5, <1>11, <1>13, <2>1 DEF Sound
  <2>2. CASE j \in DOMAIN request[d] /\ request'[d][j] = request[d][j]
    <3>1. PICK q : q = request[d][j]
      OBVIOUS
    <3>2. Sound(d, q)
      BY <2>2, <3>1 DEF IInv, RequestState
    <3>3. q.body.id \in Names(d)' /\ Latest(q.body)'
      BY <1>9, <1>10, <3>2 DEF Sound
    <3> QED
      BY <1>7, <2>2, <3>1, <3>2, <3>3 DEF Sound, Taken
  <2> QED
    BY <1>6, <2>1, <2>2
<1>15. StoreState'
  <2>1. \A s \in store : Latest(s)' /\ \E d \in Calls : s.id \in Names(d)'
    BY <1>9, <1>10 DEF IInv, StoreState
  <2> QED
    BY <1>7, <2>1 DEF IInv, StoreState
<1>16. CallState'
  <2> SUFFICES ASSUME NEW d \in Calls
               PROVE  /\ phase'[d] \in {"waiting", "pausing"} =>
                            /\ turn'[d] > 0 /\ body'[d] \in Bodies /\ Latest(body[d])'
                            /\ body'[d].id = IF asked'[d].id = NoID THEN Generated(d, turn'[d]) ELSE asked'[d].id
                      /\ phase'[d] = "waiting" => troubles'[d] = attempt'[d]
                      /\ phase'[d] = "waiting" /\ (Current(d) # Gone)' => (Current(d).body = body[d])'
                      /\ phase'[d] = "pausing" => troubles'[d] = attempt'[d] + 1 /\ attempt'[d] < MaxRetries
    BY DEF CallState
  <2>1. CASE d = c
    <3>1. body'[c] = b /\ turn'[c] = turn[c] + 1 /\ phase'[c] = "waiting" /\ troubles'[c] = 0 /\ attempt'[c] = 0
      BY <1>7 DEF IInv, TypeOK
    <3> QED
      BY <1>2, <1>3, <1>4, <1>5, <1>6, <1>7, <1>13, <2>1, <3>1 DEF Current, Last
  <2>2. CASE d # c
    <3>1. /\ phase'[d] = phase[d] /\ troubles'[d] = troubles[d] /\ attempt'[d] = attempt[d]
          /\ request'[d] = request[d] /\ body'[d] = body[d] /\ turn'[d] = turn[d]
      BY <1>6, <1>7, <2>2 DEF IInv
    <3>2. phase[d] \in {"waiting", "pausing"} => body[d].id \in Names(d) /\ Latest(body[d])
      BY <1>2 DEF IInv, CallState, Names
    <3>3. PICK q : q = body[d]
      OBVIOUS
    <3>4. phase[d] \in {"waiting", "pausing"} => Latest(q)'
      BY <1>10, <3>2, <3>3
    <3> QED
      BY <1>7, <3>1, <3>3, <3>4 DEF IInv, CallState, Current, Last
  <2> QED
    BY <2>1, <2>2
<1>17. Outcomes'
  BY <1>7 DEF IInv, Outcomes, Taken, TypeOK
<1> QED
  BY <1>8, <1>14, <1>15, <1>16, <1>17 DEF IInv

-----------------------------------------------------------------------------
\* The invariant, and what it implies.

\* Nothing has been asked, sent or stored.
LEMMA Initially == Init => IInv
<1> SUFFICES ASSUME Init PROVE IInv
  OBVIOUS
<1> USE DEF Init
<1>1. TypeOK
  BY DeliveryAssumption DEF TypeOK
<1>2. RequestState /\ StoreState /\ CallState /\ Outcomes
  BY DEF RequestState, StoreState, CallState, Outcomes
<1> QED
  BY <1>1, <1>2 DEF IInv

\* Each action preserves the invariant.
LEMMA Step == IInv /\ [Next]_vars => IInv'
<1> SUFFICES ASSUME IInv, [Next]_vars PROVE IInv'
  OBVIOUS
<1>1. CASE UNCHANGED vars
  <2>1. UNCHANGED <<asked, turn, body, attempt, phase, troubles, request, store, listed, failures>>
    BY <1>1 DEF vars, callVars, storeVars
  <2>2. TypeOK' /\ Outcomes' /\ StoreState'
    BY <2>1 DEF IInv, TypeOK, Outcomes, StoreState, Latest, Taken, Names, Last
  <2>3. RequestState'
    <3> SUFFICES ASSUME NEW d \in Calls, NEW j \in DOMAIN request[d], request[d][j] # Gone
                 PROVE  Sound(d, request[d][j])'
      BY <2>1 DEF RequestState
    <3>1. Sound(d, request[d][j])
      BY DEF IInv, RequestState
    <3> QED
      BY <2>1, <3>1 DEF Sound, Latest, Taken, Names
  <2>4. CallState'
    BY <2>1 DEF IInv, CallState, Latest, Current, Last
  <2> QED
    BY <2>2, <2>3, <2>4 DEF IInv
<1>2. ASSUME NEW c \in Calls, Client(c) \/ Timeout(c) \/ Truncated(c) \/ Cancel(c) PROVE IInv'
  BY <1>2, CaptureStep, ResendStep, ReceiveStep, DisconnectStep, TruncatedStep, CancelStep DEF Client
<1>3. ASSUME NEW c \in Calls, NEW k \in DOMAIN request[c], Handle(c, k) \/ Break(c, k) PROVE IInv'
  BY <1>3, RefuseStep, CommitStep, ConflictStep, ProjectStep, StoreFailsStep, UnavailableStep, VanishStep
     DEF Handle, Break
<1> QED
  BY <1>1, <1>2, <1>3 DEF Next

\* The invariant holds: doJSON and AppendBatch keep names, requests, calls and the
\* store in the relation the properties below are read off.
THEOREM Inductive == Spec => []IInv
BY Initially, Step, PTL DEF Spec

\* Every variable keeps its type (TypeOK).
THEOREM TypeCorrect == Spec => []TypeOK
<1>1. IInv => TypeOK
  BY DEF IInv
<1> QED
  BY <1>1, Inductive, PTL

\* A capture that returned is committed and listed (AnswerIsTrue): doJSON never
\* takes the answer of another request for its own.
THEOREM AnswersAreTrue == Spec => []AnswerIsTrue
<1>1. IInv => AnswerIsTrue
  BY DEF IInv, TypeOK, Outcomes, AnswerIsTrue
<1> QED
  BY <1>1, Inductive, PTL

\* However often a capture is sent, it is one segment (OneSegmentEach).
THEOREM CapturedOnce == Spec => []OneSegmentEach
<1>1. ASSUME IInv PROVE OneSegmentEach
  <2>1. ASSUME NEW c \in Calls, NEW n \in 1..MaxRequests, NEW s \in store, s.id = Generated(c, n)
        PROVE  n <= turn[c]
    <3>1. PICK d \in Calls : s.id \in Names(d)
      BY <1>1 DEF IInv, StoreState
    <3>2. asked[d].id # Generated(c, n)
      BY <1>1, DeliveryAssumption DEF IInv, TypeOK
    <3>3. PICK m \in 1..turn[d] : Generated(c, n) = Generated(d, m)
      BY <2>1, <3>1, <3>2 DEF Names
    <3> QED
      BY <3>3, GeneratedFacts
  <2> QED
    BY <1>1, <2>1 DEF OneSegmentEach, IInv, StoreState
<1> QED
  BY <1>1, Inductive, PTL

\* A call is told of a conflict only when something else holds its id
\* (ConflictIsReal), never because of an attempt of its own.
THEOREM ConflictsAreReal == Spec => []ConflictIsReal
<1>1. IInv => ConflictIsReal
  BY DEF IInv, Outcomes, Taken, ConflictIsReal
<1> QED
  BY <1>1, Inductive, PTL

\* A call whose outcome stays open has made all its attempts (GivesUpLast).
THEOREM AttemptsAreMade == Spec => []GivesUpLast
<1>1. IInv => GivesUpLast
  BY DEF IInv, Outcomes, GivesUpLast
<1> QED
  BY <1>1, Inductive, PTL
=============================================================================
