------------------------------ MODULE HistoryApp ------------------------------
(***************************************************************************)
(* The inspector's page (server/ui/src/app.tsx): the list of sessions, the *)
(* selected one, and the requests for both.  Each is made by an effect,    *)
(* and aborts the request that it supersedes.                               *)
(*                                                                          *)
(* A session is stored as a number of records, and a timeline is known by  *)
(* its session and how many of its records it has.  The server reads at    *)
(* some time between a request and its answer.                              *)
(***************************************************************************)
EXTENDS Integers, FiniteSets, FiniteSetsExt

CONSTANTS
    Sessions,
    None,           \* no session, or a request that is not read yet
    ListLimit,      \* sessions in an answer
    MaxRecords,     \* BOUND: MaxRecords[s], the records of session s
    MaxVisits,      \* BOUND: selections and refreshes
    MaxFaults       \* BOUND: requests that fail

ASSUME AppAssumption ==
    /\ None \notin Sessions
    /\ ListLimit \in Nat \ {0}
    /\ MaxRecords \in [Sessions -> Nat \ {0}]
    /\ {MaxVisits, MaxFaults} \subseteq Nat

VARIABLES
    stored,             \* on the server, the records of each session
    conversations,      \* the sessions listed, with their records
    selectedID,
    entries,            \* the timeline last fetched
    listRequests,       \* in flight and not aborted, with what the server read
    timelineRequests,
    listLoading, timelineLoading,
    listError, timelineError,
    visits, faults

list == <<conversations, listRequests, listLoading, listError>>
session == <<entries, timelineRequests, timelineLoading, timelineError>>
appVars == <<stored, list, selectedID, session, visits, faults>>

NoEntries == [session |-> None, records |-> 0]

\* The page is mounted and asks for the list; all but the last record of each
\* session is stored.
AppInit ==
    /\ stored = [s \in Sessions |-> MaxRecords[s] - 1]
    /\ conversations = <<>> /\ selectedID = None /\ entries = NoEntries
    /\ listRequests = {[answer |-> None]} /\ timelineRequests = {}
    /\ listLoading = TRUE /\ timelineLoading = FALSE
    /\ listError = FALSE /\ timelineError = FALSE
    /\ visits = 0 /\ faults = 0

\* The inspector shows the entries under the name of the selected session.
Shown ==
    /\ selectedID \in DOMAIN conversations
    /\ ~listError /\ ~timelineLoading /\ ~timelineError

-----------------------------------------------------------------------------
\* The effects.  The superseded request is aborted, and after the new one has set
\* the flag, the "finally" of the aborted one clears it.

LoadConversations ==
    /\ listRequests' = {[answer |-> None]}
    /\ listLoading' = (listRequests = {})
    /\ listError' = FALSE
    /\ UNCHANGED conversations

\* Mutant of LoadTimeline: the superseded request is not aborted.
LoadTimelineBeside(s) ==
    IF s = None
    THEN /\ entries' = NoEntries
         /\ timelineRequests' = {} /\ timelineLoading' = FALSE
         /\ UNCHANGED timelineError
    ELSE /\ timelineRequests' = timelineRequests \union {[session |-> s, answer |-> None]}
         /\ timelineLoading' = TRUE
         /\ timelineError' = FALSE
         /\ UNCHANGED entries

LoadTimeline(s) ==
    IF s = None
    THEN /\ entries' = NoEntries
         /\ timelineRequests' = {} /\ timelineLoading' = FALSE
         /\ UNCHANGED timelineError
    ELSE /\ timelineRequests' = {[session |-> s, answer |-> None]}
         /\ timelineLoading' = (timelineRequests = {})
         /\ timelineError' = FALSE
         /\ UNCHANGED entries

Choose(s) ==
    /\ selectedID' = s
    /\ IF s = selectedID THEN UNCHANGED session ELSE LoadTimeline(s)

-----------------------------------------------------------------------------
Fails == faults < MaxFaults /\ faults' = faults + 1

ListRead(request) ==
    /\ request.answer = None
    /\ LET some == {s \in Sessions : stored[s] > 0}
           size == Min({ListLimit, Cardinality(some)})
       IN  \E S \in kSubset(size, some) :
              listRequests' = (listRequests \ {request})
                                \union {[answer |-> [s \in S |-> stored[s]]]}
    /\ UNCHANGED <<stored, conversations, listLoading, listError, selectedID, session,
                   visits, faults>>

\* The selection stays, or the session with the most records is selected.
ListArrives(request) ==
    /\ request.answer # None
    /\ listRequests' = listRequests \ {request}
    /\ conversations' = request.answer /\ listLoading' = FALSE
    /\ LET listed == DOMAIN request.answer
           largest == {s \in listed : \A r \in listed : request.answer[s] >= request.answer[r]}
       IN  \E s \in IF selectedID \in listed THEN {selectedID}
                    ELSE IF listed = {} THEN {None} ELSE largest : Choose(s)
    /\ UNCHANGED <<stored, listError, visits, faults>>

ListFails(request) ==
    /\ Fails
    /\ listRequests' = listRequests \ {request}
    /\ listLoading' = FALSE /\ listError' = TRUE
    /\ UNCHANGED <<stored, conversations, selectedID, session, visits>>

TimelineRead(request) ==
    /\ request.answer = None
    /\ timelineRequests' = (timelineRequests \ {request})
                             \union {[request EXCEPT !.answer = stored[request.session]]}
    /\ UNCHANGED <<stored, list, selectedID, entries, timelineLoading, timelineError,
                   visits, faults>>

TimelineArrives(request) ==
    /\ request.answer # None
    /\ timelineRequests' = timelineRequests \ {request}
    /\ entries' = [session |-> request.session, records |-> request.answer]
    /\ timelineLoading' = FALSE
    /\ UNCHANGED <<stored, list, selectedID, timelineError, visits, faults>>

TimelineFails(request) ==
    /\ Fails
    /\ timelineRequests' = timelineRequests \ {request}
    /\ timelineLoading' = FALSE /\ timelineError' = TRUE
    /\ UNCHANGED <<stored, list, selectedID, entries, visits>>

-----------------------------------------------------------------------------
\* The user.

Visits == visits < MaxVisits /\ visits' = visits + 1

\* From the list, or from the menu above it.
Select(s) ==
    /\ Visits
    /\ s \in DOMAIN conversations
    /\ Choose(s)
    /\ UNCHANGED <<stored, list, faults>>

\* The refresh and retry buttons.
Refresh ==
    /\ Visits
    /\ LoadConversations
    /\ LoadTimeline(selectedID)
    /\ UNCHANGED <<stored, selectedID, faults>>

\* The server: a record is appended.
Grow(s) ==
    /\ stored[s] < MaxRecords[s]
    /\ stored' = [stored EXCEPT ![s] = @ + 1]
    /\ UNCHANGED <<list, selectedID, session, visits, faults>>

AppNext ==
    \/ \E request \in listRequests :
          ListRead(request) \/ ListArrives(request) \/ ListFails(request)
    \/ \E request \in timelineRequests :
          TimelineRead(request) \/ TimelineArrives(request) \/ TimelineFails(request)
    \/ \E s \in Sessions : Select(s) \/ Grow(s)
    \/ Refresh

-----------------------------------------------------------------------------
\* Once no request is under way and none has failed, the entries are those of the
\* selected session: no answer for an earlier selection comes last.
SettledIsSelected ==
    timelineRequests = {} /\ ~timelineError => entries.session = selectedID

\* "the selected session is hydrated from its immutable records": what is shown
\* under the name of a session is its timeline.
\* (The code does not keep this promise; README, section 6.)
ShownIsSelected == Shown => entries.session = selectedID
=============================================================================
