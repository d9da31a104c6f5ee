------------------------------- MODULE Inspector -------------------------------
(***************************************************************************)
(* The inspector of a session (server/ui/src/components/trace-inspector.tsx *)
(* and conversation-review.tsx) on the page that fetches its entries.       *)
(***************************************************************************)
EXTENDS HistoryApp, TimelineFilter

CONSTANTS
    Script,         \* Script[s]: the records of session s, as they are appended
    Queries,        \* what the user types into the filter
    Foci,           \* of "all", "tools", "reasoning", "slow", "errors"
    MaxSteps        \* BOUND: steps of the user in the inspector

ASSUME InspectorAssumption ==
    /\ \A s \in Sessions :
          Script[s] \in Seq(Range(Script[s])) /\ MaxRecords[s] <= Len(Script[s])
    /\ MaxSteps \in Nat

VARIABLES
    view,           \* what the URL keeps: the session view, the density, the
                    \* focus, the context mode and the query
    operationID,    \* the operation selected
    opened,         \* the record opened from the review, until the next step
    steps

vars == <<appVars, view, operationID, opened, steps>>

\* The view of a URL that says nothing.
InitialView ==
    [sessionView |-> "review", density |-> "trace", focus |-> "all", context |-> "context",
     query |-> <<>>]

\* initialSessionView and its like: the view that the URL gives a new inspector.
FromURL(v) == [v EXCEPT !.query = Trim(@)]

Init ==
    /\ AppInit
    /\ \E w \in {"review", "trace"} : view = [InitialView EXCEPT !.sessionView = w]
    /\ operationID = None /\ opened = None
    /\ steps = 0

-----------------------------------------------------------------------------
Timeline ==
    IF entries.session = None THEN <<>>
    ELSE SubSeq(Script[entries.session], 1, entries.records)

ID(operation) == [session |-> entries.session, records |-> operation.entries]

SemanticOperations == BuildTraceOperations(Timeline)

\* filter: the operations at the given places, in their order.
Those(operations, places) ==
    LET listed == Places(places)
    IN  [k \in DOMAIN listed |-> operations[listed[k]]]

FocusedOperations(v) ==
    LET operations == IF v.density = "records" THEN RawTraceOperations(Timeline)
                      ELSE SemanticOperations
    IN  Those(operations, {n \in DOMAIN operations :
                              OperationMatchesFocus(Timeline, operations[n], v.focus)})

Matching(operations, clauses) ==
    {n \in DOMAIN operations :
        \E i \in Range(operations[n].entries) : TimelineEntryMatches(Timeline[i], clauses)}

\* What the clauses leave of the operations, and the places around it.
FilteredOperations(operations, clauses, mode) ==
    LET visible == IF clauses = {} THEN DOMAIN operations
                   ELSE IndexesForContext(Len(operations),
                                          Matching(operations, clauses), mode)
    IN  Those(operations, visible)

\* The operations that the view shows.
VisibleOperations(v) ==
    FilteredOperations(FocusedOperations(v), ParseTimelineQuery(v.query), v.context)

\* The place of the operation that is selected among the visible ones: the one
\* last clicked, else the first of the user, else the first.
Selected(visible, id) ==
    LET clicked == {n \in DOMAIN visible : ID(visible[n]) = id}
        users == {n \in DOMAIN visible : visible[n].kind = User}
    IN  IF clicked # {} THEN Min(clicked) ELSE IF users # {} THEN Min(users) ELSE 1

-----------------------------------------------------------------------------
\* A step of the user, to view v with operation id selected.
Step(v, id) ==
    /\ steps < MaxSteps /\ steps' = steps + 1
    /\ view' = v /\ operationID' = id
    /\ UNCHANGED appVars

Sees(v, id) == Shown /\ Step(v, id) /\ opened' = None

SetSessionView(w) == Sees([view EXCEPT !.sessionView = w], operationID)

\* In the trace.
Tracing(v, id) == view.sessionView = "trace" /\ Sees(v, id)

SetDensity(d) == Tracing([view EXCEPT !.density = d], operationID)

SetFocus(f) == Tracing([view EXCEPT !.focus = f], operationID)

SetContextMode(m) ==
    /\ ParseTimelineQuery(view.query) # {}
    /\ Tracing([view EXCEPT !.context = m], operationID)

SetTimelineQuery(q) == Tracing([view EXCEPT !.query = q], operationID)

ApplySuggestion ==
    \E value \in Suggestions(Timeline, view.query) :
        SetTimelineQuery(WithSuggestion(view.query, value))

ClickOperation ==
    \E operation \in Range(VisibleOperations(view)) : Tracing(view, ID(operation))

ClickRunMap ==
    \E operation \in Range(SemanticOperations) :
        Tracing([view EXCEPT !.density = "trace", !.focus = "all"], ID(operation))

Neighbour(visible, current, by) ==
    visible[Max({1, Min({Len(visible), current + by})})]

\* The keys J and K work whatever is shown, as long as the inspector is mounted.
Navigates(visible, by) ==
    /\ ~listError /\ view.sessionView = "trace" /\ visible # <<>>
    /\ Step(view, ID(Neighbour(visible, Selected(visible, operationID), by)))
    /\ opened' = None

Navigate(by) == Navigates(VisibleOperations(view), by)

\* The record that the filter buttons beside the selected operation are about.
PrimaryOf(visible) == Timeline[Head(visible[Selected(visible, operationID)].entries)]
Primary == PrimaryOf(VisibleOperations(view))

\* addFilter, from the buttons beside the selected operation.
AddFilter(field) ==
    /\ VisibleOperations(view) # <<>>
    /\ FieldText(Primary, field) # Absent
    /\ SetTimelineQuery(WithFilter(view.query, field, FieldText(Primary, field)))

\* Mutant of OpenEntryInTrace: the density stays.
OpenEntryDense(i) ==
    LET id == [session |-> entries.session, records |-> <<i>>]
    IN  /\ Shown /\ view.sessionView = "review"
        /\ Step([InitialView EXCEPT !.sessionView = "trace", !.density = view.density,
                                    !.context = "full"], id)
        /\ opened' = id

\* From a message of the review, or a record of an activity that is expanded.
OpenEntryInTrace(i) ==
    LET id == [session |-> entries.session, records |-> <<i>>]
    IN  /\ Shown /\ view.sessionView = "review"
        /\ Step([InitialView EXCEPT !.sessionView = "trace", !.density = "records",
                                    !.context = "full"], id)
        /\ opened' = id

-----------------------------------------------------------------------------
Conversation == IF selectedID \in DOMAIN conversations THEN selectedID ELSE None

\* A step of the page.  The selection of an operation goes with the conversation;
\* where the list was in error, a new inspector is mounted.
AppStep ==
    /\ AppNext
    /\ LET mounted == listError /\ ~listError'
           forgets == mounted \/ Conversation' # Conversation
       IN  /\ view' = IF mounted THEN FromURL(view) ELSE view
           /\ operationID' = IF forgets THEN None ELSE operationID
           /\ opened' = IF forgets THEN None ELSE opened
    /\ UNCHANGED steps

Next ==
    \/ AppStep
    \/ \E w \in {"review", "trace"} : SetSessionView(w)
    \/ \E d \in {"trace", "records"} : SetDensity(d)
    \/ \E f \in Foci : SetFocus(f)
    \/ \E m \in {"matches", "context", "full"} : SetContextMode(m)
    \/ \E q \in Queries : SetTimelineQuery(q)
    \/ ApplySuggestion \/ ClickOperation \/ ClickRunMap
    \/ \E by \in {-1, 1} : Navigate(by)
    \/ \E field \in {"kind", "tool", "agent"} : AddFilter(field)
    \/ \E b \in VisibleBlocks(Timeline) : \E i \in b.entries : OpenEntryInTrace(i)

Spec == Init /\ [][Next]_vars

-----------------------------------------------------------------------------
SelectedOf(visible, id) ==
    IF visible = <<>> THEN None ELSE ID(visible[Selected(visible, id)])

SelectedID(v, id) == SelectedOf(VisibleOperations(v), id)

\* "open that exact evidence in Trace": the record opened from the review is the one
\* selected, and stays so while its session is fetched again and grows.
OpenedStaysOpen ==
    opened # None /\ Shown /\ entries.session = opened.session
    => SelectedID(view, operationID) = opened

Plain(value) == Quote \notin Range(value) /\ Head(value) \notin Comparisons

\* A filter of the selected operation's own value keeps that operation selected, in
\* every view, for a value of several words as well, if the record shown satisfies
\* the filter so far: not if only its result does, an open quote swallows the
\* addition, or the value has a quote or begins with a comparison.
FilterKeepsOperation ==
    [][\A field \in {"kind", "tool", "agent"} :
          AddFilter(field) /\ Plain(FieldText(Primary, field))
            /\ ~Quoted(view.query, Len(view.query) + 1)
            /\ TimelineEntryMatches(Primary, ParseTimelineQuery(view.query))
          => SelectedID(view', operationID') = SelectedID(view, operationID)]_vars
=============================================================================
