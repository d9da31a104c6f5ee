---------------------------- MODULE InspectorProofs ----------------------------
(***************************************************************************)
(* Theorems about Inspector, the page it is on (HistoryApp), and what it     *)
(* makes of a session (SessionTimeline), for any sessions and records, any   *)
(* steps of the user, and any order in which requests are read, answered     *)
(* and fail.                                                                 *)
(***************************************************************************)
EXTENDS Inspector, SessionTimeline, FiniteSetTheorems, SequenceTheorems,
        WellFoundedInduction, TLAPS

\* Every request in flight is for the session that is selected.
RequestsFollow ==
    \A r \in timelineRequests : r = [session |-> selectedID, answer |-> r.answer]

PInv == RequestsFollow /\ SettledIsSelected

-----------------------------------------------------------------------------
\* A session is loaded: what was asked for another one no longer arrives.
LEMMA LoadStep ==
    ASSUME NEW s, LoadTimeline(s), selectedID' = s PROVE PInv'
<1>1. CASE s = None
  <2>1. timelineRequests' = {} /\ entries' = NoEntries
    BY <1>1 DEF LoadTimeline
  <2>2. NoEntries.session = None
    BY DEF NoEntries
  <2> QED
    BY <1>1, <2>1, <2>2 DEF PInv, RequestsFollow, SettledIsSelected
<1>2. CASE s # None
  <2>1. timelineRequests' = {[session |-> s, answer |-> None]}
    BY <1>2 DEF LoadTimeline
  <2>2. [session |-> s, answer |-> None].answer = None
    OBVIOUS
  <2>3. RequestsFollow'
    BY <2>1, <2>2 DEF RequestsFollow
  <2>4. SettledIsSelected'
    BY <2>1 DEF SettledIsSelected
  <2> QED
    BY <2>3, <2>4 DEF PInv
<1> QED
  BY <1>1, <1>2

LEMMA ChooseStep == ASSUME PInv, NEW s, Choose(s) PROVE PInv'
<1>1. CASE s = selectedID
  BY <1>1 DEF Choose, session, PInv, RequestsFollow, SettledIsSelected
<1>2. CASE s # selectedID
  BY <1>2, LoadStep DEF Choose
<1> QED
  BY <1>1, <1>2

\* Steps that leave the timeline and the selection alone.
LEMMA Elsewhere == ASSUME PInv, UNCHANGED <<selectedID, session>> PROVE PInv'
BY DEF session, PInv, RequestsFollow, SettledIsSelected

LEMMA ListStep ==
    ASSUME PInv, NEW r \in listRequests, ListRead(r) \/ ListArrives(r) \/ ListFails(r)
    PROVE  PInv'
<1>1. CASE ListRead(r) \/ ListFails(r)
  BY <1>1, Elsewhere DEF ListRead, ListFails
<1>2. CASE ListArrives(r)
  <2>1. PICK s : Choose(s)
    BY <1>2 DEF ListArrives
  <2> QED
    BY <2>1, ChooseStep
<1> QED
  BY <1>1, <1>2

LEMMA TimelineStep ==
    ASSUME PInv, NEW r \in timelineRequests,
           TimelineRead(r) \/ TimelineArrives(r) \/ TimelineFails(r)
    PROVE  PInv'
<1>1. r = [session |-> selectedID, answer |-> r.answer]
  BY DEF PInv, RequestsFollow
<1>2. CASE TimelineRead(r)
  <2>1. UNCHANGED <<selectedID, entries, timelineError>>
    BY <1>2 DEF TimelineRead
  <2> DEFINE answered == [r EXCEPT !.answer = stored[r.session]]
  <2>2. timelineRequests' = (timelineRequests \ {r}) \union {answered}
    BY <1>2 DEF TimelineRead
  <2>3. answered = [session |-> selectedID, answer |-> answered.answer]
    BY <1>1
  <2> HIDE DEF answered
  <2> QED
    BY <2>1, <2>2, <2>3 DEF PInv, RequestsFollow, SettledIsSelected
<1>3. CASE TimelineArrives(r)
  BY <1>1, <1>3 DEF TimelineArrives, PInv, RequestsFollow, SettledIsSelected
<1>4. CASE TimelineFails(r)
  BY <1>4 DEF TimelineFails, PInv, RequestsFollow, SettledIsSelected
<1> QED
  BY <1>2, <1>3, <1>4

LEMMA PageStep == ASSUME PInv, AppNext PROVE PInv'
<1>1. ASSUME NEW s \in Sessions, Select(s) PROVE PInv'
  BY <1>1, ChooseStep DEF Select
<1>2. ASSUME NEW s \in Sessions, Grow(s) PROVE PInv'
  BY <1>2, Elsewhere DEF Grow
<1>3. CASE Refresh
  BY <1>3, LoadStep DEF Refresh
<1> QED
  BY <1>1, <1>2, <1>3, ListStep, TimelineStep DEF AppNext

\* A step of the user other than opening a record asks the server for nothing, and what
\* was opened counts no more.
Closes == UNCHANGED appVars /\ opened' = None

Opens == \E b \in VisibleBlocks(Timeline) : \E i \in b.entries : OpenEntryInTrace(i)

LEMMA UserSteps == Next => AppStep \/ Opens \/ Closes
<1> USE DEF Tracing, Sees, Step, Closes
<1>1. \A w : SetSessionView(w) => Closes
  BY DEF SetSessionView
<1>2. \A d : SetDensity(d) => Closes
  BY DEF SetDensity
<1>3. \A f : SetFocus(f) => Closes
  BY DEF SetFocus
<1>4. \A m : SetContextMode(m) => Closes
  BY DEF SetContextMode
<1>5. \A q : SetTimelineQuery(q) => Closes
  BY DEF SetTimelineQuery
<1>6. ApplySuggestion => Closes
  BY <1>5 DEF ApplySuggestion
<1>7. ClickOperation \/ ClickRunMap => Closes
  BY DEF ClickOperation, ClickRunMap
<1>8. \A by : Navigate(by) => Closes
  BY DEF Navigate, Navigates
<1>9. \A field : AddFilter(field) => Closes
  BY <1>5 DEF AddFilter
<1> QED
  BY <1>1, <1>2, <1>3, <1>4, <1>5, <1>6, <1>7, <1>8, <1>9 DEF Next, Opens

LEMMA NextInv == PInv /\ [Next]_vars => PInv'
<1> SUFFICES ASSUME PInv, [Next]_vars PROVE PInv'
  OBVIOUS
<1>1. CASE AppStep
  BY <1>1, PageStep DEF AppStep
<1>2. CASE UNCHANGED appVars
  BY <1>2, Elsewhere DEF appVars
<1>3. Opens => UNCHANGED appVars
  BY DEF Opens, OpenEntryInTrace, Step
<1> QED
  BY <1>1, <1>2, <1>3, UserSteps DEF Closes, vars

\* Once the requests of the page (app.tsx) have ended and none has failed, it has the
\* entries of the session selected last, however selections, refreshes and answers
\* interleave: no answer for an earlier selection comes after that.
THEOREM LastSelectionWins == Spec => []SettledIsSelected
<1>1. Init => PInv
  BY DEF Init, AppInit, NoEntries, PInv, RequestsFollow, SettledIsSelected
<1>2. PInv => SettledIsSelected
  BY DEF PInv
<1> QED
  BY <1>1, <1>2, NextInv, PTL DEF Spec

-----------------------------------------------------------------------------
\* What is listed, asked for and fetched is of sessions there are, and a timeline that
\* is fetched again has at least the records it had.

Listed ==
    /\ selectedID \in Sessions \union {None}
    /\ DOMAIN conversations \subseteq Sessions
    /\ \A r \in listRequests : r.answer # None => DOMAIN r.answer \subseteq Sessions

Kept ==
    /\ stored = [s \in Sessions |-> stored[s]]
    /\ \A s \in Sessions : stored[s] \in Nat /\ stored[s] <= MaxRecords[s]

Fetched ==
    /\ entries.session \in Sessions \union {None}
    /\ entries.session \in Sessions =>
          entries.records \in Nat /\ entries.records <= stored[entries.session]

Asked ==
    /\ \A r, q \in timelineRequests : r = q
    /\ \A r \in timelineRequests :
          /\ r.session \in Sessions
          /\ r.answer # None =>
                /\ r.answer \in Nat /\ r.answer <= stored[r.session]
                /\ r.session = entries.session => entries.records <= r.answer

GInv == Listed /\ Kept /\ Fetched /\ Asked

\* What a step of the page does to the records stored and the timeline.
Grows ==
    /\ stored' = [s \in Sessions |-> stored'[s]]
    /\ \A s \in Sessions :
          stored'[s] \in Nat /\ stored[s] <= stored'[s] /\ stored'[s] <= MaxRecords[s]

TimelineSteps(r) == TimelineRead(r) \/ TimelineArrives(r) \/ TimelineFails(r)

SessionStep ==
    \/ UNCHANGED session
    \/ LoadTimeline(selectedID') /\ UNCHANGED stored
    \/ \E r \in timelineRequests : TimelineSteps(r)

LEMMA StoredGrows ==
    ASSUME GInv, AppNext
    PROVE  Grows
<1>1. ASSUME NEW s \in Sessions, Grow(s)
      PROVE  Grows
  <2>1. stored[s] < MaxRecords[s] /\ stored' = [stored EXCEPT ![s] = @ + 1]
    BY <1>1 DEF Grow
  <2>2. MaxRecords[s] \in Nat
    BY AppAssumption
  <2>3. /\ stored' = [t \in Sessions |-> IF t = s THEN stored[s] + 1 ELSE stored[t]]
        /\ stored[s] \in Nat
    BY <2>1 DEF GInv, Kept
  <2>4. \A t \in Sessions : stored[t] \in Nat /\ stored[t] <= MaxRecords[t]
    BY DEF GInv, Kept
  <2>5. stored[s] + 1 \in Nat /\ stored[s] <= stored[s] + 1 /\ stored[s] + 1 <= MaxRecords[s]
    BY <2>1, <2>2, <2>3
  <2>6. \A t \in Sessions : stored[t] <= stored[t]
    BY <2>4
  <2>7. \A t \in Sessions : stored'[t] = IF t = s THEN stored[s] + 1 ELSE stored[t]
    BY <2>3
  <2> QED
    BY <2>3, <2>4, <2>5, <2>6, <2>7 DEF Grows
<1>2. CASE UNCHANGED stored
  BY <1>2 DEF GInv, Kept, Grows
<1>3. \A r : ListRead(r) \/ ListArrives(r) \/ ListFails(r) \/ TimelineSteps(r) => UNCHANGED stored
  BY DEF ListRead, ListArrives, ListFails, TimelineSteps, TimelineRead, TimelineArrives,
         TimelineFails
<1>4. \A s : Select(s) => UNCHANGED stored
  BY DEF Select
<1>5. Refresh => UNCHANGED stored
  BY DEF Refresh
<1> QED
  BY <1>1, <1>2, <1>3, <1>4, <1>5 DEF AppNext, TimelineSteps

LEMMA SessionSteps ==
    ASSUME AppNext
    PROVE  SessionStep
<1>1. ASSUME NEW s, Choose(s), UNCHANGED stored
      PROVE  SessionStep
  BY <1>1 DEF Choose, SessionStep
<1>2. ASSUME NEW r, ListRead(r) \/ ListArrives(r) \/ ListFails(r)
      PROVE  SessionStep
  BY <1>1, <1>2 DEF ListRead, ListArrives, ListFails, SessionStep
<1>3. ASSUME NEW s, Select(s) \/ Grow(s)
      PROVE  SessionStep
  BY <1>1, <1>3 DEF Select, Grow, SessionStep
<1>4. CASE Refresh
  BY <1>4 DEF Refresh, SessionStep
<1> QED
  BY <1>2, <1>3, <1>4 DEF AppNext, SessionStep, TimelineSteps

LEMMA ListedStep ==
    ASSUME GInv, AppNext
    PROVE  Listed'
<1>0. Listed
  BY DEF GInv
<1>1. CASE UNCHANGED <<list, selectedID>>
  BY <1>0, <1>1 DEF Listed, list
<1>2. ASSUME NEW r \in listRequests, ListRead(r)
      PROVE  Listed'
  <2>1. PICK S \in SUBSET Sessions :
            listRequests' = (listRequests \ {r}) \union {[answer |-> [s \in S |-> stored[s]]]}
    <3>1. \A n, T : kSubset(n, T) \subseteq SUBSET T
      BY DEF kSubset
    <3> QED
      BY <1>2, <3>1 DEF ListRead
  <2>2. UNCHANGED <<conversations, selectedID>>
    BY <1>2 DEF ListRead
  <2> QED
    BY <2>1, <2>2, <1>0 DEF Listed
<1>3. ASSUME NEW r \in listRequests, ListArrives(r)
      PROVE  Listed'
  <2>1. DOMAIN r.answer \subseteq Sessions
    BY <1>0, <1>3 DEF Listed, ListArrives
  <2>2. listRequests' = listRequests \ {r} /\ conversations' = r.answer
    BY <1>3 DEF ListArrives
  <2>3. selectedID' \in {selectedID, None} \union DOMAIN r.answer
    BY <1>3 DEF ListArrives, Choose
  <2> QED
    BY <2>1, <2>2, <2>3, <1>0 DEF Listed
<1>4. ASSUME NEW r \in listRequests, ListFails(r)
      PROVE  Listed'
  BY <1>0, <1>4 DEF Listed, ListFails
<1>5. ASSUME NEW s \in Sessions, Select(s)
      PROVE  Listed'
  BY <1>0, <1>5 DEF Listed, Select, Choose, list
<1>6. CASE Refresh
  BY <1>0, <1>6 DEF Listed, Refresh, LoadConversations
<1>7. \A r : TimelineSteps(r) => UNCHANGED <<list, selectedID>>
  BY DEF TimelineSteps, TimelineRead, TimelineArrives, TimelineFails
<1>8. \A s : Grow(s) => UNCHANGED <<list, selectedID>>
  BY DEF Grow
<1> QED
  BY <1>1, <1>2, <1>3, <1>4, <1>5, <1>6, <1>7, <1>8 DEF AppNext, TimelineSteps

LEMMA FetchedStep ==
    ASSUME RequestsFollow, GInv, Grows, Listed', SessionStep
    PROVE  Fetched' /\ Asked'
<1>0. Fetched /\ Asked /\ Kept
  BY DEF GInv
<1>a. \A s \in Sessions : stored[s] \in Nat /\ stored'[s] \in Nat /\ stored[s] <= stored'[s]
  BY <1>0 DEF Kept, Grows
<1>b. \A n \in Nat, s \in Sessions : n <= stored[s] => n <= stored'[s]
  BY <1>a
<1>1. CASE UNCHANGED session
  BY <1>0, <1>1, <1>b DEF Fetched, Asked, session
<1>2. CASE LoadTimeline(selectedID') /\ UNCHANGED stored
  <2>1. CASE selectedID' = None
    BY <2>1, <1>2, AppAssumption DEF LoadTimeline, NoEntries, Fetched, Asked
  <2>2. CASE selectedID' # None
    <3>1. /\ timelineRequests' = {[session |-> selectedID', answer |-> None]}
          /\ entries' = entries /\ stored' = stored /\ selectedID' \in Sessions
      BY <2>2, <1>2 DEF LoadTimeline, Listed
    <3> QED
      BY <3>1, <1>0 DEF Fetched, Asked
  <2> QED
    BY <2>1, <2>2
<1>3. ASSUME NEW r \in timelineRequests, TimelineRead(r)
      PROVE  Fetched' /\ Asked'
  <2> DEFINE q == [r EXCEPT !.answer = stored[r.session]]
  <2>1. /\ timelineRequests' = (timelineRequests \ {r}) \union {q}
        /\ entries' = entries /\ stored' = stored
    BY <1>3 DEF TimelineRead
  <2>2. timelineRequests' = {q}
    BY <2>1, <1>0 DEF Asked
  <2>3. r.session \in Sessions
    BY <1>0 DEF Asked
  <2>4. q.session = r.session /\ q.answer = stored[r.session]
    BY DEF RequestsFollow
  <2> QED
    BY <2>1, <2>2, <2>3, <2>4, <1>0, <1>a DEF Fetched, Asked
<1>4. ASSUME NEW r \in timelineRequests, TimelineArrives(r) \/ TimelineFails(r)
      PROVE  Fetched' /\ Asked'
  <2>1. timelineRequests' = {} /\ stored' = stored
    BY <1>0, <1>4 DEF TimelineArrives, TimelineFails, Asked
  <2>2. Fetched'
    <3>1. CASE TimelineFails(r)
      BY <3>1, <2>1, <1>0 DEF TimelineFails, Fetched
    <3>2. CASE TimelineArrives(r)
      BY <3>2, <2>1, <1>0 DEF TimelineArrives, Fetched, Asked
    <3> QED
      BY <1>4, <3>1, <3>2
  <2> QED
    BY <2>1, <2>2 DEF Asked
<1> QED
  BY <1>1, <1>2, <1>3, <1>4 DEF SessionStep, TimelineSteps

LEMMA GStep == RequestsFollow /\ GInv /\ AppNext => GInv' /\ Grows /\ SessionStep
<1> SUFFICES ASSUME RequestsFollow, GInv, AppNext
             PROVE  GInv' /\ Grows /\ SessionStep
  OBVIOUS
<1>1. Grows /\ SessionStep /\ Listed'
  BY StoredGrows, SessionSteps, ListedStep
<1>2. Kept'
  BY <1>1 DEF Grows, Kept
<1> QED
  BY <1>1, <1>2, FetchedStep DEF GInv

-----------------------------------------------------------------------------
\* The record opened from the review.

\* Record i of session s is in the entries, if they are those of s, and in every answer
\* that may replace them.
Holds(i, s) ==
    /\ s \in Sessions /\ i <= stored[s]
    /\ entries.session = s => i <= entries.records
    /\ \A r \in timelineRequests : r.session = s /\ r.answer # None => i <= r.answer

OpenedIn ==
    opened # None =>
        /\ selectedID \in DOMAIN conversations
        /\ operationID = opened
        /\ view.density = "records" /\ view.focus = "all" /\ view.query = <<>>
        /\ \E i \in Nat \ {0}, s \in Sessions :
              opened = [session |-> s, records |-> <<i>>] /\ Holds(i, s)

EInv == PInv /\ GInv /\ OpenedIn

\* The page keeps the record while the selection stays.
LEMMA HoldsStep ==
    ASSUME PInv, GInv, Grows, SessionStep, selectedID' = selectedID, selectedID # None,
           NEW i \in Nat, NEW s, Holds(i, s)
    PROVE  Holds(i, s)'
<1>1. s \in Sessions /\ i <= stored'[s]
  BY DEF Holds, Grows, GInv, Kept
<1>2. CASE UNCHANGED session
  BY <1>1, <1>2 DEF Holds, session
<1>3. CASE LoadTimeline(selectedID') /\ UNCHANGED stored
  <2>1. timelineRequests' = {[session |-> selectedID, answer |-> None]} /\ entries' = entries
    BY <1>3 DEF LoadTimeline
  <2> QED
    BY <2>1, <1>1 DEF Holds
<1>4. ASSUME NEW r \in timelineRequests, TimelineRead(r)
      PROVE  Holds(i, s)'
  <2> DEFINE q == [r EXCEPT !.answer = stored[r.session]]
  <2>1. /\ timelineRequests' = (timelineRequests \ {r}) \union {q}
        /\ entries' = entries /\ stored' = stored
    BY <1>4 DEF TimelineRead
  <2>2. q.session = r.session /\ q.answer = stored[r.session]
    BY DEF PInv, RequestsFollow
  <2> HIDE DEF q
  <2> QED
    BY <2>1, <2>2, <1>1 DEF Holds
<1>5. ASSUME NEW r \in timelineRequests, TimelineArrives(r) \/ TimelineFails(r)
      PROVE  Holds(i, s)'
  <2>1. timelineRequests' = timelineRequests \ {r}
    BY <1>5 DEF TimelineArrives, TimelineFails
  <2>2. CASE TimelineFails(r)
    BY <2>1, <2>2, <1>1 DEF TimelineFails, Holds
  <2>3. CASE TimelineArrives(r)
    BY <2>1, <2>3, <1>1 DEF TimelineArrives, Holds
  <2> QED
    BY <1>5, <2>2, <2>3
<1> QED
  BY <1>2, <1>3, <1>4, <1>5 DEF SessionStep, TimelineSteps

LEMMA OpenedAppStep ==
    ASSUME EInv, AppStep
    PROVE  EInv'
<1>1. AppNext
  BY DEF AppStep
<1>2. PInv' /\ GInv' /\ Grows /\ SessionStep
  BY <1>1, PageStep, GStep DEF EInv, PInv
<1>3. ASSUME opened' # None
      PROVE  OpenedIn'
  <2>1. /\ Conversation' = Conversation /\ opened' = opened
        /\ operationID' = operationID /\ view' = view
    BY <1>3 DEF AppStep
  <2>2. selectedID \in DOMAIN conversations /\ DOMAIN conversations \subseteq Sessions
    BY <1>3, <2>1 DEF EInv, GInv, OpenedIn, Listed
  <2>3. Conversation = selectedID /\ selectedID # None
    BY <2>2, AppAssumption DEF Conversation
  <2>4. selectedID' = selectedID /\ selectedID' \in DOMAIN conversations'
    BY <2>1, <2>3 DEF Conversation
  <2>5. PICK i \in Nat \ {0}, s \in Sessions :
            opened = [session |-> s, records |-> <<i>>] /\ Holds(i, s)
    BY <1>3, <2>1 DEF EInv, OpenedIn
  <2>6. Holds(i, s)'
    BY <1>2, <2>3, <2>4, <2>5, HoldsStep DEF EInv
  <2> QED
    BY <1>3, <2>1, <2>4, <2>5, <2>6 DEF EInv, OpenedIn
<1> QED
  BY <1>2, <1>3 DEF EInv, OpenedIn

\* The page stays as it is when the user does something in the inspector.
LEMMA Untouched ==
    ASSUME EInv, UNCHANGED appVars
    PROVE  PInv' /\ GInv' /\ \A i, s : Holds(i, s) => Holds(i, s)'
<1>1. /\ UNCHANGED <<stored, conversations, listRequests, selectedID, entries,
                     timelineRequests, timelineError>>
  BY DEF appVars, list, session
<1> QED
  BY <1>1 DEF EInv, PInv, RequestsFollow, SettledIsSelected, GInv, Listed, Kept, Fetched,
              Asked, Holds

\* The records of the timeline are those of the session that was fetched.
LEMMA TimelineIs ==
    ASSUME GInv
    PROVE  /\ DOMAIN Timeline = IF entries.session = None THEN {} ELSE 1..entries.records
           /\ entries.session # None => entries.records \in Nat
<1>1. CASE entries.session = None
  BY <1>1 DEF Timeline
<1>2. CASE entries.session # None
  <2> DEFINE script == Script[entries.session]
             n == entries.records
  <2>1. /\ entries.session \in Sessions /\ n \in Nat
        /\ n <= stored[entries.session]
        /\ stored[entries.session] \in Nat /\ stored[entries.session] <= MaxRecords[entries.session]
    BY <1>2 DEF GInv, Fetched, Kept
  <2>2. /\ script \in Seq(Range(script)) /\ MaxRecords[entries.session] <= Len(script)
        /\ MaxRecords[entries.session] \in Nat
    BY <2>1, InspectorAssumption, AppAssumption
  <2>3. Timeline = SubSeq(script, 1, n)
    BY <1>2 DEF Timeline
  <2> HIDE DEF script, n
  <2>4. Len(script) \in Nat /\ n <= Len(script)
    BY <2>1, <2>2
  <2>5. \A i \in 1..n : script[i] \in Range(script)
    BY <2>1, <2>2, <2>4
  <2>6. SubSeq(script, 1, n) \in Seq(Range(script)) /\ Len(SubSeq(script, 1, n)) = n
    BY <2>1, <2>5, SubSeqProperties
  <2>7. DOMAIN SubSeq(script, 1, n) = 1..n
    BY <2>6
  <2> QED
    BY <1>2, <2>1, <2>3, <2>7 DEF n
<1> QED
  BY <1>1, <1>2

LEMMA BlocksAreOfTheTimeline ==
    ASSUME NEW t, NEW b \in VisibleBlocks(t), NEW i \in b.entries
    PROVE  i \in DOMAIN t
<1> DEFINE others == {j \in DOMAIN t : ~IsMessage(t[j])}
           run(k) == {j \in others : j >= k /\ \A l \in k..j : l \in others}
<1>1. \/ \E k \in others : b = ActivityBlock(t, run(k))
      \/ \E k \in DOMAIN t \ others : b.entries = {k}
  BY DEF VisibleBlocks, ReviewBlocks
<1>2. ASSUME NEW k \in others, b = ActivityBlock(t, run(k))
      PROVE  i \in DOMAIN t
  <2>1. b.entries = run(k)
    BY <1>2 DEF ActivityBlock
  <2> QED
    BY <2>1
<1> QED
  BY <1>1, <1>2

LEMMA OpenStep ==
    ASSUME EInv, NEW b \in VisibleBlocks(Timeline), NEW i \in b.entries, OpenEntryInTrace(i)
    PROVE  EInv'
<1>0. PICK s : s = entries.session
  OBVIOUS
<1>1. /\ Shown /\ UNCHANGED appVars
      /\ view' = [InitialView EXCEPT !.sessionView = "trace", !.density = "records",
                                     !.context = "full"]
      /\ operationID' = [session |-> s, records |-> <<i>>]
      /\ opened' = [session |-> s, records |-> <<i>>]
  BY <1>0 DEF OpenEntryInTrace, Step
<1>2. GInv
  BY DEF EInv
<1>3. i \in DOMAIN Timeline
  BY BlocksAreOfTheTimeline
<1>4. s # None /\ entries.records \in Nat /\ i \in 1..entries.records
  BY <1>0, <1>2, <1>3, TimelineIs
<1>5. s \in Sessions /\ entries.records <= stored[s] /\ stored[s] \in Nat
  BY <1>0, <1>2, <1>4 DEF GInv, Fetched, Kept
<1>6. Holds(i, s)
  BY <1>0, <1>2, <1>4, <1>5 DEF GInv, Asked, Holds
<1>7. PInv' /\ GInv' /\ Holds(i, s)'
  BY <1>1, <1>6, Untouched
<1>8. /\ view'.density = "records" /\ view'.focus = "all" /\ view'.query = <<>>
  BY <1>1 DEF InitialView
<1>9. selectedID' \in DOMAIN conversations'
  BY <1>1 DEF Shown, appVars, list
<1>10. i \in Nat \ {0}
  BY <1>4
<1> QED
  BY <1>1, <1>5, <1>7, <1>8, <1>9, <1>10 DEF EInv, OpenedIn

LEMMA ENext == EInv /\ [Next]_vars => EInv'
<1> SUFFICES ASSUME EInv, [Next]_vars
             PROVE  EInv'
  OBVIOUS
<1>1. CASE AppStep
  BY <1>1, OpenedAppStep
<1>2. CASE UNCHANGED vars
  <2>1. UNCHANGED appVars /\ UNCHANGED <<view, operationID, opened>>
    BY <1>2 DEF vars
  <2>2. selectedID' = selectedID /\ conversations' = conversations
    BY <2>1 DEF appVars, list
  <2> QED
    BY <2>1, <2>2, Untouched DEF EInv, OpenedIn
<1>3. CASE Closes
  BY <1>3, Untouched DEF Closes, EInv, OpenedIn
<1>4. CASE Opens
  BY <1>4, OpenStep DEF Opens
<1> QED
  BY <1>1, <1>2, <1>3, <1>4, UserSteps

-----------------------------------------------------------------------------
\* What the records view shows when nothing is filtered: every record, in its place.

LEMMA ThoseOfAll ==
    ASSUME NEW n \in Nat, NEW operations, operations = [k \in 1..n |-> operations[k]]
    PROVE  Those(operations, 1..n) = operations
<1>1. Cardinality(1..n) = n
  BY FS_Interval
<1>2. ASSUME NEW k \in 1..n
      PROVE  (CHOOSE m \in 1..n : Cardinality({j \in 1..n : j <= m}) = k) = k
  <2>1. ASSUME NEW m \in 1..n
        PROVE  Cardinality({j \in 1..n : j <= m}) = m
    <3>1. {j \in 1..n : j <= m} = 1..m
      OBVIOUS
    <3>2. Cardinality(1..m) = m
      <4>1. m \in Int /\ 1 \in Int /\ m >= 1
        OBVIOUS
      <4>2. Cardinality(1..m) = IF 1 > m THEN 0 ELSE m - 1 + 1
        BY <4>1, FS_Interval
      <4> QED
        BY <4>1, <4>2
    <3> QED
      BY <3>1, <3>2
  <2> QED
    BY <2>1
<1> QED
  BY <1>1, <1>2 DEF Those, Places

LEMMA NoClauses == ParseTimelineQuery(<<>>) = {}
<1>1. \A piece : Positions(<<>>, piece) = {}
  BY DEF Positions
<1>2. {i \in Positions(<<>>, Space) : ~Quoted(<<>>, i)} = {}
  BY <1>1
<1>3. PartsOf(<<>>, {}) = {<<>>}
  <2>1. {b \in {} \union {Len(<<>>) + 1} : b > 0} = {1}
    OBVIOUS
  <2>2. Min({1}) = 1
    BY DEF Min
  <2>3. SubSeq(<<>>, 0 + 1, Min({1}) - 1) = <<>>
    BY <2>2, SubSeqEmpty
  <2> QED
    BY <2>1, <2>3 DEF PartsOf
<1>4. Tokens(<<>>) = {}
  BY <1>2, <1>3 DEF Tokens
<1> QED
  BY <1>4 DEF ParseTimelineQuery

LEMMA OpenedIsShown ==
    ASSUME EInv, opened # None, entries.session = opened.session
    PROVE  SelectedID(view, operationID) = opened
<1>1. PICK i \in Nat \ {0}, s \in Sessions :
          opened = [session |-> s, records |-> <<i>>] /\ Holds(i, s)
  BY DEF EInv, OpenedIn
<1>2. /\ operationID = opened
      /\ view.density = "records" /\ view.focus = "all" /\ view.query = <<>>
  BY DEF EInv, OpenedIn
<1> DEFINE n == entries.records
           raw == RawTraceOperations(Timeline)
           visible == VisibleOperations(view)
<1>3. s # None /\ entries.session = s
  BY <1>1, AppAssumption
<1>4. DOMAIN Timeline = 1..n /\ n \in Nat /\ i \in 1..n
  BY <1>1, <1>3, TimelineIs DEF EInv, Holds
<1>5. /\ raw = [k \in 1..n |-> raw[k]] /\ DOMAIN raw = 1..n
      /\ \A k \in 1..n : raw[k].entries = <<k>>
  BY <1>4 DEF RawTraceOperations, Operation
<1> HIDE DEF raw
<1>6. Those(raw, 1..n) = raw
  BY <1>4, <1>5, ThoseOfAll
<1>7. FocusedOperations(view) = raw
  <2>1. \A o : OperationMatchesFocus(Timeline, o, "all")
    BY DEF OperationMatchesFocus
  <2>2. {k \in DOMAIN raw : OperationMatchesFocus(Timeline, raw[k], view.focus)} = 1..n
    BY <2>1, <1>2, <1>5
  <2> QED
    BY <2>2, <1>2, <1>6 DEF FocusedOperations, raw
<1>8. visible = raw
  <2>1. ParseTimelineQuery(view.query) = {}
    BY <1>2, NoClauses
  <2>2. FilteredOperations(raw, {}, view.context) = Those(raw, DOMAIN raw)
    BY DEF FilteredOperations
  <2> QED
    BY <2>1, <2>2, <1>5, <1>6, <1>7 DEF VisibleOperations
<1> HIDE DEF visible
<1>9. \A k \in 1..n : ID(raw[k]) = operationID <=> k = i
  <2>1. \A k \in 1..n : ID(raw[k]) = [session |-> s, records |-> <<k>>]
    BY <1>3, <1>5 DEF ID
  <2>2. \A k : [session |-> s, records |-> <<k>>] = [session |-> s, records |-> <<i>>] <=> k = i
    OBVIOUS
  <2> QED
    BY <2>1, <2>2, <1>1, <1>2
<1>10. Selected(raw, operationID) = i
  <2>1. {k \in DOMAIN raw : ID(raw[k]) = operationID} = {i}
    BY <1>4, <1>5, <1>9
  <2>2. Min({i}) = i
    BY DEF Min
  <2> QED
    BY <2>1, <2>2 DEF Selected
<1>11. raw # <<>>
  BY <1>4, <1>5
<1>12. SelectedOf(raw, operationID) = ID(raw[i])
  BY <1>10, <1>11 DEF SelectedOf
<1> QED
  BY <1>2, <1>4, <1>8, <1>9, <1>12 DEF SelectedID, visible

\* The record opened from the review (openEntryInTrace) is the one selected in the
\* trace, and stays so, whatever is fetched, fails, arrives late or is appended, until
\* the user takes another step or leaves the session.
THEOREM EvidenceStaysOpen == Spec => []OpenedStaysOpen
<1>1. Init => EInv
  <2> SUFFICES ASSUME Init
               PROVE  EInv
    OBVIOUS
  <2>1. PInv
    BY DEF Init, AppInit, NoEntries, PInv, RequestsFollow, SettledIsSelected
  <2>2. Kept
    <3>1. \A s \in Sessions : MaxRecords[s] \in Nat \ {0}
      BY AppAssumption
    <3>2. stored = [s \in Sessions |-> MaxRecords[s] - 1]
      BY DEF Init, AppInit
    <3>3. \A m \in Nat \ {0} : m - 1 \in Nat /\ m - 1 <= m
      OBVIOUS
    <3>4. \A s \in Sessions : stored[s] = MaxRecords[s] - 1
      BY <3>2
    <3> QED
      BY <3>1, <3>2, <3>3, <3>4 DEF Kept
  <2>3. Listed /\ Fetched /\ Asked
    BY AppAssumption DEF Init, AppInit, NoEntries, Listed, Fetched, Asked
  <2> QED
    BY <2>1, <2>2, <2>3 DEF Init, EInv, GInv, OpenedIn
<1>2. EInv => OpenedStaysOpen
  BY OpenedIsShown DEF OpenedStaysOpen
<1> QED
  BY <1>1, <1>2, ENext, PTL DEF Spec

-----------------------------------------------------------------------------
\* What a timeline is made into, whatever the timeline.

\* A set of numbers has a least one.
LEMMA Least ==
    ASSUME NEW S \in SUBSET Nat, S # {}
    PROVE  \E m \in S : \A k \in S : m <= k
<1> DEFINE R == OpToRel(<, Nat)
<1>1. IsWellFoundedOn(R, Nat)
  BY NatLessThanWellFounded
<1>2. \A x, y \in Nat : <<x, y>> \in R <=> x < y
  BY DEF OpToRel
<1>. HIDE DEF R
<1>3. PICK m \in S : \A k \in S : ~(<<k, m>> \in R)
  BY <1>1, WFMin
<1>4. \A k \in S : k \in Nat /\ m \in Nat /\ ~(k < m)
  BY <1>2, <1>3
<1> QED
  BY <1>4

\* Induction up to a number.
LEMMA Reaches ==
    ASSUME NEW n \in Nat, NEW S, 0 \in S, \A m \in 0..n : m \in S /\ m < n => m + 1 \in S
    PROVE  0..n \subseteq S
<1> SUFFICES ASSUME NEW k \in 0..n, k \notin S
             PROVE  FALSE
  OBVIOUS
<1> DEFINE out == {j \in 0..n : j \notin S}
<1>1. out \in SUBSET Nat /\ out # {}
  OBVIOUS
<1>2. PICK j \in out : \A i \in out : j <= i
  BY <1>1, Least
<1>3. j - 1 \in 0..n /\ j - 1 \in S
  BY <1>2
<1> QED
  BY <1>2, <1>3

-----------------------------------------------------------------------------
\* Places lists the members of S in their order.
LEMMA PlacesList ==
    ASSUME NEW S, IsFiniteSet(S), S \in SUBSET Nat
    PROVE  /\ Cardinality(S) \in Nat
           /\ DOMAIN Places(S) = 1..Cardinality(S)
           /\ Places(S) \in Seq(S)
           /\ Range(Places(S)) = S
           /\ \A a \in S : \E k \in 1..Cardinality(S) : Places(S)[k] = a
           /\ \A k \in 1..Cardinality(S) :
                 Places(S)[k] \in S /\ Cardinality({m \in S : m <= Places(S)[k]}) = k
           /\ \A j, k \in 1..Cardinality(S) : Places(S)[j] = Places(S)[k] => j = k
<1> DEFINE upTo(a) == {m \in S : m <= a}
           rank == [a \in S |-> Cardinality(upTo(a))]
<1>0. Cardinality(S) \in Nat
  BY FS_CardinalityType
<1>1. ASSUME NEW a \in S
      PROVE  rank[a] \in 1..Cardinality(S) /\ IsFiniteSet(upTo(a)) /\ rank[a] \in Nat
  <2>1. IsFiniteSet(upTo(a)) /\ Cardinality(upTo(a)) <= Cardinality(S)
    BY FS_Subset
  <2>2. Cardinality(upTo(a)) \in Nat
    BY <2>1, FS_CardinalityType
  <2>3. a \in upTo(a)
    OBVIOUS
  <2>4. Cardinality(upTo(a)) # 0
    BY <2>1, <2>3, FS_EmptySet
  <2> QED
    BY <2>1, <2>2, <2>4, <1>0
<1>2. ASSUME NEW a \in S, NEW b \in S, rank[a] = rank[b], a < b
      PROVE  FALSE
  <2>1. upTo(a) \in SUBSET upTo(b)
    <3>1. \A m \in S : m \in Nat /\ a \in Nat /\ b \in Nat
      OBVIOUS
    <3>2. \A m \in upTo(a) : m \in upTo(b)
      BY <3>1, <1>2
    <3> QED
      BY <3>2
  <2>2. upTo(a) = upTo(b)
    BY <2>1, <1>1, <1>2, FS_Subset
  <2>3. b \in upTo(b) /\ b \notin upTo(a)
    BY <1>2
  <2> QED
    BY <2>2, <2>3
<1>3. rank \in Injection(S, 1..Cardinality(S))
  <2>1. rank \in [S -> 1..Cardinality(S)]
    BY <1>1
  <2>2. ASSUME NEW a \in S, NEW b \in S, rank[a] = rank[b]
        PROVE  a = b
    <3>1. a \in Nat /\ b \in Nat
      OBVIOUS
    <3>2. a = b \/ a < b \/ b < a
      BY <3>1
    <3> QED
      BY <3>2, <2>2, <1>2
  <2> QED
    BY <2>1, <2>2 DEF Injection, IsInjective
<1>4. IsFiniteSet(1..Cardinality(S)) /\ Cardinality(1..Cardinality(S)) = Cardinality(S)
  BY <1>0, FS_Interval
<1>5. rank \in Surjection(S, 1..Cardinality(S))
  BY <1>3, <1>4, FS_Injection
<1>6. ASSUME NEW k \in 1..Cardinality(S)
      PROVE  Places(S)[k] \in S /\ rank[Places(S)[k]] = k
  <2>1. \E a \in S : Cardinality(upTo(a)) = k
    BY <1>5 DEF Surjection
  <2>2. Places(S)[k] = CHOOSE a \in S : Cardinality(upTo(a)) = k
    BY DEF Places
  <2> QED
    BY <2>1, <2>2
<1>7. DOMAIN Places(S) = 1..Cardinality(S) /\ Places(S) = [k \in 1..Cardinality(S) |-> Places(S)[k]]
  BY DEF Places
<1>8. ASSUME NEW a \in S
      PROVE  \E k \in 1..Cardinality(S) : Places(S)[k] = a
  <2>1. rank[a] \in 1..Cardinality(S)
    BY <1>1
  <2>2. rank[Places(S)[rank[a]]] = rank[a] /\ Places(S)[rank[a]] \in S
    BY <2>1, <1>6
  <2> QED
    BY <2>1, <2>2, <1>3 DEF Injection, IsInjective
<1>. HIDE DEF rank, upTo
<1>9. Places(S) \in [1..Cardinality(S) -> S]
  BY <1>6, <1>7
<1>10. Places(S) \in Seq(S)
  BY <1>0, <1>9
<1>11. Range(Places(S)) = S
  BY <1>6, <1>7, <1>8 DEF Range
<1>12. \A j, k \in 1..Cardinality(S) : Places(S)[j] = Places(S)[k] => j = k
  BY <1>6
<1>13. \A k \in 1..Cardinality(S) : Cardinality({m \in S : m <= Places(S)[k]}) = k
  BY <1>6 DEF rank, upTo
<1> QED
  BY <1>0, <1>6, <1>7, <1>8, <1>10, <1>11, <1>12, <1>13

\* The first place is the least.
LEMMA PlacesBegin ==
    ASSUME NEW S, IsFiniteSet(S), S \in SUBSET Nat, NEW i \in S, \A m \in S : i <= m
    PROVE  Places(S) # <<>> /\ Head(Places(S)) = i /\ Places(S)[1] = i
<1>1. Cardinality(S) \in Nat /\ Cardinality(S) # 0
  BY FS_EmptySet, FS_CardinalityType
<1>2. 1 \in 1..Cardinality(S)
  BY <1>1
<1>3. PICK k \in 1..Cardinality(S) : Places(S)[k] = i
  BY PlacesList
<1>4. {m \in S : m <= i} = {i}
  <2>1. \A m \in S : m \in Nat /\ i \in Nat
    OBVIOUS
  <2>2. \A m \in S : m <= i => m = i
    BY <2>1
  <2> QED
    BY <2>1, <2>2
<1>5. k = 1
  <2>1. Cardinality({m \in S : m <= Places(S)[k]}) = k
    BY PlacesList
  <2>2. Cardinality({i}) = 1
    BY FS_Singleton
  <2> QED
    BY <2>1, <2>2, <1>3, <1>4
<1>6. Places(S) \in Seq(S) /\ DOMAIN Places(S) = 1..Cardinality(S)
  BY PlacesList
<1>7. Places(S) # <<>>
  <2>1. DOMAIN Places(S) # {}
    BY <1>2, <1>6
  <2> QED
    BY <2>1
<1> QED
  BY <1>3, <1>5, <1>6, <1>7

-----------------------------------------------------------------------------
\* The records consumed, one by one.
LEMMA ConsumedStep ==
    ASSUME NEW t, Len(t) \in Nat
    PROVE  /\ Consumed(t)[0] = {}
           /\ \A i \in 1..Len(t) : Consumed(t)[i] = Looked(t, i, Consumed(t)[i - 1])
<1> DEFINE n == Len(t)
           Is(q, m) == q = [i \in 0..m |-> IF i = 0 THEN {} ELSE Looked(t, i, q[i - 1])]
           S == {m \in 0..n : \E f : Is(f, m)}
<1>1. 0 \in S
  <2>1. Is([i \in 0..0 |-> {}], 0)
    OBVIOUS
  <2> HIDE DEF Is
  <2>2. \E f : Is(f, 0)
    BY <2>1
  <2> QED
    BY <2>2
<1>2. ASSUME NEW m \in 0..n, m \in S, m < n
      PROVE  m + 1 \in S
  <2>1. PICK f : Is(f, m)
    BY <1>2
  <2> DEFINE g == [i \in 0..(m + 1) |-> IF i = m + 1 THEN Looked(t, i, f[m]) ELSE f[i]]
  <2>2. Is(g, m + 1)
    <3>1. \A i \in 0..(m + 1) : g[i] = IF i = 0 THEN {} ELSE Looked(t, i, g[i - 1])
      <4> SUFFICES ASSUME NEW i \in 0..(m + 1)
                   PROVE  g[i] = IF i = 0 THEN {} ELSE Looked(t, i, g[i - 1])
        OBVIOUS
      <4>1. CASE i = 0
        BY <4>1, <2>1
      <4>2. CASE i = m + 1
        BY <4>2
      <4>3. CASE i \in 1..m
        <5>1. g[i] = f[i] /\ g[i - 1] = f[i - 1]
          BY <4>3
        <5>2. f[i] = Looked(t, i, f[i - 1])
          BY <4>3, <2>1
        <5> QED
          BY <4>3, <5>1, <5>2
      <4> QED
        BY <4>1, <4>2, <4>3
    <3> QED
      BY <3>1
  <2> HIDE DEF Is, g
  <2>3. \E h : Is(h, m + 1)
    BY <2>2
  <2>4. m + 1 \in 0..n
    BY <1>2
  <2> QED
    BY <2>3, <2>4
<1>3. n \in S
  <2> HIDE DEF S
  <2>1. 0..n \subseteq S
    BY <1>1, <1>2, Reaches
  <2> QED
    BY <2>1
<1>4. PICK h : Is(h, n)
  BY <1>3
<1>5. Is(Consumed(t), n)
  BY <1>4 DEF Consumed
<1> HIDE DEF n
<1>6. n \in Nat
  BY DEF n
<1>7. Consumed(t)[0] = {}
  BY <1>5, <1>6
<1>8. ASSUME NEW i \in 1..n
      PROVE  Consumed(t)[i] = Looked(t, i, Consumed(t)[i - 1])
  <2>1. i \in 0..n /\ i # 0
    BY <1>6
  <2> QED
    BY <1>5, <2>1
<1> QED
  BY <1>7, <1>8 DEF n

IsTimeline(t) == Len(t) \in Nat /\ DOMAIN t = 1..Len(t)

\* The records that are not grouped with an earlier one, and those grouped with it.
Starts(t) == {i \in 1..Len(t) : i \notin Consumed(t)[i - 1]}
GroupOf(t, i) == Grouped(t, i, Consumed(t)[i - 1])

LEMMA GroupedAre ==
    ASSUME NEW t, IsTimeline(t), NEW i \in 1..Len(t), NEW before, NEW j \in Grouped(t, i, before)
    PROVE  /\ j \in (i + 1)..Len(t)
           /\ \/ /\ t[i].kind = ToolCall /\ t[j].kind = ToolResult
                 /\ j \notin before /\ Grouped(t, i, before) = {j}
              \/ /\ t[i].kind = Assistant /\ t[j].kind = Assistant
                 /\ \A k \in (i + 1)..j : k \in Grouped(t, i, before)
<1>1. i \in Nat /\ Len(t) \in Nat
  BY DEF IsTimeline
<1>2. CASE t[i].kind = ToolCall
  <2>1. Grouped(t, i, before) = MatchingResults(t, i, before)
    BY <1>2 DEF Grouped
  <2>2. j \in (i + 1)..Len(t) /\ j \notin before /\ t[j].kind = ToolResult
    BY <2>1 DEF MatchingResults, Answers
  <2>3. ASSUME NEW k \in MatchingResults(t, i, before)
        PROVE  k = j
    <3>1. k \in (i + 1)..Len(t) /\ k <= j /\ j <= k
      BY <2>1, <2>3 DEF MatchingResults
    <3> QED
      BY <3>1, <2>2, <1>1
  <2> QED
    BY <2>1, <2>2, <2>3, <1>2
<1>3. CASE t[i].kind = Assistant
  <2>1. Grouped(t, i, before) = Chunks(t, i) \ {i}
    BY <1>3 DEF Grouped, ToolCall, Assistant
  <2>2. j \in i..Len(t) /\ j # i /\ \A k \in i..j : t[k].kind = Assistant /\ t[k].trace = t[i].trace
    BY <2>1 DEF Chunks
  <2>3. j \in (i + 1)..Len(t) /\ t[j].kind = Assistant
    BY <2>2, <1>1
  <2>4. ASSUME NEW k \in (i + 1)..j
        PROVE  k \in Chunks(t, i) \ {i}
    <3>1. k \in i..Len(t) /\ k # i /\ \A l \in i..k : l \in i..j
      BY <2>3, <1>1
    <3> QED
      BY <3>1, <2>2 DEF Chunks
  <2> QED
    BY <2>1, <2>3, <2>4, <1>3
<1> QED
  BY <1>2, <1>3 DEF Grouped

LEMMA LookedAre ==
    ASSUME NEW t, IsTimeline(t), NEW i \in 1..Len(t)
    PROVE  /\ Consumed(t)[i - 1] \subseteq Consumed(t)[i]
           /\ \A k \in Consumed(t)[i] :
                 k \in Consumed(t)[i - 1] \/ (i \in Starts(t) /\ k \in GroupOf(t, i))
           /\ i \in Starts(t) => GroupOf(t, i) \subseteq Consumed(t)[i]
<1>1. Consumed(t)[i] = Looked(t, i, Consumed(t)[i - 1])
  BY ConsumedStep DEF IsTimeline
<1>2. \/ i \in Starts(t) /\ Consumed(t)[i] = Consumed(t)[i - 1] \union GroupOf(t, i)
      \/ i \notin Starts(t) /\ Consumed(t)[i] = Consumed(t)[i - 1]
  BY <1>1 DEF Looked, Starts, GroupOf
<1> QED
  BY <1>2

\* What is consumed stays so, and what comes to it lies ahead.
LEMMA ConsumedGrows ==
    ASSUME NEW t, IsTimeline(t), NEW i \in 0..Len(t), NEW j \in i..Len(t)
    PROVE  /\ Consumed(t)[i] \subseteq Consumed(t)[j]
           /\ \A k \in Consumed(t)[j] : k \in Consumed(t)[i] \/ k \in (i + 2)..Len(t)
<1> DEFINE Fine(m) == /\ Consumed(t)[i] \subseteq Consumed(t)[m]
                      /\ \A k \in Consumed(t)[m] : k \in Consumed(t)[i] \/ k \in (i + 2)..Len(t)
           S == {m \in 0..Len(t) : m >= i => Fine(m)}
<1>0. Len(t) \in Nat
  BY DEF IsTimeline
<1>1. 0 \in S
  BY <1>0
<1>2. ASSUME NEW m \in 0..Len(t), m \in S, m < Len(t)
      PROVE  m + 1 \in S
  <2> SUFFICES ASSUME m + 1 >= i
               PROVE  Fine(m + 1)
    BY <1>0, <1>2
  <2>1. CASE m + 1 = i
    BY <2>1
  <2>2. CASE m >= i
    <3>1. Fine(m)
      BY <2>2, <1>2
    <3>2. m + 1 \in 1..Len(t) /\ (m + 1) - 1 = m
      BY <1>2, <1>0
    <3>3. /\ Consumed(t)[m] \subseteq Consumed(t)[m + 1]
          /\ \A k \in Consumed(t)[m + 1] : k \in Consumed(t)[m] \/ k \in GroupOf(t, m + 1)
      BY <3>2, LookedAre
    <3>4. \A k \in GroupOf(t, m + 1) : k \in ((m + 1) + 1)..Len(t)
      BY <3>2, GroupedAre DEF GroupOf
    <3>5. \A k \in ((m + 1) + 1)..Len(t) : k \in (i + 2)..Len(t)
      BY <2>2, <1>0
    <3> QED
      BY <3>1, <3>3, <3>4, <3>5
  <2> QED
    BY <2>1, <2>2, <1>0
<1>3. 0..Len(t) \subseteq S
  <2> HIDE DEF S
  <2> QED
    BY <1>0, <1>1, <1>2, Reaches
<1> QED
  BY <1>0, <1>3

\* What is consumed is grouped with an earlier record.
LEMMA ConsumedAreGrouped ==
    ASSUME NEW t, IsTimeline(t), NEW j \in 0..Len(t), NEW k \in Consumed(t)[j]
    PROVE  \E i \in Starts(t) : i <= j /\ k \in GroupOf(t, i)
<1> DEFINE S == {m \in 0..Len(t) :
                    \A l \in Consumed(t)[m] : \E i \in Starts(t) : i <= m /\ l \in GroupOf(t, i)}
<1>0. Len(t) \in Nat
  BY DEF IsTimeline
<1>1. 0 \in S
  BY <1>0, ConsumedStep
<1>2. ASSUME NEW m \in 0..Len(t), m \in S, m < Len(t)
      PROVE  m + 1 \in S
  <2>1. m + 1 \in 1..Len(t) /\ m + 1 \in 0..Len(t) /\ (m + 1) - 1 = m
    BY <1>2, <1>0
  <2>2. ASSUME NEW l \in Consumed(t)[m + 1]
        PROVE  \E i \in Starts(t) : i <= m + 1 /\ l \in GroupOf(t, i)
    <3>1. CASE l \in Consumed(t)[m]
      <4>1. PICK i \in Starts(t) : i <= m /\ l \in GroupOf(t, i)
        BY <3>1, <1>2
      <4> QED
        BY <4>1 DEF Starts
    <3>2. CASE m + 1 \in Starts(t) /\ l \in GroupOf(t, m + 1)
      BY <3>2, <2>1
    <3> QED
      BY <3>1, <3>2, <2>1, LookedAre
  <2> QED
    BY <2>1, <2>2
<1>3. 0..Len(t) \subseteq S
  <2> HIDE DEF S
  <2> QED
    BY <1>0, <1>1, <1>2, Reaches
<1> QED
  BY <1>3

\* Every record is a start or grouped with one, never both, and with one only.
LEMMA Grouping ==
    ASSUME NEW t, IsTimeline(t)
    PROVE  /\ DOMAIN t \ Consumed(t)[Len(t)] = Starts(t)
           /\ \A i \in Starts(t) : i \in 1..Len(t) /\ GroupOf(t, i) \subseteq (i + 1)..Len(t)
           /\ \A k \in 1..Len(t) :
                 k \in Starts(t) \/ \E i \in Starts(t) : k \in GroupOf(t, i)
           /\ \A i \in Starts(t) : \A k \in GroupOf(t, i) : k \notin Starts(t)
           /\ \A i, j \in Starts(t) : \A k \in GroupOf(t, i) : k \in GroupOf(t, j) => i = j
<1>0. Len(t) \in Nat /\ DOMAIN t = 1..Len(t)
  BY DEF IsTimeline
<1>1. ASSUME NEW i \in Starts(t)
      PROVE  i \in 1..Len(t) /\ GroupOf(t, i) \subseteq (i + 1)..Len(t)
  BY GroupedAre DEF Starts, GroupOf
<1>2. ASSUME NEW i \in 1..Len(t), NEW m \in (i - 1)..Len(t)
      PROVE  i \in Consumed(t)[m] <=> i \in Consumed(t)[i - 1]
  <2>1. i - 1 \in 0..Len(t) /\ i \notin ((i - 1) + 2)..Len(t) /\ m \in (i - 1)..Len(t)
    BY <1>0
  <2> QED
    BY <2>1, ConsumedGrows
<1>3. DOMAIN t \ Consumed(t)[Len(t)] = Starts(t)
  <2>1. \A i \in 1..Len(t) : Len(t) \in (i - 1)..Len(t)
    BY <1>0
  <2> QED
    BY <2>1, <1>0, <1>2 DEF Starts
<1>4. ASSUME NEW k \in 1..Len(t), k \notin Starts(t)
      PROVE  \E i \in Starts(t) : k \in GroupOf(t, i)
  <2>1. k - 1 \in 0..Len(t) /\ k \in Consumed(t)[k - 1]
    BY <1>0, <1>4 DEF Starts
  <2> QED
    BY <2>1, ConsumedAreGrouped
<1>5. ASSUME NEW i \in Starts(t), NEW k \in GroupOf(t, i), NEW j \in (i + 1)..Len(t)
      PROVE  k \in Consumed(t)[j - 1]
  <2>1. i \in 0..Len(t) /\ j - 1 \in i..Len(t) /\ i \in 1..Len(t)
    BY <1>0, <1>1
  <2> QED
    BY <2>1, LookedAre, ConsumedGrows
<1>6. ASSUME NEW i \in Starts(t), NEW k \in GroupOf(t, i)
      PROVE  k \notin Starts(t)
  <2>1. k \in (i + 1)..Len(t)
    BY <1>1
  <2> QED
    BY <2>1, <1>5 DEF Starts
<1>7. ASSUME NEW i \in Starts(t), NEW j \in Starts(t), NEW k \in GroupOf(t, i),
             k \in GroupOf(t, j), i < j
      PROVE  FALSE
  <2>1. i \in 1..Len(t) /\ j \in 1..Len(t) /\ j \in (i + 1)..Len(t) /\ k \in (j + 1)..Len(t)
    BY <1>0, <1>1, <1>7
  <2>2. k \in Consumed(t)[j - 1]
    BY <2>1, <1>5
  <2>3. \/ t[j].kind = ToolCall /\ t[k].kind = ToolResult /\ k \notin Consumed(t)[j - 1]
        \/ t[j].kind = Assistant /\ t[k].kind = Assistant
    BY <2>1, <1>7, GroupedAre DEF GroupOf
  <2>4. t[k].kind = Assistant /\ \A l \in (i + 1)..k : l \in GroupOf(t, i)
    <3>1. \/ t[k].kind = ToolResult
          \/ /\ t[k].kind = Assistant
             /\ \A l \in (i + 1)..k : l \in Grouped(t, i, Consumed(t)[i - 1])
      BY <2>1, <1>7, GroupedAre DEF GroupOf
    <3> QED
      BY <3>1, <2>2, <2>3 DEF GroupOf, ToolResult, Assistant
  <2>5. j \in GroupOf(t, i)
    BY <2>1, <2>4
  <2> QED
    BY <2>5, <1>6
<1>8. ASSUME NEW i \in Starts(t), NEW j \in Starts(t), NEW k \in GroupOf(t, i), k \in GroupOf(t, j)
      PROVE  i = j
  <2>1. i \in Nat /\ j \in Nat
    BY <1>0, <1>1
  <2>2. i = j \/ i < j \/ j < i
    BY <2>1
  <2> QED
    BY <2>2, <1>7, <1>8
<1> QED
  BY <1>1, <1>3, <1>4, <1>6, <1>8

-----------------------------------------------------------------------------
\* The operations: one for each start.
OperationOf(t, i) == OperationFrom(t, i, GroupOf(t, i))

\* The records that the operation of record i has as its entries.
EntriesOf(t, i) == {i} \union IF t[i].kind = ToolCall THEN GroupOf(t, i) ELSE {}

LEMMA StartsAreFinite ==
    ASSUME NEW t, IsTimeline(t)
    PROVE  IsFiniteSet(Starts(t)) /\ Starts(t) \in SUBSET Nat
<1>0. Len(t) \in Int /\ 1 \in Int /\ \A i \in 1..Len(t) : i \in Nat
  BY DEF IsTimeline
<1>1. IsFiniteSet(1..Len(t)) /\ Starts(t) \in SUBSET (1..Len(t))
  BY <1>0, FS_Interval DEF Starts
<1> QED
  BY <1>0, <1>1, FS_Subset

LEMMA OperationsAre ==
    ASSUME NEW t, IsTimeline(t)
    PROVE  /\ DOMAIN BuildTraceOperations(t) = 1..Cardinality(Starts(t))
           /\ \A n \in 1..Cardinality(Starts(t)) :
                 /\ Places(Starts(t))[n] \in Starts(t)
                 /\ BuildTraceOperations(t)[n] = OperationOf(t, Places(Starts(t))[n])
           /\ \A i \in Starts(t) : \E n \in 1..Cardinality(Starts(t)) : Places(Starts(t))[n] = i
           /\ \A m, n \in 1..Cardinality(Starts(t)) :
                 Places(Starts(t))[m] = Places(Starts(t))[n] => m = n
<1>1. BuildTraceOperations(t) = [n \in DOMAIN Places(Starts(t)) |->
          OperationOf(t, Places(Starts(t))[n])]
  BY Grouping DEF BuildTraceOperations, OperationsFrom, OperationOf, GroupOf
<1>2. /\ DOMAIN Places(Starts(t)) = 1..Cardinality(Starts(t))
      /\ \A n \in 1..Cardinality(Starts(t)) : Places(Starts(t))[n] \in Starts(t)
      /\ \A i \in Starts(t) : \E n \in 1..Cardinality(Starts(t)) : Places(Starts(t))[n] = i
      /\ \A m, n \in 1..Cardinality(Starts(t)) :
            Places(Starts(t))[m] = Places(Starts(t))[n] => m = n
  BY StartsAreFinite, PlacesList
<1> QED
  BY <1>1, <1>2

LEMMA OperationsRange ==
    ASSUME NEW t, IsTimeline(t)
    PROVE  Range(BuildTraceOperations(t)) = {OperationOf(t, i) : i \in Starts(t)}
<1>1. \A i \in Starts(t) : \E n \in DOMAIN BuildTraceOperations(t) :
          BuildTraceOperations(t)[n] = OperationOf(t, i)
  <2> SUFFICES ASSUME NEW i \in Starts(t)
               PROVE  \E n \in DOMAIN BuildTraceOperations(t) :
                         BuildTraceOperations(t)[n] = OperationOf(t, i)
    OBVIOUS
  <2>1. PICK n \in 1..Cardinality(Starts(t)) : Places(Starts(t))[n] = i
    BY OperationsAre
  <2>2. BuildTraceOperations(t)[n] = OperationOf(t, i) /\ n \in DOMAIN BuildTraceOperations(t)
    BY <2>1, OperationsAre
  <2> QED
    BY <2>2
<1>2. \A n \in DOMAIN BuildTraceOperations(t) : \E i \in Starts(t) :
          BuildTraceOperations(t)[n] = OperationOf(t, i)
  BY OperationsAre
<1> QED
  BY <1>1, <1>2 DEF Range

LEMMA EntriesAre ==
    ASSUME NEW t, IsTimeline(t), NEW i \in Starts(t)
    PROVE  /\ i \in 1..Len(t)
           /\ IsFiniteSet(EntriesOf(t, i)) /\ EntriesOf(t, i) \in SUBSET (i..Len(t))
           /\ Range(Places(EntriesOf(t, i))) = EntriesOf(t, i)
           /\ Places(EntriesOf(t, i)) \in Seq(EntriesOf(t, i))
           /\ Len(Places(EntriesOf(t, i))) = Cardinality(EntriesOf(t, i))
           /\ Places(EntriesOf(t, i)) # <<>>
           /\ Head(Places(EntriesOf(t, i))) = i
<1>1. Len(t) \in Nat /\ i \in 1..Len(t) /\ GroupOf(t, i) \subseteq (i + 1)..Len(t)
  BY Grouping DEF IsTimeline
<1>2. EntriesOf(t, i) \in SUBSET (i..Len(t)) /\ i \in EntriesOf(t, i)
  BY <1>1 DEF EntriesOf
<1>3. IsFiniteSet(i..Len(t))
  BY <1>1, FS_Interval
<1>4. IsFiniteSet(EntriesOf(t, i)) /\ EntriesOf(t, i) \in SUBSET Nat
      /\ \A m \in EntriesOf(t, i) : i <= m
  <2>1. \A m \in i..Len(t) : m \in Nat /\ i <= m
    BY <1>1
  <2> QED
    BY <2>1, <1>2, <1>3, FS_Subset
<1>5. /\ Range(Places(EntriesOf(t, i))) = EntriesOf(t, i)
      /\ Places(EntriesOf(t, i)) \in Seq(EntriesOf(t, i))
      /\ DOMAIN Places(EntriesOf(t, i)) = 1..Cardinality(EntriesOf(t, i))
      /\ Cardinality(EntriesOf(t, i)) \in Nat
  BY <1>4, PlacesList
<1>6. Places(EntriesOf(t, i)) # <<>> /\ Head(Places(EntriesOf(t, i))) = i
  BY <1>2, <1>4, PlacesBegin
<1> QED
  BY <1>1, <1>2, <1>4, <1>5, <1>6

LEMMA OperationIs ==
    ASSUME NEW t, IsTimeline(t), NEW i \in Starts(t)
    PROVE  /\ OperationOf(t, i).merged = {i} \union GroupOf(t, i)
           /\ OperationOf(t, i).entries = Places(EntriesOf(t, i))
           /\ OperationOf(t, i).kind = t[i].kind
           /\ (\E j \in EntriesOf(t, i) : HasError(t[j])) => OperationOf(t, i).status = "error"
<1>1. OperationOf(t, i) = Operation(t, Places(EntriesOf(t, i)), {i} \union GroupOf(t, i))
  BY DEF OperationOf, OperationFrom, EntriesOf
<1>2. Range(Places(EntriesOf(t, i))) = EntriesOf(t, i) /\ Head(Places(EntriesOf(t, i))) = i
  BY EntriesAre
<1> QED
  BY <1>1, <1>2 DEF Operation

-----------------------------------------------------------------------------
\* Two timelines with the same records up to n.
Same(t, u, n) ==
    /\ IsTimeline(t) /\ IsTimeline(u)
    /\ n \in Nat /\ n <= Len(t) /\ n <= Len(u)
    /\ \A k \in 1..n : u[k] = t[k]

Agree(n, before, after) == \A k \in 1..n : k \in before <=> k \in after

LEMMA GroupedStays ==
    ASSUME NEW t, NEW u, NEW n, Same(t, u, n), NEW i \in 1..n, NEW before, NEW after,
           Agree(n, before, after), NEW j \in 1..n, j \in Grouped(t, i, before)
    PROVE  j \in Grouped(u, i, after)
<1>0. /\ Len(t) \in Nat /\ Len(u) \in Nat /\ n \in Nat /\ i \in Nat /\ j \in Nat
      /\ n <= Len(t) /\ n <= Len(u) /\ i \in 1..Len(t) /\ u[i] = t[i]
      /\ \A k \in 1..n : u[k] = t[k]
  BY DEF Same, IsTimeline
<1>1. j \in (i + 1)..Len(t)
  BY <1>0, GroupedAre DEF Same
<1>2. CASE t[i].kind = ToolCall
  <2> DEFINE answers(x, b) == {k \in (i + 1)..Len(x) : k \notin b /\ Answers(x, i, k)}
             again(x) == {k \in (i + 1)..Len(x) : x[k].kind = ToolCall /\ x[k].tool = x[i].tool}
             first(x, b) == {k \in answers(x, b) : \A m \in answers(x, b) \union again(x) : k <= m}
  <2>1. Grouped(t, i, before) = first(t, before) /\ Grouped(u, i, after) = first(u, after)
    BY <1>2, <1>0 DEF Grouped, MatchingResults
  <2>2. \A k \in 1..n : Answers(u, i, k) <=> Answers(t, i, k)
    BY <1>0 DEF Answers
  <2>3. \A k \in (i + 1)..Len(u) : k <= n =>
           /\ k \in 1..n /\ k \in (i + 1)..Len(t)
           /\ k \in answers(u, after) => k \in answers(t, before)
           /\ k \in again(u) => k \in again(t)
    BY <1>0, <2>2 DEF Agree
  <2>4. j \in answers(u, after)
    <3>1. j \in answers(t, before) /\ j \in (i + 1)..Len(u)
      BY <1>0, <1>1, <2>1
    <3> QED
      BY <3>1, <1>0, <2>2 DEF Agree
  <2>5. ASSUME NEW k \in answers(u, after) \union again(u)
        PROVE  j <= k
    <3>1. k \in (i + 1)..Len(u) /\ k \in Int
      BY <1>0
    <3>2. CASE k <= n
      <4>1. k \in answers(t, before) \union again(t)
        BY <3>1, <3>2, <2>3
      <4> QED
        BY <4>1, <2>1
    <3>3. CASE ~(k <= n)
      BY <3>1, <3>3, <1>0
    <3> QED
      BY <3>2, <3>3
  <2> QED
    BY <2>1, <2>4, <2>5
<1>3. CASE t[i].kind = Assistant
  <2>1. /\ Grouped(t, i, before) = Chunks(t, i) \ {i}
        /\ Grouped(u, i, after) = Chunks(u, i) \ {i}
    BY <1>0, <1>3 DEF Grouped, ToolCall, Assistant
  <2>2. \A k \in i..j : u[k] = t[k] /\ t[k].kind = Assistant /\ t[k].trace = t[i].trace
    BY <1>0, <2>1 DEF Chunks
  <2>3. j \in i..Len(u)
    BY <1>0, <1>1
  <2> QED
    BY <1>0, <1>1, <2>1, <2>2, <2>3 DEF Chunks
<1>4. CASE t[i].kind \notin {ToolCall, Assistant}
  BY <1>4 DEF Grouped
<1> QED
  BY <1>2, <1>3, <1>4

LEMMA GroupedAgree ==
    ASSUME NEW t, NEW u, NEW n, Same(t, u, n), NEW i \in 1..n, NEW before, NEW after,
           Agree(n, before, after)
    PROVE  Agree(n, Grouped(t, i, before), Grouped(u, i, after))
<1>1. Same(u, t, n) /\ Agree(n, after, before)
  BY DEF Same, Agree
<1> QED
  BY <1>1, GroupedStays DEF Agree

LEMMA ConsumedAgree ==
    ASSUME NEW t, NEW u, NEW n, Same(t, u, n), NEW i \in 0..n
    PROVE  Agree(n, Consumed(t)[i], Consumed(u)[i])
<1> DEFINE S == {m \in 0..n : Agree(n, Consumed(t)[m], Consumed(u)[m])}
<1>0. Len(t) \in Nat /\ Len(u) \in Nat /\ n \in Nat /\ n <= Len(t) /\ n <= Len(u)
  BY DEF Same, IsTimeline
<1>1. 0 \in S
  BY <1>0, ConsumedStep DEF Agree
<1>2. ASSUME NEW m \in 0..n, m \in S, m < n
      PROVE  m + 1 \in S
  <2>1. /\ m + 1 \in 1..Len(t) /\ m + 1 \in 1..Len(u) /\ (m + 1) - 1 = m
        /\ m + 1 \in 1..n /\ m + 1 \in 0..n
    BY <1>0, <1>2
  <2>2. /\ Consumed(t)[m + 1] = Looked(t, m + 1, Consumed(t)[m])
        /\ Consumed(u)[m + 1] = Looked(u, m + 1, Consumed(u)[m])
    BY <1>0, <2>1, ConsumedStep
  <2>3. Agree(n, Consumed(t)[m], Consumed(u)[m])
    BY <1>2
  <2>4. Agree(n, Grouped(t, m + 1, Consumed(t)[m]), Grouped(u, m + 1, Consumed(u)[m]))
    BY <2>1, <2>3, GroupedAgree
  <2>5. m + 1 \in Consumed(t)[m] <=> m + 1 \in Consumed(u)[m]
    BY <2>1, <2>3 DEF Agree
  <2>6. Agree(n, Looked(t, m + 1, Consumed(t)[m]), Looked(u, m + 1, Consumed(u)[m]))
    BY <2>3, <2>4, <2>5 DEF Agree, Looked
  <2> QED
    BY <2>1, <2>2, <2>6
<1>3. 0..n \subseteq S
  <2> HIDE DEF S
  <2> QED
    BY <1>0, <1>1, <1>2, Reaches
<1> QED
  BY <1>3

\* The operation of a call and its result depends on the records up to the result.
LEMMA PairStays ==
    ASSUME NEW t, NEW u, NEW n, Same(t, u, n), NEW i \in Starts(t),
           Len(OperationOf(t, i).entries) = 2, Last(OperationOf(t, i).entries) = n
    PROVE  i \in Starts(u) /\ OperationOf(u, i) = OperationOf(t, i)
<1>0. /\ IsTimeline(t) /\ IsTimeline(u) /\ Len(t) \in Nat /\ Len(u) \in Nat
      /\ n \in Nat /\ n <= Len(t) /\ n <= Len(u) /\ i \in 1..Len(t) /\ i \in Nat
  BY Grouping DEF Same, IsTimeline
<1> DEFINE e == Places(EntriesOf(t, i))
<1>1. OperationOf(t, i).entries = e
  BY <1>0, OperationIs
<1>2. /\ e \in Seq(EntriesOf(t, i)) /\ Len(e) = 2 /\ Cardinality(EntriesOf(t, i)) = 2
      /\ Range(e) = EntriesOf(t, i) /\ Head(e) = i /\ Last(e) = n
  BY <1>0, <1>1, EntriesAre
<1> HIDE DEF e
<1>3. e[1] = i /\ e[2] = n /\ EntriesOf(t, i) = {i, n}
  <2>1. e[1] = i /\ e[2] = n /\ DOMAIN e = {1, 2}
    BY <1>2 DEF Last
  <2> QED
    BY <2>1, <1>2 DEF Range
<1>4. n # i
  <2>1. Cardinality({i}) = 1
    BY FS_Singleton
  <2>2. Cardinality(EntriesOf(t, i)) = 2
    BY <1>2
  <2>3. EntriesOf(t, i) # {i}
    BY <2>1, <2>2
  <2> QED
    BY <2>3, <1>3
<1>5. t[i].kind = ToolCall /\ n \in GroupOf(t, i)
  BY <1>3, <1>4 DEF EntriesOf
<1>6. ToolCall # Assistant
  BY DEF ToolCall, Assistant
<1>7. GroupOf(t, i) = {n} /\ n \in (i + 1)..Len(t)
  BY <1>0, <1>5, <1>6, GroupedAre DEF GroupOf
<1>8. /\ i \in 1..n /\ n \in 1..n /\ i - 1 \in 0..n /\ i \in 1..Len(u)
      /\ u[i] = t[i] /\ u[n] = t[n]
  BY <1>0, <1>7 DEF Same
<1>9. Agree(n, Consumed(t)[i - 1], Consumed(u)[i - 1])
  BY <1>8, ConsumedAgree
<1>10. i \in Starts(u)
  BY <1>8, <1>9 DEF Starts, Agree
<1>11. n \in GroupOf(u, i)
  BY <1>5, <1>8, <1>9, GroupedAgree DEF GroupOf, Agree
<1>12. GroupOf(u, i) = {n}
  BY <1>0, <1>5, <1>6, <1>8, <1>11, GroupedAre DEF GroupOf
<1>13. EntriesOf(u, i) = EntriesOf(t, i)
  BY <1>7, <1>8, <1>12 DEF EntriesOf
<1>14. /\ OperationOf(t, i) = Operation(t, e, {i} \union {n})
       /\ OperationOf(u, i) = Operation(u, e, {i} \union {n})
  BY <1>7, <1>12, <1>13 DEF OperationOf, OperationFrom, EntriesOf, e
<1>15. \A k \in {i, n} : u[k] = t[k]
  BY <1>8
<1>16. \A S \in SUBSET {i, n} : S # {} => Max(S) \in {i, n}
  <2> SUFFICES ASSUME NEW S \in SUBSET {i, n}, S # {}
               PROVE  Max(S) \in {i, n}
    OBVIOUS
  <2>1. \E x \in S : \A y \in S : x >= y
    <3>1. S = {i} \/ S = {n} \/ S = {i, n}
      OBVIOUS
    <3> QED
      BY <3>1, <1>0
  <2> QED
    BY <2>1 DEF Max
<1> DEFINE given(x) == {k \in Range(e) : x[k].status # Absent}
           fails(x) == \E k \in Range(e) : HasError(x[k])
<1>17. given(u) = given(t) /\ (fails(u) <=> fails(t))
  BY <1>2, <1>3, <1>15
<1>18. given(t) # {} => u[Max(given(t))] = t[Max(given(t))]
  BY <1>2, <1>3, <1>15, <1>16
<1>19. ASSUME NEW x
       PROVE  Operation(x, e, {i} \union {n}) =
                 [entries |-> e, merged |-> {i} \union {n}, kind |-> x[i].kind,
                  duration |-> x[n].at - x[i].at,
                  status |-> IF fails(x) THEN "error"
                             ELSE IF given(x) = {} THEN Absent ELSE x[Max(given(x))].status]
  BY <1>2 DEF Operation
<1> HIDE DEF given, fails
<1>20. Operation(u, e, {i} \union {n}) = Operation(t, e, {i} \union {n})
  BY <1>8, <1>17, <1>18, <1>19
<1> QED
  BY <1>10, <1>14, <1>20

-----------------------------------------------------------------------------
\* A call and its result.
UseIn(e) == IF "hook" \in DOMAIN e.content THEN e.content.hook.use ELSE ToolUseID(e)

\* A record as the makers of timelines make it.
Proper(s, e) ==
    /\ e.kind = User => ~HasError(e)
    /\ s = "demo" => UseIn(e) = Absent
    /\ s # "demo" /\ e.kind \in {ToolCall, ToolResult} =>
          /\ UseIn(e) \in Uses /\ e.tool = Tool[UseIn(e)]
          /\ s = "hooks" => ToolUseID(e) = Absent /\ e.trace = "session"
          /\ s # "hooks" => ToolUseID(e) = UseIn(e)

CallOf(e, u) == e.kind = ToolCall /\ UseIn(e) = u
ResultOf(e, u) == e.kind = ToolResult /\ UseIn(e) = u

\* Every tool is run once, and its result is after its call.
Once(t) ==
    \A i, j \in 1..Len(t) : \A u \in Uses :
        /\ CallOf(t[i], u) /\ CallOf(t[j], u) => i = j
        /\ ResultOf(t[i], u) /\ ResultOf(t[j], u) => i = j

Follow(t) ==
    \A k \in 1..Len(t) : \A u \in Uses :
        ResultOf(t[k], u) => \E d \in 1..Len(t) : d < k /\ CallOf(t[d], u)

Orderly(t) == Once(t) /\ Follow(t)

ResultFor(t, r, c) ==
    t[r].kind = ToolResult /\ t[c].kind = ToolCall /\ UseIn(t[r]) # Absent /\ UseIn(t[r]) = UseIn(t[c])

ApartIn(t) ==
    \A r, c, d \in 1..Len(t) :
        ResultFor(t, r, c) /\ t[d].kind = ToolCall /\ t[d].tool = t[c].tool => ~(c < d /\ d < r)

\* Calls are never grouped with what is before them.
LEMMA CallsStart ==
    ASSUME NEW t, IsTimeline(t), NEW c \in 1..Len(t), t[c].kind \notin {ToolResult, Assistant}
    PROVE  c \in Starts(t)
<1>1. ASSUME NEW i \in Starts(t), c \in GroupOf(t, i)
      PROVE  FALSE
  BY <1>1, GroupedAre DEF GroupOf, Starts
<1> QED
  BY <1>1, Grouping

\* The first result that a call takes is its own, if those before took theirs.
LEMMA TakesItsOwn ==
    ASSUME NEW t, IsTimeline(t), NEW s, s # "demo", \A i \in 1..Len(t) : Proper(s, t[i]),
           Orderly(t), ApartIn(t),
           NEW c \in 1..Len(t), NEW r \in 1..Len(t), ResultFor(t, r, c),
           \A d, k \in 1..Len(t) : d < c /\ ResultFor(t, k, d) => GroupOf(t, d) = {k}
    PROVE  GroupOf(t, c) = {r}
<1> DEFINE before == Consumed(t)[c - 1]
           u == UseIn(t[c])
<1>0. /\ Len(t) \in Nat /\ c \in Nat /\ r \in Nat
      /\ c \in Starts(t) /\ c - 1 \in 0..Len(t)
      /\ t[c].kind = ToolCall /\ t[r].kind = ToolResult
      /\ UseIn(t[r]) = u /\ u \in Uses /\ u # Absent
      /\ t[c].tool = Tool[u] /\ t[r].tool = Tool[u]
      /\ ToolCall # ToolResult /\ ToolCall # Assistant /\ ToolResult # Assistant
  <2>1. ToolCall # ToolResult /\ ToolCall # Assistant /\ ToolResult # Assistant
    BY DEF ToolCall, ToolResult, Assistant
  <2>2. c \in Starts(t)
    BY <2>1, CallsStart DEF ResultFor
  <2> QED
    BY <2>1, <2>2 DEF IsTimeline, ResultFor, Proper
<1>1. c < r
  <2>1. PICK d \in 1..Len(t) : d < r /\ CallOf(t[d], u)
    BY <1>0 DEF Orderly, Once, Follow, ResultOf
  <2>2. d = c
    BY <2>1, <1>0 DEF Orderly, Once, Follow, CallOf
  <2> QED
    BY <2>1, <2>2
<1>2. Answers(t, c, r)
  <2>1. Proper(s, t[c]) /\ Proper(s, t[r])
    OBVIOUS
  <2> QED
    BY <2>1, <1>0 DEF Answers, Proper
<1>3. r \notin before
  <2> SUFFICES ASSUME r \in before
               PROVE  FALSE
    OBVIOUS
  <2>1. PICK i \in Starts(t) : i <= c - 1 /\ r \in GroupOf(t, i)
    BY <1>0, ConsumedAreGrouped
  <2>2. i \in 1..Len(t) /\ i < c
    BY <1>0, <2>1, Grouping
  <2>3. t[i].kind = ToolCall /\ r \in MatchingResults(t, i, Consumed(t)[i - 1])
    <3>1. t[i].kind = ToolCall
      BY <1>0, <2>1, <2>2, GroupedAre DEF GroupOf
    <3> QED
      BY <3>1, <2>1 DEF GroupOf, Grouped
  <2>4. Answers(t, i, r) /\ t[c].tool # t[i].tool
    <3>1. Answers(t, i, r)
      BY <2>3 DEF MatchingResults
    <3>2. t[c].tool = t[i].tool => r <= c
      BY <2>2, <2>3, <1>0 DEF MatchingResults
    <3> QED
      BY <3>1, <3>2, <1>0, <1>1
  <2>5. UseIn(t[i]) \in Uses /\ UseIn(t[i]) # u
    <3>1. UseIn(t[i]) \in Uses
      BY <2>2, <2>3 DEF Proper
    <3>2. UseIn(t[i]) # u
      BY <2>2, <2>3, <3>1, <1>0 DEF Orderly, Once, Follow, CallOf
    <3> QED
      BY <3>1, <3>2
  <2>6. ToolUseID(t[i]) # Absent => ToolUseID(t[i]) # ToolUseID(t[r])
    BY <2>2, <2>3, <2>5, <1>0 DEF Proper
  <2> QED
    BY <2>2, <2>4, <2>6, <1>0, <1>1 DEF Answers
<1>4. ASSUME NEW d \in (c + 1)..Len(t), t[d].kind = ToolCall, t[d].tool = t[c].tool
      PROVE  r <= d
  <2>1. d \in 1..Len(t) /\ ~(c < d /\ d < r)
    BY <1>0, <1>4 DEF ApartIn
  <2> QED
    BY <2>1, <1>0
<1>5. ASSUME NEW k \in (c + 1)..Len(t), k \notin before, Answers(t, c, k), k < r
      PROVE  FALSE
  <2>1. k \in 1..Len(t) /\ t[k].kind = ToolResult /\ UseIn(t[k]) \in Uses
    BY <1>0, <1>5 DEF Answers, Proper
  <2> DEFINE w == UseIn(t[k])
  <2>2. PICK d \in 1..Len(t) : d < k /\ CallOf(t[d], w)
    BY <2>1 DEF Orderly, Once, Follow, ResultOf
  <2>3. w # u
    BY <2>1, <1>0, <1>5 DEF Orderly, Once, Follow, ResultOf
  <2>4. d # c
    BY <2>2, <2>3 DEF CallOf
  <2>5. w # Absent /\ ResultFor(t, k, d)
    BY <2>1, <2>2, TimelineAssumption DEF ResultFor, CallOf
  <2>6. t[d].tool = t[k].tool
    BY <2>1, <2>2 DEF Proper, CallOf
  <2>7. t[k].tool # t[c].tool
    <3> SUFFICES ASSUME t[k].tool = t[c].tool
                 PROVE  FALSE
      OBVIOUS
    <3>1. CASE c < d
      <4>1. d \in (c + 1)..Len(t) /\ t[d].kind = ToolCall /\ t[d].tool = t[c].tool
        BY <3>1, <2>2, <2>6, <1>0 DEF CallOf
      <4>2. r <= d
        BY <4>1, <1>4
      <4> QED
        BY <4>2, <2>2, <1>5, <1>0
    <3>2. CASE d < c
      <4>1. ~(d < c /\ c < k)
        BY <2>1, <2>5, <2>6, <1>0 DEF ApartIn
      <4> QED
        BY <4>1, <3>2, <1>0
    <3> QED
      BY <3>1, <3>2, <2>4, <1>0
  <2>8. ToolUseID(t[c]) # Absent => ToolUseID(t[c]) # ToolUseID(t[k])
    <3>1. Proper(s, t[c]) /\ Proper(s, t[k])
      BY <2>1
    <3> QED
      BY <3>1, <2>1, <2>3, <2>5, <1>0 DEF Proper
  <2>9. k = c + 1
    BY <2>7, <2>8, <1>5 DEF Answers
  <2>10. d \in 1..Len(t) /\ d < c
    BY <2>2, <2>4, <2>9, <1>0
  <2>11. d \in Starts(t) /\ k \in GroupOf(t, d)
    <3>1. d \in Starts(t)
      BY <2>2, <1>0, CallsStart DEF CallOf
    <3>2. GroupOf(t, d) = {k}
      BY <2>1, <2>5, <2>10
    <3> QED
      BY <3>1, <3>2
  <2>12. k \in Consumed(t)[d]
    BY <2>10, <2>11, LookedAre
  <2>13. d \in 0..Len(t) /\ c - 1 \in d..Len(t)
    BY <2>10, <1>0
  <2> QED
    BY <2>12, <2>13, <1>5, ConsumedGrows
<1>6. r \in MatchingResults(t, c, before)
  <2> DEFINE answers == {j \in (c + 1)..Len(t) : j \notin before /\ Answers(t, c, j)}
             again == {j \in (c + 1)..Len(t) : t[j].kind = ToolCall /\ t[j].tool = t[c].tool}
  <2>1. r \in answers
    BY <1>0, <1>1, <1>2, <1>3
  <2>2. \A k \in answers : r <= k
    <3>1. \A k \in answers : k \in Nat /\ ~(k < r)
      BY <1>0, <1>5
    <3> QED
      BY <3>1, <1>0
  <2>3. \A k \in again : r <= k
    BY <1>4
  <2> QED
    BY <2>1, <2>2, <2>3 DEF MatchingResults
<1>7. r \in GroupOf(t, c)
  BY <1>0, <1>6 DEF GroupOf, Grouped
<1> QED
  BY <1>0, <1>7, GroupedAre DEF GroupOf

LEMMA TakeTheirOwn ==
    ASSUME NEW t, IsTimeline(t), NEW s, s # "demo", \A i \in 1..Len(t) : Proper(s, t[i]),
           Orderly(t), ApartIn(t)
    PROVE  \A c, r \in 1..Len(t) : ResultFor(t, r, c) => GroupOf(t, c) = {r}
<1> DEFINE bad == {c \in 1..Len(t) :
                      \E r \in 1..Len(t) : ResultFor(t, r, c) /\ GroupOf(t, c) # {r}}
<1> SUFFICES ASSUME bad # {}
             PROVE  FALSE
  OBVIOUS
<1>1. bad \in SUBSET Nat
  OBVIOUS
<1>2. PICK c \in bad : \A d \in bad : c <= d
  BY <1>1, Least
<1>3. PICK r \in 1..Len(t) : ResultFor(t, r, c) /\ GroupOf(t, c) # {r}
  OBVIOUS
<1>4. \A d, k \in 1..Len(t) : d < c /\ ResultFor(t, k, d) => GroupOf(t, d) = {k}
  <2>1. \A d \in 1..Len(t) : d < c => d \notin bad
    BY <1>1, <1>2
  <2> QED
    BY <2>1
<1>5. c \in 1..Len(t)
  OBVIOUS
<1> HIDE DEF bad
<1> QED
  BY <1>3, <1>4, <1>5, TakesItsOwn

-----------------------------------------------------------------------------
\* Every step is one of these, whoever makes the timeline.

\* A record is captured: it is in the timeline at once, or late.
Logs(e) ==
    /\ \/ Lands(e) /\ late' = late
       \/ timeline' = timeline /\ late' = late \union {e}
    /\ Proper(source, e) /\ e.at \in Nat
    /\ missed' = missed

IsStep(u, from, to) == u \in Uses /\ Steps(u, from, to)

LogsCall(e) ==
    /\ Logs(e) /\ e.kind = ToolCall
    /\ IsStep(UseIn(e), "new", "running")

LogsResult(e) ==
    /\ Logs(e) /\ e.kind = ToolResult
    /\ IsStep(UseIn(e), "running", "done")

LogsOther(e) ==
    /\ Logs(e)
    /\ e.kind \notin {ToolCall, ToolResult}
    /\ \/ tools' = tools
       \/ \E u \in Uses : IsStep(u, "running", "done")

LogsOne == source # "demo" /\ \E e : LogsCall(e) \/ LogsResult(e) \/ LogsOther(e)

Misses ==
    /\ timeline' = timeline /\ late' = late /\ missed' = missed + 1
    /\ \/ tools' = tools
       \/ \E u \in Uses : IsStep(u, "new", "running") \/ IsStep(u, "running", "done")

Comes == \E x \in late : Arrives(x)

MadeUp ==
    /\ source = "demo"
    /\ \E e : Proper(source, e) /\ timeline' = Append(timeline, e)
    /\ late' = late /\ missed' = missed

LEMMA CapturedIs ==
    ASSUME NEW event, Captured(event), now \in Nat
    PROVE  /\ now' \in Nat
           /\ \E instant \in Nat :
                 \/ Lands(Stamped(event, instant)) /\ late' = late
                 \/ timeline' = timeline /\ late' = late \union {Stamped(event, instant)}
<1>1. PICK instant : instant = now'
  OBVIOUS
<1>2. instant \in Nat
  BY <1>1 DEF Captured
<1>3. \/ Lands(Stamped(event, instant)) /\ late' = late
      \/ timeline' = timeline /\ late' = late \union {Stamped(event, instant)}
  BY <1>1 DEF Captured
<1> QED
  BY <1>1, <1>2, <1>3

LEMMA HookStep ==
    ASSUME NEW event \in DOMAIN HookKind, NEW u, u \in Uses \/ u = Absent, Hook(event, u),
           u = Absent => HookKind[event] \notin {ToolCall, ToolResult}, now \in Nat
    PROVE  /\ source' = source /\ source # "demo" /\ now' \in Nat
           /\ \/ \E e : Logs(e) /\ e.kind = HookKind[event] /\ UseIn(e) = u
              \/ timeline' = timeline /\ late' = late /\ missed' = missed + 1
<1> DEFINE input == [event |-> event, session |-> "session", use |-> u, agent |-> Absent,
                     tool |-> IF u = Absent THEN Absent ELSE Tool[u]]
           made == EventFromHook(input)
<1>1. CASE Captured(made) /\ missed' = missed
  <2>1. PICK instant \in Nat :
            \/ Lands(Stamped(made, instant)) /\ late' = late
            \/ timeline' = timeline /\ late' = late \union {Stamped(made, instant)}
    BY <1>1, CapturedIs
  <2>2. PICK e : e = Stamped(made, instant)
    OBVIOUS
  <2>3. /\ e.kind = HookKind[event] /\ e.trace = "session" /\ e.tool = input.tool
        /\ e.status = HookStatus(event) /\ e.content = [hook |-> input] /\ e.at \in Nat
    BY <2>2 DEF EventFromHook, Stamped
  <2>4. UseIn(e) = u /\ ToolUseID(e) = Absent
    BY <2>3 DEF UseIn, ToolUseID
  <2>5. event = "UserPromptSubmit" \/ HookKind[event] # User
    BY DEF HookKind, User
  <2>6. HookStatus("UserPromptSubmit") = Absent
    BY DEF HookStatus
  <2>7. e.kind = User => ~HasError(e)
    BY <2>3, <2>5, <2>6, StatusAssumption DEF HasError
  <2>8. source = "hooks" /\ source' = source
    BY DEF Hook, origin
  <2>9. e.kind \in {ToolCall, ToolResult} => u \in Uses /\ e.tool = Tool[u]
    BY <2>3, TimelineAssumption
  <2>10. Proper(source, e)
    BY <2>3, <2>4, <2>7, <2>8, <2>9 DEF Proper
  <2>11. now' \in Nat
    BY <1>1, CapturedIs
  <2>12. Logs(e)
    BY <1>1, <2>1, <2>2, <2>3, <2>10 DEF Logs
  <2> QED
    BY <2>3, <2>4, <2>8, <2>11, <2>12
<1>2. CASE UNCHANGED <<timeline, now, late>> /\ missed' = missed + 1
  BY <1>2 DEF Hook, origin
<1> QED
  BY <1>1, <1>2 DEF Hook

\* A call of the client, not one about a tool.
LEMMA ClientStep ==
    ASSUME NEW kind, NEW trace, NEW status, NEW content, now \in Nat,
           Captured([kind |-> kind, trace |-> trace, tool |-> Absent, status |-> status,
                     content |-> content]),
           kind \notin {User, ToolCall, ToolResult}, source # "demo",
           missed' = missed, tools' = tools
    PROVE  now' \in Nat /\ \E e : LogsOther(e)
<1> DEFINE made == [kind |-> kind, trace |-> trace, tool |-> Absent, status |-> status,
                    content |-> content]
<1>1. /\ now' \in Nat
      /\ \E instant \in Nat :
            \/ Lands(Stamped(made, instant)) /\ late' = late
            \/ timeline' = timeline /\ late' = late \union {Stamped(made, instant)}
  BY CapturedIs
<1>2. PICK instant \in Nat :
          \/ Lands(Stamped(made, instant)) /\ late' = late
          \/ timeline' = timeline /\ late' = late \union {Stamped(made, instant)}
  BY <1>1
<1>3. PICK e : e = Stamped(made, instant)
  OBVIOUS
<1>4. e.kind = kind /\ e.at \in Nat
  BY <1>3 DEF Stamped
<1>5. Proper(source, e)
  BY <1>4 DEF Proper
<1>6. LogsOther(e)
  BY <1>2, <1>3, <1>4, <1>5 DEF LogsOther, Logs
<1> QED
  BY <1>1, <1>6

\* A call of the client about the run of a tool.
LEMMA ToolStep ==
    ASSUME NEW u \in Uses, NEW kind \in {ToolCall, ToolResult}, NEW status, now \in Nat,
           Capture(kind, Tool[u], status, [tool_use_id |-> u])
    PROVE  /\ source = "client" /\ source' = source /\ now' \in Nat
           /\ \E e : Logs(e) /\ e.kind = kind /\ UseIn(e) = u
<1> DEFINE made == [kind |-> kind, trace |-> turn, tool |-> Tool[u], status |-> status,
                    content |-> [tool_use_id |-> u]]
<1>1. Captured(made) /\ source = "client" /\ source' = source /\ missed' = missed
  BY DEF Capture, origin
<1>2. PICK instant \in Nat :
          \/ Lands(Stamped(made, instant)) /\ late' = late
          \/ timeline' = timeline /\ late' = late \union {Stamped(made, instant)}
  BY <1>1, CapturedIs
<1>3. PICK e : e = Stamped(made, instant)
  OBVIOUS
<1>4. e.kind = kind /\ e.tool = Tool[u] /\ e.content = [tool_use_id |-> u] /\ e.at \in Nat
  BY <1>3 DEF Stamped
<1>5. UseIn(e) = u /\ ToolUseID(e) = u
  BY <1>4 DEF UseIn, ToolUseID
<1>6. kind # User
  BY DEF User, ToolCall, ToolResult
<1>7. Proper(source, e)
  BY <1>1, <1>4, <1>5, <1>6 DEF Proper
<1>8. Logs(e)
  BY <1>1, <1>2, <1>3, <1>4, <1>7 DEF Logs
<1>9. now' \in Nat
  BY <1>1, CapturedIs
<1> QED
  BY <1>1, <1>4, <1>5, <1>8, <1>9

LEMMA RecordSteps ==
    ASSUME SessionNext, now \in Nat
    PROVE  source' = source /\ now' \in Nat /\ (Misses \/ LogsOne \/ Comes \/ MadeUp)
<1> DEFINE Fine == source' = source /\ now' \in Nat /\ (Misses \/ LogsOne \/ Comes \/ MadeUp)
<1>0. /\ HookKind["PreToolUse"] = ToolCall
      /\ HookKind["PostToolUse"] = ToolResult /\ HookKind["PostToolUseFailure"] = ToolResult
      /\ HookKind["PermissionDenied"] \notin {ToolCall, ToolResult}
      /\ \A event \in {"UserPromptSubmit", "PostToolBatch", "StopFailure", "SessionEnd"} :
            event \in DOMAIN HookKind /\ HookKind[event] \notin {ToolCall, ToolResult}
      /\ {"PreToolUse", "PostToolUse", "PostToolUseFailure", "PermissionDenied"}
            \subseteq DOMAIN HookKind
  BY DEF HookKind, ToolCall, ToolResult
<1>1. ASSUME NEW u \in Uses, PreToolUse(u)
      PROVE  Fine
  BY <1>0, <1>1, HookStep, TimelineAssumption DEF PreToolUse, LogsOne, LogsCall, Misses, IsStep
<1>2. ASSUME NEW u \in Uses, PostToolUse(u)
      PROVE  Fine
  BY <1>0, <1>2, HookStep, TimelineAssumption DEF PostToolUse, LogsOne, LogsResult, Misses, IsStep
<1>3. ASSUME NEW u \in Uses, PermissionDenied(u)
      PROVE  Fine
  BY <1>0, <1>3, HookStep, TimelineAssumption
     DEF PermissionDenied, LogsOne, LogsOther, Misses, IsStep
<1>4. ASSUME NEW event \in {"UserPromptSubmit", "PostToolBatch", "StopFailure", "SessionEnd"},
             OtherHook(event)
      PROVE  Fine
  BY <1>0, <1>4, HookStep DEF OtherHook, LogsOne, LogsOther, Misses
<1>5. ASSUME BeginTurn \/ Says \/ Thinks \/ EndTurn
      PROVE  Fine
  <2>1. /\ {TurnStarted, Assistant, TurnCompleted, <<"model", "response">>}
              \intersect {User, ToolCall, ToolResult} = {}
    BY DEF TurnStarted, Assistant, TurnCompleted, User, ToolCall, ToolResult
  <2>2. source = "client" /\ source' = source /\ missed' = missed /\ tools' = tools
    BY <1>5 DEF BeginTurn, Says, Thinks, EndTurn, Tells, Capture, origin
  <2>3. \E kind \in {TurnStarted, Assistant, TurnCompleted, <<"model", "response">>} :
        \E trace, status, content :
            Captured([kind |-> kind, trace |-> trace, tool |-> Absent, status |-> status,
                      content |-> content])
    BY <1>5 DEF BeginTurn, Says, Thinks, EndTurn, Tells, Capture
  <2> QED
    BY <2>1, <2>2, <2>3, ClientStep DEF LogsOne
<1>6. ASSUME NEW u \in Uses, Calls(u)
      PROVE  Fine
  BY <1>6, ToolStep DEF Calls, LogsOne, LogsCall, IsStep
<1>7. ASSUME NEW u \in Uses, Returns(u)
      PROVE  Fine
  BY <1>7, ToolStep DEF Returns, LogsOne, LogsResult, IsStep
<1>8. ASSUME NEW x \in late, Arrives(x)
      PROVE  Fine
  BY <1>8 DEF Comes, Arrives, origin
<1>9. ASSUME DemoRecord
      PROVE  Fine
  <2>1. PICK i : i = Len(timeline) + 1
    OBVIOUS
  <2> DEFINE made == DemoEvent(scenario, i)
  <2>2. PICK e : e = Stamped(made, i)
    OBVIOUS
  <2>3. /\ timeline' = Append(timeline, e) /\ source = "demo" /\ source' = source
        /\ missed' = missed /\ late' = late /\ now' = now
    BY <1>9, <2>1, <2>2 DEF DemoRecord, origin
  <2>4. e.kind = DemoKind(scenario.records, i) /\ e.status = made.status
    BY <2>2 DEF DemoEvent, Stamped
  <2>5. e.content = [type |-> "reasoning"] \/ e.content = <<>>
    BY <2>2 DEF DemoEvent, Stamped
  <2>6. e.kind = User => e.status = Absent
    <3>1. User # ToolResult /\ User # TurnCompleted /\ User # TurnStarted
      BY DEF User, ToolResult, TurnCompleted, TurnStarted
    <3> QED
      BY <2>4, <3>1 DEF DemoEvent
  <2>7. UseIn(e) = Absent
    BY <2>5 DEF UseIn, ToolUseID
  <2>8. Proper(source, e)
    BY <2>3, <2>6, <2>7, StatusAssumption DEF Proper, HasError
  <2> QED
    BY <2>3, <2>8 DEF MadeUp
<1> QED
  BY <1>1, <1>2, <1>3, <1>4, <1>5, <1>6, <1>7, <1>8, <1>9 DEF SessionNext

-----------------------------------------------------------------------------
\* The runs of the tools, as far as they have come: of the timeline t and the late
\* records l.
Called(t, l, u) == (\E d \in 1..Len(t) : CallOf(t[d], u)) \/ (\E x \in l : CallOf(x, u))

\* The record is of a run that has come to it.
Fits(e, w) ==
    \A u \in Uses : (CallOf(e, u) => w[u] # "new") /\ (ResultOf(e, u) => w[u] = "done")

\* No run of a tool has both for its call, or for its result.
Differ(e, f) ==
    \A u \in Uses : ~(CallOf(e, u) /\ CallOf(f, u)) /\ ~(ResultOf(e, u) /\ ResultOf(f, u))

Runs(t, l, w, m) ==
    /\ DOMAIN w = Uses
    /\ \A k \in 1..Len(t) : Fits(t[k], w)
    /\ \A x \in l : Fits(x, w)
    /\ Once(t)
    /\ \A x \in l : \A k \in 1..Len(t) : Differ(x, t[k])
    /\ \A x, y \in l : x = y \/ Differ(x, y)
    /\ m = 0 => \A u \in Uses :
          /\ w[u] = "running" => Called(t, l, u)
          /\ \A k \in 1..Len(t) : ResultOf(t[k], u) => Called(t, l, u)
          /\ \A x \in l : ResultOf(x, u) => Called(t, l, u)

\* The server sorts by instant.
Sorted(t) ==
    /\ \A i \in 1..Len(t) : t[i].at \in Nat
    /\ \A i, j \in 1..Len(t) : i <= j => t[i].at <= t[j].at

Sequential(t) == \E S : t \in Seq(S)

TInv ==
    /\ Sequential(timeline) /\ missed \in Nat /\ now \in Nat
    /\ \A i \in 1..Len(timeline) : Proper(source, timeline[i])
    /\ \A x \in late : Proper(source, x)
    /\ source # "demo" =>
          /\ Runs(timeline, late, tools, missed)
          /\ Sorted(timeline) /\ \A x \in late : x.at \in Nat

LEMMA SequenceIsTimeline == ASSUME NEW t, Sequential(t) PROVE IsTimeline(t)
BY DEF Sequential, IsTimeline

LEMMA Appended ==
    ASSUME NEW t, Sequential(t), NEW e
    PROVE  /\ Sequential(Append(t, e))
           /\ \A i \in 1..Len(Append(t, e)) :
                 (i \in 1..Len(t) /\ Append(t, e)[i] = t[i]) \/ Append(t, e)[i] = e
<1>1. PICK S : t \in Seq(S)
  BY DEF Sequential
<1>2. t \in Seq(S \union {e}) /\ e \in S \union {e}
  BY <1>1
<1>3. /\ Append(t, e) \in Seq(S \union {e})
      /\ Len(Append(t, e)) = Len(t) + 1 /\ Len(t) \in Nat
      /\ \A i \in 1..Len(t) : Append(t, e)[i] = t[i]
      /\ Append(t, e)[Len(t) + 1] = e
  BY <1>1, <1>2
<1> QED
  BY <1>3 DEF Sequential

\* The record at k when one has been put at p.
Shifted(t, p, e, k) == IF k < p THEN t[k] ELSE IF k = p THEN e ELSE t[k - 1]

LEMMA Inserted ==
    ASSUME NEW t, Sequential(t), NEW e, NEW p \in 1..(Len(t) + 1)
    PROVE  /\ Sequential(InsertAt(t, p, e))
           /\ Len(t) \in Nat /\ Len(InsertAt(t, p, e)) = Len(t) + 1
           /\ \A k \in 1..(Len(t) + 1) : InsertAt(t, p, e)[k] = Shifted(t, p, e, k)
<1>1. PICK S : t \in Seq(S)
  BY DEF Sequential
<1> DEFINE T == S \union {e}
           a == SubSeq(t, 1, p - 1)
           b == SubSeq(t, p, Len(t))
<1>2. t \in Seq(T) /\ e \in T /\ Len(t) \in Nat /\ p \in Nat
  BY <1>1
<1>3. /\ a \in Seq(T) /\ Len(a) = p - 1
      /\ \A k \in 1..(p - 1) : a[k] = t[k]
  BY <1>2
<1>4. /\ b \in Seq(T) /\ Len(b) = Len(t) - p + 1
      /\ \A k \in 1..(Len(t) - p + 1) : b[k] = t[p + k - 1]
  BY <1>2
<1> HIDE DEF a, b, T
<1>5. /\ a \o <<e>> \in Seq(T) /\ Len(a \o <<e>>) = p
      /\ \A k \in 1..(p - 1) : (a \o <<e>>)[k] = t[k]
      /\ (a \o <<e>>)[p] = e
  BY <1>2, <1>3
<1> DEFINE c == a \o <<e>>
<1>6. c \in Seq(T) /\ Len(c) = p /\ (\A k \in 1..(p - 1) : c[k] = t[k]) /\ c[p] = e
  BY <1>5
<1> HIDE DEF c
<1>7. /\ c \o b \in Seq(T) /\ Len(c \o b) = Len(t) + 1
      /\ \A k \in 1..p : (c \o b)[k] = c[k]
      /\ \A k \in (p + 1)..(Len(t) + 1) : (c \o b)[k] = b[k - p]
  BY <1>2, <1>4, <1>6
<1>8. InsertAt(t, p, e) = c \o b
  BY DEF InsertAt, a, b, c
<1>9. ASSUME NEW k \in 1..(Len(t) + 1)
      PROVE  (c \o b)[k] = Shifted(t, p, e, k)
  <2>1. CASE k < p
    BY <2>1, <1>2, <1>6, <1>7 DEF Shifted
  <2>2. CASE k = p
    BY <2>2, <1>2, <1>6, <1>7 DEF Shifted
  <2>3. CASE k > p
    <3>1. k - p \in 1..(Len(t) - p + 1) /\ p + (k - p) - 1 = k - 1 /\ k \in (p + 1)..(Len(t) + 1)
      BY <2>3, <1>2
    <3>2. b[k - p] = t[k - 1]
      BY <3>1, <1>4
    <3> QED
      BY <2>3, <3>1, <3>2, <1>2, <1>7 DEF Shifted
  <2>4. k < p \/ k = p \/ k > p
    BY <1>2
  <2> QED
    BY <2>1, <2>2, <2>3, <2>4
<1> QED
  BY <1>2, <1>7, <1>8, <1>9 DEF Sequential

\* Where the records of the longer timeline come from.
LEMMA InsertedFrom ==
    ASSUME NEW t, Sequential(t), NEW e, NEW p \in 1..(Len(t) + 1), NEW x, x = InsertAt(t, p, e)
    PROVE  /\ p \in 1..Len(x) /\ x[p] = e
           /\ \A k \in 1..Len(t) : \E j \in 1..Len(x) : x[j] = t[k]
           /\ \A j \in 1..Len(x) :
                 \/ j = p
                 \/ (j < p /\ j \in 1..Len(t) /\ x[j] = t[j])
                 \/ (j > p /\ j - 1 \in 1..Len(t) /\ x[j] = t[j - 1])
<1>1. /\ Len(t) \in Nat /\ Len(x) = Len(t) + 1 /\ p \in Nat
      /\ \A k \in 1..(Len(t) + 1) : x[k] = Shifted(t, p, e, k)
  BY Inserted
<1>2. p \in 1..Len(x) /\ x[p] = e
  BY <1>1 DEF Shifted
<1>3. ASSUME NEW k \in 1..Len(t)
      PROVE  \E j \in 1..Len(x) : x[j] = t[k]
  <2>1. CASE k < p
    BY <2>1, <1>1 DEF Shifted
  <2>2. CASE ~(k < p)
    <3>1. k + 1 \in 1..(Len(t) + 1) /\ ~(k + 1 < p) /\ k + 1 # p /\ (k + 1) - 1 = k
      BY <2>2, <1>1
    <3>2. x[k + 1] = t[k]
      BY <3>1, <1>1 DEF Shifted
    <3> QED
      BY <3>1, <3>2, <1>1
  <2> QED
    BY <2>1, <2>2
<1>4. ASSUME NEW j \in 1..Len(x)
      PROVE  \/ j = p
             \/ (j < p /\ j \in 1..Len(t) /\ x[j] = t[j])
             \/ (j > p /\ j - 1 \in 1..Len(t) /\ x[j] = t[j - 1])
  <2>1. j = p \/ (j < p /\ j \in 1..Len(t)) \/ (j > p /\ j - 1 \in 1..Len(t))
    BY <1>1
  <2>2. x[j] = Shifted(t, p, e, j)
    BY <1>1
  <2> QED
    BY <2>1, <2>2, <1>1 DEF Shifted
<1> QED
  BY <1>2, <1>3, <1>4

LEMMA SortedInserts ==
    ASSUME NEW t, Sequential(t), Sorted(t), NEW e, e.at \in Nat, NEW p \in 1..(Len(t) + 1),
           \A k \in 1..(p - 1) : t[k].at <= e.at, \A k \in p..Len(t) : t[k].at >= e.at
    PROVE  Sorted(InsertAt(t, p, e))
<1>0. PICK x : x = InsertAt(t, p, e)
  OBVIOUS
<1>1. Len(t) \in Nat /\ p \in Nat /\ Len(x) = Len(t) + 1 /\ x[p] = e
  BY <1>0, Inserted, InsertedFrom
<1>2. \A j \in 1..Len(x) :
         \/ j = p
         \/ (j < p /\ j \in 1..Len(t) /\ x[j] = t[j])
         \/ (j > p /\ j - 1 \in 1..Len(t) /\ x[j] = t[j - 1])
  BY <1>0, InsertedFrom
<1>3. \A j \in 1..Len(x) :
         /\ x[j].at \in Nat
         /\ j < p => x[j].at <= e.at
         /\ j > p => x[j].at >= e.at
  <2> SUFFICES ASSUME NEW j \in 1..Len(x)
               PROVE  /\ x[j].at \in Nat
                      /\ j < p => x[j].at <= e.at
                      /\ j > p => x[j].at >= e.at
    OBVIOUS
  <2>1. CASE j = p
    BY <2>1, <1>1
  <2>2. CASE j < p /\ j \in 1..Len(t) /\ x[j] = t[j]
    <3>1. j \in 1..(p - 1)
      BY <2>2, <1>1
    <3> QED
      BY <2>2, <3>1, <1>1 DEF Sorted
  <2>3. CASE j > p /\ j - 1 \in 1..Len(t) /\ x[j] = t[j - 1]
    <3>1. j - 1 \in p..Len(t)
      BY <2>3, <1>1
    <3> QED
      BY <2>3, <3>1, <1>1 DEF Sorted
  <2> QED
    BY <2>1, <2>2, <2>3, <1>2
<1>4. ASSUME NEW i \in 1..Len(x), NEW j \in 1..Len(x), i <= j
      PROVE  x[i].at <= x[j].at
  <2>0. i \in Nat /\ j \in Nat /\ x[i].at \in Nat /\ x[j].at \in Nat
    BY <1>1, <1>3
  <2>1. CASE i < p /\ j < p
    <3>1. x[i] = t[i] /\ x[j] = t[j] /\ i \in 1..Len(t) /\ j \in 1..Len(t)
      BY <2>0, <2>1, <1>1, <1>2
    <3> QED
      BY <3>1, <1>4 DEF Sorted
  <2>2. CASE i > p /\ j > p
    <3>1. /\ x[i] = t[i - 1] /\ x[j] = t[j - 1] /\ i - 1 \in 1..Len(t) /\ j - 1 \in 1..Len(t)
          /\ i - 1 <= j - 1
      BY <2>0, <2>2, <1>1, <1>2, <1>4
    <3> QED
      BY <3>1 DEF Sorted
  <2>3. CASE i <= p /\ p <= j
    <3>1. x[i].at <= e.at /\ e.at <= x[j].at
      BY <2>0, <2>3, <1>1, <1>3
    <3> QED
      BY <3>1, <2>0
  <2> QED
    BY <2>0, <2>1, <2>2, <2>3, <1>1, <1>4
<1> QED
  BY <1>0, <1>3, <1>4 DEF Sorted

\* A record is captured and late.
LEMMA RunsHold ==
    ASSUME NEW t, NEW l, NEW w, NEW m, Runs(t, l, w, m), NEW e, NEW v, DOMAIN v = Uses,
           \/ \E u \in Uses : CallOf(e, u) /\ w[u] = "new" /\ v = [w EXCEPT ![u] = "running"]
           \/ \E u \in Uses : ResultOf(e, u) /\ w[u] = "running" /\ v = [w EXCEPT ![u] = "done"]
           \/ /\ e.kind \notin {ToolCall, ToolResult}
              /\ \/ v = w
                 \/ \E u \in Uses : w[u] = "running" /\ v = [w EXCEPT ![u] = "done"]
    PROVE  /\ Runs(t, l \union {e}, v, m)
           /\ e.kind \in {ToolCall, ToolResult} => e \notin l
<1> DEFINE h == l \union {e}
<1>1. ToolCall # ToolResult
  BY DEF ToolCall, ToolResult
\* Where the new record has a use, that use has no such record yet.
<1>2. \A u \in Uses :
         /\ CallOf(e, u) => w[u] = "new" /\ v[u] = "running"
         /\ ResultOf(e, u) => w[u] = "running" /\ v[u] = "done"
  BY <1>1 DEF Runs, CallOf, ResultOf
<1>3. \A u \in Uses :
         \/ v[u] = w[u]
         \/ w[u] = "new" /\ v[u] = "running" /\ CallOf(e, u)
         \/ w[u] = "running" /\ v[u] = "done"
  BY DEF Runs
<1>4. \A f : Fits(f, w) => Fits(f, v) /\ Differ(e, f) /\ Differ(f, e)
  BY <1>2, <1>3 DEF Fits, Differ
<1>5. Fits(e, v)
  BY <1>2 DEF Fits
<1>6. /\ \A k \in 1..Len(t) : Fits(t[k], v) /\ Differ(e, t[k])
      /\ \A x \in l : Fits(x, v) /\ Differ(e, x) /\ Differ(x, e)
  BY <1>4 DEF Runs
<1>7. \A u \in Uses : Called(t, l, u) \/ CallOf(e, u) => Called(t, h, u)
  BY DEF Called
<1>8. ASSUME m = 0, NEW u \in Uses
      PROVE  /\ v[u] = "running" => Called(t, h, u)
             /\ \A k \in 1..Len(t) : ResultOf(t[k], u) => Called(t, h, u)
             /\ \A x \in h : ResultOf(x, u) => Called(t, h, u)
  <2>1. /\ w[u] = "running" => Called(t, l, u)
        /\ \A k \in 1..Len(t) : ResultOf(t[k], u) => Called(t, l, u)
        /\ \A x \in l : ResultOf(x, u) => Called(t, l, u)
    BY <1>8 DEF Runs
  <2>2. ResultOf(e, u) => Called(t, h, u)
    BY <1>2, <1>7, <2>1
  <2> QED
    BY <1>3, <1>7, <2>1, <2>2
<1>9. e.kind \in {ToolCall, ToolResult} => e \notin l
  <2> SUFFICES ASSUME e.kind \in {ToolCall, ToolResult}, e \in l
               PROVE  FALSE
    OBVIOUS
  <2>1. PICK u \in Uses : CallOf(e, u) \/ ResultOf(e, u)
    OBVIOUS
  <2> QED
    BY <2>1, <1>6 DEF Differ
<1>10. Runs(t, h, v, m)
  <2>1. \A x \in h : Fits(x, v)
    BY <1>5, <1>6
  <2>2. \A x \in h : \A k \in 1..Len(t) : Differ(x, t[k])
    BY <1>6 DEF Runs
  <2>3. \A x, y \in h : x = y \/ Differ(x, y)
    BY <1>6 DEF Runs
  <2> HIDE DEF h
  <2> QED
    BY <1>6, <1>8, <2>1, <2>2, <2>3 DEF Runs
<1> QED
  BY <1>9, <1>10

\* A late record comes to the timeline.
LEMMA RunsLand ==
    ASSUME NEW t, Sequential(t), NEW l, NEW w, NEW m, Runs(t, l, w, m),
           NEW e \in l, NEW h, h \subseteq l, l \subseteq h \union {e},
           e.kind \in {ToolCall, ToolResult} => e \notin h, NEW p \in 1..(Len(t) + 1)
    PROVE  Runs(InsertAt(t, p, e), h, w, m)
<1>0. PICK x : x = InsertAt(t, p, e)
  OBVIOUS
<1>1. /\ p \in 1..Len(x) /\ x[p] = e
      /\ \A k \in 1..Len(t) : \E j \in 1..Len(x) : x[j] = t[k]
      /\ Len(t) \in Nat /\ p \in Nat /\ Len(x) = Len(t) + 1
  BY <1>0, InsertedFrom, Inserted
<1>2. \A j \in 1..Len(x) :
         \/ j = p
         \/ (j < p /\ j \in 1..Len(t) /\ x[j] = t[j])
         \/ (j > p /\ j - 1 \in 1..Len(t) /\ x[j] = t[j - 1])
  BY <1>0, InsertedFrom
<1>3. /\ \A k \in 1..Len(t) : Fits(t[k], w) /\ Differ(e, t[k]) /\ Differ(t[k], e)
      /\ Fits(e, w)
  BY DEF Runs, Differ
<1>4. \A j \in 1..Len(x) : Fits(x[j], w)
  BY <1>1, <1>2, <1>3
<1>5. Once(x)
  <2> SUFFICES ASSUME NEW i \in 1..Len(x), NEW j \in 1..Len(x), NEW u \in Uses
               PROVE  /\ CallOf(x[i], u) /\ CallOf(x[j], u) => i = j
                      /\ ResultOf(x[i], u) /\ ResultOf(x[j], u) => i = j
    BY DEF Once
  <2>0. i \in Nat /\ j \in Nat
    BY <1>1
  <2>1. CASE i = p /\ j = p
    BY <2>1
  <2>2. CASE i = p /\ j # p
    <3>1. Differ(x[i], x[j])
      BY <2>2, <1>1, <1>2, <1>3
    <3> QED
      BY <3>1 DEF Differ
  <2>3. CASE i # p /\ j = p
    <3>1. Differ(x[i], x[j])
      BY <2>3, <1>1, <1>2, <1>3
    <3> QED
      BY <3>1 DEF Differ
  <2>4. CASE i # p /\ j # p
    <3>1. PICK a \in 1..Len(t) : x[i] = t[a] /\ ((i < p /\ a = i) \/ (i > p /\ a = i - 1))
      BY <2>4, <1>2
    <3>2. PICK b \in 1..Len(t) : x[j] = t[b] /\ ((j < p /\ b = j) \/ (j > p /\ b = j - 1))
      BY <2>4, <1>2
    <3>3. a = b => i = j
      BY <3>1, <3>2, <2>0, <1>1
    <3>4. /\ CallOf(t[a], u) /\ CallOf(t[b], u) => a = b
          /\ ResultOf(t[a], u) /\ ResultOf(t[b], u) => a = b
      BY DEF Runs, Once
    <3> QED
      BY <3>1, <3>2, <3>3, <3>4
  <2> QED
    BY <2>1, <2>2, <2>3, <2>4
<1>6. \A y \in h : \A j \in 1..Len(x) : Differ(y, x[j])
  <2> SUFFICES ASSUME NEW y \in h, NEW j \in 1..Len(x)
               PROVE  Differ(y, x[j])
    OBVIOUS
  <2>1. Differ(y, e)
    <3>1. CASE y = e
      BY <3>1 DEF Differ, CallOf, ResultOf
    <3>2. CASE y # e
      BY <3>2 DEF Runs
    <3> QED
      BY <3>1, <3>2
  <2>2. \A k \in 1..Len(t) : Differ(y, t[k])
    BY DEF Runs
  <2> QED
    BY <2>1, <2>2, <1>1, <1>2
<1>7. \A u \in Uses : Called(t, l, u) => Called(x, h, u)
  <2> SUFFICES ASSUME NEW u \in Uses, Called(t, l, u)
               PROVE  Called(x, h, u)
    OBVIOUS
  <2>1. CASE \E d \in 1..Len(t) : CallOf(t[d], u)
    BY <2>1, <1>1 DEF Called
  <2>2. CASE \E y \in l : CallOf(y, u)
    <3>1. PICK y \in l : CallOf(y, u)
      BY <2>2
    <3>2. y \in h \/ y = x[p]
      BY <1>1
    <3> QED
      BY <3>1, <3>2, <1>1 DEF Called
  <2> QED
    BY <2>1, <2>2 DEF Called
<1>8. ASSUME m = 0, NEW u \in Uses
      PROVE  /\ w[u] = "running" => Called(x, h, u)
             /\ \A j \in 1..Len(x) : ResultOf(x[j], u) => Called(x, h, u)
             /\ \A y \in h : ResultOf(y, u) => Called(x, h, u)
  <2>1. /\ w[u] = "running" => Called(t, l, u)
        /\ \A k \in 1..Len(t) : ResultOf(t[k], u) => Called(t, l, u)
        /\ \A y \in l : ResultOf(y, u) => Called(t, l, u)
    BY <1>8 DEF Runs
  <2>2. \A j \in 1..Len(x) : ResultOf(x[j], u) => Called(t, l, u)
    BY <2>1, <1>1, <1>2
  <2> QED
    BY <2>1, <2>2, <1>7
<1>9. Runs(x, h, w, m)
  <2>1. DOMAIN w = Uses /\ (\A y \in h : Fits(y, w)) /\ \A y, z \in h : y = z \/ Differ(y, z)
    BY DEF Runs
  <2> QED
    BY <2>1, <1>4, <1>5, <1>6, <1>8 DEF Runs
<1> QED
  BY <1>0, <1>9

LEMMA RunsMiss ==
    ASSUME NEW t, NEW l, NEW w, NEW m \in Nat, Runs(t, l, w, m), NEW v, DOMAIN v = Uses,
           \A u \in Uses : v[u] = w[u] \/ w[u] = "new" \/ (w[u] = "running" /\ v[u] = "done"),
           \A u \in Uses : w[u] = "new" => v[u] \in {"new", "running"}
    PROVE  Runs(t, l, v, m + 1)
<1>1. m + 1 # 0
  OBVIOUS
<1>2. \A e : Fits(e, w) => Fits(e, v)
  BY DEF Fits
<1>3. /\ \A k \in 1..Len(t) : Fits(t[k], v)
      /\ \A x \in l : Fits(x, v)
  BY <1>2 DEF Runs
<1> QED
  BY <1>1, <1>3 DEF Runs

\* What putting a record in its place in the timeline preserves.
LEMMA Landing ==
    ASSUME NEW s, NEW t, Sequential(t), \A i \in 1..Len(t) : Proper(s, t[i]), Sorted(t),
           NEW e, Proper(s, e), e.at \in Nat, NEW p \in 1..(Len(t) + 1),
           \A k \in 1..(p - 1) : t[k].at <= e.at, \A k \in p..Len(t) : t[k].at >= e.at
    PROVE  /\ Sequential(InsertAt(t, p, e)) /\ Sorted(InsertAt(t, p, e))
           /\ \A i \in 1..Len(InsertAt(t, p, e)) : Proper(s, InsertAt(t, p, e)[i])
<1>0. PICK x : x = InsertAt(t, p, e)
  OBVIOUS
<1>1. \A i \in 1..Len(x) : Proper(s, x[i])
  <2>1. /\ x[p] = e
        /\ \A j \in 1..Len(x) : j = p \/ \E k \in 1..Len(t) : x[j] = t[k]
    BY <1>0, InsertedFrom
  <2> QED
    BY <2>1
<1>2. Sequential(x) /\ Sorted(x)
  BY <1>0, Inserted, SortedInserts
<1> QED
  BY <1>0, <1>1, <1>2

LEMMA TNext == TInv /\ [SessionNext]_sessionVars => TInv'
<1> SUFFICES ASSUME TInv, [SessionNext]_sessionVars
             PROVE  TInv'
  OBVIOUS
<1>0. Sequential(timeline) /\ missed \in Nat /\ now \in Nat
  BY DEF TInv
<1>1. CASE UNCHANGED sessionVars
  BY <1>1 DEF TInv, sessionVars, origin
<1>2. CASE Misses /\ source' = source /\ now' \in Nat
  <2>1. source # "demo" => Runs(timeline, late, tools', missed + 1)
    <3> SUFFICES ASSUME source # "demo"
                 PROVE  Runs(timeline, late, tools', missed + 1)
      OBVIOUS
    <3>1. Runs(timeline, late, tools, missed) /\ DOMAIN tools = Uses
      BY DEF TInv, Runs
    <3>2. /\ DOMAIN tools' = Uses
          /\ \A u \in Uses : \/ tools'[u] = tools[u] \/ tools[u] = "new"
                             \/ (tools[u] = "running" /\ tools'[u] = "done")
          /\ \A u \in Uses : tools[u] = "new" => tools'[u] \in {"new", "running"}
      BY <1>2, <3>1 DEF Misses, IsStep, Steps
    <3> QED
      BY <3>1, <3>2, <1>0, RunsMiss
  <2>2. timeline' = timeline /\ late' = late /\ missed' = missed + 1 /\ missed' \in Nat
    BY <1>0, <1>2 DEF Misses
  <2> QED
    BY <1>2, <2>1, <2>2 DEF TInv
<1>3. CASE LogsOne /\ source' = source /\ now' \in Nat
  <2>1. PICK e : LogsCall(e) \/ LogsResult(e) \/ LogsOther(e)
    BY <1>3 DEF LogsOne
  <2>2. /\ source # "demo" /\ source' = source /\ missed' = missed
        /\ Proper(source, e) /\ e.at \in Nat
        /\ \/ Lands(e) /\ late' = late
           \/ timeline' = timeline /\ late' = late \union {e}
    BY <1>3, <2>1 DEF LogsOne, LogsCall, LogsResult, LogsOther, Logs
  <2>3. /\ Runs(timeline, late, tools, missed) /\ DOMAIN tools = Uses /\ Sorted(timeline)
        /\ \A i \in 1..Len(timeline) : Proper(source, timeline[i])
        /\ \A x \in late : Proper(source, x) /\ x.at \in Nat
    BY <2>2 DEF TInv, Runs
  <2>4. DOMAIN tools' = Uses
    BY <2>1, <2>3 DEF LogsCall, LogsResult, LogsOther, IsStep, Steps
  <2>5. \/ \E u \in Uses : /\ CallOf(e, u) /\ tools[u] = "new"
                           /\ tools' = [tools EXCEPT ![u] = "running"]
        \/ \E u \in Uses : /\ ResultOf(e, u) /\ tools[u] = "running"
                           /\ tools' = [tools EXCEPT ![u] = "done"]
        \/ /\ e.kind \notin {ToolCall, ToolResult}
           /\ \/ tools' = tools
              \/ \E u \in Uses : tools[u] = "running" /\ tools' = [tools EXCEPT ![u] = "done"]
    BY <2>1 DEF LogsCall, LogsResult, LogsOther, IsStep, Steps, CallOf, ResultOf
  <2>6. /\ Runs(timeline, late \union {e}, tools', missed)
        /\ e.kind \in {ToolCall, ToolResult} => e \notin late
    BY <2>3, <2>4, <2>5, RunsHold
  <2>7. CASE timeline' = timeline /\ late' = late \union {e}
    BY <2>2, <2>3, <2>6, <2>7, <1>0, <1>3 DEF TInv
  <2>8. CASE Lands(e) /\ late' = late
    <3>1. PICK p \in 1..(Len(timeline) + 1) :
              /\ timeline' = InsertAt(timeline, p, e)
              /\ \A k \in 1..(p - 1) : timeline[k].at <= e.at
              /\ \A k \in p..Len(timeline) : timeline[k].at >= e.at
      BY <2>8 DEF Lands, PlacesAt
    <3>2. /\ Sequential(timeline') /\ Sorted(timeline')
          /\ \A i \in 1..Len(timeline') : Proper(source, timeline'[i])
      BY <3>1, <2>2, <2>3, <1>0, Landing
    <3>3. Runs(timeline', late, tools', missed)
      <4>1. e \in late \union {e} /\ late \subseteq late \union {e}
        OBVIOUS
      <4> QED
        BY <4>1, <3>1, <2>6, <1>0, RunsLand
    <3> QED
      BY <2>2, <2>3, <2>8, <3>2, <3>3, <1>0, <1>3 DEF TInv
  <2> QED
    BY <2>2, <2>7, <2>8
<1>4. CASE Comes /\ source' = source /\ now' \in Nat
  <2>1. PICK x \in late : Arrives(x)
    BY <1>4 DEF Comes
  <2>2. /\ late' = late \ {x} /\ missed' = missed /\ tools' = tools /\ Proper(source, x)
        /\ \A i \in 1..Len(timeline) : Proper(source, timeline[i])
        /\ \A y \in late' : Proper(source, y)
    BY <2>1 DEF Arrives, TInv
  <2>3. PICK p \in 1..(Len(timeline) + 1) :
            /\ timeline' = InsertAt(timeline, p, x)
            /\ \A k \in 1..(p - 1) : timeline[k].at <= x.at
            /\ \A k \in p..Len(timeline) : timeline[k].at >= x.at
    BY <2>1 DEF Arrives, Lands, PlacesAt
  <2>4. CASE source = "demo"
    <3>1. \A i \in 1..Len(timeline') : Proper(source, timeline'[i])
      <4>1. PICK u : u = timeline'
        OBVIOUS
      <4>2. /\ u[p] = x
            /\ \A j \in 1..Len(u) : j = p \/ \E k \in 1..Len(timeline) : u[j] = timeline[k]
        BY <4>1, <2>3, <1>0, InsertedFrom
      <4>3. \A j \in 1..Len(u) : Proper(source, u[j])
        BY <4>2, <2>2
      <4> QED
        BY <4>1, <4>3
    <3>2. Sequential(timeline')
      BY <2>3, <1>0, Inserted
    <3> QED
      BY <2>2, <2>4, <3>1, <3>2, <1>0, <1>4 DEF TInv
  <2>5. CASE source # "demo"
    <3>1. Runs(timeline, late, tools, missed) /\ Sorted(timeline) /\ \A y \in late : y.at \in Nat
      BY <2>5 DEF TInv
    <3>2. /\ Sequential(timeline') /\ Sorted(timeline')
          /\ \A i \in 1..Len(timeline') : Proper(source, timeline'[i])
      BY <3>1, <2>2, <2>3, <1>0, Landing
    <3>3. Runs(timeline', late \ {x}, tools, missed)
      <4>1. late \ {x} \subseteq late /\ late \subseteq (late \ {x}) \union {x} /\ x \notin late \ {x}
        OBVIOUS
      <4> QED
        BY <4>1, <3>1, <2>3, <1>0, RunsLand
    <3> QED
      BY <2>2, <2>5, <3>1, <3>2, <3>3, <1>0, <1>4 DEF TInv
  <2> QED
    BY <2>4, <2>5
<1>5. CASE MadeUp /\ source' = source /\ now' \in Nat
  <2>1. PICK e : Proper(source, e) /\ timeline' = Append(timeline, e)
    BY <1>5 DEF MadeUp
  <2>2. PICK u : u = timeline'
    OBVIOUS
  <2>3. Sequential(u)
    BY <2>1, <2>2, <1>0, Appended
  <2>4. \A i \in 1..Len(u) : Proper(source, u[i])
    BY <2>1, <2>2, <1>0, Appended DEF TInv
  <2> QED
    BY <2>2, <2>3, <2>4, <1>0, <1>5 DEF TInv, MadeUp
<1> QED
  BY <1>0, <1>1, <1>2, <1>3, <1>4, <1>5, RecordSteps

LEMMA TInit == SessionInit => TInv
<1> SUFFICES ASSUME SessionInit
             PROVE  TInv
  OBVIOUS
<1>1. /\ timeline = <<>> /\ late = {} /\ missed = 0 /\ now = 0
      /\ DOMAIN tools = Uses /\ \A u \in Uses : tools[u] = "new"
  BY DEF SessionInit
<1>2. Sequential(<<>>)
  BY DEF Sequential
<1>3. Len(<<>>) = 0 /\ \A i \in 1..0 : FALSE
  OBVIOUS
<1>4. Runs(timeline, late, tools, missed) /\ Sorted(timeline)
  BY <1>1, <1>3 DEF Runs, Once, Sorted
<1> QED
  BY <1>1, <1>2, <1>3, <1>4 DEF TInv

-----------------------------------------------------------------------------
\* Where runs are apart in time, they are in the sorted timeline.
LEMMA ApartIsOrderly ==
    ASSUME NEW t, IsTimeline(t), Sorted(t), Once(t),
           \A k \in 1..Len(t) : \A u \in Uses : ResultOf(t[k], u) => Called(t, {}, u),
           \A r, c \in 1..Len(t) : ResultFor(t, r, c) =>
              /\ t[c].at < t[r].at
              /\ \A d \in 1..Len(t) \ {c} :
                    t[d].kind = ToolCall /\ t[d].tool = t[c].tool
                    => t[d].at < t[c].at \/ t[d].at > t[r].at
    PROVE  Orderly(t) /\ ApartIn(t)
<1>0. /\ Len(t) \in Nat /\ \A i \in 1..Len(t) : t[i].at \in Nat
      /\ \A i, j \in 1..Len(t) : t[i].at < t[j].at => i < j
  <2>1. Len(t) \in Nat /\ \A i \in 1..Len(t) : t[i].at \in Nat /\ i \in Nat
    BY DEF IsTimeline, Sorted
  <2>2. \A i, j \in 1..Len(t) : j <= i => t[j].at <= t[i].at
    BY DEF Sorted
  <2> QED
    BY <2>1, <2>2
<1>1. Follow(t)
  <2> SUFFICES ASSUME NEW k \in 1..Len(t), NEW u \in Uses, ResultOf(t[k], u)
               PROVE  \E d \in 1..Len(t) : d < k /\ CallOf(t[d], u)
    BY DEF Follow
  <2>1. PICK d \in 1..Len(t) : CallOf(t[d], u)
    BY DEF Called
  <2>2. ResultFor(t, k, d)
    BY <2>1, TimelineAssumption DEF ResultFor, CallOf, ResultOf
  <2>3. t[d].at < t[k].at
    BY <2>2
  <2> QED
    BY <2>1, <2>3, <1>0
<1>2. ApartIn(t)
  <2> SUFFICES ASSUME NEW r \in 1..Len(t), NEW c \in 1..Len(t), NEW d \in 1..Len(t),
                      ResultFor(t, r, c), t[d].kind = ToolCall, t[d].tool = t[c].tool,
                      c < d, d < r
               PROVE  FALSE
    BY DEF ApartIn
  <2>1. c \in Nat /\ d \in Nat /\ r \in Nat /\ d # c
    BY <1>0
  <2>2. t[d].at < t[c].at \/ t[d].at > t[r].at
    BY <2>1
  <2>3. d < c \/ r < d
    BY <2>2, <1>0
  <2> QED
    BY <2>1, <2>3
<1> QED
  BY <1>1, <1>2 DEF Orderly

\* The operation of a call that is paired is that of the call and its result.
LEMMA PairsAreShown ==
    ASSUME TInv, Apart, missed = 0, late = {}
    PROVE  Paired
<1> SUFFICES ASSUME NEW r \in DOMAIN timeline, NEW c \in DOMAIN timeline, IsResultOf(r, c)
             PROVE  {c, r} \in {operation.merged : operation \in Range(Operations)}
  BY DEF Paired
<1>1. IsTimeline(timeline) /\ DOMAIN timeline = 1..Len(timeline)
  BY SequenceIsTimeline DEF TInv, IsTimeline
<1>2. \A i, j \in 1..Len(timeline) : IsResultOf(i, j) <=> ResultFor(timeline, i, j)
  BY DEF IsResultOf, ResultFor, UseOf, UseIn
<1>3. source # "demo"
  <2>1. UseIn(timeline[r]) # Absent
    BY <1>1, <1>2 DEF ResultFor
  <2> QED
    BY <2>1, <1>1 DEF TInv, Proper
<1>4. Orderly(timeline) /\ ApartIn(timeline)
  <2>1. Runs(timeline, {}, tools, 0) /\ Sorted(timeline)
    BY <1>3 DEF TInv
  <2>2. /\ Once(timeline)
        /\ \A k \in 1..Len(timeline) : \A u \in Uses :
              ResultOf(timeline[k], u) => Called(timeline, {}, u)
    BY <2>1 DEF Runs
  <2>3. \A i, j \in 1..Len(timeline) : ResultFor(timeline, i, j) =>
           /\ timeline[j].at < timeline[i].at
           /\ \A d \in 1..Len(timeline) \ {j} :
                 timeline[d].kind = ToolCall /\ timeline[d].tool = timeline[j].tool
                 => timeline[d].at < timeline[j].at \/ timeline[d].at > timeline[i].at
    BY <1>1, <1>2 DEF Apart
  <2> QED
    BY <1>1, <2>1, <2>2, <2>3, ApartIsOrderly
<1>5. \A i \in 1..Len(timeline) : Proper(source, timeline[i])
  BY DEF TInv
<1>6. GroupOf(timeline, c) = {r}
  BY <1>1, <1>2, <1>3, <1>4, <1>5, TakeTheirOwn
<1>7. c \in Starts(timeline)
  BY <1>1, <1>2, CallsStart DEF ResultFor, ToolCall, ToolResult, Assistant
<1>8. OperationOf(timeline, c).merged = {c, r}
  BY <1>1, <1>6, <1>7, OperationIs
<1>9. OperationOf(timeline, c) \in Range(Operations)
  BY <1>1, <1>7, OperationsRange DEF Operations
<1> QED
  BY <1>8, <1>9

\* A result is shown with its own call, for any number of tools that run at a time,
\* whatever else is captured between the two and in whatever order the records arrive,
\* once all have arrived, unless runs of one tool overlap or share an instant or a hook
\* is missed (listRecordsWithSegments, buildTraceOperations, matchingToolResult).
THEOREM ResultsArePaired == SessionSpec => []PairedWhenApart
<1>1. TInv => PairedWhenApart
  BY PairsAreShown DEF PairedWhenApart
<1> QED
  BY <1>1, TInit, TNext, PTL DEF SessionSpec

\* A call and its result, once grouped, stay one operation as more records arrive, in
\* whatever order, unless one is put before the result (buildTraceOperations).
THEOREM PairsAreKept == SessionSpec => PairsStay
<1>1. ASSUME TInv, TInv', [SessionNext]_sessionVars
      PROVE  [LET after == Range(BuildTraceOperations(timeline'))
                  Stays(operation) ==
                      \A k \in 1..Last(operation.entries) :
                          k \in DOMAIN timeline' /\ timeline'[k] = timeline[k]
              IN  \A operation \in Range(Operations) :
                     Len(operation.entries) = 2 /\ Stays(operation) => operation \in after]_timeline
  <2> SUFFICES ASSUME NEW operation \in Range(Operations), Len(operation.entries) = 2,
                      \A k \in 1..Last(operation.entries) :
                          k \in DOMAIN timeline' /\ timeline'[k] = timeline[k]
               PROVE  operation \in Range(BuildTraceOperations(timeline'))
    OBVIOUS
  <2>1. PICK u : u = timeline'
    OBVIOUS
  <2>2. PICK t : t = timeline
    OBVIOUS
  <2>3. IsTimeline(t) /\ IsTimeline(u)
    BY <1>1, <2>1, <2>2, SequenceIsTimeline DEF TInv
  <2>4. PICK i \in Starts(t) : operation = OperationOf(t, i)
    BY <2>2, <2>3, OperationsRange DEF Operations
  <2>5. PICK n : n = Last(operation.entries)
    OBVIOUS
  <2>6. n \in 1..Len(t)
    <3>1. operation.entries = Places(EntriesOf(t, i))
      BY <2>3, <2>4, OperationIs
    <3>2. /\ operation.entries \in Seq(EntriesOf(t, i)) /\ i \in 1..Len(t)
          /\ EntriesOf(t, i) \in SUBSET (i..Len(t)) /\ Len(t) \in Nat
      BY <2>3, <3>1, EntriesAre DEF IsTimeline
    <3>3. n \in EntriesOf(t, i)
      BY <2>5, <3>2 DEF Last
    <3> QED
      BY <3>2, <3>3
  <2>7. Same(t, u, n)
    <3>1. \A k \in 1..n : k \in 1..Len(u) /\ u[k] = t[k]
      BY <2>1, <2>2, <2>3, <2>5 DEF IsTimeline
    <3>2. n \in 1..n /\ Len(t) \in Nat /\ Len(u) \in Nat
      BY <2>3, <2>6 DEF IsTimeline
    <3> QED
      BY <2>3, <2>6, <3>1, <3>2 DEF Same
  <2>8. i \in Starts(u) /\ OperationOf(u, i) = operation
    BY <2>4, <2>5, <2>7, PairStays
  <2>9. operation \in Range(BuildTraceOperations(u))
    BY <2>3, <2>8, OperationsRange
  <2> QED
    BY <2>1, <2>9
<1> QED
  BY <1>1, TInit, TNext, PTL DEF SessionSpec, PairsStay

-----------------------------------------------------------------------------
\* The blocks of a conversation: each record is in one.
Others(t) == {i \in 1..Len(t) : ~IsMessage(t[i])}
RunFrom(t, i) == {j \in Others(t) : j >= i /\ \A k \in i..j : k \in Others(t)}
Firsts(t) == {i \in Others(t) : i = 1 \/ IsMessage(t[i - 1])}
Activities(t) == {ActivityBlock(t, RunFrom(t, i)) : i \in Firsts(t)}
MessageBlock(t, i) ==
    LET answers == {j \in DOMAIN t : t[j].kind = Assistant}
    IN  [type |-> "message", entries |-> {i}, role |-> t[i].kind[2],
         latest |-> i \in answers /\ \A j \in answers : j <= i]

LEMMA BlocksAre ==
    ASSUME NEW t, IsTimeline(t)
    PROVE  ReviewBlocks(t) = Activities(t)
              \union {MessageBlock(t, i) : i \in 1..Len(t) \ Others(t)}
BY DEF ReviewBlocks, Activities, MessageBlock, Others, RunFrom, Firsts, IsTimeline

\* The records between two messages are one run.
LEMMA RunOf ==
    ASSUME NEW t, IsTimeline(t), NEW i \in Others(t)
    PROVE  \E f \in Firsts(t) : /\ i \in RunFrom(t, f)
                                /\ \A g \in Firsts(t) : i \in RunFrom(t, g) => g = f
<1>0. Len(t) \in Nat /\ i \in 1..Len(t) /\ Others(t) \subseteq 1..Len(t)
  BY DEF IsTimeline, Others
<1> DEFINE from == {f \in 1..i : \A k \in f..i : k \in Others(t)}
<1>1. from \in SUBSET Nat /\ i \in from
  BY <1>0
<1>2. PICK f \in from : \A g \in from : f <= g
  BY <1>1, Least
<1>3. f \in Firsts(t) /\ i \in RunFrom(t, f)
  <2>1. f \in Others(t) /\ f \in 1..i /\ i \in RunFrom(t, f)
    BY <1>0 DEF RunFrom
  <2>2. CASE f # 1 /\ ~IsMessage(t[f - 1])
    <3>1. f - 1 \in 1..i /\ f - 1 \in Others(t)
      BY <2>1, <2>2, <1>0 DEF Others
    <3>2. \A k \in (f - 1)..i : k = f - 1 \/ k \in f..i
      BY <2>1, <1>0
    <3>3. f - 1 \in from
      BY <3>1, <3>2
    <3> QED
      BY <3>3, <1>2, <2>1, <1>0
  <2> QED
    BY <2>1, <2>2 DEF Firsts
<1>4. ASSUME NEW g \in Firsts(t), NEW h \in Firsts(t), i \in RunFrom(t, g), i \in RunFrom(t, h), g < h
      PROVE  FALSE
  <2>1. g \in 1..Len(t) /\ h \in 1..Len(t) /\ h <= i
    BY <1>0, <1>4 DEF Firsts, RunFrom
  <2>2. h - 1 \in g..i /\ h # 1
    BY <2>1, <1>4, <1>0
  <2>3. h - 1 \in Others(t)
    BY <2>2, <1>4 DEF RunFrom
  <2> QED
    BY <2>2, <2>3 DEF Firsts, Others
<1>5. \A g, h \in Firsts(t) : i \in RunFrom(t, g) /\ i \in RunFrom(t, h) => g = h
  <2>1. \A g, h \in Firsts(t) : g \in Nat /\ h \in Nat
    BY <1>0 DEF Firsts
  <2>2. \A g, h \in Firsts(t) : g = h \/ g < h \/ h < g
    BY <2>1
  <2> QED
    BY <2>2, <1>4
<1> QED
  BY <1>3, <1>5

LEMMA ActivityIs ==
    ASSUME NEW t, IsTimeline(t), NEW S \in SUBSET Others(t)
    PROVE  /\ ActivityBlock(t, S).type = "activity" /\ ActivityBlock(t, S).entries = S
           /\ IsFiniteSet(S)
           /\ ActivityBlock(t, S).calls = Cardinality({i \in S : t[i].kind = ToolCall})
           /\ ActivityBlock(t, S).errors = Cardinality({i \in S : HasError(t[i])})
<1>1. IsFiniteSet(1..Len(t)) /\ S \in SUBSET (1..Len(t))
  <2>1. Len(t) \in Int /\ 1 \in Int
    BY DEF IsTimeline
  <2> QED
    BY <2>1, FS_Interval DEF Others
<1> QED
  BY <1>1, FS_Subset DEF ActivityBlock

LEMMA ErrorsAreInBlocks ==
    ASSUME NEW t, IsTimeline(t), NEW i \in 1..Len(t), HasError(t[i]), ~IsMessage(t[i]), ~IsTurn(t[i])
    PROVE  \E b \in VisibleBlocks(t) : b.type = "activity" /\ i \in b.entries /\ b.errors > 0
<1>1. i \in Others(t)
  BY DEF Others
<1>2. PICK f \in Firsts(t) : i \in RunFrom(t, f)
  BY <1>1, RunOf
<1> DEFINE b == ActivityBlock(t, RunFrom(t, f))
<1>3. RunFrom(t, f) \in SUBSET Others(t)
  BY DEF RunFrom
<1>4. /\ b.type = "activity" /\ b.entries = RunFrom(t, f) /\ IsFiniteSet(RunFrom(t, f))
      /\ b.errors = Cardinality({k \in RunFrom(t, f) : HasError(t[k])})
  BY <1>3, ActivityIs
<1>5. b.errors > 0
  <2>1. IsFiniteSet({k \in RunFrom(t, f) : HasError(t[k])})
    BY <1>4, FS_Subset
  <2>2. {k \in RunFrom(t, f) : HasError(t[k])} # {}
    BY <1>2
  <2>3. /\ Cardinality({k \in RunFrom(t, f) : HasError(t[k])}) \in Nat
        /\ Cardinality({k \in RunFrom(t, f) : HasError(t[k])}) # 0
    BY <2>1, <2>2, FS_EmptySet, FS_CardinalityType
  <2> QED
    BY <2>3, <1>4
<1>6. b \in ReviewBlocks(t)
  BY BlocksAre DEF Activities
<1> HIDE DEF b
<1>7. b \in VisibleBlocks(t)
  BY <1>2, <1>4, <1>6 DEF VisibleBlocks
<1> QED
  BY <1>2, <1>4, <1>5, <1>7

LEMMA ErrorsAreInOperations ==
    ASSUME NEW t, IsTimeline(t), NEW i \in 1..Len(t), HasError(t[i]), t[i].kind # Assistant
    PROVE  \E operation \in Range(Overview(BuildTraceOperations(t))) :
              i \in operation.merged /\ OperationMatchesFocus(t, operation, "errors")
<1>1. PICK s \in Starts(t) : i = s \/ i \in GroupOf(t, s)
  BY Grouping
<1>2. s \in 1..Len(t)
  BY Grouping
<1>3. i \in EntriesOf(t, s)
  BY <1>1, <1>2, GroupedAre DEF EntriesOf, GroupOf
<1>4. i \in OperationOf(t, s).merged /\ OperationOf(t, s).status = "error"
  BY <1>1, <1>3, OperationIs
<1>5. PICK n \in DOMAIN BuildTraceOperations(t) : BuildTraceOperations(t)[n] = OperationOf(t, s)
  BY OperationsRange DEF Range
<1>6. OperationOf(t, s) \in Range(Overview(BuildTraceOperations(t)))
  BY <1>4, <1>5 DEF Overview, Range
<1>7. OperationMatchesFocus(t, OperationOf(t, s), "errors")
  BY <1>4 DEF OperationMatchesFocus
<1> QED
  BY <1>4, <1>6, <1>7

\* A failure stays visible in the overview, to the errors focus and in the review,
\* whatever it is grouped with (operationStatus, operationsForDensity, activityBlock).
THEOREM FailuresAreShown == SessionSpec => []FailuresStayVisible
<1>1. ASSUME TInv
      PROVE  FailuresStayVisible
  <2>1. IsTimeline(timeline) /\ DOMAIN timeline = 1..Len(timeline)
    BY <1>1, SequenceIsTimeline DEF TInv, IsTimeline
  <2>2. \A i \in 1..Len(timeline) :
           HasError(timeline[i]) /\ timeline[i].kind # Assistant => ~IsMessage(timeline[i])
    BY <1>1 DEF TInv, Proper, IsMessage
  <2> QED
    BY <2>1, <2>2, ErrorsAreInBlocks, ErrorsAreInOperations DEF FailuresStayVisible, Operations
<1> QED
  BY <1>1, TInit, TNext, PTL DEF SessionSpec

-----------------------------------------------------------------------------
\* Counting the calls of tools.
CallsIn(t, S) == {i \in S : t[i].kind = ToolCall}

LEMMA CallsAreFinite ==
    ASSUME NEW t, IsTimeline(t), NEW S \in SUBSET (1..Len(t))
    PROVE  /\ IsFiniteSet(CallsIn(t, S)) /\ CallsIn(t, S) \in SUBSET Nat
           /\ Cardinality(CallsIn(t, S)) \in Nat /\ Cardinality(CallsIn(t, S)) <= Len(t)
<1>0. Len(t) \in Int /\ 1 \in Int /\ Len(t) \in Nat /\ \A i \in 1..Len(t) : i \in Nat
  BY DEF IsTimeline
<1>1. IsFiniteSet(1..Len(t)) /\ Cardinality(1..Len(t)) = IF 1 > Len(t) THEN 0 ELSE Len(t) - 1 + 1
  BY <1>0, FS_Interval
<1>2. CallsIn(t, S) \in SUBSET (1..Len(t))
  BY DEF CallsIn
<1>3. IsFiniteSet(CallsIn(t, S)) /\ Cardinality(CallsIn(t, S)) <= Cardinality(1..Len(t))
  BY <1>1, <1>2, FS_Subset
<1>4. Cardinality(CallsIn(t, S)) \in Nat
  BY <1>3, FS_CardinalityType
<1> QED
  BY <1>0, <1>1, <1>2, <1>3, <1>4

\* Of the operations, one for each.
LEMMA OperationsCountCalls ==
    ASSUME NEW t, IsTimeline(t)
    PROVE  Cardinality({n \in DOMAIN BuildTraceOperations(t) :
                           BuildTraceOperations(t)[n].kind = ToolCall})
              = Cardinality(CallsIn(t, 1..Len(t)))
<1> DEFINE T == CallsIn(t, 1..Len(t))
           S == {n \in DOMAIN BuildTraceOperations(t) : BuildTraceOperations(t)[n].kind = ToolCall}
           g == [n \in S |-> Places(Starts(t))[n]]
<1>0. IsFiniteSet(T)
  BY CallsAreFinite
<1>1. ASSUME NEW n \in DOMAIN BuildTraceOperations(t)
      PROVE  /\ Places(Starts(t))[n] \in Starts(t) /\ Places(Starts(t))[n] \in 1..Len(t)
             /\ BuildTraceOperations(t)[n].kind = t[Places(Starts(t))[n]].kind
  <2>1. /\ Places(Starts(t))[n] \in Starts(t)
        /\ BuildTraceOperations(t)[n] = OperationOf(t, Places(Starts(t))[n])
    BY OperationsAre
  <2> QED
    BY <2>1, OperationIs DEF Starts
<1>2. g \in [S -> T]
  BY <1>1 DEF CallsIn
<1>3. \A m, n \in S : g[m] = g[n] => m = n
  <2>1. \A n \in S : n \in 1..Cardinality(Starts(t)) /\ g[n] = Places(Starts(t))[n]
    BY OperationsAre
  <2> QED
    BY <2>1, OperationsAre
<1>4. \A c \in T : \E n \in S : g[n] = c
  <2> SUFFICES ASSUME NEW c \in T
               PROVE  \E n \in S : g[n] = c
    OBVIOUS
  <2>1. c \in 1..Len(t) /\ t[c].kind = ToolCall
    BY DEF CallsIn
  <2>2. c \in Starts(t)
    BY <2>1, CallsStart DEF ToolCall, ToolResult, Assistant
  <2>3. PICK n \in 1..Cardinality(Starts(t)) : Places(Starts(t))[n] = c
    BY <2>2, OperationsAre
  <2>4. n \in DOMAIN BuildTraceOperations(t)
    BY OperationsAre
  <2>5. n \in S
    BY <2>1, <2>3, <2>4, <1>1
  <2> QED
    BY <2>3, <2>5
<1> HIDE DEF S, T, g
<1>5. g \in Injection(S, T) /\ g \in Surjection(S, T)
  BY <1>2, <1>3, <1>4 DEF Injection, IsInjective, Surjection
<1>6. Cardinality(S) = Cardinality(T)
  BY <1>0, <1>5, FS_Injection
<1> QED
  BY <1>6 DEF S, T

\* The record at i is in one block.
BlockOf(t, i, b) == b \in ReviewBlocks(t) /\ i \in b.entries

LEMMA OneBlock ==
    ASSUME NEW t, IsTimeline(t), NEW i \in 1..Len(t)
    PROVE  /\ \E b : BlockOf(t, i, b) /\ (~IsMessage(t[i]) => b.type = "activity")
           /\ \A b, d : BlockOf(t, i, b) /\ BlockOf(t, i, d) => b = d
<1>1. \A f \in Firsts(t) : ActivityBlock(t, RunFrom(t, f)).entries = RunFrom(t, f)
                           /\ ActivityBlock(t, RunFrom(t, f)).type = "activity"
                           /\ RunFrom(t, f) \subseteq Others(t)
  BY ActivityIs DEF RunFrom
<1>2. \A k : MessageBlock(t, k).entries = {k}
  BY DEF MessageBlock
<1>3. CASE i \in Others(t)
  <2>1. PICK f \in Firsts(t) :
            i \in RunFrom(t, f) /\ \A g \in Firsts(t) : i \in RunFrom(t, g) => g = f
    BY <1>3, RunOf
  <2>2. /\ BlockOf(t, i, ActivityBlock(t, RunFrom(t, f)))
        /\ ActivityBlock(t, RunFrom(t, f)).type = "activity"
    BY <2>1, <1>1, BlocksAre DEF BlockOf, Activities
  <2>3. ASSUME NEW b, BlockOf(t, i, b)
        PROVE  b = ActivityBlock(t, RunFrom(t, f))
    <3>1. CASE b \in Activities(t)
      BY <3>1, <2>1, <2>3, <1>1 DEF BlockOf, Activities
    <3>2. ASSUME NEW k \in 1..Len(t) \ Others(t), b = MessageBlock(t, k)
          PROVE  FALSE
      BY <3>2, <2>3, <1>2, <1>3 DEF BlockOf
    <3> QED
      BY <3>1, <3>2, <2>3, BlocksAre DEF BlockOf
  <2> QED
    BY <2>2, <2>3
<1>4. CASE i \notin Others(t)
  <2>1. BlockOf(t, i, MessageBlock(t, i)) /\ IsMessage(t[i])
    BY <1>2, <1>4, BlocksAre DEF BlockOf, Others
  <2>2. ASSUME NEW b, BlockOf(t, i, b)
        PROVE  b = MessageBlock(t, i)
    <3>1. CASE b \in Activities(t)
      BY <3>1, <2>2, <1>1, <1>4 DEF BlockOf, Activities
    <3>2. ASSUME NEW k \in 1..Len(t) \ Others(t), b = MessageBlock(t, k)
          PROVE  k = i
      BY <3>2, <2>2, <1>2 DEF BlockOf
    <3> QED
      BY <3>1, <3>2, <2>2, BlocksAre DEF BlockOf
  <2> QED
    BY <2>1, <2>2
<1> QED
  BY <1>3, <1>4

LEMMA BlocksCountCalls ==
    ASSUME NEW t, IsTimeline(t)
    PROVE  Cardinality({call \in ReviewBlocks(t) \X DOMAIN t :
                            call[1].type = "activity" /\ call[2] <= call[1].calls})
              = Cardinality(CallsIn(t, 1..Len(t)))
<1> DEFINE T == CallsIn(t, 1..Len(t))
           S == {call \in ReviewBlocks(t) \X DOMAIN t :
                            call[1].type = "activity" /\ call[2] <= call[1].calls}
           g == [call \in S |-> Places(CallsIn(t, call[1].entries))[call[2]]]
<1>0. IsFiniteSet(T) /\ DOMAIN t = 1..Len(t) /\ Len(t) \in Nat
  BY CallsAreFinite DEF IsTimeline
<1>1. ASSUME NEW b \in ReviewBlocks(t), b.type = "activity"
      PROVE  /\ b.entries \in SUBSET (1..Len(t))
             /\ b.calls = Cardinality(CallsIn(t, b.entries)) /\ b.calls \in Nat /\ b.calls <= Len(t)
             /\ \A k \in 1..b.calls : Places(CallsIn(t, b.entries))[k] \in CallsIn(t, b.entries)
             /\ \A j, k \in 1..b.calls : Places(CallsIn(t, b.entries))[j] =
                    Places(CallsIn(t, b.entries))[k] => j = k
             /\ \A c \in CallsIn(t, b.entries) : \E k \in 1..b.calls :
                    Places(CallsIn(t, b.entries))[k] = c
  <2>1. b \in Activities(t)
    BY <1>1, BlocksAre DEF MessageBlock
  <2>2. PICK f \in Firsts(t) : b = ActivityBlock(t, RunFrom(t, f))
    BY <2>1 DEF Activities
  <2>3. RunFrom(t, f) \in SUBSET Others(t)
    BY DEF RunFrom
  <2>4. b.entries \in SUBSET (1..Len(t)) /\ b.calls = Cardinality(CallsIn(t, b.entries))
    <3>1. /\ b.entries = RunFrom(t, f)
          /\ b.calls = Cardinality({i \in RunFrom(t, f) : t[i].kind = ToolCall})
      BY <2>2, <2>3, ActivityIs
    <3>2. Others(t) \subseteq 1..Len(t)
      BY DEF Others
    <3> QED
      BY <2>3, <3>1, <3>2 DEF CallsIn
  <2>5. /\ IsFiniteSet(CallsIn(t, b.entries)) /\ CallsIn(t, b.entries) \in SUBSET Nat
        /\ b.calls \in Nat /\ b.calls <= Len(t)
    BY <2>4, CallsAreFinite
  <2> QED
    BY <2>4, <2>5, PlacesList
<1>2. \A call \in S : /\ call[1] \in ReviewBlocks(t) /\ call[1].type = "activity"
                      /\ call[2] \in 1..call[1].calls
                      /\ g[call] \in CallsIn(t, call[1].entries)
  BY <1>0, <1>1
<1>3. g \in [S -> T]
  BY <1>1, <1>2 DEF CallsIn
<1>4. ASSUME NEW x \in S, NEW y \in S, g[x] = g[y]
      PROVE  x = y
  <2>1. BlockOf(t, g[x], x[1]) /\ BlockOf(t, g[x], y[1]) /\ g[x] \in 1..Len(t)
    BY <1>1, <1>2, <1>4 DEF BlockOf, CallsIn
  <2>2. x[1] = y[1]
    BY <2>1, OneBlock
  <2>3. x[2] = y[2]
    BY <2>2, <1>1, <1>2, <1>4
  <2>4. x = <<x[1], x[2]>> /\ y = <<y[1], y[2]>>
    OBVIOUS
  <2> QED
    BY <2>2, <2>3, <2>4
<1>5. ASSUME NEW c \in T
      PROVE  \E call \in S : g[call] = c
  <2>1. c \in 1..Len(t) /\ t[c].kind = ToolCall /\ ~IsMessage(t[c])
    BY DEF CallsIn, IsMessage, ToolCall, User, Assistant
  <2>2. PICK b : BlockOf(t, c, b) /\ b.type = "activity"
    BY <2>1, OneBlock
  <2>3. b \in ReviewBlocks(t) /\ c \in CallsIn(t, b.entries)
    BY <2>1, <2>2 DEF BlockOf, CallsIn
  <2>4. PICK k \in 1..b.calls : Places(CallsIn(t, b.entries))[k] = c
    BY <2>2, <2>3, <1>1
  <2>5. k \in 1..Len(t) /\ k <= b.calls
    BY <2>2, <2>3, <1>0, <1>1
  <2>6. <<b, k>> \in S
    BY <2>2, <2>3, <2>5, <1>0
  <2>7. g[<<b, k>>] = c
    BY <2>4, <2>6
  <2> QED
    BY <2>6, <2>7
<1> HIDE DEF S, T, g
<1>6. g \in Injection(S, T) /\ g \in Surjection(S, T)
  BY <1>3, <1>4, <1>5 DEF Injection, IsInjective, Surjection
<1>7. Cardinality(S) = Cardinality(T)
  BY <1>0, <1>6, FS_Injection
<1> QED
  BY <1>7 DEF S, T

LEMMA OneOperation ==
    ASSUME NEW t, IsTimeline(t), NEW i \in 1..Len(t)
    PROVE  Cardinality({n \in DOMAIN BuildTraceOperations(t) :
                           i \in BuildTraceOperations(t)[n].merged}) = 1
<1> DEFINE starts == Places(Starts(t))
           S == {n \in DOMAIN BuildTraceOperations(t) : i \in BuildTraceOperations(t)[n].merged}
<1>1. \A n \in DOMAIN BuildTraceOperations(t) :
         /\ starts[n] \in Starts(t)
         /\ BuildTraceOperations(t)[n].merged = {starts[n]} \union GroupOf(t, starts[n])
  <2> SUFFICES ASSUME NEW n \in DOMAIN BuildTraceOperations(t)
               PROVE  /\ starts[n] \in Starts(t)
                      /\ BuildTraceOperations(t)[n].merged =
                            {starts[n]} \union GroupOf(t, starts[n])
    OBVIOUS
  <2>1. starts[n] \in Starts(t) /\ BuildTraceOperations(t)[n] = OperationOf(t, starts[n])
    BY OperationsAre
  <2> QED
    BY <2>1, OperationIs
<1>2. PICK s \in Starts(t) : i = s \/ i \in GroupOf(t, s)
  BY Grouping
<1>3. \A r \in Starts(t) : i = r \/ i \in GroupOf(t, r) => r = s
  BY <1>2, Grouping
<1>4. PICK n \in DOMAIN BuildTraceOperations(t) : starts[n] = s
  BY OperationsAre
<1>5. S = {n}
  <2>1. n \in S
    BY <1>1, <1>2, <1>4
  <2>2. \A m \in S : starts[m] = s
    BY <1>1, <1>3
  <2>3. \A m \in S : m = n
    BY <2>2, <1>4, OperationsAre
  <2> QED
    BY <2>1, <2>3
<1> QED
  BY <1>5, FS_Singleton

\* Both views and the summary show every record once and count the same tool calls
\* (buildTraceOperations, buildReviewBlocks, analyzeSession).
THEOREM RecordsAreShownOnce == SessionSpec => []EveryRecordOnce
<1>1. ASSUME TInv
      PROVE  EveryRecordOnce
  <2>1. IsTimeline(timeline) /\ DOMAIN timeline = 1..Len(timeline)
    BY <1>1, SequenceIsTimeline DEF TInv, IsTimeline
  <2>2. AnalyzeSession(timeline).calls = Cardinality(CallsIn(timeline, 1..Len(timeline)))
    BY <2>1 DEF AnalyzeSession, CallsIn
  <2>3. ASSUME NEW i \in 1..Len(timeline)
        PROVE  Cardinality({b \in ReviewBlocks(timeline) : i \in b.entries}) = 1
    <3>1. PICK b : {d \in ReviewBlocks(timeline) : i \in d.entries} = {b}
      BY <2>1, OneBlock DEF BlockOf
    <3> QED
      BY <3>1, FS_Singleton
  <2> QED
    BY <2>1, <2>2, <2>3, OneOperation, OperationsCountCalls, BlocksCountCalls
       DEF EveryRecordOnce, Operations
<1> QED
  BY <1>1, TInit, TNext, PTL DEF SessionSpec
=============================================================================
