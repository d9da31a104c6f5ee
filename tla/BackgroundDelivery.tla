-------------------------- MODULE BackgroundDelivery --------------------------
(***************************************************************************)
(* What a background processor promises, without queue, batches or timers: *)
(* what it admits it settles once, the events of one conversation in the   *)
(* order of their admission; it admits nothing once it is closed; and a    *)
(* flush that answers true has every event admitted before it delivered.   *)
(***************************************************************************)
EXTENDS Naturals, Sequences, FiniteSets

CONSTANTS
    Events,
    Waiters,    \* calls that wait for delivery
    Capacity    \* the most events that may be waiting

VARIABLES
    log,        \* the admitted events, in order
    topic,      \* topic[e]: the conversation of e
    fate,       \* fate[e]: "unsent", "delivered" or "failed"
    closed,
    owed,       \* owed[w]: the events call w still has to wait for
    answer      \* answer[w]: "none", "pending", "true" or "false"

vars == <<log, topic, fate, closed, owed, answer>>

Logged == {log[i] : i \in DOMAIN log}
Waiting == {e \in Logged : fate[e] = "unsent"}

Init ==
    /\ log = <<>>
    /\ fate = [e \in Events |-> "unsent"]
    /\ closed = FALSE
    /\ owed = [w \in Waiters |-> {}]
    /\ answer = [w \in Waiters |-> "none"]

Admit(e) ==
    /\ ~closed
    /\ e \notin Logged
    /\ Cardinality(Waiting) < Capacity
    /\ log' = Append(log, e)
    /\ \A f \in Events \ {e} : topic'[f] = topic[f]
    /\ UNCHANGED <<fate, closed, owed, answer>>

\* Some events of one conversation, none of which is overtaken.
Settle(S, verdict) ==
    /\ S # {} /\ S \subseteq Waiting
    /\ \A e, f \in S : topic[e] = topic[f]
    /\ \A i, j \in DOMAIN log :
          /\ i < j /\ log[j] \in S /\ topic[log[i]] = topic[log[j]]
          /\ log[i] \in Waiting
          => log[i] \in S
    /\ fate' = [e \in Events |-> IF e \in S THEN verdict ELSE fate[e]]
    /\ owed' = [w \in Waiters |-> owed[w] \ S]
    /\ UNCHANGED <<log, topic, closed, answer>>

\* A flush, or the shutdown that closes the processor.
Ask(w) ==
    /\ answer[w] = "none"
    /\ owed' = [owed EXCEPT ![w] = Waiting]
    /\ answer' = [answer EXCEPT ![w] = "pending"]
    /\ closed' \in {closed, TRUE}
    /\ UNCHANGED <<log, topic, fate>>

Return(w) ==
    /\ answer[w] = "pending"
    /\ owed[w] = {}
    /\ \E yes \in BOOLEAN :
          /\ yes <=> \A e \in Events : fate[e] # "failed"
          /\ answer' = [answer EXCEPT ![w] = IF yes THEN "true" ELSE "false"]
    /\ UNCHANGED <<log, topic, fate, closed, owed>>

\* A call with nothing to wait for returns as it is made.
ReturnAtOnce(w) ==
    /\ answer[w] = "none"
    /\ Waiting = {}
    /\ answer' \in {[answer EXCEPT ![w] = "true"], [answer EXCEPT ![w] = "false"]}
    /\ answer'[w] = "true" <=> \A e \in Events : fate[e] # "failed"
    /\ closed' \in {closed, TRUE}
    /\ UNCHANGED <<log, topic, fate, owed>>

\* A second shutdown does not wait, and answers no while the first has to.
TurnAway(w) ==
    /\ answer[w] = "none"
    /\ closed
    /\ answer' = [answer EXCEPT ![w] = "false"]
    /\ UNCHANGED <<log, topic, fate, closed, owed>>

Next ==
    \/ \E e \in Events : Admit(e)
    \/ \E S \in SUBSET Waiting : \E v \in {"delivered", "failed"} : Settle(S, v)
    \/ \E w \in Waiters : Ask(w) \/ Return(w) \/ ReturnAtOnce(w) \/ TurnAway(w)

Spec == Init /\ [][Next]_vars
=============================================================================
