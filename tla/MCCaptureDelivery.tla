--------------------------- MODULE MCCaptureDelivery ---------------------------
(***************************************************************************)
(* Two calls of SDKs that differ in how they take a broken answer.         *)
(***************************************************************************)
EXTENDS CaptureDelivery, TLC

CONSTANTS c1, c2, i, x, y, bad, t1, t2, none

\* A record under an id and a time, another one under the id, one the SDK names
\* and one the server refuses; the second call leaves the time to the SDK.
MCCaptures ==
    c1 :> {[id |-> i, content |-> x, time |-> t1],
           [id |-> i, content |-> y, time |-> t1],
           [id |-> none, content |-> x, time |-> none],
           [id |-> none, content |-> bad, time |-> t1]} @@
    c2 :> {[id |-> i, content |-> x, time |-> none],
           [id |-> none, content |-> x, time |-> none]}
=============================================================================
