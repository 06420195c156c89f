----------------------------- MODULE MCSyncPeers -----------------------------
(* Model values for the run of SyncPeers. *)
EXTENDS SyncPeers

CONSTANTS f, x

ThreeNodes == 1 .. 3
OneFunction == {f}
OneEdge == {x}
EdgeFromF == [e \in OneEdge |-> f]

\* Node 2 is a hub: 1 and 3 push to it, and 1 gets what it has by push and by pull,
\* so that events of 3 reach 1 through the stream of 2.
HubPushes == {<<1, 2>>, <<2, 1>>, <<3, 2>>}
HubIsPulled == {<<1, 2>>}
\* The hub may delete the function with its edge, in one mutation.
TwoOfTheHub == <<1, 2, 1>>
=============================================================================
