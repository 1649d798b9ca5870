---------------------------- MODULE FrameCounter ----------------------------
(***************************************************************************)
(* What the network server promises about uplink frames, whatever happens  *)
(* on the way: a frame that reached the server is counted once for its     *)
(* node, however many gateways heard it and whenever their copies arrive.  *)
(* A frame is a node and a sequence number.                                *)
(***************************************************************************)
EXTENDS Naturals, FiniteSets

CONSTANTS Nodes, SequenceNumbers

VARIABLES
    heard,     \* frames of which a copy reached the server
    counted,   \* frames that were counted
    counter    \* per node: the number of frames counted

vars == <<heard, counted, counter>>

Init == heard = {} /\ counted = {} /\ counter = [n \in Nodes |-> 0]

Hear(n, s) ==
    /\ <<n, s>> \notin heard
    /\ heard' = heard \union {<<n, s>>}
    /\ UNCHANGED <<counted, counter>>

Count(n, s) ==
    /\ <<n, s>> \in heard \ counted
    /\ counted' = counted \union {<<n, s>>}
    /\ counter' = [counter EXCEPT ![n] = @ + 1]
    /\ UNCHANGED heard

Next == \E n \in Nodes, s \in SequenceNumbers : Hear(n, s) \/ Count(n, s)

Spec == Init /\ [][Next]_vars
=============================================================================
