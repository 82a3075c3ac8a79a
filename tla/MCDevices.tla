----------------------------- MODULE MCDevices -----------------------------
(* Small instances of Devices for TLC. *)
EXTENDS Devices

CONSTANTS r1, r2, m1, m2

OneWithoutMac == [h \in Hw |-> IF h = r1 THEN NoMac ELSE m2]
MCFds == 3..10
MCFdsOfTwo == 3..18

\* Two uses.  One remote, on any node; or two remotes that fight for all nodes but one,
\* where the safety run counts how often a node appears.
CONSTANT MaxAttached
VARIABLES use, attached
MCVars == <<vars, use, attached>>

Spare == CHOOSE p \in Paths : \A q \in Paths : q <= p
Appears == \E p \in Paths : node[p] = NoNode /\ node'[p] # NoNode

MCInit == Init /\ use \in {"one", "two"} /\ attached = 0
UseNext ==
    /\ Next
    /\ use = "one" => \A p \in Paths : node'[p] # NoNode => node'[p].hw = r1
    /\ use = "two" => node'[Spare] = NoNode
    /\ UNCHANGED use
MCNext ==
    /\ UseNext
    /\ attached' = IF use = "two" /\ Appears THEN attached + 1 ELSE attached
    /\ attached' <= MaxAttached
LiveNext == UseNext /\ UNCHANGED attached

MCSpec == MCInit /\ [][MCNext]_MCVars
LiveSpec == MCInit /\ [][LiveNext]_MCVars /\ Fairness
=============================================================================
