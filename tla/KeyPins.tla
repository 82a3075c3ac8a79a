------------------------------ MODULE KeyPins ------------------------------
(***************************************************************************)
(* What a key remapper promises about one virtual keyboard: a physical key *)
(* that went down is pinned to the one virtual key it was pressed as until *)
(* it goes up; going up releases exactly that virtual key; a change of the *)
(* map lets go of every pin at once.  Nothing is said of how the pins are  *)
(* stored, and a press the remapper has no room for is passed on unpinned. *)
(***************************************************************************)
CONSTANTS Keys, Free

VARIABLES
    pin,    \* the virtual key each physical key is pinned to, or Free
    vdown   \* the virtual keys that are down

pinVars == <<pin, vdown>>

PinInit ==
    /\ pin = [k \in Keys |-> Free]
    /\ vdown = {}

\* A key nobody pinned is reported as v, and pinned to it.
PinDown(k, v) ==
    /\ pin[k] = Free
    /\ pin' = [pin EXCEPT ![k] = v]
    /\ vdown' \in {vdown, vdown \cup {v}}

\* A key that is already pinned is reported again: the same virtual key.
PinAgain(k) ==
    /\ pin[k] # Free
    /\ vdown' \in {vdown, vdown \cup {pin[k]}}
    /\ UNCHANGED pin

\* The key goes up: its own virtual key is released, its pin is free.
PinUp(k) ==
    /\ pin[k] # Free
    /\ pin' = [pin EXCEPT ![k] = Free]
    /\ vdown' = vdown \ {pin[k]}

\* A report of an unpinned key that leaves the pins alone.
PassThrough(v) ==
    /\ vdown' \in {vdown \cup {v}, vdown \ {v}}
    /\ UNCHANGED pin

\* The map changes: every pin is let go and its virtual key released.
LetGo ==
    /\ pin' = [k \in Keys |-> Free]
    /\ vdown' = vdown \ {pin[k] : k \in Keys}

PinNext ==
    \/ \E k \in Keys, v \in Keys : PinDown(k, v)
    \/ \E k \in Keys : PinAgain(k) \/ PinUp(k)
    \/ \E v \in Keys : PassThrough(v)
    \/ LetGo

PinSpec == PinInit /\ [][PinNext]_pinVars

=============================================================================
