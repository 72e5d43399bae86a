--------------------------- MODULE DurableRegister ---------------------------
(***************************************************************************)
(* What the engine expects of a JSON file that is replaced atomically: it  *)
(* always holds one whole value; a write that was confirmed is what every  *)
(* later start reads; one that was refused or interrupted may have taken   *)
(* place or not, and a loss of power may take it back.                     *)
(***************************************************************************)
CONSTANTS Values, First

VARIABLES
    value,      \* what a read returns now
    exposed,    \* what a read may return after a loss of power
    asked,      \* the value of the last write
    reply       \* how that write ended: "pending", "ok", "error" or "none"

registerVars == <<value, exposed, asked, reply>>

RegisterInit == value = First /\ exposed = {First} /\ asked = First /\ reply = "none"

Ask(v) ==
    /\ reply # "pending"
    /\ asked' = v /\ reply' = "pending"
    /\ UNCHANGED <<value, exposed>>

Take ==
    /\ reply = "pending"
    /\ value' = asked
    /\ exposed' = exposed \cup {asked}
    /\ UNCHANGED <<asked, reply>>

(* A write is confirmed only when a loss of power can no longer undo it. *)
Confirm ==
    /\ reply = "pending" /\ value = asked
    /\ exposed' = {asked} /\ reply' = "ok"
    /\ UNCHANGED <<value, asked>>

(* Refused, or the writer died before it could reply. *)
Refuse ==
    /\ reply = "pending"
    /\ reply' \in {"error", "none"}
    /\ UNCHANGED <<value, exposed, asked>>

Lose ==
    /\ value' \in exposed
    /\ exposed' = {value'}
    /\ reply' = IF reply = "pending" THEN "none" ELSE reply
    /\ UNCHANGED asked

RegisterNext ==
    \/ \E v \in Values : Ask(v)
    \/ Take \/ Confirm \/ Refuse \/ Lose

RegisterSpec == RegisterInit /\ [][RegisterNext]_registerVars
=============================================================================
