--------------------------- MODULE StatusLifecycle ---------------------------
(***************************************************************************)
(* The promise a status column makes: each thing starts at "none" and its  *)
(* status only ever changes along the documented moves.  Several things    *)
(* may move in one step, as in a nightly sweep.                            *)
(***************************************************************************)
CONSTANTS Thing, Moves   \* Moves is a set of pairs <<old, new>>

VARIABLE status

Init == status = [t \in Thing |-> "none"]

Next == /\ status' = [t \in Thing |-> status'[t]]
        /\ \A t \in Thing : \/ status'[t] = status[t]
                            \/ <<status[t], status'[t]>> \in Moves

Spec == Init /\ [][Next]_status
=============================================================================
