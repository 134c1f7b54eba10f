--------------------------- MODULE MessageLedger ---------------------------
(***************************************************************************)
(* What the webhook promises about each WhatsApp message, whatever happens *)
(* between Meta's POST and the reply: it is recorded at most once, answered*)
(* at most once and only when recorded, and Meta is told to stop sending   *)
(* it only when it is recorded or there is an excuse - the contact is      *)
(* blocked, or a turn failed and said so to the customer.                  *)
(***************************************************************************)
CONSTANT Messages

VARIABLES
    status,   \* [Messages -> {"new", "recorded", "answered"}]
    excused,  \* messages that need not be recorded
    acked     \* messages Meta has a 200 for

vars == <<status, excused, acked>>

Init ==
    /\ status = [m \in Messages |-> "new"]
    /\ excused = {}
    /\ acked = {}

Record(m) ==
    /\ status[m] = "new"
    /\ status' = [status EXCEPT ![m] = "recorded"]
    /\ UNCHANGED <<excused, acked>>

Answer(m) ==
    /\ status[m] = "recorded"
    /\ status' = [status EXCEPT ![m] = "answered"]
    /\ UNCHANGED <<excused, acked>>

Excuse(m) ==
    /\ excused' = excused \union {m}
    /\ UNCHANGED <<status, acked>>

Acknowledge(m) ==
    /\ status[m] # "new" \/ m \in excused
    /\ acked' = acked \union {m}
    /\ UNCHANGED <<status, excused>>

Next == \E m \in Messages : Record(m) \/ Answer(m) \/ Excuse(m) \/ Acknowledge(m)

Spec == Init /\ [][Next]_vars
=============================================================================
