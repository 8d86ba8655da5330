------------------------------ MODULE Delivery ------------------------------
(***************************************************************************)
(* What the WhatsApp outbox promises for each message it accepts: it stays *)
(* pending until it is confirmed or given up, it is confirmed only after   *)
(* it reached the phone, and it is decided in the end unless the server    *)
(* died with it.  Reaching the phone twice, or after it was given up, is   *)
(* not excluded: the outbox cannot know what became of an unanswered call. *)
(***************************************************************************)
CONSTANT Messages

VARIABLES outcome, reached

vars == <<outcome, reached>>

Outcome == {"none", "pending", "sent", "failed", "orphan"}

Init == outcome = [m \in Messages |-> "none"] /\ reached = {}

Decide(m, from, to) ==
    outcome[m] = from /\ outcome' = [outcome EXCEPT ![m] = to]

Accept(m)  == Decide(m, "none", "pending") /\ UNCHANGED reached

Reach(m)   == outcome[m] # "none" /\ reached' = reached \cup {m} /\ UNCHANGED outcome

Confirm(m) == m \in reached /\ Decide(m, "pending", "sent") /\ UNCHANGED reached

GiveUp(m)  == Decide(m, "pending", "failed") /\ UNCHANGED reached

(* The server dies: whatever is pending has nobody to carry it.            *)
Abandon ==
    /\ outcome' = [m \in Messages |-> IF outcome[m] = "pending" THEN "orphan" ELSE outcome[m]]
    /\ UNCHANGED reached

Next == Abandon \/ \E m \in Messages : Accept(m) \/ Reach(m) \/ Confirm(m) \/ GiveUp(m)

Spec == Init /\ [][Next]_vars /\ \A m \in Messages : WF_vars(Confirm(m) \/ GiveUp(m))
=============================================================================
