---------------------------- MODULE ResultNotice ----------------------------
(***************************************************************************)
(* What the delivery of one task result promises, without attempts,        *)
(* replicas, placeholders or connectors: the row says SENT only of what    *)
(* the user has, says one thing for ever, and does say it.  Delivery       *)
(* implements it.                                                          *)
(***************************************************************************)
VARIABLES
  verdict,   \* delivery_status
  received   \* the user, or the durable inbox of the user, has the result

vars == <<verdict, received>>

Init == verdict = "PENDING" /\ received = FALSE

\* The result may come through late, even after it was given up
Reach == received' = TRUE /\ UNCHANGED verdict

Confirm == verdict = "PENDING" /\ received /\ verdict' = "SENT" /\ UNCHANGED received

GiveUp == verdict = "PENDING" /\ verdict' = "FAILED" /\ UNCHANGED received

Next == Reach \/ Confirm \/ GiveUp

Safety == Init /\ [][Next]_vars
Spec   == Safety /\ WF_vars(Confirm \/ GiveUp)
=============================================================================
