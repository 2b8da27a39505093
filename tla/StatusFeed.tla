----------------------------- MODULE StatusFeed -----------------------------
(***************************************************************************)
(* What a page that watches a payment session is promised: it may be told  *)
(* the session's status, final only when it is; the watch ends once, when  *)
(* a final status is told or for a reason of its own, and nothing is told  *)
(* after that.                                                             *)
(***************************************************************************)
CONSTANT None   \* no status told yet, the watch goes on

VARIABLES
  session,  \* the status of the session
  told,     \* the last status told
  end       \* why the watch ended, or None

feed == <<session, told, end>>

Final == {"PAID", "EXPIRED"}
Status == {"ACTIVE"} \cup Final

Change(status) ==
  /\ session \notin Final /\ status \in Final
  /\ session' = status
  /\ UNCHANGED <<told, end>>

Tell ==
  /\ end = None /\ told' \in {"ACTIVE", session}
  /\ end' = IF told' \in Final THEN "terminal" ELSE None
  /\ UNCHANGED session

Stop(reason) ==
  /\ end = None /\ end' = reason
  /\ UNCHANGED <<session, told>>

FeedInit == session = "ACTIVE" /\ told = None /\ end = None

Ends == \E reason \in {"token_expired", "closed", "error"} : Stop(reason)

FeedNext == Tell \/ Ends \/ \E status \in Status : Change(status)

FeedSpec == FeedInit /\ [][FeedNext]_feed

=============================================================================
