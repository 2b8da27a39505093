------------------------------- MODULE PayPage -------------------------------
(***************************************************************************)
(* The hosted payment page of a link                                       *)
(* (src/apps/pay/app/pay/[slug]/pay-client.tsx).  It shows what the stream *)
(* of its session tells it (StatusStream, of which the page is a client),   *)
(* asks the gateway every few seconds when there is no stream, and lets    *)
(* the payer start a payment by the external rail where that is offered.   *)
(*                                                                         *)
(* What a callback of the stream sets is set in the step that calls it.    *)
(* The link is paid when its session is; a link without a session is one   *)
(* whose stream ends at once.  The hand-off to the app and the copy button *)
(* change nothing the page decides on.                                     *)
(***************************************************************************)
EXTENDS StatusStream

CONSTANT Page   \* the client that is this page

ASSUME PayPageAssumption == Page \in Client

VARIABLES
  step,        \* what the page shows
  expired,     \* whether it says that the time is over
  streaming,   \* whether it counts on the stream
  answer,      \* a poll that found the link paid is on its way back
  initiating,  \* the request for payment instructions is out
  rail         \* whether the external rail is offered

page == <<step, expired, streaming, answer, initiating, rail>>
vars == <<streams, page>>

told == watch[Page].told
end == watch[Page].end

Init ==
  /\ StreamInit
  /\ step = "idle" /\ expired = FALSE /\ streaming = TRUE
  /\ answer = FALSE /\ initiating = FALSE
  /\ rail \in BOOLEAN

\* The page is left when its watch is closed.
Here == end # "closed"

HearEndOnError ==
  /\ streaming' = (streaming /\ end' # "error")
  /\ UNCHANGED <<step, expired>>

\* onEnd: but for a final status, an end of the stream leaves the page to ask.
HearEnd ==
  /\ streaming' = (streaming /\ end' = "terminal")
  /\ UNCHANGED <<step, expired>>

\* onStatus, and onEnd with it when the status is final.
HearStatus ==
  /\ step' = IF told' = "PAID" THEN "confirmed" ELSE step
  /\ expired' = (expired \/ told' = "EXPIRED")
  /\ UNCHANGED streaming

Stream ==
  /\ StreamNext
  /\ CASE told' # told -> HearStatus
       [] told' = told /\ end' # end -> HearEnd
       [] OTHER -> UNCHANGED <<step, expired, streaming>>
  /\ UNCHANGED <<answer, initiating, rail>>

Polling == ~ streaming /\ step \in {"idle", "instructions"}

\* A poll, of those that find the link paid: the others change nothing.
Poll ==
  /\ Polling /\ session = "PAID"
  /\ ~ answer /\ answer' = TRUE
  /\ UNCHANGED <<streams, step, expired, streaming, initiating, rail>>

\* Its answer is shown whatever the page has come to since.
Answered ==
  /\ answer /\ answer' = FALSE
  /\ step' = "confirmed"
  /\ UNCHANGED <<streams, expired, streaming, initiating, rail>>

PollFails ==
  /\ answer /\ answer' = FALSE
  /\ UNCHANGED <<streams, step, expired, streaming, initiating, rail>>

\* The payer asks for instructions ...
Pay ==
  /\ rail /\ ~ expired /\ step \in {"idle", "error"}
  /\ step' = "loading" /\ initiating' = TRUE
  /\ UNCHANGED <<streams, expired, streaming, answer, rail>>

\* ... and the answer is shown whatever the page has come to since.
Initiated(shows) ==
  /\ initiating /\ initiating' = FALSE
  /\ step' = shows
  /\ UNCHANGED <<streams, expired, streaming, answer, rail>>

\* The link's own time is over.
LinkExpires ==
  /\ ~ expired /\ expired' = TRUE
  /\ UNCHANGED <<streams, step, streaming, answer, initiating, rail>>

Next ==
  \/ Stream
  \/ Here /\ (Poll \/ Answered \/ PollFails \/ Pay \/ LinkExpires)
  \/ Here /\ \E shows \in {"instructions", "error"} : Initiated(shows)

Spec == Init /\ [][Next]_vars

\* Handlers and their watcher run, every token ends after its thirty minutes,
\* requests are answered, and of the polls that go on one comes back.
Fairness ==
  /\ \A k \in Place : WF_vars(Gateway(k) /\ Stream)
  /\ WF_vars((WatcherReads \/ WatcherPublishes) /\ Stream)
  /\ \A c \in Client :
       /\ WF_vars(((\E k \in Place : Fetch(c, k)) \/ Refused(c) \/ Unreachable(c)) /\ Stream)
       /\ WF_vars((Retry(c) \/ Lapse(c)) /\ Stream)
  /\ WF_vars(Here /\ Poll) /\ SF_vars(Here /\ Answered)
  /\ WF_vars(Here /\ \E shows \in {"instructions", "error"} : Initiated(shows))

FairSpec == Spec /\ Fairness

-----------------------------------------------------------------------------
(* Properties.                                                             *)

TypeOK ==
  /\ StreamTypeOK
  /\ step \in {"idle", "loading", "instructions", "confirmed", "error"}
  /\ {expired, streaming, answer, initiating, rail} \subseteq BOOLEAN

\* A place at the gateway is given back, though its client went away without a word.
PlacesAreFreed == \A k \in Place : handler[k] # None ~> handler[k] = None

\* Where the rail is not offered a payment is confirmed on the screen, whatever
\* becomes of the stream: a stream that missed it ends with its token, and then the
\* page asks.
PaidIsShown == ~ rail /\ session = "PAID" ~> step = "confirmed" \/ ~ Here

\* Said on the page, and not so where the rail is offered: "Do not close this page.
\* You will be notified automatically" (pay-client.tsx:224, :380).
PayerIsNotified == session = "PAID" ~> step = "confirmed" \/ ~ Here

\* A confirmation on the screen stays there.  Not so where the rail is offered.
ConfirmedStays == [][step = "confirmed" => step' = "confirmed"]_vars

=============================================================================
