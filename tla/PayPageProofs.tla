---------------------------- MODULE PayPageProofs ----------------------------
(***************************************************************************)
(* Theorems about PayPage, checked by TLAPS.  The page is one client of    *)
(* the stream of its session, so what StatusStreamProofs says of the       *)
(* stream holds behind the page; the rest is what the page shows.          *)
(***************************************************************************)
EXTENDS PayPage, StatusStreamProofs

\* A payment is shown, or known and about to be, only when the session is paid.
ShownIsPaid == step = "confirmed" \/ answer => session = "PAID"

\* Where the rail is not offered the page waits, or shows the payment.
WaitsOrShows == ~ rail => ~ initiating /\ step \in {"idle", "confirmed"}

PageInv == Inv /\ TypeOK /\ ShownIsPaid /\ WaitsOrShows

LEMMA Booleans ==
  ASSUME TypeOK
  PROVE  /\ expired \in BOOLEAN /\ streaming \in BOOLEAN /\ answer \in BOOLEAN
         /\ initiating \in BOOLEAN /\ rail \in BOOLEAN
         /\ step \in {"idle", "loading", "instructions", "confirmed", "error"}
BY Zenon DEF TypeOK

-----------------------------------------------------------------------------
(* The stream behind the page.                                             *)

LEMMA InitBehind == Init => StreamInit
BY DEF Init

LEMMA NextBehind == [Next]_vars => [StreamNext]_streams
BY DEF Next, vars, Stream, Poll, Answered, PollFails, Pay, LinkExpires, Initiated

\* The page's own steps are none of the stream's: the gateway and the watches behind
\* it behave as StatusStream says.
THEOREM StreamBehindThePage == Spec => StreamSpec
BY InitBehind, NextBehind, PTL DEF Spec, StreamSpec

\* With the page watching, the one watcher of its session serves every open stream.
THEOREM OneWatcherBehindThePage == Spec => []OneWatcherServesAll
BY StreamBehindThePage, OneWatcher, PTL

\* What the page is told is what StatusFeed promises.
THEOREM PageHasItsFeed == Spec => EachHasItsFeed
BY StreamBehindThePage, FeedKept, PTL

-----------------------------------------------------------------------------
(* What the page shows.                                                    *)

\* A status newly told is the session's, when it is final.
LEMMA ToldIsSo ==
  ASSUME Inv, StreamNext, told' # told, told' \in Final
  PROVE  session' = told'
<1>1. [Feed(Page)!FeedNext]_<<session, watch[Page].told, watch[Page].end>>
  BY FeedStep, PayPageAssumption
<1>2. Feed(Page)!FeedNext
  BY <1>1 DEF told
<1> QED BY <1>2
        DEF told, Feed!FeedNext, Feed!Tell, Feed!Change, Feed!Stop, Feed!Ends, Final

LEMMA SessionStays ==
  ASSUME Inv, StreamNext, session = "PAID"
  PROVE  session' = "PAID"
<1>1. [Feed(Page)!FeedNext]_<<session, watch[Page].told, watch[Page].end>>
  BY FeedStep, PayPageAssumption
<1>2. CASE Feed(Page)!FeedNext
  BY <1>2 DEF Feed!FeedNext, Feed!Tell, Feed!Change, Feed!Stop, Feed!Ends, Feed!Final
<1> QED BY <1>1, <1>2

LEMMA StreamKeeps ==
  ASSUME PageInv, Stream
  PROVE  PageInv'
<1>1. Inv /\ TypeOK /\ StreamNext /\ UNCHANGED <<answer, initiating, rail>>
  BY DEF PageInv, Stream
<1>2. Inv'
  BY <1>1, NextInv
<1>3. StreamTypeOK'
  BY <1>2 DEF Inv
<1>4. \/ told' # told /\ HearStatus
      \/ HearEnd
      \/ UNCHANGED <<step, expired, streaming>>
  BY Zenon DEF Stream
<1>5. /\ expired' \in BOOLEAN /\ streaming' \in BOOLEAN
      /\ step' = step \/ (step' = "confirmed" /\ told' # told /\ told' = "PAID")
  BY <1>1, <1>4, Booleans DEF HearStatus, HearEnd
<1>6. TypeOK'
  <2>1. step' \in {"idle", "loading", "instructions", "confirmed", "error"}
    BY <1>1, <1>5, Booleans
  <2>2. answer' \in BOOLEAN /\ initiating' \in BOOLEAN /\ rail' \in BOOLEAN
    BY <1>1, Booleans
  <2> QED BY <1>3, <1>5, <2>1, <2>2, Zenon DEF TypeOK
<1>7. ShownIsPaid'
  BY <1>1, <1>5, ToldIsSo, SessionStays DEF PageInv, ShownIsPaid, Final
<1>8. WaitsOrShows'
  BY <1>1, <1>5 DEF PageInv, WaitsOrShows
<1> QED BY <1>2, <1>6, <1>7, <1>8 DEF PageInv

LEMMA PageKeeps ==
  ASSUME PageInv,
         \/ Poll \/ Answered \/ PollFails \/ Pay \/ LinkExpires
         \/ \E shows \in {"instructions", "error"} : Initiated(shows)
  PROVE  PageInv'
<1>1. UNCHANGED streams /\ UNCHANGED rail
  BY DEF Poll, Answered, PollFails, Pay, LinkExpires, Initiated
<1>2. Inv'
  BY <1>1, NextInv DEF PageInv
<1>3. StreamTypeOK' /\ session' = session
  BY <1>1, <1>2 DEF Inv, streams
<1>4. /\ expired' \in BOOLEAN /\ streaming' \in BOOLEAN /\ answer' \in BOOLEAN
      /\ initiating' \in BOOLEAN /\ rail' \in BOOLEAN
      /\ step' \in {"idle", "loading", "instructions", "confirmed", "error"}
  BY Booleans DEF PageInv, Poll, Answered, PollFails, Pay, LinkExpires, Initiated
<1>5. TypeOK'
  BY <1>3, <1>4, Zenon DEF TypeOK
<1>6. ShownIsPaid'
  BY <1>3, Booleans
     DEF PageInv, ShownIsPaid, Poll, Answered, PollFails, Pay, LinkExpires, Initiated
<1>7. WaitsOrShows'
  BY Booleans
     DEF PageInv, WaitsOrShows, Poll, Answered, PollFails, Pay, LinkExpires, Initiated
<1> QED BY <1>2, <1>5, <1>6, <1>7 DEF PageInv

LEMMA PageInitInv == Init => PageInv
<1> SUFFICES ASSUME Init PROVE PageInv
  OBVIOUS
<1>1. Inv
  BY InitBehind, InitInv
<1>2. TypeOK
  BY <1>1, Zenon DEF Init, TypeOK, Inv
<1> QED BY <1>1, <1>2 DEF Init, PageInv, ShownIsPaid, WaitsOrShows

LEMMA PageNextInv == PageInv /\ [Next]_vars => PageInv'
<1> SUFFICES ASSUME PageInv, [Next]_vars PROVE PageInv'
  OBVIOUS
<1>1. CASE UNCHANGED vars
  <2>1. UNCHANGED streams
    BY <1>1 DEF vars
  <2>2. Inv'
    BY <2>1, NextInv DEF PageInv
  <2>3. StreamTypeOK'
    BY <2>2 DEF Inv
  <2> QED BY <1>1, <2>2, <2>3
          DEF PageInv, vars, page, streams, TypeOK, ShownIsPaid, WaitsOrShows
<1>2. CASE Next
  BY <1>2, StreamKeeps, PageKeeps DEF Next
<1> QED BY <1>1, <1>2

\* PageInv holds in every state of the page and the stream behind it.
THEOREM PageInvariant == Spec => []PageInv
BY PageInitInv, PageNextInv, PTL DEF Spec

\* The variables of the page keep their types, and those of the stream.
THEOREM PageTypeCorrect == Spec => []TypeOK
<1>1. PageInv => TypeOK
  BY DEF PageInv
<1> QED BY <1>1, PageInvariant, PTL

\* The page shows a payment only of a session that is paid, whichever way it learnt
\* it: by the stream, or by asking.
THEOREM ShownOnlyWhenPaid == Spec => [](step = "confirmed" => session = "PAID")
<1>1. PageInv => (step = "confirmed" => session = "PAID")
  BY DEF PageInv, ShownIsPaid
<1> QED BY <1>1, PageInvariant, PTL

\* Where the rail is not offered, ConfirmedStays: a payment that is shown is shown to
\* the end, whatever the stream and the polls still bring.
THEOREM ConfirmedStaysWithoutTheRail ==
  Spec => [][~ rail /\ step = "confirmed" => step' = "confirmed"]_vars
<1>1. PageInv /\ [Next]_vars => [~ rail /\ step = "confirmed" => step' = "confirmed"]_vars
  <2> SUFFICES ASSUME PageInv, Next, ~ rail, step = "confirmed" PROVE step' = "confirmed"
    OBVIOUS
  <2>1. CASE Stream
    <3>1. \/ HearStatus
          \/ HearEnd
          \/ UNCHANGED <<step, expired, streaming>>
      BY <2>1, Zenon DEF Stream
    <3> QED BY <3>1 DEF HearStatus, HearEnd
  <2>2. ~ initiating
    BY DEF PageInv, WaitsOrShows
  <2> QED BY <2>1, <2>2 DEF Next, Poll, Answered, PollFails, Pay, LinkExpires, Initiated
<1> QED BY <1>1, PageInvariant, PTL DEF Spec

=============================================================================
