------------------------------ MODULE SignedIn ------------------------------
(***************************************************************************)
(* What the web host of the app (src/apps/app-banzami/server.mjs) promises *)
(* to a browser that makes one request at a time: the browser acts as a    *)
(* consumer, under one sign-in of a business, as both or as neither.  It   *)
(* gains a side by signing in to it, loses one by signing out of it, and   *)
(* loses both when it signs out of everything or its session lapses.       *)
(* Neither a call, nor the renewal of a token, nor the rotation of the     *)
(* session id changes what it acts as, with one exception: a call of the   *)
(* business may end a sign-in that has become revocable.                   *)
(***************************************************************************)
CONSTANTS
  SignIn,   \* sign-ins of a business
  None      \* no sign-in; no request

VARIABLES
  consumer,    \* whether the browser acts as a consumer
  business,    \* the sign-in it acts as a business under, or None
  revocable,   \* the sign-ins the gateway may end on its own
  asking       \* the request the browser waits for, or None

sides == <<consumer, business>>
vars == <<consumer, business, revocable, asking>>

Init == consumer = FALSE /\ business = None /\ revocable = {} /\ asking = None

\* The request the browser waits for is kind; it may be answered in this step.
During(kind) == asking = kind /\ asking' \in {kind, None}

\* The browser sends a request, or is answered.
Ask == asking = None /\ asking' # None /\ UNCHANGED sides
Answered == asking # None /\ asking' = None /\ UNCHANGED sides

EnterConsumer ==
  During("consumerSignIn") /\ consumer' = TRUE /\ UNCHANGED business

LeaveConsumer ==
  During("consumerLogout") /\ consumer' = FALSE /\ UNCHANGED business

\* Every sign-in of a business is a new one.
EnterBusiness ==
  /\ During("businessSignIn")
  /\ business' \in SignIn \ ({business} \cup revocable)
  /\ UNCHANGED consumer

LeaveBusiness ==
  During("businessLogout") /\ business' = None /\ UNCHANGED consumer

\* The gateway refuses to renew the token of the call.
Expelled ==
  /\ During("businessCall") /\ business \in revocable
  /\ business' = None
  /\ UNCHANGED consumer

LeaveAll == During("logoutAll") /\ consumer' = FALSE /\ business' = None

\* The session's idle window or absolute lifetime is over.
Lapse ==
  /\ consumer' = FALSE /\ business' = None
  /\ asking' \in {asking, None}

\* What is revocable stays so.
Next ==
  /\ revocable \subseteq revocable'
  /\ \/ Ask \/ Answered \/ Lapse \/ LeaveAll \/ Expelled
     \/ EnterConsumer \/ LeaveConsumer \/ EnterBusiness \/ LeaveBusiness
     \/ UNCHANGED <<sides, asking>>

=============================================================================
