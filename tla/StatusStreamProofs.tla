-------------------------- MODULE StatusStreamProofs --------------------------
(***************************************************************************)
(* Theorems about StatusStream for every set of clients and of places,     *)
(* checked by TLAPS.                                                       *)
(***************************************************************************)
EXTENDS StatusStream, FiniteSetTheorems, TLAPS

\* What the gateway may have read or sent: of a session that changes once, what it
\* is or what it was.
Credible == {"ACTIVE", session}

HandlerOK(k) ==
  handler[k] # None =>
    /\ handler[k].at # "read" => handler[k].current \in Credible
    /\ handler[k].at = "open" <=> k \in Subscribers
    /\ \A i \in 1 .. Len(handler[k].queue) : handler[k].queue[i] \in Credible
    /\ handler[k].queue # <<>> => handler[k].at = "open"

WatcherOK ==
  watcher # None =>
    /\ watcher.subs # {} /\ IsFiniteSet(watcher.subs)
    /\ Cardinality(watcher.subs) <= MaxPerSession
    /\ \A k \in watcher.subs : handler[k] # None
    /\ watcher.read \in Credible \cup {None}

WatchOK(c) ==
  /\ watch[c].end = None <=> watch[c].at # "ended"
  /\ watch[c].place # None => watch[c].at = "connected"

Inv ==
  /\ StreamTypeOK
  /\ \A k \in Place : HandlerOK(k)
  /\ WatcherOK
  /\ \A c \in Client : WatchOK(c)

LEMMA Constants ==
  /\ MaxPerSession \in Nat /\ MaxPerSession > 0 /\ Buffer \in Nat /\ Buffer > 0
  /\ MaxFailures \in Nat
  /\ None \notin Place /\ None \notin Status /\ None \notin Watcher /\ None \notin Handler
  /\ None \notin {"terminal", "token_expired", "closed", "error"}
BY StatusStreamAssumption, NoneIsNothing DEF Status, Final

\* What a client may become when its connection fails or ends.
LEMMA ClientFacts ==
  ASSUME NEW w \in Watch
  PROVE  /\ \A reason \in {"terminal", "token_expired", "closed", "error"} :
              /\ Ended(w, reason) \in Watch /\ Ended(w, reason).at = "ended"
              /\ Ended(w, reason).end = reason /\ Ended(w, reason).place = None
              /\ Ended(w, reason).told = w.told
         /\ Waiting(w) \in Watch /\ Waiting(w).at = "waiting" /\ Waiting(w).place = None
         /\ Waiting(w).end = w.end /\ Waiting(w).told = w.told
<1>1. 0 \in 0 .. MaxFailures
  BY Constants
<1> QED BY <1>1 DEF Watch, Ended, Waiting

LEMMA FailedFacts ==
  ASSUME NEW w \in Watch, w.end = None
  PROVE  /\ Failed(w) \in Watch /\ Failed(w).place = None /\ Failed(w).told = w.told
         /\ \/ Failed(w).at = "ended" /\ Failed(w).end = "error"
            \/ Failed(w).at = "waiting" /\ Failed(w).end = None
<1>1. CASE w.failures = MaxFailures
  BY <1>1, ClientFacts DEF Failed
<1>2. CASE w.failures # MaxFailures
  <2> SUFFICES ASSUME NEW v, v = Waiting(w), NEW n, n = v.failures + 1,
                      Failed(w) = [v EXCEPT !.failures = n]
               PROVE  /\ Failed(w) \in Watch /\ Failed(w).place = None /\ Failed(w).told = w.told
                      /\ Failed(w).at = "waiting" /\ Failed(w).end = None
    BY <1>2 DEF Failed
  <2>1. v \in Watch /\ v.at = "waiting" /\ v.place = None /\ v.end = None /\ v.told = w.told
    BY ClientFacts
  <2>2. v.failures = w.failures
    BY DEF Waiting, Watch
  <2>3. n \in 0 .. MaxFailures
    BY <1>2, <2>2, Constants DEF Watch
  <2> QED BY <2>1, <2>3 DEF Watch
<1> QED BY <1>1, <1>2

LEMMA ToldFacts ==
  ASSUME NEW w \in Watch, w.end = None, w.at = "connected", NEW status \in Status
  PROVE  /\ Told(w, status) \in Watch /\ Told(w, status).told = status
         /\ status \in Final => /\ Told(w, status).at = "ended" /\ Told(w, status).place = None
                                /\ Told(w, status).end = "terminal"
         /\ status \notin Final => /\ Told(w, status).at = "connected"
                                   /\ Told(w, status).end = None
<1> DEFINE heard == [w EXCEPT !.told = status, !.failures = 0]
<1>1. heard \in Watch /\ heard.told = status /\ heard.at = "connected" /\ heard.end = None
  <2>1. 0 \in 0 .. MaxFailures /\ status \in Status \cup {None}
    BY Constants
  <2> QED BY <2>1 DEF Watch
<1>2. Told(w, status) = IF status \in Final THEN Ended(heard, "terminal") ELSE heard
  BY DEF Told
<1> HIDE DEF heard
<1> QED BY <1>1, <1>2, ClientFacts

-----------------------------------------------------------------------------
(* Steps of the clients.                                                    *)

\* A client's step that leaves the gateway alone.
LEMMA ClientStep ==
  ASSUME Inv, NEW c \in Client, NEW w \in Watch, Tell(c, w),
         w.end = None <=> w.at # "ended",
         w.place # None => w.at = "connected",
         UNCHANGED <<session, watcher, handler, lapsed>>
  PROVE  Inv'
<1>1. watch' \in [Client -> Watch] /\ watch'[c] = w /\ \A d \in Client \ {c} : watch'[d] = watch[d]
  BY DEF Tell, Inv, StreamTypeOK
<1>2. StreamTypeOK'
  BY <1>1 DEF Inv, StreamTypeOK
<1>3. WatcherOK' /\ \A k \in Place : HandlerOK(k)'
  BY DEF Inv, WatcherOK, HandlerOK, Credible, Subscribers
<1>4. ASSUME NEW d \in Client PROVE WatchOK(d)'
  BY <1>1 DEF Inv, WatchOK
<1> QED BY <1>2, <1>3, <1>4 DEF Inv

LEMMA WatchFacts ==
  ASSUME Inv, NEW c \in Client
  PROVE  watch[c] \in Watch /\ WatchOK(c)
BY DEF Inv, StreamTypeOK

LEMMA ClientsKeep ==
  ASSUME Inv, NEW c \in Client,
         Refused(c) \/ Unreachable(c) \/ Drop(c) \/ Retry(c) \/ Close(c)
  PROVE  Inv'
<1>1. watch[c] \in Watch /\ WatchOK(c)
  BY WatchFacts
<1>2. UNCHANGED <<session, watcher, handler, lapsed>>
  BY DEF Refused, Unreachable, Drop, Retry, Close
<1>3. ASSUME NEW reason \in {"terminal", "token_expired", "closed", "error"},
             Tell(c, Ended(watch[c], reason))
      PROVE  Inv'
  <2>1. reason # None
    BY Constants
  <2> QED BY <1>1, <1>2, <1>3, <2>1, ClientFacts, ClientStep
<1>4. CASE Refused(c)
  BY <1>3, <1>4 DEF Refused
<1>5. CASE Close(c)
  BY <1>3, <1>5 DEF Close
<1>6. CASE watch[c].end = None /\ Tell(c, Failed(watch[c]))
  <2>1. "error" # None
    BY Constants
  <2> QED BY <1>1, <1>2, <1>6, <2>1, FailedFacts, ClientStep
<1>7. CASE watch[c].end = None /\ Tell(c, Waiting(watch[c]))
  BY <1>1, <1>2, <1>7, ClientFacts, ClientStep
<1>8. CASE Unreachable(c)
  BY <1>1, <1>6, <1>8 DEF Unreachable, WatchOK
<1>9. CASE Drop(c)
  BY <1>1, <1>6, <1>7, <1>9 DEF Drop, WatchOK
<1>10. CASE Retry(c)
  <2> SUFFICES ASSUME NEW w, w = [watch[c] EXCEPT !.at = "fetching"], Tell(c, w) PROVE Inv'
    BY <1>10 DEF Retry
  <2>1. w \in Watch /\ w.at = "fetching" /\ w.place = watch[c].place /\ w.end = watch[c].end
    BY <1>1 DEF Watch
  <2>2. watch[c].place = None /\ watch[c].end = None
    BY <1>1, <1>10 DEF Retry, WatchOK
  <2> QED BY <1>2, <2>1, <2>2, ClientStep
<1> QED BY <1>4, <1>5, <1>8, <1>9, <1>10

LEMMA LapseKeeps ==
  ASSUME Inv, NEW c \in Client, Lapse(c)
  PROVE  Inv'
BY DEF Lapse, Inv, StreamTypeOK, WatcherOK, HandlerOK, WatchOK, Credible, Subscribers

LEMMA ChangeKeeps ==
  ASSUME Inv, NEW status \in Status, Change(status)
  PROVE  Inv'
<1>1. session = "ACTIVE" /\ session' = status
      /\ UNCHANGED <<watcher, handler, watch, lapsed>>
  BY DEF Change, Inv, StreamTypeOK, Status
<1>2. Credible \subseteq Credible'
  BY <1>1 DEF Credible
<1>3. StreamTypeOK' /\ WatcherOK' /\ \A c \in Client : WatchOK(c)'
  BY <1>1, <1>2 DEF Inv, StreamTypeOK, WatcherOK, WatchOK
<1>4. ASSUME NEW k \in Place PROVE HandlerOK(k)'
  BY <1>1, <1>2 DEF Inv, HandlerOK, Subscribers
<1> QED BY <1>3, <1>4 DEF Inv

-----------------------------------------------------------------------------
(* Steps of the gateway.                                                    *)

LEMMA SessionFacts ==
  ASSUME Inv
  PROVE  session \in Status /\ Credible \subseteq Status
BY DEF Inv, StreamTypeOK, Credible, Status

LEMMA HandlerFacts ==
  ASSUME Inv, NEW k \in Place, handler[k] # None
  PROVE  /\ handler[k] \in Handler /\ HandlerOK(k)
         /\ handler[k].client \in Client /\ handler[k].queue \in Seq(Status)
         /\ Len(handler[k].queue) \in Nat /\ Len(handler[k].queue) <= Buffer
<1>1. handler[k] \in Handler
  BY DEF Inv, StreamTypeOK
<1>2. handler[k].queue \in Seq(Status)
  BY <1>1 DEF Handler
<1> QED BY <1>1, <1>2 DEF Inv, StreamTypeOK, Handler

\* The client of a handler becomes w, or nothing happens to it.
LEMMA ClientOfHandler ==
  ASSUME Inv, NEW c \in Client, NEW w \in Watch,
         w.end = None <=> w.at # "ended", w.place # None => w.at = "connected",
         Tell(c, w) \/ UNCHANGED watch
  PROVE  watch' \in [Client -> Watch] /\ \A d \in Client : WatchOK(d)'
<1>1. CASE UNCHANGED watch
  BY <1>1 DEF Inv, StreamTypeOK, WatchOK
<1>2. CASE Tell(c, w)
  <2>1. watch' \in [Client -> Watch] /\ watch'[c] = w
        /\ \A d \in Client \ {c} : watch'[d] = watch[d]
    BY <1>2 DEF Tell, Inv, StreamTypeOK
  <2> QED BY <2>1 DEF Inv, WatchOK
<1> QED BY <1>1, <1>2

\* A connected client is one that still watches.
LEMMA ConnectedFacts ==
  ASSUME Inv, NEW k \in Place, handler[k] # None, Connected(k)
  PROVE  LET w == watch[handler[k].client] IN
         w \in Watch /\ w.at = "connected" /\ w.end = None
<1>1. handler[k].client \in Client
  BY HandlerFacts
<1>2. watch[handler[k].client].place # None
  BY Constants DEF Connected
<1> QED BY <1>1, <1>2, WatchFacts DEF WatchOK

LEMMA SendFacts ==
  ASSUME Inv, NEW k \in Place, handler[k] # None, NEW status \in Status, Send(k, status)
  PROVE  watch' \in [Client -> Watch] /\ \A d \in Client : WatchOK(d)'
<1>1. handler[k].client \in Client
  BY HandlerFacts
<1>2. CASE ~ Connected(k)
  BY <1>1, <1>2, WatchFacts, ClientOfHandler DEF Send, WatchOK
<1>3. CASE Connected(k)
  <2> SUFFICES ASSUME NEW w, w = Told(watch[handler[k].client], status)
               PROVE  watch' \in [Client -> Watch] /\ \A d \in Client : WatchOK(d)'
    OBVIOUS
  <2>1. watch[handler[k].client] \in Watch /\ watch[handler[k].client].at = "connected"
        /\ watch[handler[k].client].end = None
    BY <1>3, ConnectedFacts
  <2>2. "terminal" # None
    BY Constants
  <2>3. w \in Watch /\ (w.end = None <=> w.at # "ended") /\ (w.place # None => w.at = "connected")
    BY <2>1, <2>2, ToldFacts
  <2>4. Tell(handler[k].client, w)
    BY <1>3 DEF Send
  <2> QED BY <1>1, <2>3, <2>4, ClientOfHandler
<1> QED BY <1>2, <1>3

\* A step of the handler in k.
LEMMA HandlerStep ==
  ASSUME Inv, NEW k \in Place,
         watch' \in [Client -> Watch], \A c \in Client : WatchOK(c)',
         UNCHANGED <<session, lapsed>>,
         handler' \in [Place -> Handler \cup {None}],
         \A j \in Place \ {k} : handler'[j] = handler[j],
         watcher' \in Watcher \cup {None},
         \A j \in Place \ {k} : j \in Subscribers <=> j \in Subscribers',
         WatcherOK', HandlerOK(k)',
         handler'[k] # None => Len(handler'[k].queue) <= Buffer
  PROVE  Inv'
<1>1. StreamTypeOK'
  BY DEF Inv, StreamTypeOK
<1>2. ASSUME NEW j \in Place PROVE HandlerOK(j)'
  <2>1. CASE j # k
    <3>1. HandlerOK(j) /\ handler'[j] = handler[j] /\ (j \in Subscribers <=> j \in Subscribers')
      BY <2>1 DEF Inv
    <3> QED BY <3>1 DEF HandlerOK, Credible
  <2> QED BY <2>1
<1> QED BY <1>1, <1>2 DEF Inv

\* A handler that leaves: the others keep their places, and the watcher if there
\* are any.
LEMMA LeaveFacts ==
  ASSUME Inv, NEW k \in Place, Leave(k), session' = session
  PROVE  /\ handler' \in [Place -> Handler \cup {None}] /\ handler'[k] = None
         /\ \A j \in Place \ {k} : handler'[j] = handler[j]
         /\ watcher' \in Watcher \cup {None}
         /\ \A j \in Place \ {k} : j \in Subscribers <=> j \in Subscribers'
         /\ WatcherOK' /\ HandlerOK(k)'
<1>1. /\ handler' \in [Place -> Handler \cup {None}] /\ handler'[k] = None
      /\ \A j \in Place \ {k} : handler'[j] = handler[j]
  BY DEF Leave, Inv, StreamTypeOK
<1>2. HandlerOK(k)'
  BY <1>1 DEF HandlerOK
<1>3. CASE watcher = None
  <2>1. watcher' = None
    BY <1>3 DEF Leave, WithoutSubscriber
  <2> QED BY <1>1, <1>2, <1>3, <2>1 DEF Subscribers, WatcherOK
<1>4. CASE watcher # None /\ watcher.subs \subseteq {k}
  <2>1. watcher' = None
    BY <1>4 DEF Leave, WithoutSubscriber
  <2>2. \A j \in Place \ {k} : j \notin Subscribers /\ j \notin Subscribers'
    BY <1>4, <2>1 DEF Subscribers
  <2>3. WatcherOK'
    BY <2>1 DEF WatcherOK
  <2> QED BY <1>1, <1>2, <2>1, <2>2, <2>3
<1>5. CASE watcher # None /\ ~ (watcher.subs \subseteq {k})
  <2> SUFFICES ASSUME NEW rest, rest = watcher.subs \ {k},
                      NEW w, w = [watcher EXCEPT !.subs = rest], watcher' = w
               PROVE  /\ watcher' \in Watcher \cup {None}
                      /\ \A j \in Place \ {k} : j \in Subscribers <=> j \in Subscribers'
                      /\ WatcherOK'
    BY <1>1, <1>2, <1>5 DEF Leave, WithoutSubscriber
  <2>1. watcher \in Watcher /\ WatcherOK
    BY <1>5 DEF Inv, StreamTypeOK
  <2>2. w \in Watcher /\ w.subs = rest /\ w.read = watcher.read
    BY <2>1 DEF Watcher
  <2>3. w # None
    BY <2>2, Constants
  <2>4. rest # {} /\ IsFiniteSet(rest) /\ Cardinality(rest) <= MaxPerSession
    <3>1. IsFiniteSet(watcher.subs) /\ Cardinality(watcher.subs) <= MaxPerSession
      BY <1>5, <2>1 DEF WatcherOK
    <3>2. IsFiniteSet(rest) /\ Cardinality(rest) <= Cardinality(watcher.subs)
      BY <3>1, FS_Subset
    <3>3. Cardinality(rest) \in Nat /\ Cardinality(watcher.subs) \in Nat
      BY <3>1, <3>2, FS_CardinalityType
    <3> QED BY <1>5, <3>1, <3>2, <3>3, Constants
  <2>5. WatcherOK'
    <3>1. \A j \in rest : handler'[j] # None
      BY <1>1, <1>5, <2>1 DEF WatcherOK, Watcher
    <3>2. w.read \in (Credible \cup {None})'
      BY <1>5, <2>1, <2>2 DEF WatcherOK, Credible
    <3>3. watcher'.subs = rest /\ watcher'.read = w.read
      BY <2>2
    <3> QED BY <2>4, <3>1, <3>2, <3>3 DEF WatcherOK
  <2>6. \A j \in Place \ {k} : j \in Subscribers <=> j \in Subscribers'
    BY <1>5, <2>2, <2>3 DEF Subscribers
  <2> QED BY <2>2, <2>5, <2>6
<1> QED BY <1>3, <1>4, <1>5

LEMMA WatchStays ==
  ASSUME Inv, UNCHANGED watch
  PROVE  watch' \in [Client -> Watch] /\ \A c \in Client : WatchOK(c)'
BY DEF Inv, StreamTypeOK, WatchOK

\* What is left to show of a handler's step that leaves the watcher alone.
LEMMA WatcherStays ==
  ASSUME Inv, NEW k \in Place, UNCHANGED <<session, watcher>>, handler[k] # None,
         handler' \in [Place -> Handler \cup {None}],
         \A j \in Place \ {k} : handler'[j] = handler[j],
         k \notin Subscribers \/ handler'[k] # None
  PROVE  /\ watcher' \in Watcher \cup {None} /\ WatcherOK'
         /\ \A j \in Place : j \in Subscribers <=> j \in Subscribers'
<1>1. watcher' \in Watcher \cup {None} /\ \A j \in Place : j \in Subscribers <=> j \in Subscribers'
  BY DEF Inv, StreamTypeOK, Subscribers
<1>2. WatcherOK'
  <2> SUFFICES ASSUME watcher # None PROVE WatcherOK'
    BY DEF WatcherOK
  <2>1. watcher \in Watcher /\ WatcherOK
    BY DEF Inv, StreamTypeOK
  <2>2. \A j \in watcher.subs : handler'[j] # None
    BY <2>1 DEF WatcherOK, Watcher, Subscribers
  <2> QED BY <2>1, <2>2 DEF WatcherOK, Credible
<1> QED BY <1>1, <1>2

LEMMA ReadKeeps ==
  ASSUME Inv, NEW k \in Place, Read(k)
  PROVE  Inv'
<1> SUFFICES ASSUME NEW h, h = [handler[k] EXCEPT !.at = "admit", !.current = session],
                    handler' = [handler EXCEPT ![k] = h]
             PROVE  Inv'
  BY DEF Read
<1>1. handler[k] # None /\ handler[k].at = "read" /\ UNCHANGED <<session, watcher, watch, lapsed>>
  BY DEF Read
<1>2. handler[k] \in Handler /\ HandlerOK(k)
  BY <1>1, HandlerFacts
<1>3. session \in Status
  BY SessionFacts
<1>4. /\ h \in Handler /\ h.at = "admit" /\ h.current = session
      /\ h.queue = handler[k].queue /\ h # None
  BY <1>2, <1>3, Constants DEF Handler
<1>5. /\ handler' \in [Place -> Handler \cup {None}] /\ handler'[k] = h
      /\ \A j \in Place \ {k} : handler'[j] = handler[j]
  BY <1>4 DEF Inv, StreamTypeOK
<1>6. HandlerOK(k)'
  BY <1>1, <1>2, <1>4, <1>5 DEF HandlerOK, Credible, Subscribers
<1>7. Len(handler'[k].queue) <= Buffer
  BY <1>1, <1>4, <1>5, HandlerFacts
<1> QED BY <1>1, <1>4, <1>5, <1>6, <1>7, WatchStays, WatcherStays, HandlerStep

\* A handler that is not yet open goes away.
LEMMA GoneFacts ==
  ASSUME Inv, NEW k \in Place, handler[k] # None, handler[k].at # "open",
         handler' = [handler EXCEPT ![k] = None], UNCHANGED <<session, watcher, lapsed>>,
         watch' \in [Client -> Watch], \A c \in Client : WatchOK(c)'
  PROVE  Inv'
<1>1. /\ handler' \in [Place -> Handler \cup {None}] /\ handler'[k] = None
      /\ \A j \in Place \ {k} : handler'[j] = handler[j]
  BY DEF Inv, StreamTypeOK
<1>2. k \notin Subscribers
  BY HandlerFacts DEF HandlerOK
<1>3. HandlerOK(k)'
  BY <1>1 DEF HandlerOK
<1> QED BY <1>1, <1>2, <1>3, WatcherStays, HandlerStep

LEMMA TooManyKeeps ==
  ASSUME Inv, NEW k \in Place, TooMany(k)
  PROVE  Inv'
<1>1. /\ handler[k] # None /\ handler[k].at = "admit"
      /\ handler' = [handler EXCEPT ![k] = None] /\ UNCHANGED <<session, watcher, lapsed>>
  BY DEF TooMany
<1>2. watch' \in [Client -> Watch] /\ \A c \in Client : WatchOK(c)'
  <2>1. CASE ~ Connected(k)
    BY <2>1, WatchStays DEF TooMany
  <2>2. CASE Connected(k)
    <3> SUFFICES ASSUME NEW w, w = Failed(watch[handler[k].client])
                 PROVE  watch' \in [Client -> Watch] /\ \A c \in Client : WatchOK(c)'
      OBVIOUS
    <3>1. w \in Watch /\ w.place = None /\ (w.end = None <=> w.at # "ended")
      <4>1. "error" # None
        BY Constants
      <4> QED BY <1>1, <2>2, <4>1, ConnectedFacts, FailedFacts
    <3>2. handler[k].client \in Client /\ Tell(handler[k].client, w)
      BY <1>1, <2>2, HandlerFacts DEF TooMany
    <3> QED BY <3>1, <3>2, ClientOfHandler
  <2> QED BY <2>1, <2>2
<1> QED BY <1>1, <1>2, GoneFacts

LEMMA AdmitKeeps ==
  ASSUME Inv, NEW k \in Place, Admit(k)
  PROVE  Inv'
<1>1. /\ handler[k] # None /\ handler[k].at = "admit" /\ UNCHANGED <<session, lapsed>>
      /\ Cardinality(Subscribers) < MaxPerSession
  BY DEF Admit
<1>2. handler[k] \in Handler /\ HandlerOK(k) /\ k \notin Subscribers
  BY <1>1, HandlerFacts DEF HandlerOK
<1>3. handler[k].current \in Status
  BY <1>1, <1>2, SessionFacts DEF HandlerOK
<1>4. watch' \in [Client -> Watch] /\ \A c \in Client : WatchOK(c)'
  BY <1>1, <1>3, SendFacts DEF Admit
<1>5. CASE handler[k].current \in Final
  BY <1>1, <1>4, <1>5, GoneFacts DEF Admit
<1>6. CASE handler[k].current \notin Final
  <2> SUFFICES ASSUME NEW h, h = [handler[k] EXCEPT !.at = "open"],
                      handler' = [handler EXCEPT ![k] = h]
               PROVE  Inv'
    BY <1>6 DEF Admit
  <2>1. /\ h \in Handler /\ h # None /\ h.at = "open" /\ h.current = handler[k].current
        /\ h.queue = handler[k].queue
    BY <1>2, Constants DEF Handler
  <2>2. /\ handler' \in [Place -> Handler \cup {None}] /\ handler'[k] = h
        /\ \A j \in Place \ {k} : handler'[j] = handler[j]
    BY <2>1 DEF Inv, StreamTypeOK
  <2>3. Len(handler'[k].queue) <= Buffer
    BY <1>1, <2>1, <2>2, HandlerFacts
  <2>4. PICK subs : subs = Subscribers \cup {k}
    OBVIOUS
  <2>5. /\ watcher' \in Watcher /\ watcher'.subs = subs
        /\ watcher'.read \in (Credible \cup {None})'
    <3>1. CASE watcher = None
      BY <1>6, <2>4, <3>1 DEF Admit, Subscribers, Watcher
    <3>2. CASE watcher # None
      <4>1. watcher \in Watcher /\ WatcherOK
        BY <3>2 DEF Inv, StreamTypeOK
      <4>2. watcher' = [watcher EXCEPT !.subs = subs]
        BY <1>6, <2>4, <3>2 DEF Admit, Subscribers
      <4>3. subs \in SUBSET Place
        BY <2>4, <3>2, <4>1 DEF Subscribers, Watcher
      <4>4. watcher' \in Watcher /\ watcher'.subs = subs /\ watcher'.read = watcher.read
        BY <4>1, <4>2, <4>3 DEF Watcher
      <4> QED BY <1>1, <3>2, <4>1, <4>4 DEF WatcherOK, Credible
    <3> QED BY <3>1, <3>2
  <2>6. watcher' # None
    BY <2>5, Constants
  <2>7. IsFiniteSet(subs) /\ Cardinality(subs) <= MaxPerSession
    <3>1. IsFiniteSet(Subscribers)
      BY FS_EmptySet DEF Inv, WatcherOK, Subscribers
    <3>2. IsFiniteSet(subs) /\ Cardinality(subs) = Cardinality(Subscribers) + 1
      BY <1>2, <2>4, <3>1, FS_AddElement
    <3>3. Cardinality(Subscribers) \in Nat
      BY <3>1, FS_CardinalityType
    <3> QED BY <1>1, <3>2, <3>3, Constants
  <2>8. \A j \in subs : handler'[j] # None
    <3>1. \A j \in Subscribers : j \in Place /\ handler[j] # None
      BY DEF Subscribers, Inv, StreamTypeOK, WatcherOK, Watcher
    <3> QED BY <1>2, <2>1, <2>2, <2>4, <3>1
  <2>9. WatcherOK'
    BY <2>4, <2>5, <2>7, <2>8 DEF WatcherOK
  <2>10. Subscribers' = subs
    BY <2>5, <2>6 DEF Subscribers
  <2>11. HandlerOK(k)'
    BY <1>1, <1>2, <2>1, <2>2, <2>4, <2>10 DEF HandlerOK, Credible
  <2> QED BY <1>1, <1>4, <2>2, <2>3, <2>4, <2>5, <2>9, <2>10, <2>11, HandlerStep
<1> QED BY <1>5, <1>6

LEMMA WatcherReadsKeeps ==
  ASSUME Inv, WatcherReads
  PROVE  Inv'
<1> SUFFICES ASSUME NEW w, w = [watcher EXCEPT !.read = session], watcher' = w
             PROVE  Inv'
  BY DEF WatcherReads
<1>1. watcher # None /\ UNCHANGED <<session, handler, watch, lapsed>>
  BY DEF WatcherReads
<1>2. watcher \in Watcher /\ WatcherOK
  BY <1>1 DEF Inv, StreamTypeOK
<1>3. w \in Watcher /\ w.subs = watcher.subs /\ w.read = session
  BY <1>2, SessionFacts DEF Watcher
<1>4. w # None
  BY <1>3, Constants
<1>5. StreamTypeOK'
  BY <1>1, <1>3 DEF Inv, StreamTypeOK
<1>6. WatcherOK'
  BY <1>1, <1>2, <1>3 DEF WatcherOK, Credible
<1>7. Subscribers' = Subscribers
  BY <1>1, <1>3, <1>4 DEF Subscribers
<1>8. (\A k \in Place : HandlerOK(k)') /\ \A c \in Client : WatchOK(c)'
  BY <1>1, <1>7 DEF Inv, HandlerOK, WatchOK, Credible
<1> QED BY <1>5, <1>6, <1>8 DEF Inv

LEMMA WatcherPublishesKeeps ==
  ASSUME Inv, WatcherPublishes
  PROVE  Inv'
<1> SUFFICES ASSUME NEW w, w = [watcher EXCEPT !.last = watcher.read, !.read = None],
                    watcher' = w
             PROVE  Inv'
  BY DEF WatcherPublishes
<1>1. watcher # None /\ watcher.read # None /\ UNCHANGED <<session, watch, lapsed>>
  BY DEF WatcherPublishes
<1>2. watcher \in Watcher /\ WatcherOK /\ watcher.read \in Credible
  BY <1>1 DEF Inv, StreamTypeOK, WatcherOK
<1>3. w \in Watcher /\ w.subs = watcher.subs /\ w.read = None /\ w # None
  <2>1. w \in Watcher /\ w.subs = watcher.subs /\ w.read = None
    BY <1>2 DEF Watcher
  <2> QED BY <2>1, Constants
<1>4. Subscribers' = Subscribers
  BY <1>1, <1>3 DEF Subscribers
<1>5. ASSUME NEW k \in Place
      PROVE  \/ handler'[k] = handler[k]
             \/ /\ k \in watcher.subs /\ Len(handler[k].queue) < Buffer
                /\ handler'[k] = [handler[k] EXCEPT !.queue = Append(@, watcher.read)]
  BY DEF WatcherPublishes, Inv, StreamTypeOK
<1>6. ASSUME NEW k \in Place
      PROVE  /\ handler'[k] \in Handler \cup {None} /\ HandlerOK(k)'
             /\ handler[k] # None => handler'[k] # None
             /\ handler'[k] # None => Len(handler'[k].queue) <= Buffer
  <2>1. CASE handler'[k] = handler[k]
    BY <1>1, <1>4, <2>1 DEF Inv, StreamTypeOK, HandlerOK, Credible
  <2>2. CASE handler'[k] # handler[k]
    <3>1. k \in watcher.subs /\ Len(handler[k].queue) < Buffer
      BY <1>5, <2>2
    <3>2. handler[k] # None
      BY <1>1, <1>2, <3>1 DEF WatcherOK
    <3>3. /\ handler[k] \in Handler /\ HandlerOK(k) /\ handler[k].queue \in Seq(Status)
          /\ handler[k].at = "open" /\ watcher.read \in Status
      BY <1>1, <1>2, <3>1, <3>2, HandlerFacts, SessionFacts DEF HandlerOK, Subscribers
    <3> SUFFICES ASSUME NEW q, q = Append(handler[k].queue, watcher.read),
                        NEW h, h = [handler[k] EXCEPT !.queue = q], handler'[k] = h
                 PROVE  /\ h \in Handler \cup {None} /\ HandlerOK(k)' /\ h # None
                        /\ Len(h.queue) <= Buffer
      BY <1>5, <2>2
    <3>4. /\ q \in Seq(Status) /\ Len(q) = Len(handler[k].queue) + 1
          /\ \A i \in 1 .. Len(q) :
               q[i] = IF i <= Len(handler[k].queue) THEN handler[k].queue[i] ELSE watcher.read
      BY <3>3
    <3>5. /\ h \in Handler /\ h.at = "open" /\ h.current = handler[k].current
          /\ h.queue = q
      BY <3>3, <3>4 DEF Handler
    <3>6. h # None
      BY <3>5, Constants
    <3>7. Len(q) <= Buffer
      BY <3>1, <3>2, <3>4, HandlerFacts, Constants
    <3>8. ASSUME NEW i \in 1 .. Len(q) PROVE q[i] \in Credible
      <4>1. i <= Len(handler[k].queue) => i \in 1 .. Len(handler[k].queue)
        BY <3>2, HandlerFacts
      <4> QED BY <1>2, <3>2, <3>3, <3>4, <4>1 DEF HandlerOK
    <3>9. HandlerOK(k)'
      BY <1>1, <1>3, <1>4, <3>2, <3>3, <3>5, <3>6, <3>8 DEF HandlerOK, Credible
    <3> QED BY <3>5, <3>6, <3>7, <3>9
  <2> QED BY <2>1, <2>2
<1>7. handler' \in [Place -> Handler \cup {None}]
  <2>1. DOMAIN handler' = Place /\ handler' = [k \in Place |-> handler'[k]]
    BY DEF WatcherPublishes, Inv, StreamTypeOK
  <2> QED BY <1>6, <2>1
<1>8. StreamTypeOK'
  BY <1>1, <1>3, <1>6, <1>7 DEF Inv, StreamTypeOK
<1>9. WatcherOK'
  <2>1. \A j \in watcher.subs : j \in Place /\ handler'[j] # None
    BY <1>1, <1>2, <1>6 DEF WatcherOK, Watcher
  <2> QED BY <1>1, <1>2, <1>3, <2>1 DEF WatcherOK
<1>10. \A c \in Client : WatchOK(c)'
  BY <1>1, WatchStays
<1> QED BY <1>6, <1>8, <1>9, <1>10 DEF Inv

LEMMA LeaveKeeps ==
  ASSUME Inv, NEW k \in Place, Leave(k), UNCHANGED <<session, lapsed>>,
         watch' \in [Client -> Watch], \A c \in Client : WatchOK(c)'
  PROVE  Inv'
<1>1. session' = session
  OBVIOUS
<1>2. /\ handler' \in [Place -> Handler \cup {None}] /\ handler'[k] = None
      /\ \A j \in Place \ {k} : handler'[j] = handler[j]
      /\ watcher' \in Watcher \cup {None}
      /\ \A j \in Place \ {k} : j \in Subscribers <=> j \in Subscribers'
      /\ WatcherOK' /\ HandlerOK(k)'
  BY <1>1, LeaveFacts
<1> QED BY <1>2, HandlerStep

LEMMA DeliverKeeps ==
  ASSUME Inv, NEW k \in Place, Deliver(k)
  PROVE  Inv'
<1>1. handler[k] # None /\ handler[k].queue # <<>> /\ UNCHANGED <<session, lapsed>>
  BY DEF Deliver
<1>2. /\ handler[k] \in Handler /\ HandlerOK(k) /\ handler[k].queue \in Seq(Status)
      /\ Len(handler[k].queue) \in Nat /\ Len(handler[k].queue) <= Buffer
  BY <1>1, HandlerFacts
<1> SUFFICES ASSUME NEW status, status = Head(handler[k].queue),
                    NEW q, q = Tail(handler[k].queue)
             PROVE  Inv'
  OBVIOUS
<1>3. /\ status = handler[k].queue[1] /\ 1 \in 1 .. Len(handler[k].queue)
      /\ q \in Seq(Status) /\ Len(q) = Len(handler[k].queue) - 1
      /\ \A i \in 1 .. Len(q) : q[i] = handler[k].queue[i + 1]
  BY <1>1, <1>2
<1>4. status \in Credible /\ status \in Status
  BY <1>1, <1>2, <1>3, SessionFacts DEF HandlerOK
<1>5. watch' \in [Client -> Watch] /\ \A c \in Client : WatchOK(c)'
  BY <1>1, <1>4, WatchStays, SendFacts DEF Deliver
<1>6. CASE status \in Final
  BY <1>1, <1>5, <1>6, LeaveKeeps DEF Deliver
<1>7. CASE status \notin Final
  <2> SUFFICES ASSUME NEW h, h = [handler[k] EXCEPT !.current = status, !.queue = q],
                      handler' = [handler EXCEPT ![k] = h]
               PROVE  Inv'
    BY <1>7 DEF Deliver
  <2>1. UNCHANGED watcher
    BY <1>7 DEF Deliver
  <2>2. /\ h \in Handler /\ h.at = handler[k].at /\ h.current = status /\ h.queue = q
    BY <1>2, <1>3, <1>4 DEF Handler
  <2>3. h # None
    BY <2>2, Constants
  <2>4. /\ handler' \in [Place -> Handler \cup {None}] /\ handler'[k] = h
        /\ \A j \in Place \ {k} : handler'[j] = handler[j]
    BY <2>2 DEF Inv, StreamTypeOK
  <2>5. Len(q) <= Buffer
    BY <1>2, <1>3, Constants
  <2>6. ASSUME NEW i \in 1 .. Len(q) PROVE q[i] \in Credible
    <3>1. i + 1 \in 1 .. Len(handler[k].queue)
      BY <1>2, <1>3
    <3> QED BY <1>1, <1>2, <1>3, <3>1 DEF HandlerOK
  <2>7. handler[k].at = "open" /\ k \in Subscribers
    BY <1>1, <1>2 DEF HandlerOK
  <2>8. k \in Subscribers'
    BY <2>1, <2>7 DEF Subscribers
  <2>9. HandlerOK(k)'
    BY <1>1, <1>4, <2>2, <2>3, <2>4, <2>6, <2>7, <2>8 DEF HandlerOK, Credible
  <2> QED BY <1>1, <1>5, <2>1, <2>2, <2>3, <2>4, <2>5, <2>9, WatcherStays, HandlerStep
<1> QED BY <1>6, <1>7

LEMMA ExpireKeeps ==
  ASSUME Inv, NEW k \in Place, Expire(k)
  PROVE  Inv'
<1>1. handler[k] # None /\ Leave(k) /\ UNCHANGED <<session, lapsed>>
  BY DEF Expire
<1>2. watch' \in [Client -> Watch] /\ \A c \in Client : WatchOK(c)'
  <2>1. CASE ~ Connected(k)
    BY <2>1, WatchStays DEF Expire
  <2>2. CASE Connected(k)
    <3> SUFFICES ASSUME NEW w, w = Ended(watch[handler[k].client], "token_expired")
                 PROVE  watch' \in [Client -> Watch] /\ \A c \in Client : WatchOK(c)'
      OBVIOUS
    <3>1. w \in Watch /\ w.at = "ended" /\ w.end = "token_expired" /\ w.place = None
      BY <1>1, <2>2, ConnectedFacts, ClientFacts
    <3>2. "token_expired" # None
      BY Constants
    <3>3. handler[k].client \in Client /\ Tell(handler[k].client, w)
      BY <1>1, <2>2, HandlerFacts DEF Expire
    <3> QED BY <3>1, <3>2, <3>3, ClientOfHandler
  <2> QED BY <2>1, <2>2
<1> QED BY <1>1, <1>2, LeaveKeeps

LEMMA NoticeKeeps ==
  ASSUME Inv, NEW k \in Place, Notice(k)
  PROVE  Inv'
BY WatchStays, LeaveKeeps DEF Notice

LEMMA FetchKeeps ==
  ASSUME Inv, NEW c \in Client, NEW k \in Place, Fetch(c, k)
  PROVE  Inv'
<1> SUFFICES ASSUME NEW h, h = [at |-> "read", client |-> c, current |-> None, queue |-> <<>>],
                    handler' = [handler EXCEPT ![k] = h],
                    NEW w, w = [watch[c] EXCEPT !.at = "connected", !.place = k], Tell(c, w)
             PROVE  Inv'
  BY DEF Fetch
<1>1. /\ watch[c].at = "fetching" /\ handler[k] = None
      /\ UNCHANGED <<session, watcher, lapsed>>
  BY DEF Fetch
<1>2. watch[c] \in Watch /\ WatchOK(c)
  BY WatchFacts
<1>3. w \in Watch /\ w.at = "connected" /\ w.end = watch[c].end
  BY <1>2 DEF Watch
<1>4. watch' \in [Client -> Watch] /\ \A d \in Client : WatchOK(d)'
  BY <1>1, <1>2, <1>3, ClientOfHandler DEF WatchOK
<1>5. h \in Handler /\ h.at = "read" /\ h.queue = <<>> /\ Len(h.queue) <= Buffer
  <2>1. <<>> \in Seq(Status) /\ Len(<<>>) = 0
    OBVIOUS
  <2>2. h.queue = <<>> /\ h.at = "read" /\ h \in Handler
    BY <2>1 DEF Handler
  <2> QED BY <2>1, <2>2, Constants
<1>6. /\ handler' \in [Place -> Handler \cup {None}] /\ handler'[k] = h
      /\ \A j \in Place \ {k} : handler'[j] = handler[j]
  BY <1>5 DEF Inv, StreamTypeOK
<1>7. k \notin Subscribers /\ k \notin Subscribers'
  BY <1>1 DEF Inv, WatcherOK, Subscribers
<1>8. HandlerOK(k)'
  BY <1>5, <1>6, <1>7 DEF HandlerOK
<1>9. watcher' \in Watcher \cup {None}
      /\ \A j \in Place \ {k} : j \in Subscribers <=> j \in Subscribers'
  BY <1>1 DEF Inv, StreamTypeOK, Subscribers
<1>10. WatcherOK'
  <2> SUFFICES ASSUME watcher # None PROVE WatcherOK'
    BY <1>1 DEF WatcherOK
  <2>1. \A j \in watcher.subs : j \in Place \ {k} /\ handler[j] # None
    BY <1>1 DEF Inv, StreamTypeOK, WatcherOK, Watcher
  <2> QED BY <1>1, <1>6, <2>1 DEF Inv, WatcherOK, Credible
<1> QED BY <1>1, <1>4, <1>5, <1>6, <1>8, <1>9, <1>10, HandlerStep

-----------------------------------------------------------------------------
(* The theorems.                                                           *)

LEMMA InitInv == StreamInit => Inv
<1> SUFFICES ASSUME StreamInit PROVE Inv
  OBVIOUS
<1>1. Fetching \in Watch
  BY Constants DEF Fetching, Watch
<1>2. StreamTypeOK
  BY <1>1 DEF StreamInit, StreamTypeOK, Status
<1>3. WatcherOK /\ \A k \in Place : HandlerOK(k)
  BY DEF StreamInit, WatcherOK, HandlerOK
<1>4. \A c \in Client : WatchOK(c)
  BY DEF StreamInit, WatchOK, Fetching
<1> QED BY <1>2, <1>3, <1>4 DEF Inv

LEMMA NextInv == Inv /\ [StreamNext]_streams => Inv'
<1> SUFFICES ASSUME Inv, [StreamNext]_streams PROVE Inv'
  OBVIOUS
<1>1. CASE UNCHANGED streams
  BY <1>1 DEF streams, Inv, StreamTypeOK, HandlerOK, WatcherOK, WatchOK, Credible, Subscribers
<1>2. ASSUME NEW k \in Place, Gateway(k) PROVE Inv'
  BY <1>2, ReadKeeps, TooManyKeeps, AdmitKeeps, DeliverKeeps, ExpireKeeps, NoticeKeeps
     DEF Gateway
<1>3. ASSUME NEW k \in Place, NEW c \in Client, Fetch(c, k) PROVE Inv'
  BY <1>3, FetchKeeps
<1>4. CASE WatcherReads \/ WatcherPublishes
  BY <1>4, WatcherReadsKeeps, WatcherPublishesKeeps
<1>5. ASSUME NEW c \in Client,
             Refused(c) \/ Unreachable(c) \/ Drop(c) \/ Retry(c) \/ Close(c) \/ Lapse(c)
      PROVE  Inv'
  BY <1>5, ClientsKeep, LapseKeeps
<1>6. ASSUME NEW status \in Status, Change(status) PROVE Inv'
  BY <1>6, ChangeKeeps
<1> QED BY <1>1, <1>2, <1>3, <1>4, <1>5, <1>6 DEF StreamNext

\* Inv holds in every state the gateway and its clients reach.
THEOREM Invariant == StreamSpec => []Inv
BY InitInv, NextInv, PTL DEF StreamSpec

\* The variables keep their types, and no channel holds more than its buffer.
THEOREM TypeCorrect == StreamSpec => []StreamTypeOK
<1>1. Inv => StreamTypeOK
  BY DEF Inv
<1> QED BY <1>1, Invariant, PTL

\* The streams that are open are those the one watcher serves (realtime.go, watch and
\* its release), and no more than the session's limit.
THEOREM OneWatcher == StreamSpec => []OneWatcherServesAll
<1>1. Inv => OneWatcherServesAll
  <2> SUFFICES ASSUME Inv PROVE OneWatcherServesAll
    OBVIOUS
  <2>1. Subscribers \subseteq Place /\ \A k \in Subscribers : handler[k] # None
    BY DEF Inv, StreamTypeOK, WatcherOK, Watcher, Subscribers
  <2>2. Open = Subscribers
    BY <2>1 DEF Inv, HandlerOK, Open
  <2>3. Cardinality(Subscribers) <= MaxPerSession
    BY FS_EmptySet, Constants DEF Inv, WatcherOK, Subscribers
  <2> QED BY <2>2, <2>3 DEF OneWatcherServesAll, Inv, WatcherOK
<1> QED BY <1>1, Invariant, PTL

-----------------------------------------------------------------------------
(* Each client has its feed.                                               *)

\* A step that tells client c a status, at most, is one of its feed.
LEMMA FeedTold ==
  ASSUME Inv, NEW c \in Client, NEW k \in Place, handler[k] # None, session' = session,
         NEW status \in Credible,
         Send(k, status)
  PROVE  [Feed(c)!FeedNext]_<<session, watch[c].told, watch[c].end>>
<1>1. handler[k].client \in Client /\ status \in Status
  BY HandlerFacts, SessionFacts
<1>2. CASE c # handler[k].client \/ ~ Connected(k)
  BY <1>1, <1>2 DEF Send, Tell, Inv, StreamTypeOK
<1>3. CASE c = handler[k].client /\ Connected(k)
  <2>1. watch[c] \in Watch /\ watch[c].at = "connected" /\ watch[c].end = None
    BY <1>3, ConnectedFacts
  <2> SUFFICES ASSUME NEW w, w = Told(watch[c], status), watch'[c] = w
               PROVE  Feed(c)!FeedNext
    BY <1>1, <1>3 DEF Send, Tell, Inv, StreamTypeOK
  <2>2. w.told = status /\ w.end = IF status \in Final THEN "terminal" ELSE None
    BY <1>1, <2>1, ToldFacts
  <2>3. Feed(c)!Tell
    BY <2>1, <2>2 DEF Feed!Tell, Feed!Final, Final, Credible
  <2> QED BY <2>3 DEF Feed!FeedNext
<1> QED BY <1>2, <1>3

\* A step that ends the watch of client d, or makes it wait, is one of every feed.
LEMMA FeedEnds ==
  ASSUME Inv, NEW c \in Client, NEW d \in Client, NEW w \in Watch, Tell(d, w),
         session' = session, watch[d].end = None, w.told = watch[d].told,
         w.end \in {"token_expired", "closed", "error", None}
  PROVE  [Feed(c)!FeedNext]_<<session, watch[c].told, watch[c].end>>
<1>1. CASE c # d
  BY <1>1 DEF Tell, Inv, StreamTypeOK
<1>2. CASE c = d /\ w.end = None
  BY <1>2 DEF Tell, Inv, StreamTypeOK
<1>3. CASE c = d /\ w.end # None
  <2>1. watch'[c] = w
    BY <1>3 DEF Tell, Inv, StreamTypeOK
  <2>2. w.end \in {"token_expired", "closed", "error"}
    BY <1>3
  <2>3. Feed(c)!Stop(w.end)
    BY <1>3, <2>1 DEF Feed!Stop
  <2> QED BY <2>2, <2>3 DEF Feed!FeedNext, Feed!Ends
<1> QED BY <1>1, <1>2, <1>3

LEMMA FeedClients ==
  ASSUME Inv, NEW c \in Client, NEW d \in Client,
         \/ Refused(d) \/ Unreachable(d) \/ Drop(d) \/ Retry(d) \/ Close(d) \/ Lapse(d)
         \/ \E k \in Place : Fetch(d, k)
  PROVE  [Feed(c)!FeedNext]_<<session, watch[c].told, watch[c].end>>
<1>1. watch[d] \in Watch /\ WatchOK(d)
  BY WatchFacts
<1>2. ASSUME NEW reason \in {"token_expired", "closed", "error"}, watch[d].end = None,
             session' = session, Tell(d, Ended(watch[d], reason))
      PROVE  [Feed(c)!FeedNext]_<<session, watch[c].told, watch[c].end>>
  BY <1>1, <1>2, ClientFacts, FeedEnds
<1>3. ASSUME watch[d].end = None, session' = session, Tell(d, Failed(watch[d]))
      PROVE  [Feed(c)!FeedNext]_<<session, watch[c].told, watch[c].end>>
  BY <1>1, <1>3, FailedFacts, FeedEnds
<1>4. CASE Refused(d) \/ Close(d)
  BY <1>1, <1>2, <1>4 DEF Refused, Close, WatchOK
<1>5. CASE Unreachable(d)
  BY <1>1, <1>3, <1>5 DEF Unreachable, WatchOK
<1>6. CASE Drop(d)
  <2>1. watch[d].end = None /\ session' = session
    BY <1>1, <1>6 DEF Drop, WatchOK
  <2>2. CASE Tell(d, Waiting(watch[d]))
    BY <1>1, <2>1, <2>2, ClientFacts, FeedEnds
  <2> QED BY <1>3, <1>6, <2>1, <2>2 DEF Drop
<1>7. CASE Retry(d)
  <2> SUFFICES ASSUME NEW w, w = [watch[d] EXCEPT !.at = "fetching"], Tell(d, w)
               PROVE  [Feed(c)!FeedNext]_<<session, watch[c].told, watch[c].end>>
    BY <1>7 DEF Retry
  <2>1. w \in Watch /\ w.told = watch[d].told /\ w.end = watch[d].end
    BY <1>1 DEF Watch
  <2>2. watch[d].end = None /\ session' = session
    BY <1>1, <1>7 DEF Retry, WatchOK
  <2> QED BY <2>1, <2>2, FeedEnds
<1>8. ASSUME NEW k \in Place, Fetch(d, k)
      PROVE  [Feed(c)!FeedNext]_<<session, watch[c].told, watch[c].end>>
  <2> SUFFICES ASSUME NEW w, w = [watch[d] EXCEPT !.at = "connected", !.place = k], Tell(d, w)
               PROVE  [Feed(c)!FeedNext]_<<session, watch[c].told, watch[c].end>>
    BY <1>8 DEF Fetch
  <2>1. w \in Watch /\ w.told = watch[d].told /\ w.end = watch[d].end
    BY <1>1 DEF Watch
  <2>2. watch[d].end = None /\ session' = session
    BY <1>1, <1>8 DEF Fetch, WatchOK
  <2> QED BY <2>1, <2>2, FeedEnds
<1>9. CASE Lapse(d)
  BY <1>9 DEF Lapse
<1> QED BY <1>4, <1>5, <1>6, <1>7, <1>8, <1>9

LEMMA FeedGateway ==
  ASSUME Inv, NEW c \in Client, NEW k \in Place, Gateway(k)
  PROVE  [Feed(c)!FeedNext]_<<session, watch[c].told, watch[c].end>>
<1>1. CASE Read(k) \/ Notice(k)
  BY <1>1 DEF Read, Notice
<1>2. CASE TooMany(k)
  <2>1. CASE ~ Connected(k)
    BY <1>2, <2>1 DEF TooMany
  <2>2. CASE Connected(k)
    <3>1. handler[k] # None /\ session' = session /\ handler[k].client \in Client
          /\ Tell(handler[k].client, Failed(watch[handler[k].client]))
      BY <1>2, <2>2, HandlerFacts DEF TooMany
    <3>2. watch[handler[k].client] \in Watch /\ watch[handler[k].client].end = None
      BY <2>2, <3>1, ConnectedFacts
    <3> QED BY <3>1, <3>2, FailedFacts, FeedEnds
  <2> QED BY <2>1, <2>2
<1>3. CASE Admit(k)
  BY <1>3, HandlerFacts, FeedTold DEF Admit, HandlerOK
<1>4. CASE Deliver(k)
  <2>1. handler[k] # None /\ handler[k].queue # <<>> /\ session' = session
    BY <1>4 DEF Deliver
  <2>2. HandlerOK(k) /\ handler[k].queue \in Seq(Status)
    BY <2>1, HandlerFacts
  <2>3. Head(handler[k].queue) = handler[k].queue[1] /\ 1 \in 1 .. Len(handler[k].queue)
    BY <2>1, <2>2
  <2>4. Head(handler[k].queue) \in Credible
    BY <2>1, <2>2, <2>3 DEF HandlerOK
  <2> QED BY <1>4, <2>1, <2>4, FeedTold DEF Deliver
<1>5. CASE Expire(k)
  <2>1. CASE ~ Connected(k)
    BY <1>5, <2>1 DEF Expire
  <2>2. CASE Connected(k)
    <3>1. handler[k] # None /\ session' = session /\ handler[k].client \in Client
          /\ Tell(handler[k].client, Ended(watch[handler[k].client], "token_expired"))
      BY <1>5, <2>2, HandlerFacts DEF Expire
    <3>2. watch[handler[k].client] \in Watch /\ watch[handler[k].client].end = None
      BY <2>2, <3>1, ConnectedFacts
    <3> QED BY <3>1, <3>2, ClientFacts, FeedEnds
  <2> QED BY <2>1, <2>2
<1> QED BY <1>1, <1>2, <1>3, <1>4, <1>5 DEF Gateway

LEMMA FeedStep ==
  ASSUME Inv, [StreamNext]_streams, NEW c \in Client
  PROVE  [Feed(c)!FeedNext]_<<session, watch[c].told, watch[c].end>>
<1>1. CASE UNCHANGED streams
  BY <1>1 DEF streams
<1>2. CASE WatcherReads \/ WatcherPublishes
  BY <1>2 DEF WatcherReads, WatcherPublishes
<1>3. ASSUME NEW status \in Status, Change(status)
      PROVE  [Feed(c)!FeedNext]_<<session, watch[c].told, watch[c].end>>
  BY <1>3 DEF Change, Feed!FeedNext, Feed!Change, Feed!Status, Feed!Final, Status, Final
<1> QED BY <1>1, <1>2, <1>3, FeedGateway, FeedClients DEF StreamNext

\* What each page is told and how its watch ends is what StatusFeed promises: the
\* stream of realtime.go, read by watchStatus, implements it.
THEOREM FeedKept == StreamSpec => EachHasItsFeed
<1>1. ASSUME StreamInit, NEW c \in Client PROVE Feed(c)!FeedInit
  BY <1>1 DEF StreamInit, Fetching, Feed!FeedInit
<1>2. StreamInit => \A c \in Client : Feed(c)!FeedInit
  BY <1>1
<1>3. Inv /\ [StreamNext]_streams =>
        [\A c \in Client : [Feed(c)!FeedNext]_<<session, watch[c].told, watch[c].end>>]_streams
  BY FeedStep
<1> QED BY <1>2, <1>3, Invariant, PTL DEF StreamSpec, EachHasItsFeed

=============================================================================
