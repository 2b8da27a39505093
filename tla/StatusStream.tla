---------------------------- MODULE StatusStream ----------------------------
(***************************************************************************)
(* The status of one payment session, streamed to the pages that watch it: *)
(* the gateway's handler and its one watcher per session                   *)
(* (src/services/api-gateway/internal/handler/realtime.go) and the         *)
(* browser's watchStatus (src/apps/pay/lib/realtime-status.ts).            *)
(*                                                                         *)
(* A handler reads the session, asks for a place, sends what it read, and  *)
(* from then on what the watcher puts in its channel.  Sending a frame and *)
(* its arrival are one step: a frame lost on the way is a connection that  *)
(* dropped before it was sent.  A handler whose client is gone keeps its   *)
(* place until a write fails.                                              *)
(*                                                                         *)
(* The token of each client ends once, at a moment of its own.  The limit  *)
(* of streams per address is left out, and with it the clients that share  *)
(* one; statuses that no decision tells apart are one status.              *)
(***************************************************************************)
EXTENDS Integers, Sequences, FiniteSets

CONSTANTS
  Client,         \* pages that watch the session
  Place,          \* handlers that may be running at once
  MaxPerSession,  \* streams the gateway admits for one session
  Buffer,         \* statuses a handler's channel holds
  MaxFailures,    \* connections in a row that may fail before a client gives up
  None            \* no handler, no watcher, no status, no end

ASSUME StatusStreamAssumption ==
  /\ {MaxPerSession, Buffer} \subseteq Nat \ {0}
  /\ MaxFailures \in Nat

VARIABLES
  session,  \* the canonical status of the session
  watcher,  \* the watcher registered for it: its subscribers, what it last published
            \* and what it has read since; or None
  handler,  \* handler[k]: the stream handler in place k, or None
  watch,    \* watch[c]: client c's watchStatus
  lapsed    \* clients whose status token has ended

streams == <<session, watcher, handler, watch, lapsed>>

-----------------------------------------------------------------------------

Final == {"PAID", "EXPIRED"}
Status == {"ACTIVE"} \cup Final

Watcher == [subs : SUBSET Place, last : Status \cup {None}, read : Status \cup {None}]

\* current is the last status it read for, or sent to, its client.
Handler == [at : {"read", "admit", "open"}, client : Client,
            current : Status \cup {None}, queue : Seq(Status)]

\* told is the last status given to onStatus, end the reason given to onEnd.
Watch == [at : {"fetching", "connected", "waiting", "ended"}, place : Place \cup {None},
          failures : 0 .. MaxFailures, told : Status \cup {None},
          end : {"terminal", "token_expired", "closed", "error", None}]

ASSUME NoneIsNothing ==
  /\ None \notin Place
  /\ None \notin {"ACTIVE", "PAID", "EXPIRED", "terminal", "token_expired", "closed", "error"}
  /\ None \notin Watcher /\ None \notin Handler

Fetching == [at |-> "fetching", place |-> None, failures |-> 0, told |-> None, end |-> None]

StreamInit ==
  /\ session = "ACTIVE"
  /\ watcher = None
  /\ handler = [k \in Place |-> None]
  /\ watch = [c \in Client |-> Fetching]
  /\ lapsed = {}

-----------------------------------------------------------------------------
(* What becomes of a client.                                               *)

Ended(w, reason) ==
  [w EXCEPT !.at = "ended", !.place = None, !.failures = 0, !.end = reason]

Waiting(w) == [w EXCEPT !.at = "waiting", !.place = None]

\* A failed connection: tried again, until too many have failed in a row.
Failed(w) ==
  IF w.failures = MaxFailures THEN Ended(w, "error")
  ELSE [Waiting(w) EXCEPT !.failures = @ + 1]

ToldAndGoingOn(w, status) == [w EXCEPT !.told = status, !.failures = 0]

\* A status arrives: the failures are forgotten, and a final one ends the watch.
Told(w, status) ==
  LET heard == [w EXCEPT !.told = status, !.failures = 0] IN
  IF status \in Final THEN Ended(heard, "terminal") ELSE heard

Tell(c, w) == watch' = [watch EXCEPT ![c] = w]

\* Whether the client of handler k is still at the other end.
Connected(k) == watch[handler[k].client].place = k

\* What the handler in k sends arrives, if somebody is there.
Send(k, status) ==
  IF Connected(k)
  THEN Tell(handler[k].client, Told(watch[handler[k].client], status))
  ELSE UNCHANGED watch

-----------------------------------------------------------------------------
(* The gateway.                                                            *)

Subscribers == IF watcher = None THEN {} ELSE watcher.subs

WithoutWatcher(k) == None

\* release: the last subscriber takes the watcher with it.
WithoutSubscriber(k) ==
  IF watcher = None THEN None
  ELSE IF watcher.subs \subseteq {k} THEN None
  ELSE [watcher EXCEPT !.subs = @ \ {k}]

Leave(k) ==
  /\ handler' = [handler EXCEPT ![k] = None]
  /\ watcher' = WithoutSubscriber(k)

\* The handler reads the session, and holds no lock while it does.
Read(k) ==
  /\ handler[k] # None /\ handler[k].at = "read"
  /\ handler' = [handler EXCEPT ![k].at = "admit", ![k].current = session]
  /\ UNCHANGED <<session, watcher, watch, lapsed>>

\* admit refuses: 429, and the client tries again.
TooMany(k) ==
  /\ handler[k] # None /\ handler[k].at = "admit"
  /\ Cardinality(Subscribers) >= MaxPerSession
  /\ handler' = [handler EXCEPT ![k] = None]
  /\ IF Connected(k)
     THEN Tell(handler[k].client, Failed(watch[handler[k].client]))
     ELSE UNCHANGED watch
  /\ UNCHANGED <<session, watcher, lapsed>>

\* admit registers a subscriber of the session's watcher, started if there is none,
\* and the snapshot is sent: what the handler read before.  A final one is the end.
Admit(k) ==
  /\ handler[k] # None /\ handler[k].at = "admit"
  /\ Cardinality(Subscribers) < MaxPerSession
  /\ Send(k, handler[k].current)
  /\ IF handler[k].current \in Final
     THEN handler' = [handler EXCEPT ![k] = None] /\ UNCHANGED watcher
     ELSE /\ handler' = [handler EXCEPT ![k].at = "open"]
          /\ watcher' = IF watcher = None
                        THEN [subs |-> {k}, last |-> None, read |-> None]
                        ELSE [watcher EXCEPT !.subs = @ \cup {k}]
  /\ UNCHANGED <<session, lapsed>>

\* A tick of the watcher: it reads the session ...
WatcherReads ==
  /\ watcher # None /\ watcher.read = None
  /\ watcher' = [watcher EXCEPT !.read = session]
  /\ UNCHANGED <<session, handler, watch, lapsed>>

\* ... and puts a change in the channel of every subscriber that has room.
WatcherPublishes ==
  /\ watcher # None /\ watcher.read # None
  /\ watcher' = [watcher EXCEPT !.last = watcher.read, !.read = None]
  /\ handler' = IF watcher.last = watcher.read THEN handler
                ELSE [k \in Place |->
                       IF k \in watcher.subs /\ Len(handler[k].queue) < Buffer
                       THEN [handler[k] EXCEPT !.queue = Append(@, watcher.read)]
                       ELSE handler[k]]
  /\ UNCHANGED <<session, watch, lapsed>>

\* The handler takes a status from its channel and sends it if it is another.  A
\* final one is the last.
Deliver(k) ==
  /\ handler[k] # None /\ handler[k].queue # <<>>
  /\ LET status == Head(handler[k].queue) IN
     /\ IF status = handler[k].current THEN UNCHANGED watch ELSE Send(k, status)
     /\ IF status \in Final
        THEN Leave(k)
        ELSE /\ handler' = [handler EXCEPT ![k].current = status, ![k].queue = Tail(@)]
             /\ UNCHANGED watcher
  /\ UNCHANGED <<session, lapsed>>

ExpireOnAStatus(k) ==
  /\ handler[k] # None /\ handler[k].client \in lapsed /\ handler[k].queue # <<>>
  /\ IF Connected(k)
     THEN Tell(handler[k].client, Ended(watch[handler[k].client], "token_expired"))
     ELSE UNCHANGED watch
  /\ Leave(k)
  /\ UNCHANGED <<session, lapsed>>

\* The token's time is over: the client is told, and the stream closes.
Expire(k) ==
  /\ handler[k] # None /\ handler[k].at = "open" /\ handler[k].client \in lapsed
  /\ IF Connected(k)
     THEN Tell(handler[k].client, Ended(watch[handler[k].client], "token_expired"))
     ELSE UNCHANGED watch
  /\ Leave(k)
  /\ UNCHANGED <<session, lapsed>>

\* The client is gone: its request is cancelled, or the next heartbeat fails.
Notice(k) ==
  /\ handler[k] # None /\ ~ Connected(k)
  /\ Leave(k)
  /\ UNCHANGED <<session, watch, lapsed>>

Gateway(k) == Read(k) \/ TooMany(k) \/ Admit(k) \/ Deliver(k) \/ Expire(k) \/ Notice(k)

-----------------------------------------------------------------------------
(* The browser.                                                            *)

\* The request arrives and its token is good.
Fetch(c, k) ==
  /\ watch[c].at = "fetching" /\ c \notin lapsed
  /\ handler[k] = None
  /\ handler' = [handler EXCEPT ![k] =
                   [at |-> "read", client |-> c, current |-> None, queue |-> <<>>]]
  /\ Tell(c, [watch[c] EXCEPT !.at = "connected", !.place = k])
  /\ UNCHANGED <<session, watcher, lapsed>>

\* The request is refused: the token has ended, or for a reason that is said not
\* to change.  One of those is a session that could not be read.
Refused(c) ==
  /\ watch[c].at = "fetching"
  /\ Tell(c, Ended(watch[c], IF c \in lapsed THEN "token_expired" ELSE "error"))
  /\ UNCHANGED <<session, watcher, handler, lapsed>>

\* The request does not get through.
Unreachable(c) ==
  /\ watch[c].at = "fetching"
  /\ Tell(c, Failed(watch[c]))
  /\ UNCHANGED <<session, watcher, handler, lapsed>>

\* The connection breaks, or is closed in good order before its time.
Drop(c) ==
  /\ watch[c].at = "connected"
  /\ \/ Tell(c, Failed(watch[c]))
     \/ handler[watch[c].place].at = "open" /\ Tell(c, Waiting(watch[c]))
  /\ UNCHANGED <<session, watcher, handler, lapsed>>

Retry(c) ==
  /\ watch[c].at = "waiting"
  /\ Tell(c, [watch[c] EXCEPT !.at = "fetching"])
  /\ UNCHANGED <<session, watcher, handler, lapsed>>

Close(c) ==
  /\ watch[c].at # "ended"
  /\ Tell(c, Ended(watch[c], "closed"))
  /\ UNCHANGED <<session, watcher, handler, lapsed>>

\* A token ends: of interest while its client watches or a handler serves it.
Lapse(c) ==
  /\ c \notin lapsed
  /\ watch[c].at # "ended" \/ \E k \in Place : handler[k] # None /\ handler[k].client = c
  /\ lapsed' = lapsed \cup {c}
  /\ UNCHANGED <<session, watcher, handler, watch>>

\* What the core does with the session.
Change(status) ==
  /\ session \notin Final /\ status \in Final
  /\ session' = status
  /\ UNCHANGED <<watcher, handler, watch, lapsed>>

StreamNext ==
  \/ \E k \in Place : Gateway(k) \/ \E c \in Client : Fetch(c, k)
  \/ WatcherReads \/ WatcherPublishes
  \/ \E c \in Client : Refused(c) \/ Unreachable(c) \/ Drop(c) \/ Retry(c) \/ Close(c) \/ Lapse(c)
  \/ \E status \in Status : Change(status)

StreamSpec == StreamInit /\ [][StreamNext]_streams

-----------------------------------------------------------------------------
(* Properties.                                                             *)

StreamTypeOK ==
  /\ session \in Status
  /\ watcher \in Watcher \cup {None}
  /\ handler \in [Place -> Handler \cup {None}]
  /\ \A k \in Place : handler[k] # None => Len(handler[k].queue) <= Buffer
  /\ watch \in [Client -> Watch]
  /\ lapsed \subseteq Client

Open == {k \in Place : handler[k] # None /\ handler[k].at = "open"}

\* Every open stream is a subscriber of the one watcher that runs, no other is, and
\* they are no more than the gateway admits: streams come and go in any order and
\* none is left with a watcher that was stopped.
OneWatcherServesAll ==
  /\ Open = Subscribers
  /\ watcher # None => watcher.subs # {}
  /\ Cardinality(Open) <= MaxPerSession

Feed(c) == INSTANCE StatusFeed WITH told <- watch[c].told, end <- watch[c].end

\* To each client, every step is one that StatusFeed allows, however its connections
\* break and its handlers outlive them.
EachHasItsFeed ==
  /\ \A c \in Client : Feed(c)!FeedInit
  /\ [][\A c \in Client : [Feed(c)!FeedNext]_<<session, watch[c].told, watch[c].end>>]_streams

\* What a handler's client knows or has on its way.
Latest(k) ==
  LET q == handler[k].queue IN IF q = <<>> THEN handler[k].current ELSE q[Len(q)]

\* Said, and not so: a stream gets "each change after that" (realtime.go:42).  A
\* handler reads the session before it has a place; a change that the watcher
\* publishes in between is published to the others only.
EachChangeIsSent ==
  \A k \in Open : watcher.last = session => Latest(k) = session

=============================================================================
