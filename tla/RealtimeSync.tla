---------------------------- MODULE RealtimeSync ----------------------------
(***************************************************************************)
(* How a change reaches an open inbox: pg_notify inside the transaction    *)
(* (realtime-notify.ts), the relay that listens and publishes to rooms     *)
(* (realtime-relay.service.ts), the browser's socket                       *)
(* (realtime-client.ts) and the query it invalidates, with polling as the  *)
(* fallback.  Any of the connections may break.                            *)
(***************************************************************************)
EXTENDS Naturals, FiniteSets

CONSTANTS
    MaxVersion,  \* bound: changes
    MaxToken,    \* bound: access tokens
    MaxBreak     \* bound: broken connections, failed requests and rollbacks

Conn == {1, 2}   \* pg connections the relay may hold at once

VARIABLES
    writing,   \* a transaction has written and notified
    version,   \* committed changes
    conn,      \* relay: state of each connection
    pgClient,  \* relay: the connection in this.client, or 0
    timerSet,  \* relay: reconnectTimer is not null
    armed,     \* relay: the timer will fire
    stopped,   \* relay: onModuleDestroy has run
    hints,     \* published events that the socket has not handled yet
    status,    \* socket: RealtimeConnectionStatus
    sockToken, \* socket: the token in its handshake
    token,     \* the session's access token
    expired,   \* tokens up to this one have expired
    lastSeen,  \* an event was seen: the next handshake names it
    data,      \* the query: version of its data
    fetch,     \* the query: the request in flight and the version it has read
    stale,     \* the query is invalidated and will be fetched
    gap,       \* history: a hint was lost since the last resync
    breaks

svars == <<writing, version, conn, pgClient, timerSet, armed, stopped, hints, status, sockToken, token, expired,
           lastSeen, data, fetch, stale, gap, breaks>>
relay == <<conn, pgClient, timerSet, armed, stopped>>
query == <<data, fetch, stale>>
socket == <<status, sockToken, lastSeen>>

NoFetch == [pc |-> "none", got |-> 0]

TypeOK ==
    /\ writing \in BOOLEAN /\ version \in 0 .. MaxVersion
    /\ conn \in [Conn -> {"none", "connecting", "listening", "failed"}]
    /\ pgClient \in {0} \cup Conn /\ timerSet \in BOOLEAN /\ armed \in BOOLEAN /\ stopped \in BOOLEAN
    /\ hints \in 0 .. 2 * MaxVersion
    /\ status \in {"disconnected", "connecting", "connected", "reconnecting", "auth_error"}
    /\ sockToken \in 0 .. MaxToken /\ token \in 1 .. MaxToken /\ expired \in 0 .. MaxToken - 1
    /\ lastSeen \in BOOLEAN /\ data \in 0 .. MaxVersion
    /\ fetch \in [pc : {"none", "sent", "read"}, got : 0 .. MaxVersion] /\ stale \in BOOLEAN
    /\ gap \in BOOLEAN /\ breaks \in 0 .. MaxBreak

Init ==
    /\ writing = FALSE /\ version = 0
    /\ conn = [c \in Conn |-> IF c = 1 THEN "connecting" ELSE "none"]
    /\ pgClient = 0 /\ timerSet = FALSE /\ armed = FALSE /\ stopped = FALSE
    /\ hints = 0 /\ status = "disconnected" /\ sockToken = 0 /\ token = 1 /\ expired = 0 /\ lastSeen = FALSE
    /\ data = 0 /\ fetch = NoFetch /\ stale = TRUE /\ gap = TRUE /\ breaks = 0

Breaks == breaks < MaxBreak /\ breaks' = breaks + 1

----------------------------------------------------------------------------
(* The relay *)

Listening == {c \in Conn : conn[c] = "listening"}

\* handle: every listening connection publishes to the rooms of the workspace.
Published(h, lost) ==
    /\ hints' = IF status = "connected" THEN h + Cardinality(Listening) ELSE h
    /\ gap' = (lost \/ Listening = {} \/ status # "connected")

\* Mutant: the notification goes out before the change is visible.
NotifyOnWrite == TRUE

\* Inside a transaction NOTIFY waits for COMMIT.
NotifyEarly == FALSE

Write ==
    /\ ~writing /\ version < MaxVersion
    /\ writing' = TRUE
    /\ IF NotifyEarly THEN Published(hints, gap) ELSE UNCHANGED <<hints, gap>>
    /\ UNCHANGED <<version, relay, socket, token, expired, query, breaks>>

Commit ==
    /\ writing
    /\ writing' = FALSE /\ version' = version + 1
    /\ IF NotifyEarly THEN UNCHANGED <<hints, gap>> ELSE Published(hints, gap)
    /\ UNCHANGED <<relay, socket, token, expired, query, breaks>>

\* The notification is discarded with the transaction.
Rollback ==
    /\ writing /\ Breaks
    /\ writing' = FALSE
    /\ UNCHANGED <<version, relay, hints, socket, token, expired, query, gap>>

\* With the connection c as it is now.
scheduleReconnect(c) ==
    /\ conn' = c
    /\ IF stopped \/ timerSet THEN UNCHANGED <<pgClient, timerSet, armed>>
       ELSE pgClient' = 0 /\ timerSet' = TRUE /\ armed' = TRUE
    /\ UNCHANGED stopped

ConnectSucceeds(c) ==
    /\ conn[c] = "connecting"
    /\ conn' = [conn EXCEPT ![c] = "listening"] /\ pgClient' = c
    /\ UNCHANGED <<writing, version, timerSet, armed, stopped, hints, socket, token, expired, query, gap, breaks>>

ConnectFails(c) ==
    /\ conn[c] = "connecting" /\ Breaks
    /\ scheduleReconnect([conn EXCEPT ![c] = "none"])
    /\ UNCHANGED <<writing, version, hints, socket, token, expired, query, gap>>

\* `error' first, and `end' maybe only after the timer has fired.
ConnectionError(c) ==
    /\ conn[c] = "listening" /\ Breaks
    /\ scheduleReconnect([conn EXCEPT ![c] = "failed"])
    /\ UNCHANGED <<writing, version, hints, socket, token, expired, query, gap>>

ConnectionEnd(c) ==
    /\ conn[c] = "failed"
    /\ scheduleReconnect([conn EXCEPT ![c] = "none"])
    /\ UNCHANGED <<writing, version, hints, socket, token, expired, query, gap, breaks>>

\* Mutant: the field still holds the timer that has fired.
TimerKept == TRUE

TimerCleared == FALSE

TimerFires ==
    /\ armed /\ \E c \in Conn : conn[c] = "none"
    /\ armed' = FALSE /\ timerSet' = TimerCleared
    /\ LET c == CHOOSE c \in Conn : conn[c] = "none" IN conn' = [conn EXCEPT ![c] = "connecting"]
    /\ UNCHANGED <<writing, version, pgClient, stopped, hints, socket, token, expired, query, gap, breaks>>

\* Only the connection in this.client is ended.
Stop ==
    /\ ~stopped /\ Breaks
    /\ stopped' = TRUE /\ armed' = FALSE /\ pgClient' = 0
    /\ conn' = [c \in Conn |-> IF c = pgClient THEN "none" ELSE conn[c]]
    /\ UNCHANGED <<writing, version, timerSet, hints, socket, token, expired, query, gap>>

----------------------------------------------------------------------------
(* The browser *)

\* connect(): a connected socket of the workspace is kept, with its old token.
Connect ==
    IF status = "connected" THEN UNCHANGED <<socket, hints>>
    ELSE status' = "connecting" /\ sockToken' = token /\ hints' = 0 /\ UNCHANGED lastSeen

\* A component with useRealtime is mounted.
Mount ==
    /\ status \in {"disconnected", "auth_error"} /\ Connect
    /\ UNCHANGED <<writing, version, relay, token, expired, query, gap, breaks>>

TokenRefreshed ==
    /\ token < MaxToken /\ token' = token + 1
    /\ IF status = "connected" THEN UNCHANGED <<socket, hints>>
       ELSE status' = "connecting" /\ sockToken' = token' /\ hints' = 0 /\ UNCHANGED lastSeen
    /\ UNCHANGED <<writing, version, relay, expired, query, gap, breaks>>

TokenExpires ==
    /\ expired + 1 < token /\ expired' = expired + 1
    /\ UNCHANGED <<writing, version, relay, hints, socket, token, query, gap, breaks>>

\* invalidateQueries cancels a request in flight and fetches again.
Invalidate == fetch' = NoFetch /\ stale' = TRUE

\* The gateway accepts the token, joins the room and sends `resync'.
Handshake ==
    /\ status \in {"connecting", "reconnecting"} /\ sockToken > expired
    /\ status' = "connected" /\ gap' = FALSE
    /\ Invalidate
    /\ UNCHANGED <<writing, version, relay, hints, sockToken, lastSeen, token, expired, data, breaks>>

\* `auth:error', then a disconnect after which socket.io does not try again.
HandshakeRejected ==
    /\ status \in {"connecting", "reconnecting"} /\ sockToken <= expired
    /\ status' = "auth_error"
    /\ UNCHANGED <<writing, version, relay, hints, sockToken, lastSeen, token, expired, query, gap, breaks>>

SocketDrops ==
    /\ status = "connected" /\ Breaks
    /\ status' = "reconnecting" /\ hints' = 0 /\ gap' = TRUE
    /\ UNCHANGED <<writing, version, relay, sockToken, lastSeen, token, expired, query>>

\* handleDomainEvent
HintArrives ==
    /\ status = "connected" /\ hints > 0
    /\ hints' = hints - 1 /\ lastSeen' = TRUE
    /\ Invalidate
    /\ UNCHANGED <<writing, version, relay, status, sockToken, token, expired, data, gap, breaks>>

----------------------------------------------------------------------------
(* The query *)

\* Mutant: without refetchInterval only an invalidation fetches.
PollWhenStale == stale

\* A poll is due every 15 seconds.
PollDue == TRUE

FetchSent ==
    /\ fetch = NoFetch /\ (stale \/ PollDue)
    /\ fetch' = [NoFetch EXCEPT !.pc = "sent"] /\ stale' = FALSE
    /\ UNCHANGED <<writing, version, relay, hints, socket, token, expired, data, gap, breaks>>

FetchRead ==
    /\ fetch.pc = "sent"
    /\ fetch' = [pc |-> "read", got |-> version]
    /\ UNCHANGED <<writing, version, relay, hints, socket, token, expired, data, stale, gap, breaks>>

FetchAnswered ==
    /\ fetch.pc = "read"
    /\ data' = fetch.got /\ fetch' = NoFetch
    /\ UNCHANGED <<writing, version, relay, hints, socket, token, expired, stale, gap, breaks>>

\* retry: other errors than 4xx are tried again, so the query stays invalidated.
FetchFails ==
    /\ fetch # NoFetch /\ Breaks
    /\ fetch' = NoFetch /\ stale' = TRUE
    /\ UNCHANGED <<writing, version, relay, hints, socket, token, expired, data, gap>>

Next ==
    \/ Write \/ Commit \/ Rollback \/ TimerFires \/ Stop
    \/ \E c \in Conn : ConnectSucceeds(c) \/ ConnectFails(c) \/ ConnectionError(c) \/ ConnectionEnd(c)
    \/ Mount \/ TokenRefreshed \/ TokenExpires \/ Handshake \/ HandshakeRejected \/ SocketDrops \/ HintArrives
    \/ FetchSent \/ FetchRead \/ FetchAnswered \/ FetchFails

----------------------------------------------------------------------------
(* A hint makes the inbox show the change: when no hint was lost since the *)
(* resync, none is under way and nothing is to be fetched, the data on     *)
(* display is that of the last commit.                                     *)
HintsSuffice == ~gap /\ status = "connected" /\ hints = 0 /\ fetch = NoFetch /\ ~stale => data = version

(* The relay of a running API always listens or is about to: however the   *)
(* events of its connections are interleaved, it does not give up.         *)
RelayComesBack == ~stopped => armed \/ \E c \in Conn : conn[c] \in {"connecting", "listening"}

(* The inbox shows every committed change.  With polls that are answered   *)
(* this comes about again and again, whatever became of the hints.         *)
Shown == data = version
=============================================================================
