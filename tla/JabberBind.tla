----------------------------- MODULE JabberBind -----------------------------
(***************************************************************************)
(* The connection manager of src/src/jabber_bind.c with the part of        *)
(* src/src/http_server.c it calls: BOSH sessions (struct JabberClient), the *)
(* http requests they hold, the messages queued for them, their timeouts,  *)
(* and the loop of jb_run that drives all of it.                           *)
(*                                                                         *)
(* The program has one thread.  Every callback that sm_poll makes runs to  *)
(* its end before the next one, so one callback is one action; what may be *)
(* interleaved is the order of the callbacks, the passing of time, and a   *)
(* signal.  What the peers do (send, close, stop reading) and what send()  *)
(* returns is chosen by \E.                                                *)
(***************************************************************************)
EXTENDS Integers, FiniteSets

CONSTANTS
    Conns,          \* the HttpConnection structs
    Clients,        \* the JabberClient structs; a client stands for its sid too
    Waits,          \* the values of JabberClient.wait, in ticks
    SessionTimeout, \* JabberBind.session_timeout, in ticks
    MaxIdle,        \* bound: an idle time is counted up to here
    MaxQueue,       \* bound: messages read in one callback, or queued
    Pipelining,     \* may a web client send a request before the last answer?
    MayRefuse,      \* may the kernel refuse a connect() at once?
    NULL

ASSUME BindAssumption ==
    /\ NULL \notin Conns \cup Clients
    /\ IsFiniteSet(Clients)
    /\ Waits \subseteq Int
    /\ SessionTimeout \in Nat
    /\ MaxIdle \in Nat
    /\ SessionTimeout <= MaxIdle
    /\ \A w \in Waits : w <= MaxIdle
    /\ MaxQueue \in Nat
    /\ Pipelining \in BOOLEAN
    /\ MayRefuse \in BOOLEAN

VARIABLES
    \* jb_run: the point of the loop, the argument of sm_poll still to
    \* elapse, and the flag that handle_signal clears
    phase, timeout, running,
    \* struct JabberBind: the list of clients, the hash of sids, the counters
    jabber_connections, sids, client_count, max_client_count,
    \* struct JabberClient, one function per field; idle[s] is the time since
    \* timestamp and output_queue[s] the number of messages in the queue
    connection, output_queue, idle, wait, jabber_sock,
    \* struct HttpConnection: the status of its socket ("freed" when the
    \* struct is not allocated), and the client its close callback is set to
    http, close_callback,
    \* the connections with a part of an answer still in their output queue
    unsent,
    \* what the web clients see: <<h, s>> when the request last sent on h for
    \* the session s has not been answered yet
    awaiting

loopVars   == <<phase, timeout, running>>
bindVars   == <<jabber_connections, sids, client_count, max_client_count>>
clientVars == <<connection, output_queue, idle, wait, jabber_sock>>
httpVars   == <<http, close_callback, unsent, awaiting>>
vars       == <<loopVars, bindVars, clientVars, httpVars>>

-----------------------------------------------------------------------------
(* Reading the state *)

Phases == {"top", "poll", "dispatch", "check", "stopped", "crashed"}

SocketStatus == {"IDLE", "CONNECTING", "CONNECTED"}

Holds(s) == connection[s] # NULL

Held(R) == {connection[s] : s \in R}

Requests == {<<connection[s], s>> : s \in {c \in Clients : Holds(c)}}

(* Time left to a client: of its request if it holds one, else of itself. *)
Remaining(s) ==
    IF Holds(s) THEN wait[s] - idle[s] ELSE SessionTimeout - idle[s]

(* jb_run does not pass a negative time to sm_poll. *)
NotNegative(t) == IF t < 0 THEN 0 ELSE t

(* Mutant: no sanity test before sm_poll. *)
DeadlinesUnclamped ==
    {SessionTimeout} \cup {Remaining(s) : s \in jabber_connections}

(* Mutant: the wait of a held request is forgotten. *)
DeadlinesOfSessions ==
    {SessionTimeout}
        \cup {NotNegative(SessionTimeout - idle[s]) : s \in jabber_connections}

Deadlines ==
    {SessionTimeout} \cup {NotNegative(Remaining(s)) : s \in jabber_connections}

(* f with the value v at every point of S. *)
Overwrite(f, S, v) == [x \in DOMAIN f |-> IF x \in S THEN v ELSE f[x]]

RequestTimedOut(s) == Holds(s) /\ idle[s] >= wait[s]

(* Mutant: sessions with queued messages are kept. *)
IdleAndEmpty(s) == ~Holds(s) /\ idle[s] >= SessionTimeout /\ output_queue[s] = 0

SessionTimedOut(s) == ~Holds(s) /\ idle[s] >= SessionTimeout

-----------------------------------------------------------------------------
(* The http server as its callers see it *)

CanWrite(H) == {h \in H : http[h] = "CONNECTED"}

(* sock_send on every connection of H: send() fails on those of F, whose   *)
(* socket is closed, and blocks on those of Q, which keep unsent data.     *)
SendTo(H, F, Q) ==
    /\ F \subseteq CanWrite(H)
    /\ Q \subseteq CanWrite(H) \ F
    /\ unsent' = (unsent \ CanWrite(H)) \cup Q

(* Mutant: hs_answer_request leaves the close callback. *)
AnswerKeepingCallback(R) ==
    LET H == Held(R) IN
    \E F \in SUBSET H : \E Q \in SUBSET (H \ F) :
        /\ SendTo(H, F, Q)
        /\ http' = Overwrite(http, F, "IDLE")
        /\ UNCHANGED close_callback
        /\ awaiting' = awaiting \ {<<connection[s], s>> : s \in R}

(* hs_answer_request for every client of R: jc_drop_request, or            *)
(* jc_flush_messages.  A connection whose socket failed stays in the list. *)
AnswerHeld(R) ==
    LET H == Held(R) IN
    \E F \in SUBSET H : \E Q \in SUBSET (H \ F) :
        /\ SendTo(H, F, Q)
        /\ http' = Overwrite(http, F, "IDLE")
        /\ close_callback' = Overwrite(close_callback, H, NULL)
        /\ awaiting' = awaiting \ {<<connection[s], s>> : s \in R}

(* The client side of an answer: the request is gone, the session active.  *)
Release(R) ==
    /\ connection' = Overwrite(connection, R, NULL)
    /\ idle' = Overwrite(idle, R, 0)

(* The client behind h has its last answer, or does not wait for answers.  *)
MayRequest(h) ==
    /\ phase = "dispatch"
    /\ http[h] = "CONNECTED"
    /\ Pipelining \/ (h \notin unsent /\ \A s \in Clients : <<h, s>> \notin awaiting)

(* Mutant: hc_delete does not call the close callback. *)
HcDeleteSilently(h) ==
    /\ http' = [http EXCEPT ![h] = "freed"]
    /\ close_callback' = [close_callback EXCEPT ![h] = NULL]
    /\ unsent' = unsent \ {h}
    /\ awaiting' = {a \in awaiting : a[1] # h}
    /\ UNCHANGED <<connection, idle>>

(* hc_delete: the close callback, jc_clear_http, runs if there is one.     *)
HcDelete(h) ==
    /\ http' = [http EXCEPT ![h] = "freed"]
    /\ close_callback' = [close_callback EXCEPT ![h] = NULL]
    /\ unsent' = unsent \ {h}
    /\ awaiting' = {a \in awaiting : a[1] # h}
    /\ Release({close_callback[h]} \ {NULL})

(* hc_read of a request that its handler answers before it returns.  When  *)
(* send() fails hc_read sees the closed socket and deletes the connection; *)
(* the close callback is already cleared, so no client is told.            *)
AnswerAtOnce(h) ==
    \E F \in SUBSET {h} : \E Q \in SUBSET ({h} \ F) :
        /\ SendTo({h}, F, Q)
        /\ http' = Overwrite(http, F, "freed")
        /\ close_callback' = [close_callback EXCEPT ![h] = NULL]
        /\ awaiting' = {a \in awaiting : a[1] \notin F}

HsAccept(h) ==
    /\ phase = "dispatch"
    /\ http[h] = "freed"
    /\ http' = [http EXCEPT ![h] = "CONNECTED"]
    /\ UNCHANGED <<loopVars, bindVars, clientVars, close_callback, unsent, awaiting>>

(* hc_handle_error, or hc_read when recv() finds the peer gone.            *)
HcClose(h) ==
    /\ phase = "dispatch"
    /\ http[h] = "CONNECTED"
    /\ HcDelete(h)
    /\ UNCHANGED <<loopVars, bindVars, output_queue, wait, jabber_sock>>

(* hc_report_error of hc_process: the one answer that leaves the close     *)
(* callback in place.                                                      *)
HcReportError(h) ==
    /\ MayRequest(h)
    /\ \/ HcDelete(h)
       \/ /\ \E Q \in SUBSET {h} : SendTo({h}, {}, Q)
          /\ UNCHANGED <<http, close_callback, awaiting, connection, idle>>
    /\ UNCHANGED <<loopVars, bindVars, output_queue, wait, jabber_sock>>

(* socket_callback on EPOLLOUT: sock_flush_data empties the queue, or      *)
(* closes the socket and tells nobody.                                     *)
HttpWritable(h) ==
    /\ phase = "dispatch"
    /\ h \in unsent
    /\ unsent' = unsent \ {h}
    /\ \E F \in SUBSET {h} : http' = Overwrite(http, F, "IDLE")
    /\ UNCHANGED <<loopVars, bindVars, clientVars, close_callback, awaiting>>

-----------------------------------------------------------------------------
(* Requests that are answered at once *)

(* jb_handle_http_get, and jc_report_error wherever jb_handle_request and  *)
(* its callees reject a request.                                           *)
AnswerNow(h) ==
    /\ MayRequest(h)
    /\ AnswerAtOnce(h)
    /\ UNCHANGED <<loopVars, bindVars, clientVars>>

JbConnectClient(h, s, w) ==
    /\ MayRequest(h)
    /\ s \notin sids
    /\ sids' = sids \cup {s}
    /\ jabber_connections' = jabber_connections \cup {s}
    /\ client_count' = client_count + 1
    /\ max_client_count' =
            IF client_count' > max_client_count THEN client_count' ELSE max_client_count
    /\ connection' = [connection EXCEPT ![s] = NULL]
    /\ output_queue' = [output_queue EXCEPT ![s] = 0]
    /\ idle' = [idle EXCEPT ![s] = 0]
    /\ wait' = [wait EXCEPT ![s] = w]
    /\ jabber_sock' = [jabber_sock EXCEPT ![s] = "CONNECTING"]
    /\ AnswerAtOnce(h)
    /\ UNCHANGED loopVars

(* connect() fails before it returns: sock_connect closes the descriptor   *)
(* but keeps its number, and sock_delete hands sm_del_socket the SocketInfo *)
(* that was never made.                                                    *)
ConnectRefused(h) ==
    /\ MayRefuse
    /\ MayRequest(h)
    /\ phase' = "crashed"
    /\ UNCHANGED <<timeout, running, bindVars, clientVars, httpVars>>

-----------------------------------------------------------------------------
(* Requests of a session *)

(* Mutant: uint64_hash_erase is missing. *)
CloseButKeepSids(C) ==
    /\ jabber_connections' = jabber_connections \ C
    /\ sids' = sids
    /\ client_count' = client_count - Cardinality(C)
    /\ output_queue' = Overwrite(output_queue, C, 0)
    /\ wait' = Overwrite(wait, C, 0)
    /\ jabber_sock' = Overwrite(jabber_sock, C, "IDLE")
    /\ UNCHANGED max_client_count

(* jb_close_client for every client of C, but for the request it holds and *)
(* its idle time, which Release resets.                                    *)
JbCloseClients(C) ==
    /\ jabber_connections' = jabber_connections \ C
    /\ sids' = sids \ C
    /\ client_count' = client_count - Cardinality(C)
    /\ output_queue' = Overwrite(output_queue, C, 0)
    /\ wait' = Overwrite(wait, C, 0)
    /\ jabber_sock' = Overwrite(jabber_sock, C, "IDLE")
    /\ UNCHANGED max_client_count

(* Mutant: the old request is overwritten, not dropped. *)
SetHttpWithoutDrop(h, s, answered) ==
    LET H == IF answered THEN {h} ELSE {} IN
    \E F \in SUBSET H : \E Q \in SUBSET (H \ F) :
        LET holds == ~answered /\ h \notin F IN
        /\ SendTo(H, F, Q)
        /\ http' = Overwrite(http, F, "freed")
        /\ close_callback' = [close_callback EXCEPT ![h] = IF holds THEN s ELSE NULL]
        /\ connection' = [connection EXCEPT ![s] = IF holds THEN h ELSE NULL]
        /\ idle' = [idle EXCEPT ![s] = 0]
        /\ awaiting' = awaiting \cup (IF holds THEN {<<h, s>>} ELSE {})

(* jc_set_http, and what hc_read does on the way back: the request s holds *)
(* is dropped, h becomes its request, and it is answered before the        *)
(* handler returns when `answered'.  hc_read deletes h if its socket was   *)
(* closed on the way.                                                      *)
JcSetHttp(h, s, answered) ==
    LET old   == Held({c \in {s} : Holds(c)})
        H     == old \cup (IF answered THEN {h} ELSE {})
    IN
    \E F \in SUBSET H : \E Q \in SUBSET (H \ F) :
        LET holds == ~answered /\ h \notin F IN
        /\ SendTo(H, F, Q)
        /\ http' = [Overwrite(http, F, "IDLE")
                        EXCEPT ![h] = IF h \in F THEN "freed" ELSE http[h]]
        /\ close_callback' = [Overwrite(close_callback, old, NULL)
                                EXCEPT ![h] = IF holds THEN s ELSE NULL]
        /\ connection' = [connection EXCEPT ![s] = IF holds THEN h ELSE NULL]
        /\ idle' = [idle EXCEPT ![s] = 0]
        /\ awaiting' = {a \in awaiting : a # <<connection[s], s>> /\ ~(h \in F /\ a[1] = h)}
                            \cup (IF holds THEN {<<h, s>>} ELSE {})

(* jb_handle_http_post with a known sid.                                   *)
JbHandleHttpPost(h, s, terminate) ==
    /\ MayRequest(h)
    /\ s \in sids
    /\ JcSetHttp(h, s, terminate \/ output_queue[s] > 0)
    /\ IF terminate
       THEN JbCloseClients({s})
       ELSE /\ output_queue' = [output_queue EXCEPT ![s] = 0]
            /\ \/ UNCHANGED jabber_sock
               \/ /\ jabber_sock[s] = "CONNECTED"   \* sock_send fails
                  /\ jabber_sock' = [jabber_sock EXCEPT ![s] = "IDLE"]
            /\ UNCHANGED <<bindVars, wait>>
    /\ UNCHANGED loopVars

-----------------------------------------------------------------------------
(* The jabber side of a session *)

Monitored(s) == phase = "dispatch" /\ jabber_sock[s] # "IDLE"

(* jb_close_client for one client, the answer to its request included.     *)
EndSession(s) ==
    /\ AnswerHeld({c \in {s} : Holds(c)})
    /\ Release({s})
    /\ JbCloseClients({s})
    /\ UNCHANGED loopVars

JcHandleError(s) == Monitored(s) /\ EndSession(s)

JcAnswerCreation(s) ==
    /\ Monitored(s)
    /\ jabber_sock[s] = "CONNECTING"
    /\ \/ EndSession(s)
       \/ /\ jabber_sock' = [jabber_sock EXCEPT ![s] = "CONNECTED"]
          /\ UNCHANGED <<loopVars, bindVars, connection, output_queue, idle, wait, httpVars>>

(* Mutant: jc_read_jabber does not flush. *)
QueueWithoutFlush(s, msgs) ==
    /\ output_queue' = [output_queue EXCEPT ![s] = msgs]
    /\ UNCHANGED <<connection, idle, httpVars>>

(* Mutant: the flushed messages stay in the queue. *)
FlushTwice(s, msgs) ==
    /\ output_queue' = [output_queue EXCEPT ![s] = msgs]
    /\ IF Holds(s) /\ msgs > 0
       THEN AnswerHeld({s}) /\ Release({s})
       ELSE UNCHANGED <<connection, idle, httpVars>>

(* jc_flush_messages when msgs messages are queued for s.                  *)
JcFlushMessages(s, msgs) ==
    IF Holds(s) /\ msgs > 0
    THEN /\ AnswerHeld({s})
         /\ Release({s})
         /\ output_queue' = [output_queue EXCEPT ![s] = 0]
    ELSE /\ output_queue' = [output_queue EXCEPT ![s] = msgs]
         /\ UNCHANGED <<connection, idle, httpVars>>

(* jc_read_jabber: n messages arrive; `ends' when the stream or its socket *)
(* ended, or the parser failed.                                            *)
JcReadJabber(s, n, ends) ==
    /\ Monitored(s)
    /\ jabber_sock[s] = "CONNECTED"
    /\ output_queue[s] + n <= MaxQueue
    /\ IF ends
       THEN EndSession(s)
       ELSE /\ JcFlushMessages(s, output_queue[s] + n)
            /\ UNCHANGED <<loopVars, bindVars, wait, jabber_sock>>

(* sock_flush_data on EPOLLOUT fails: closed, and nobody is told.          *)
JabberWritable(s) ==
    /\ Monitored(s)
    /\ jabber_sock[s] = "CONNECTED"
    /\ jabber_sock' = [jabber_sock EXCEPT ![s] = "IDLE"]
    /\ UNCHANGED <<loopVars, bindVars, connection, output_queue, idle, wait, httpVars>>

-----------------------------------------------------------------------------
(* jb_run *)

Goto(p) == phase' = p /\ UNCHANGED <<running, bindVars, clientVars, httpVars>>

(* Mutant: the loop does not test running. *)
LoopIgnoresSignal ==
    /\ phase = "top"
    /\ timeout' \in {t \in Deadlines : \A d \in Deadlines : t <= d}
    /\ Goto("poll")

(* max_time is the least deadline.                                         *)
LoopTop ==
    /\ phase = "top"
    /\ running
    /\ timeout' \in {t \in Deadlines : \A d \in Deadlines : t <= d}
    /\ Goto("poll")

PollEvents == phase = "poll" /\ timeout' = 0 /\ Goto("dispatch")

(* Mutant: timeouts are checked only after events. *)
PollTimeoutSkipsCheck ==
    phase = "poll" /\ timeout = 0 /\ UNCHANGED timeout /\ Goto("top")

PollTimeout == phase = "poll" /\ timeout = 0 /\ UNCHANGED timeout /\ Goto("check")

DispatchDone == phase = "dispatch" /\ UNCHANGED timeout /\ Goto("check")

(* The sessions to close are listed while the requests are dropped: a      *)
(* session whose request was dropped in this pass is not on the list.      *)
JbCheckTimeout ==
    LET R == {s \in jabber_connections : RequestTimedOut(s)}
        C == {s \in jabber_connections : SessionTimedOut(s)}
    IN
    /\ phase = "check"
    /\ phase' = "top"
    /\ AnswerHeld(R)
    /\ Release(R \cup C)
    /\ JbCloseClients(C)
    /\ UNCHANGED <<timeout, running>>

(* main: jb_delete ends every session, then hs_delete every connection.    *)
JbDelete ==
    /\ phase = "top"
    /\ ~running
    /\ phase' = "stopped"
    /\ Release(jabber_connections)
    /\ JbCloseClients(jabber_connections)
    /\ http' = [h \in Conns |-> "freed"]
    /\ close_callback' = [h \in Conns |-> NULL]
    /\ unsent' = {}
    /\ awaiting' = {}
    /\ UNCHANGED <<timeout, running>>

Alive == phase \notin {"stopped", "crashed"}

(* handle_signal; a signal ends the wait of epoll_wait, unless it comes    *)
(* between the test of running and the call.                               *)
HandleSignal ==
    /\ Alive
    /\ running
    /\ running' = FALSE
    /\ phase' \in {phase} \cup (IF phase = "poll" THEN {"check"} ELSE {})
    /\ UNCHANGED <<timeout, bindVars, clientVars, httpVars>>

(* Time passes at any point of the loop.                                   *)
Tick ==
    /\ Alive
    /\ idle' = [s \in Clients |->
                    IF s \in jabber_connections /\ idle[s] < MaxIdle
                    THEN idle[s] + 1 ELSE idle[s]]
    /\ timeout' = IF timeout > 0 THEN timeout - 1 ELSE 0
    /\ UNCHANGED <<phase, running, bindVars, connection, output_queue, wait,
                   jabber_sock, httpVars>>

Terminated == ~Alive /\ UNCHANGED vars

-----------------------------------------------------------------------------
Init ==
    /\ phase = "top" /\ timeout = 0 /\ running = TRUE
    /\ jabber_connections = {} /\ sids = {}
    /\ client_count = 0 /\ max_client_count = 0
    /\ connection = [s \in Clients |-> NULL]
    /\ output_queue = [s \in Clients |-> 0]
    /\ idle = [s \in Clients |-> 0]
    /\ wait = [s \in Clients |-> 0]
    /\ jabber_sock = [s \in Clients |-> "IDLE"]
    /\ http = [h \in Conns |-> "freed"]
    /\ close_callback = [h \in Conns |-> NULL]
    /\ unsent = {}
    /\ awaiting = {}

HttpEvent ==
    \E h \in Conns :
        \/ HsAccept(h)
        \/ HcClose(h)
        \/ HcReportError(h)
        \/ HttpWritable(h)
        \/ AnswerNow(h)
        \/ ConnectRefused(h)
        \/ \E s \in Clients, w \in Waits : JbConnectClient(h, s, w)
        \/ \E s \in Clients, terminate \in BOOLEAN : JbHandleHttpPost(h, s, terminate)

JabberEvent ==
    \E s \in Clients :
        \/ JcAnswerCreation(s)
        \/ JcHandleError(s)
        \/ JabberWritable(s)
        \/ \E n \in 0..MaxQueue, ends \in BOOLEAN : JcReadJabber(s, n, ends)

LoopStep ==
    \/ LoopTop
    \/ PollEvents
    \/ PollTimeout
    \/ DispatchDone
    \/ JbCheckTimeout
    \/ JbDelete

Next == HttpEvent \/ JabberEvent \/ LoopStep \/ HandleSignal \/ Tick \/ Terminated

Spec == Init /\ [][Next]_vars

(* The loop always goes on: a batch of events is finite, and time passes.  *)
(* Nothing is assumed of the peers, of signals, or of events to arrive.    *)
Fairness ==
    /\ WF_vars(LoopTop)
    /\ WF_vars(PollTimeout)
    /\ WF_vars(DispatchDone)
    /\ WF_vars(JbCheckTimeout)
    /\ WF_vars(JbDelete)
    /\ WF_vars(Tick)

FairSpec == Spec /\ Fairness
-----------------------------------------------------------------------------
(* Properties *)

(* Every variable has its type: among others, idle times stay within the   *)
(* bound and only allocated HttpConnections have a socket.                 *)
TypeOK ==
    /\ phase \in Phases
    /\ timeout \in 0..SessionTimeout
    /\ running \in BOOLEAN
    /\ jabber_connections \in SUBSET Clients
    /\ sids \in SUBSET Clients
    /\ client_count \in Int
    /\ max_client_count \in Int
    /\ connection \in [Clients -> Conns \cup {NULL}]
    /\ output_queue \in [Clients -> 0..MaxQueue]
    /\ idle \in [Clients -> 0..MaxIdle]
    /\ wait \in [Clients -> Waits \cup {0}]
    /\ jabber_sock \in [Clients -> SocketStatus]
    /\ http \in [Conns -> {"freed", "CONNECTED", "IDLE"}]
    /\ close_callback \in [Conns -> Clients \cup {NULL}]
    /\ unsent \in SUBSET {h \in Conns : http[h] = "CONNECTED"}
    /\ awaiting \in SUBSET (Conns \X Clients)

(* The list of clients and the hash of sids hold the same sessions, and    *)
(* the counters the status page shows count them, on every path that opens *)
(* or closes a session: a terminate request, a stream end, an error, a     *)
(* timeout, a failed connect.                                              *)
RegistryConsistent ==
    /\ sids = jabber_connections
    /\ client_count = Cardinality(jabber_connections)
    /\ client_count <= max_client_count
    /\ \A s \in Clients \ jabber_connections :
            ~Holds(s) /\ output_queue[s] = 0 /\ jabber_sock[s] = "IDLE"

(* A session's pointer to its pending request is never stale: the struct   *)
(* is allocated, its socket is open and has nothing left to send, and      *)
(* closing it tells this session.  Only web clients that wait for an       *)
(* answer before they send the next request are covered.                   *)
PendingConnectionOpen ==
    \A s \in Clients : Holds(s) =>
        /\ http[connection[s]] = "CONNECTED"
        /\ close_callback[connection[s]] = s
        /\ connection[s] \notin unsent

(* A close callback is set only while the request is pending, and for the  *)
(* live session that holds it: hc_delete never calls into a freed client.  *)
CallbackPointsToHolder ==
    \A h \in Conns : close_callback[h] # NULL =>
        /\ close_callback[h] \in jabber_connections
        /\ connection[close_callback[h]] = h

(* A request is unanswered exactly while its session holds it: none is     *)
(* forgotten when another takes its place or when the session is closed,   *)
(* and none is answered twice.                                             *)
OneAnswerPerRequest == awaiting = Requests

(* Messages never wait behind a request they could be the answer to.       *)
NoMessageBehindRequest ==
    \A s \in Clients : Holds(s) => output_queue[s] = 0

(* sm_poll is never asked to wait longer than the request or the session   *)
(* with the least time left allows, however the callbacks, the drops and   *)
(* the passing of time before the call were ordered.                       *)
NeverOversleeps ==
    phase = "poll" =>
        \A s \in jabber_connections : timeout <= NotNegative(Remaining(s))

(* A session that vanishes from the registry without an answer to a        *)
(* pending request was idle for the session timeout, or its jabber         *)
(* connection or its client ended it, or the server stops: jb_check_timeout *)
(* reaps nothing else.                                                     *)
ReapsOnlyIdleSessions ==
    [][\A s \in jabber_connections \ jabber_connections' :
            phase = "check" => ~Holds(s) /\ idle[s] >= SessionTimeout]_vars

(* A session as BoshSession sees it. *)
SessionState(s) ==
    IF s \notin jabber_connections THEN "none"
    ELSE IF Holds(s) THEN "waiting" ELSE "idle"

Sessions == INSTANCE BoshSession WITH
    Sids        <- Clients,
    session     <- [s \in Clients |-> SessionState(s)],
    undelivered <- output_queue

(* Every session, through all the callbacks and timeouts that touch it,    *)
(* behaves as BoshSession says: messages wait only while it holds no       *)
(* request, and an answer or a new request leaves none behind.             *)
ImplementsBoshSession == Sessions!Spec

(* No http connection stays in the server's list, and no session in the    *)
(* registry, with a socket that was closed under it: an error on a socket  *)
(* reaches the error callback that would remove its owner, as the comment  *)
(* of sock_set_error_callback says.                                        *)
ClosedSocketsAreReported ==
    phase = "poll" =>
        /\ \A h \in Conns : http[h] # "IDLE"
        /\ \A s \in jabber_connections : jabber_sock[s] # "IDLE"

(* jc_clear_http is called when the connection of an unanswered request    *)
(* closes, as the comments of jc_clear_http and hc_set_close_callback say: *)
(* no session goes on pointing to a freed HttpConnection.                  *)
HeldConnectionAllocated ==
    \A s \in Clients : Holds(s) => http[connection[s]] # "freed"

(* A connect() that fails makes sock_connect return 0, nothing worse.      *)
NoCrash == phase # "crashed"

(* A pending request is answered, or its connection closes, whatever the   *)
(* jabber server does or fails to do.                                      *)
RequestAnswered ==
    \A h \in Conns, s \in Clients : connection[s] = h ~> connection[s] # h

(* A session whose web client has gone away is removed.                    *)
IdleSessionReaped ==
    \A s \in Clients :
        s \in jabber_connections /\ ~Holds(s) /\ idle[s] > 0
            ~> s \notin jabber_connections \/ Holds(s) \/ idle[s] = 0

(* After SIGINT or SIGTERM the server closes everything and stops, even    *)
(* when no socket has an event and no timeout is near.                     *)
StopsAfterSignal == ~running ~> phase = "stopped"

=============================================================================
