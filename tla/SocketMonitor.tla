---------------------------- MODULE SocketMonitor ----------------------------
(***************************************************************************)
(* src/src/socket_monitor.c and the calls src/src/socket.c makes to it: the *)
(* table of SocketInfo structs, one per file descriptor and never removed, *)
(* the interest the epoll instance has of each descriptor, and sm_poll,    *)
(* which hands the events of one epoll_wait to the callbacks one by one.   *)
(*                                                                         *)
(* A callback runs to its end before the next event is looked at, but it   *)
(* may open and close any sockets on the way, its own and those whose      *)
(* events are still to come.  The kernel gives a new socket the lowest     *)
(* descriptor that is free.                                                *)
(***************************************************************************)
EXTENDS Naturals, FiniteSets

CONSTANTS
    Fds,            \* the file descriptors the process may use for sockets
    Socks,          \* the Socket structs
    MaxEvents,      \* MAX_EVENTS: events one epoll_wait returns
    NULL

ASSUME MonitorAssumption ==
    /\ Fds \subseteq Nat
    /\ IsFiniteSet(Socks)
    /\ MaxEvents \in Nat
    /\ NULL \notin Fds \cup Socks

VARIABLES
    fd,             \* Socket.fd: the descriptor of an open socket, or NULL
    user_data,      \* per descriptor, SocketInfo.user_data; NULL when callback is
    si_events,      \* per descriptor, SocketInfo.events
    interest,       \* per descriptor, what epoll watches; NULL when it does not
    socket_count,   \* SocketMonitor.socket_count
    batch,          \* the events sm_poll has not looked at yet: the descriptor
                    \* and the socket it belonged to when epoll_wait returned
    current,        \* the socket whose callback runs, or NULL
    due             \* the socket the event handed to current was about

pollVars  == <<batch, current, due>>
tableVars == <<fd, user_data, si_events, interest, socket_count>>
vars      == <<tableVars, pollVars>>

Events == {"IN", "OUT"}

Free == {f \in Fds : \A k \in Socks : fd[k] # f}

-----------------------------------------------------------------------------
(* The operations of the monitor *)

(* Mutant: sm_add_socket does not count the socket. *)
AddWithoutCount(f, k, events) ==
    /\ user_data' = [user_data EXCEPT ![f] = k]
    /\ si_events' = [si_events EXCEPT ![f] = events]
    /\ interest' = [interest EXCEPT ![f] = events]
    /\ UNCHANGED socket_count

(* sm_add_socket for the descriptor f: the SocketInfo of an earlier socket *)
(* with the same descriptor is used again.                                 *)
SmAddSocket(f, k, events) ==
    /\ user_data' = [user_data EXCEPT ![f] = k]
    /\ si_events' = [si_events EXCEPT ![f] = events]
    /\ interest' = [interest EXCEPT ![f] = events]
    /\ socket_count' = socket_count + 1

(* Mutant: the callback is left, as if the hash entry protected it. *)
DelKeepingCallback(f) ==
    /\ interest' = [interest EXCEPT ![f] = NULL]
    /\ si_events' = [si_events EXCEPT ![f] = {}]
    /\ UNCHANGED user_data
    /\ socket_count' = socket_count - 1

SmDelSocket(f) ==
    /\ interest' = [interest EXCEPT ![f] = NULL]
    /\ si_events' = [si_events EXCEPT ![f] = {}]
    /\ user_data' = [user_data EXCEPT ![f] = NULL]
    /\ socket_count' = socket_count - 1

(* Both leave the kernel's interest equal to si->events, the first by      *)
(* doing nothing when all the events are there.                            *)
SmAddEvents(f, events) ==
    /\ ~(events \subseteq si_events[f])
    /\ si_events' = [si_events EXCEPT ![f] = @ \cup events]
    /\ interest' = [interest EXCEPT ![f] = si_events'[f]]
    /\ UNCHANGED <<user_data, socket_count>>

(* Mutant: the new interest is computed, but not kept in si->events. *)
DelEventsFromKernel(f, events) ==
    /\ interest' = [interest EXCEPT ![f] = si_events[f] \ events]
    /\ UNCHANGED <<user_data, socket_count, si_events>>

SmDelEvents(f, events) ==
    /\ si_events' = [si_events EXCEPT ![f] = @ \ events]
    /\ interest' = [interest EXCEPT ![f] = si_events'[f]]
    /\ UNCHANGED <<user_data, socket_count>>

-----------------------------------------------------------------------------
(* The sockets: between polls (start, timeouts) or in a callback *)

MayRun == current # NULL \/ batch = {}

(* sock_listen, sock_connect, sock_accept *)
Open(k) ==
    /\ MayRun
    /\ fd[k] = NULL
    /\ \E f \in Free, events \in {{}, {"IN"}, {"OUT"}} :
        /\ \A g \in Free : f <= g
        /\ fd' = [fd EXCEPT ![k] = f]
        /\ SmAddSocket(f, k, events)
    /\ UNCHANGED pollVars

(* sock_close *)
Close(k) ==
    /\ MayRun
    /\ fd[k] # NULL
    /\ SmDelSocket(fd[k])
    /\ fd' = [fd EXCEPT ![k] = NULL]
    /\ UNCHANGED pollVars

(* sock_flush_data, sock_set_data_callback, sock_set_accept_callback, and  *)
(* socket_callback when a connection is made or nobody wants the data.     *)
ChangeEvents(k) ==
    /\ MayRun
    /\ fd[k] # NULL
    /\ \E e \in Events : SmAddEvents(fd[k], {e}) \/ SmDelEvents(fd[k], {e})
    /\ UNCHANGED <<fd, pollVars>>

-----------------------------------------------------------------------------
(* sm_poll *)

(* epoll_wait: any of the watched descriptors may be ready (an error is    *)
(* reported even for an empty interest), at most MaxEvents of them.        *)
EpollWait ==
    /\ current = NULL
    /\ batch = {}
    /\ batch' \in SUBSET {e \in Fds \X Socks : fd[e[2]] = e[1] /\ interest[e[1]] # NULL}
    /\ batch' # {}
    /\ Cardinality(batch') <= MaxEvents
    /\ UNCHANGED <<tableVars, current, due>>

(* Mutant: a removed socket ends the loop over the events. *)
StopAtRemoved(e) ==
    /\ current = NULL
    /\ batch' = IF user_data[e[1]] = NULL THEN {} ELSE batch \ {e}
    /\ current' = user_data[e[1]]
    /\ due' = IF user_data[e[1]] = NULL THEN NULL ELSE e[2]
    /\ UNCHANGED tableVars

(* The next event: skipped if the callback is NULL, else the callback runs. *)
Dispatch(e) ==
    /\ current = NULL
    /\ batch' = batch \ {e}
    /\ current' = user_data[e[1]]
    /\ due' = IF user_data[e[1]] = NULL THEN NULL ELSE e[2]
    /\ UNCHANGED tableVars

Return ==
    /\ current # NULL
    /\ current' = NULL
    /\ due' = NULL
    /\ UNCHANGED <<tableVars, batch>>

-----------------------------------------------------------------------------
Init ==
    /\ fd = [k \in Socks |-> NULL]
    /\ user_data = [f \in Fds |-> NULL]
    /\ si_events = [f \in Fds |-> {}]
    /\ interest = [f \in Fds |-> NULL]
    /\ socket_count = 0
    /\ batch = {}
    /\ current = NULL
    /\ due = NULL

Next ==
    \/ \E k \in Socks : Open(k) \/ Close(k) \/ ChangeEvents(k)
    \/ EpollWait
    \/ \E e \in batch : Dispatch(e)
    \/ Return

Spec == Init /\ [][Next]_vars

-----------------------------------------------------------------------------
(* Properties *)

TypeOK ==
    /\ fd \in [Socks -> Fds \cup {NULL}]
    /\ user_data \in [Fds -> Socks \cup {NULL}]
    /\ si_events \in [Fds -> SUBSET Events]
    /\ interest \in [Fds -> (SUBSET Events) \cup {NULL}]
    /\ socket_count \in Nat
    /\ batch \in SUBSET (Fds \X Socks)
    /\ current \in Socks \cup {NULL}
    /\ due \in Socks \cup {NULL}

(* A SocketInfo calls back exactly the open socket that has its descriptor: *)
(* no event, stale or not, reaches a closed and possibly freed socket, and  *)
(* no open socket is deaf.                                                  *)
CallsOpenSockets ==
    \A f \in Fds, k \in Socks : user_data[f] = k <=> fd[k] = f

(* The events field, which decides whether sm_add_events calls epoll_ctl,  *)
(* is what the kernel watches, also for a descriptor that is used again.   *)
InterestMatchesKernel ==
    \A f \in Fds :
        interest[f] = IF user_data[f] = NULL THEN NULL ELSE si_events[f]

(* The number that sm_poll logs is the number of open sockets.             *)
CountsOpenSockets == socket_count = Cardinality({k \in Socks : fd[k] # NULL})

(* sm_poll passes over an event only when the socket it was about has been *)
(* closed since: the NULL test loses no event of a socket that is open.    *)
SkipsOnlyClosedSockets ==
    [][\A e \in batch \ batch' : current' = NULL => fd[e[2]] # e[1]]_vars

(* An event is handed to the socket it was about, as the comments on the   *)
(* kept hash entry and on the NULL callback have it.                       *)
DeliversToOwner == current # NULL => current = due

=============================================================================
