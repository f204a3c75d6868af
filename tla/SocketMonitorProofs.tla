------------------------- MODULE SocketMonitorProofs -------------------------
(***************************************************************************)
(* The table of SocketMonitor is right for any number of descriptors,      *)
(* sockets and events.  The four state properties are proved together: the *)
(* count is natural only because it counts the open sockets, and it counts *)
(* them only because a descriptor belongs to one socket at a time.         *)
(***************************************************************************)
EXTENDS SocketMonitor, FiniteSetTheorems, TLAPS

OpenSocks == {k \in Socks : fd[k] # NULL}

TableInv ==
    /\ TypeOK
    /\ CallsOpenSockets
    /\ InterestMatchesKernel
    /\ socket_count = Cardinality(OpenSocks)

(* Sockets that are open have descriptors of their own: both would be the  *)
(* user_data of one SocketInfo.                                            *)
LEMMA DescriptorsDiffer ==
    ASSUME TypeOK, CallsOpenSockets,
           NEW k \in Socks, NEW l \in Socks, fd[k] # NULL, fd[k] = fd[l]
    PROVE  k = l
<1>1. fd[k] \in Fds
  BY DEF TypeOK
<1>2. user_data[fd[k]] = k
  BY <1>1 DEF CallsOpenSockets
<1>3. user_data[fd[k]] = l
  BY <1>1 DEF CallsOpenSockets
<1> QED
  BY <1>2, <1>3

LEMMA TableInit == Init => TableInv
<1> SUFFICES ASSUME Init PROVE TableInv
  OBVIOUS
<1>1. TypeOK
  BY DEF Init, TypeOK
<1>2. CallsOpenSockets /\ InterestMatchesKernel
  BY MonitorAssumption DEF Init, CallsOpenSockets, InterestMatchesKernel
<1>3. OpenSocks = {}
  BY DEF Init, OpenSocks
<1>4. socket_count = Cardinality(OpenSocks)
  BY <1>3, FS_EmptySet DEF Init
<1> QED
  BY <1>1, <1>2, <1>4 DEF TableInv

LEMMA TableOpen ==
    ASSUME TableInv, NEW k \in Socks, Open(k)
    PROVE  TableInv'
<1> USE MonitorAssumption
<1>1. PICK f \in Free : \E events \in {{}, {"IN"}, {"OUT"}} :
            /\ fd' = [fd EXCEPT ![k] = f]
            /\ SmAddSocket(f, k, events)
  BY DEF Open
<1>2. PICK events \in {{}, {"IN"}, {"OUT"}} :
            /\ fd' = [fd EXCEPT ![k] = f]
            /\ SmAddSocket(f, k, events)
  BY <1>1
<1>3. f \in Fds /\ f # NULL /\ (\A l \in Socks : fd[l] # f) /\ fd[k] = NULL
  BY DEF Free, Open
<1>4. events \in SUBSET Events
  BY DEF Events
<1>5. IsFiniteSet(OpenSocks) /\ Cardinality(OpenSocks) \in Nat
  <2>1. OpenSocks \subseteq Socks
    BY DEF OpenSocks
  <2> QED
    BY <2>1, FS_Subset, FS_CardinalityType
<1>6. TypeOK'
  BY <1>2, <1>3, <1>4 DEF TableInv, TypeOK, SmAddSocket, Open, pollVars
<1>7. CallsOpenSockets'
  BY <1>2, <1>3 DEF TableInv, TypeOK, CallsOpenSockets, SmAddSocket
<1>8. InterestMatchesKernel'
  BY <1>2, <1>3 DEF TableInv, TypeOK, InterestMatchesKernel, SmAddSocket
<1>9. socket_count' = Cardinality(OpenSocks')
  <2>1. OpenSocks' = OpenSocks \cup {k} /\ k \notin OpenSocks
    BY <1>2, <1>3 DEF TableInv, TypeOK, OpenSocks
  <2>2. Cardinality(OpenSocks \cup {k}) = Cardinality(OpenSocks) + 1
    BY <2>1, <1>5, FS_AddElement
  <2> QED
    BY <2>1, <2>2, <1>2 DEF TableInv, SmAddSocket
<1> QED
  BY <1>6, <1>7, <1>8, <1>9 DEF TableInv

LEMMA TableClose ==
    ASSUME TableInv, NEW k \in Socks, Close(k)
    PROVE  TableInv'
<1> USE MonitorAssumption
<1>1. /\ fd[k] # NULL
      /\ SmDelSocket(fd[k])
      /\ fd' = [fd EXCEPT ![k] = NULL]
      /\ UNCHANGED pollVars
  BY DEF Close
<1>2. fd[k] \in Fds
  BY <1>1 DEF TableInv, TypeOK
<1>3. \A l \in Socks : fd[l] = fd[k] => l = k
  BY <1>1, DescriptorsDiffer DEF TableInv
<1>4. /\ IsFiniteSet(OpenSocks)
      /\ OpenSocks' = OpenSocks \ {k}
      /\ k \in OpenSocks
  <2>1. OpenSocks \subseteq Socks
    BY DEF OpenSocks
  <2>2. IsFiniteSet(OpenSocks)
    BY <2>1, FS_Subset
  <2> QED
    BY <2>2, <1>1 DEF TableInv, TypeOK, OpenSocks
<1>5. /\ socket_count' = Cardinality(OpenSocks')
      /\ socket_count' \in Nat
  <2>1. /\ Cardinality(OpenSocks \ {k}) = Cardinality(OpenSocks) - 1
        /\ IsFiniteSet(OpenSocks \ {k})
    BY <1>4, FS_RemoveElement
  <2>2. Cardinality(OpenSocks \ {k}) \in Nat
    BY <2>1, FS_CardinalityType
  <2> QED
    BY <2>1, <2>2, <1>1, <1>4 DEF TableInv, SmDelSocket
<1>6. TypeOK'
  BY <1>1, <1>2, <1>5 DEF TableInv, TypeOK, SmDelSocket, pollVars
<1>7. CallsOpenSockets'
  BY <1>1, <1>2, <1>3 DEF TableInv, TypeOK, CallsOpenSockets, SmDelSocket
<1>8. InterestMatchesKernel'
  BY <1>1, <1>2 DEF TableInv, TypeOK, InterestMatchesKernel, SmDelSocket
<1> QED
  BY <1>5, <1>6, <1>7, <1>8 DEF TableInv

LEMMA TableChangeEvents ==
    ASSUME TableInv, NEW k \in Socks, ChangeEvents(k)
    PROVE  TableInv'
<1> USE MonitorAssumption
<1>1. PICK e \in Events : SmAddEvents(fd[k], {e}) \/ SmDelEvents(fd[k], {e})
  BY DEF ChangeEvents
<1>2. /\ fd[k] \in Fds
      /\ user_data[fd[k]] # NULL
      /\ UNCHANGED <<fd, user_data, socket_count, pollVars>>
  <2>1. fd[k] \in Fds
    BY DEF ChangeEvents, TableInv, TypeOK
  <2>2. user_data[fd[k]] = k /\ k # NULL
    BY <2>1 DEF TableInv, CallsOpenSockets, MonitorAssumption
  <2> QED
    BY <1>1, <2>1, <2>2 DEF ChangeEvents, SmAddEvents, SmDelEvents
<1>3. PICK S \in SUBSET Events :
            /\ si_events' = [si_events EXCEPT ![fd[k]] = S]
            /\ interest' = [interest EXCEPT ![fd[k]] = si_events'[fd[k]]]
  <2>1. CASE SmAddEvents(fd[k], {e})
    <3>1. si_events[fd[k]] \cup {e} \in SUBSET Events
      BY <1>2 DEF TableInv, TypeOK
    <3> QED
      BY <2>1, <3>1 DEF SmAddEvents
  <2>2. CASE SmDelEvents(fd[k], {e})
    <3>1. si_events[fd[k]] \ {e} \in SUBSET Events
      BY <1>2 DEF TableInv, TypeOK
    <3> QED
      BY <2>2, <3>1 DEF SmDelEvents
  <2> QED
    BY <1>1, <2>1, <2>2
<1>4. TypeOK'
  BY <1>2, <1>3 DEF TableInv, TypeOK, pollVars
<1>5. CallsOpenSockets'
  BY <1>2 DEF TableInv, CallsOpenSockets
<1>6. InterestMatchesKernel'
  BY <1>2, <1>3 DEF TableInv, TypeOK, InterestMatchesKernel
<1>7. socket_count' = Cardinality(OpenSocks')
  BY <1>2 DEF TableInv, OpenSocks
<1> QED
  BY <1>4, <1>5, <1>6, <1>7 DEF TableInv

(* sm_poll itself changes nothing in the table. *)
LEMMA TablePoll ==
    ASSUME TableInv,
           EpollWait \/ (\E e \in batch : Dispatch(e)) \/ Return \/ UNCHANGED vars
    PROVE  TableInv'
<1>1. UNCHANGED tableVars
  BY DEF EpollWait, Dispatch, Return, vars
<1>2. (batch \in SUBSET (Fds \X Socks) /\ current \in Socks \cup {NULL}
            /\ due \in Socks \cup {NULL})'
  <2>1. CASE EpollWait
    BY <2>1 DEF EpollWait, TableInv, TypeOK
  <2>2. ASSUME NEW e \in batch, Dispatch(e)
        PROVE  (batch \in SUBSET (Fds \X Socks) /\ current \in Socks \cup {NULL}
                    /\ due \in Socks \cup {NULL})'
    <3>1. e \in Fds \X Socks
      BY DEF TableInv, TypeOK
    <3> QED
      BY <2>2, <3>1 DEF Dispatch, TableInv, TypeOK
  <2>3. CASE Return
    BY <2>3 DEF Return, TableInv, TypeOK
  <2>4. CASE UNCHANGED vars
    BY <2>4 DEF vars, pollVars, TableInv, TypeOK
  <2> QED
    BY <2>1, <2>2, <2>3, <2>4
<1>3. TypeOK'
  BY <1>1, <1>2 DEF TableInv, TypeOK, tableVars
<1>4. (CallsOpenSockets /\ InterestMatchesKernel)'
  BY <1>1 DEF TableInv, CallsOpenSockets, InterestMatchesKernel, tableVars
<1>5. socket_count' = Cardinality(OpenSocks')
  BY <1>1 DEF TableInv, OpenSocks, tableVars
<1> QED
  BY <1>3, <1>4, <1>5 DEF TableInv

LEMMA TableStep == TableInv /\ [Next]_vars => TableInv'
<1> SUFFICES ASSUME TableInv, [Next]_vars PROVE TableInv'
  OBVIOUS
<1>1. ASSUME NEW k \in Socks, Open(k) \/ Close(k) \/ ChangeEvents(k)
      PROVE  TableInv'
  BY <1>1, TableOpen, TableClose, TableChangeEvents
<1>2. CASE EpollWait \/ (\E e \in batch : Dispatch(e)) \/ Return \/ UNCHANGED vars
  BY <1>2, TablePoll
<1> QED
  BY <1>1, <1>2 DEF Next

THEOREM TableAlwaysRight == Spec => []TableInv
  BY TableInit, TableStep, PTL DEF Spec

(* Type correctness; that socket_count never goes below zero is the part   *)
(* that needs the rest of TableInv.                                        *)
THEOREM MonitorTypeCorrect == Spec => []TypeOK
<1>1. TableInv => TypeOK
  BY DEF TableInv
<1> QED
  BY <1>1, TableAlwaysRight, PTL

(* However sockets are opened and closed in callbacks, and descriptors used *)
(* again, sm_poll calls only sockets that are open, each with its own       *)
(* descriptor.                                                             *)
THEOREM OnlyOpenSocketsCalled == Spec => []CallsOpenSockets
<1>1. TableInv => CallsOpenSockets
  BY DEF TableInv
<1> QED
  BY <1>1, TableAlwaysRight, PTL

(* The events field of a SocketInfo is what the kernel watches: the early  *)
(* return of sm_add_events never loses an event.                           *)
THEOREM InterestAlwaysKept == Spec => []InterestMatchesKernel
<1>1. TableInv => InterestMatchesKernel
  BY DEF TableInv
<1> QED
  BY <1>1, TableAlwaysRight, PTL

(* socket_count is the number of open sockets.                             *)
THEOREM OpenSocketsCounted == Spec => []CountsOpenSockets
<1>1. TableInv => CountsOpenSockets
  BY DEF TableInv, CountsOpenSockets, OpenSocks
<1> QED
  BY <1>1, TableAlwaysRight, PTL

(* An event is passed over only when its socket has been closed: the test   *)
(* of the callback for NULL in sm_poll loses nothing.                      *)
THEOREM SkipsOnlyClosed == Spec => SkipsOnlyClosedSockets
<1>1. ASSUME TableInv, [Next]_vars
      PROVE  [\A e \in batch \ batch' : current' = NULL => fd[e[2]] # e[1]]_vars
  <2> SUFFICES ASSUME NEW e \in batch \ batch', current' = NULL, fd[e[2]] = e[1]
               PROVE  FALSE
    BY <1>1
  <2>1. e \in Fds \X Socks
    BY <1>1 DEF TableInv, TypeOK
  <2>2. user_data[e[1]] = e[2] /\ e[2] # NULL
    BY <1>1, <2>1, MonitorAssumption DEF TableInv, CallsOpenSockets
  <2>3. batch' # batch /\ batch # {}
    OBVIOUS
  <2>4. PICK d \in batch : Dispatch(d)
    BY <1>1, <2>3
       DEF Next, Open, Close, ChangeEvents, EpollWait, Return, vars, pollVars
  <2>5. e = d
    BY <2>4 DEF Dispatch
  <2> QED
    BY <2>2, <2>4, <2>5 DEF Dispatch
<1> QED
  BY <1>1, TableAlwaysRight, PTL DEF Spec, SkipsOnlyClosedSockets
=============================================================================
