-------------------------- MODULE JabberBindProofs --------------------------
(***************************************************************************)
(* Proofs about JabberBind, for any sets of connections and sessions.      *)
(***************************************************************************)
EXTENDS JabberBind, FiniteSetTheorems, TLAPS

-----------------------------------------------------------------------------
(* What the helpers of JabberBind do to the variables they prime *)

(* The cardinalities that client_count is computed with are numbers.       *)
LEMMA ClientSetsFinite ==
    ASSUME NEW C \in SUBSET Clients
    PROVE  IsFiniteSet(C) /\ Cardinality(C) \in Nat
BY BindAssumption, FS_Subset, FS_CardinalityType

(* Sending changes which connections have unsent data, among the open ones. *)
LEMMA SendToFacts ==
    ASSUME TypeOK, NEW H \in SUBSET Conns,
           NEW F \in SUBSET Conns, NEW Q \in SUBSET Conns, SendTo(H, F, Q)
    PROVE  /\ unsent' \subseteq {h \in Conns : http[h] = "CONNECTED"}
           /\ unsent' \cap F = {}
           /\ unsent' \subseteq unsent \cup H
           /\ F \subseteq H
BY DEF TypeOK, SendTo, CanWrite

LEMMA AnswerHeldFacts ==
    ASSUME TypeOK, NEW R \in SUBSET Clients, \A s \in R : Holds(s), AnswerHeld(R)
    PROVE  /\ http' \in [Conns -> {"freed", "CONNECTED", "IDLE"}]
           /\ unsent' \in SUBSET {h \in Conns : http'[h] = "CONNECTED"}
           /\ close_callback' \in [Conns -> Clients \cup {NULL}]
           /\ awaiting' \in SUBSET (Conns \X Clients)
           /\ unsent' \subseteq unsent \cup Held(R)
           /\ \A h \in Conns : h \notin Held(R) =>
                    http'[h] = http[h] /\ close_callback'[h] = close_callback[h]
           /\ \A h \in Held(R) : close_callback'[h] = NULL
           /\ awaiting' = awaiting \ {<<connection[s], s>> : s \in R}
<1>1. Held(R) \in SUBSET Conns
  BY BindAssumption DEF Held, Holds, TypeOK
<1>2. PICK F \in SUBSET Held(R), Q \in SUBSET Held(R) :
        /\ SendTo(Held(R), F, Q)
        /\ http' = Overwrite(http, F, "IDLE")
        /\ close_callback' = Overwrite(close_callback, Held(R), NULL)
        /\ awaiting' = awaiting \ {<<connection[s], s>> : s \in R}
  BY DEF AnswerHeld
<1>3. /\ http' \in [Conns -> {"freed", "CONNECTED", "IDLE"}]
      /\ \A h \in Conns : http'[h] = IF h \in F THEN "IDLE" ELSE http[h]
  BY <1>2 DEF TypeOK, Overwrite
<1>4. /\ close_callback' \in [Conns -> Clients \cup {NULL}]
      /\ \A h \in Conns :
            close_callback'[h] = IF h \in Held(R) THEN NULL ELSE close_callback[h]
  BY <1>2 DEF TypeOK, Overwrite
<1>5. /\ unsent' \subseteq {h \in Conns : http[h] = "CONNECTED"}
      /\ unsent' \cap F = {}
      /\ unsent' \subseteq unsent \cup Held(R)
  BY <1>1, <1>2, SendToFacts
<1>6. awaiting' \in SUBSET (Conns \X Clients)
  BY <1>2 DEF TypeOK
<1> QED
  BY <1>1, <1>2, <1>3, <1>4, <1>5, <1>6

LEMMA ReleaseFacts ==
    ASSUME TypeOK, NEW R, Release(R)
    PROVE  /\ connection' \in [Clients -> Conns \cup {NULL}]
           /\ idle' \in [Clients -> 0..MaxIdle]
           /\ \A s \in Clients : connection'[s] = IF s \in R THEN NULL ELSE connection[s]
           /\ \A s \in Clients : idle'[s] = IF s \in R THEN 0 ELSE idle[s]
<1>1. 0 \in 0..MaxIdle
  BY BindAssumption
<1> QED
  BY <1>1 DEF TypeOK, Release, Overwrite

LEMMA HcDeleteFacts ==
    ASSUME TypeOK, NEW h \in Conns, HcDelete(h)
    PROVE  /\ http' \in [Conns -> {"freed", "CONNECTED", "IDLE"}]
           /\ unsent' \in SUBSET {g \in Conns : http'[g] = "CONNECTED"}
           /\ close_callback' \in [Conns -> Clients \cup {NULL}]
           /\ awaiting' \in SUBSET (Conns \X Clients)
           /\ connection' \in [Clients -> Conns \cup {NULL}]
           /\ idle' \in [Clients -> 0..MaxIdle]
BY ReleaseFacts DEF HcDelete, TypeOK

LEMMA AnswerAtOnceFacts ==
    ASSUME TypeOK, NEW h \in Conns, AnswerAtOnce(h)
    PROVE  /\ http' \in [Conns -> {"freed", "CONNECTED", "IDLE"}]
           /\ unsent' \in SUBSET {g \in Conns : http'[g] = "CONNECTED"}
           /\ close_callback' \in [Conns -> Clients \cup {NULL}]
           /\ awaiting' \in SUBSET (Conns \X Clients)
           /\ unsent' \subseteq unsent \cup {h}
           /\ \A g \in Conns \ {h} :
                    http'[g] = http[g] /\ close_callback'[g] = close_callback[g]
           /\ close_callback'[h] = NULL
           /\ \A a \in awaiting : a[1] # h => a \in awaiting'
           /\ awaiting' \subseteq awaiting
<1>1. PICK F \in SUBSET {h}, Q \in SUBSET {h} :
        /\ SendTo({h}, F, Q)
        /\ http' = Overwrite(http, F, "freed")
        /\ close_callback' = [close_callback EXCEPT ![h] = NULL]
        /\ awaiting' = {a \in awaiting : a[1] \notin F}
  BY DEF AnswerAtOnce
<1>2. /\ http' \in [Conns -> {"freed", "CONNECTED", "IDLE"}]
      /\ \A g \in Conns : http'[g] = IF g \in F THEN "freed" ELSE http[g]
  BY <1>1 DEF TypeOK, Overwrite
<1>3. /\ unsent' \subseteq {g \in Conns : http[g] = "CONNECTED"}
      /\ unsent' \cap F = {}
      /\ unsent' \subseteq unsent \cup {h}
  <2>1. {h} \in SUBSET Conns /\ F \in SUBSET Conns /\ Q \in SUBSET Conns
    OBVIOUS
  <2> QED
    BY <1>1, <2>1, SendToFacts
<1>4. awaiting' \subseteq awaiting
  BY <1>1
<1>5. \A a \in awaiting : a[1] # h => a \in awaiting'
  BY <1>1
<1> QED
  BY <1>1, <1>2, <1>3, <1>4, <1>5 DEF TypeOK

LEMMA JbCloseClientsFacts ==
    ASSUME TypeOK, NEW C \in SUBSET Clients, JbCloseClients(C)
    PROVE  /\ jabber_connections' = jabber_connections \ C
           /\ sids' = sids \ C
           /\ client_count' = client_count - Cardinality(C)
           /\ client_count' \in Int
           /\ max_client_count' = max_client_count
           /\ output_queue' \in [Clients -> 0..MaxQueue]
           /\ wait' \in [Clients -> Waits \cup {0}]
           /\ jabber_sock' \in [Clients -> SocketStatus]
           /\ \A s \in Clients :
                /\ output_queue'[s] = IF s \in C THEN 0 ELSE output_queue[s]
                /\ wait'[s] = IF s \in C THEN 0 ELSE wait[s]
                /\ jabber_sock'[s] = IF s \in C THEN "IDLE" ELSE jabber_sock[s]
<1>1. 0 \in 0..MaxQueue /\ 0 \in Waits \cup {0} /\ "IDLE" \in SocketStatus
  BY BindAssumption DEF SocketStatus
<1>2. Cardinality(C) \in Nat
  BY ClientSetsFinite
<1>3. client_count' \in Int
  BY <1>2 DEF JbCloseClients, TypeOK
<1>4. /\ output_queue' \in [Clients -> 0..MaxQueue]
      /\ \A s \in Clients : output_queue'[s] = IF s \in C THEN 0 ELSE output_queue[s]
  BY <1>1 DEF JbCloseClients, TypeOK, Overwrite
<1>5. /\ wait' \in [Clients -> Waits \cup {0}]
      /\ \A s \in Clients : wait'[s] = IF s \in C THEN 0 ELSE wait[s]
  BY <1>1 DEF JbCloseClients, TypeOK, Overwrite
<1>6. /\ jabber_sock' \in [Clients -> SocketStatus]
      /\ \A s \in Clients : jabber_sock'[s] = IF s \in C THEN "IDLE" ELSE jabber_sock[s]
  BY <1>1 DEF JbCloseClients, TypeOK, Overwrite
<1> QED
  BY <1>3, <1>4, <1>5, <1>6 DEF JbCloseClients
(* JcSetHttp with its sets named: the connections it answers on, those     *)
(* whose send() failed, and those with unsent data.                        *)
LEMMA JcSetHttpFacts ==
    ASSUME TypeOK, NEW h \in Conns, NEW s \in Clients, NEW answered \in BOOLEAN,
           http[h] = "CONNECTED", JcSetHttp(h, s, answered)
    PROVE  /\ http' \in [Conns -> {"freed", "CONNECTED", "IDLE"}]
           /\ unsent' \in SUBSET {g \in Conns : http'[g] = "CONNECTED"}
           /\ close_callback' \in [Conns -> Clients \cup {NULL}]
           /\ awaiting' \in SUBSET (Conns \X Clients)
           /\ connection' \in [Clients -> Conns \cup {NULL}]
           /\ idle' \in [Clients -> 0..MaxIdle]
           /\ \E holds \in BOOLEAN :
                /\ answered => ~holds
                /\ holds /\ connection[s] # h => http'[h] = "CONNECTED" /\ h \notin unsent' \ unsent
                /\ \A c \in Clients \ {s} : connection'[c] = connection[c]
                /\ connection'[s] = IF holds THEN h ELSE NULL
                /\ close_callback'[h] = IF holds THEN s ELSE NULL
                /\ \A g \in Conns \ {h, connection[s]} :
                        /\ close_callback'[g] = close_callback[g]
                        /\ http'[g] = http[g]
                        /\ g \in unsent' => g \in unsent
                /\ connection[s] # h => \A g \in Conns \ {h} :
                        g = connection[s] => close_callback'[g] = NULL
                /\ \A a \in Conns \X Clients : a[1] # h /\ a[2] # s =>
                        (a \in awaiting' <=> a \in awaiting)
                /\ \A g \in Conns : g # h /\ g # connection[s] =>
                        (<<g, s>> \in awaiting' <=> <<g, s>> \in awaiting)
                /\ connection[s] # h => <<connection[s], s>> \notin awaiting'
                /\ \A c \in Clients \ {s} : <<h, c>> \notin awaiting => <<h, c>> \notin awaiting'
                /\ <<h, s>> \notin awaiting => (<<h, s>> \in awaiting' <=> holds)
<1> DEFINE old == Held({c \in {s} : Holds(c)})
           H   == old \cup (IF answered THEN {h} ELSE {})
<1>1. old = IF connection[s] = NULL THEN {} ELSE {connection[s]}
  BY DEF Held, Holds
<1> HIDE DEF old
<1>2. old \in SUBSET Conns /\ H \in SUBSET Conns
  BY <1>1 DEF TypeOK
<1> USE DEF old
<1>3. PICK F \in SUBSET H, Q \in SUBSET H :
        LET holds == ~answered /\ h \notin F IN
        /\ SendTo(H, F, Q)
        /\ http' = [Overwrite(http, F, "IDLE")
                        EXCEPT ![h] = IF h \in F THEN "freed" ELSE http[h]]
        /\ close_callback' = [Overwrite(close_callback, old, NULL)
                                EXCEPT ![h] = IF holds THEN s ELSE NULL]
        /\ connection' = [connection EXCEPT ![s] = IF holds THEN h ELSE NULL]
        /\ idle' = [idle EXCEPT ![s] = 0]
        /\ awaiting' = {a \in awaiting : a # <<connection[s], s>> /\ ~(h \in F /\ a[1] = h)}
                            \cup (IF holds THEN {<<h, s>>} ELSE {})
  BY DEF JcSetHttp
<1> DEFINE holds == ~answered /\ h \notin F
<1> HIDE DEF old, H
<1>4. /\ unsent' \subseteq {g \in Conns : http[g] = "CONNECTED"}
      /\ unsent' \cap F = {}
      /\ unsent' \subseteq unsent \cup H
  BY <1>2, <1>3, SendToFacts
<1>5. /\ http' \in [Conns -> {"freed", "CONNECTED", "IDLE"}]
      /\ \A g \in Conns : g \notin F => http'[g] = http[g]
  BY <1>3 DEF TypeOK, Overwrite
<1>6. /\ close_callback' \in [Conns -> Clients \cup {NULL}]
      /\ close_callback'[h] = IF holds THEN s ELSE NULL
      /\ \A g \in Conns \ {h} :
            close_callback'[g] = IF g \in old THEN NULL ELSE close_callback[g]
  BY <1>3 DEF TypeOK, Overwrite
<1>7. /\ connection' \in [Clients -> Conns \cup {NULL}]
      /\ connection'[s] = IF holds THEN h ELSE NULL
      /\ \A c \in Clients \ {s} : connection'[c] = connection[c]
  BY <1>3 DEF TypeOK
<1>8. idle' \in [Clients -> 0..MaxIdle]
  BY <1>3, BindAssumption DEF TypeOK
<1>9. awaiting' = {a \in awaiting : a # <<connection[s], s>> /\ ~(h \in F /\ a[1] = h)}
                            \cup (IF holds THEN {<<h, s>>} ELSE {})
  BY <1>3
<1>10. awaiting' \in SUBSET (Conns \X Clients)
  BY <1>9 DEF TypeOK
<1>11. H \subseteq {h} \cup old /\ (~answered => H = old) /\ F \subseteq H
  BY <1>3 DEF H
<1>12. holds \in BOOLEAN /\ (answered => ~holds)
  OBVIOUS
<1>13. holds /\ connection[s] # h => http'[h] = "CONNECTED" /\ h \notin unsent' \ unsent
  BY <1>1, <1>4, <1>5, <1>11
<1>14. \A g \in Conns \ {h, connection[s]} :
            /\ close_callback'[g] = close_callback[g]
            /\ http'[g] = http[g]
            /\ g \in unsent' => g \in unsent
  BY <1>1, <1>4, <1>5, <1>6, <1>11
<1>15. \A g \in Conns \ {h} : g = connection[s] => close_callback'[g] = NULL
  BY <1>1, <1>6, BindAssumption
<1>16. /\ \A a \in Conns \X Clients : a[1] # h /\ a[2] # s =>
                (a \in awaiting' <=> a \in awaiting)
       /\ \A g \in Conns : g # h /\ g # connection[s] =>
                (<<g, s>> \in awaiting' <=> <<g, s>> \in awaiting)
       /\ connection[s] # h => <<connection[s], s>> \notin awaiting'
       /\ \A c \in Clients \ {s} : <<h, c>> \notin awaiting => <<h, c>> \notin awaiting'
       /\ <<h, s>> \notin awaiting => (<<h, s>> \in awaiting' <=> holds)
  BY <1>9
<1>17. unsent' \in SUBSET {g \in Conns : http'[g] = "CONNECTED"}
  BY <1>4, <1>5
<1> HIDE DEF holds
<1> QED
  BY <1>5, <1>6, <1>7, <1>8, <1>10, <1>12, <1>13, <1>14, <1>15, <1>16, <1>17
LEMMA JcSetHttpConnection ==
    ASSUME TypeOK, NEW h \in Conns, NEW s \in Clients, NEW answered \in BOOLEAN,
           JcSetHttp(h, s, answered)
    PROVE  /\ \A c \in Clients \ {s} : connection'[c] = connection[c]
           /\ answered => connection'[s] = NULL
<1>1. \E F : connection' = [connection EXCEPT ![s] =
                                IF ~answered /\ h \notin F THEN h ELSE NULL]
  BY DEF JcSetHttp
<1> QED
  BY <1>1 DEF TypeOK

-----------------------------------------------------------------------------
(* Type correctness *)

LEMMA TypeInit == Init => TypeOK
BY BindAssumption DEF Init, TypeOK, Phases, SocketStatus

LEMMA ClientTimes ==
    ASSUME TypeOK, NEW s \in Clients
    PROVE  wait[s] \in Int /\ idle[s] \in Int /\ SessionTimeout \in Int
<1>1. wait[s] \in Waits \cup {0} /\ idle[s] \in 0..MaxIdle
  BY DEF TypeOK
<1>2. Waits \cup {0} \subseteq Int /\ 0..MaxIdle \subseteq Int
  BY BindAssumption
<1>3. SessionTimeout \in Int
  BY BindAssumption
<1> QED
  BY <1>1, <1>2, <1>3

LEMMA LoopTopFacts ==
    ASSUME TypeOK, LoopTop
    PROVE  /\ timeout' \in 0..SessionTimeout
           /\ \A s \in jabber_connections : timeout' <= NotNegative(Remaining(s))
<1>1. \A s \in Clients : NotNegative(Remaining(s)) \in Nat
  <2> SUFFICES ASSUME NEW s \in Clients PROVE NotNegative(Remaining(s)) \in Nat
    OBVIOUS
  <2>1. Remaining(s) \in Int
    BY ClientTimes DEF Remaining
  <2> QED
    BY <2>1 DEF NotNegative
<1>2. Deadlines \in SUBSET Nat /\ SessionTimeout \in Deadlines
  BY <1>1, BindAssumption DEF Deadlines, TypeOK
<1>3. timeout' \in Deadlines /\ \A d \in Deadlines : timeout' <= d
  BY DEF LoopTop
<1>4. timeout' \in 0..SessionTimeout
  BY <1>2, <1>3, BindAssumption
<1>5. \A s \in jabber_connections : NotNegative(Remaining(s)) \in Deadlines
  BY DEF Deadlines
<1> QED
  BY <1>3, <1>4, <1>5

LEMMA EndSessionType ==
    ASSUME TypeOK, NEW s \in Clients, EndSession(s)
    PROVE  TypeOK'
<1> DEFINE R == {c \in {s} : Holds(c)}
<1>1. R \in SUBSET Clients /\ \A c \in R : Holds(c)
  OBVIOUS
<1>2. /\ http' \in [Conns -> {"freed", "CONNECTED", "IDLE"}]
      /\ unsent' \in SUBSET {h \in Conns : http'[h] = "CONNECTED"}
      /\ close_callback' \in [Conns -> Clients \cup {NULL}]
      /\ awaiting' \in SUBSET (Conns \X Clients)
  BY <1>1, AnswerHeldFacts DEF EndSession
<1>3. /\ connection' \in [Clients -> Conns \cup {NULL}]
      /\ idle' \in [Clients -> 0..MaxIdle]
  BY ReleaseFacts DEF EndSession
<1>4. {s} \in SUBSET Clients /\ JbCloseClients({s})
  BY DEF EndSession
<1>5. /\ jabber_connections' \in SUBSET Clients
      /\ sids' \in SUBSET Clients
      /\ client_count' \in Int
      /\ max_client_count' \in Int
      /\ output_queue' \in [Clients -> 0..MaxQueue]
      /\ wait' \in [Clients -> Waits \cup {0}]
      /\ jabber_sock' \in [Clients -> SocketStatus]
  BY <1>4, JbCloseClientsFacts DEF TypeOK
<1>6. phase' \in Phases /\ timeout' \in 0..SessionTimeout /\ running' \in BOOLEAN
  BY DEF EndSession, loopVars, TypeOK
<1> QED
  BY <1>2, <1>3, <1>5, <1>6 DEF TypeOK

LEMMA TypeHttpEvent ==
    ASSUME TypeOK, HttpEvent
    PROVE  TypeOK'
<1>1. PICK h \in Conns :
        \/ HsAccept(h)
        \/ HcClose(h)
        \/ HcReportError(h)
        \/ HttpWritable(h)
        \/ AnswerNow(h)
        \/ ConnectRefused(h)
        \/ \E s \in Clients, w \in Waits : JbConnectClient(h, s, w)
        \/ \E s \in Clients, terminate \in BOOLEAN : JbHandleHttpPost(h, s, terminate)
  BY DEF HttpEvent
<1>2. CASE HsAccept(h)
  BY <1>2 DEF HsAccept, TypeOK, loopVars, bindVars, clientVars
<1>3. CASE HcClose(h)
  <2>1. HcDelete(h)
    BY <1>3 DEF HcClose
  <2> QED
    BY <1>3, <2>1, HcDeleteFacts DEF HcClose, TypeOK, loopVars, bindVars
<1>4. CASE HcReportError(h)
  <2>1. CASE HcDelete(h)
    BY <1>4, <2>1, HcDeleteFacts DEF HcReportError, TypeOK, loopVars, bindVars
  <2>2. CASE /\ \E Q \in SUBSET {h} : SendTo({h}, {}, Q)
             /\ UNCHANGED <<http, close_callback, awaiting, connection, idle>>
    <3>1. PICK Q \in SUBSET {h} : SendTo({h}, {}, Q)
      BY <2>2
    <3>2. {h} \in SUBSET Conns /\ {} \in SUBSET Conns /\ Q \in SUBSET Conns
      OBVIOUS
    <3>3. unsent' \subseteq {g \in Conns : http[g] = "CONNECTED"}
      BY <3>1, <3>2, SendToFacts
    <3> QED
      BY <1>4, <2>2, <3>3 DEF HcReportError, TypeOK, loopVars, bindVars
  <2> QED
    BY <1>4, <2>1, <2>2 DEF HcReportError
<1>5. CASE HttpWritable(h)
  BY <1>5 DEF HttpWritable, TypeOK, Overwrite, loopVars, bindVars, clientVars
<1>6. CASE AnswerNow(h)
  <2>1. AnswerAtOnce(h)
    BY <1>6 DEF AnswerNow
  <2> QED
    BY <1>6, <2>1, AnswerAtOnceFacts DEF AnswerNow, TypeOK, loopVars, bindVars, clientVars
<1>7. CASE ConnectRefused(h)
  BY <1>7 DEF ConnectRefused, TypeOK, Phases, bindVars, clientVars, httpVars
<1>8. CASE \E s \in Clients, w \in Waits : JbConnectClient(h, s, w)
  <2>1. PICK s \in Clients, w \in Waits : JbConnectClient(h, s, w)
    BY <1>8
  <2>2. /\ http' \in [Conns -> {"freed", "CONNECTED", "IDLE"}]
        /\ unsent' \in SUBSET {g \in Conns : http'[g] = "CONNECTED"}
        /\ close_callback' \in [Conns -> Clients \cup {NULL}]
        /\ awaiting' \in SUBSET (Conns \X Clients)
    BY <2>1, AnswerAtOnceFacts DEF JbConnectClient
  <2>3. 0 \in 0..MaxIdle /\ 0 \in 0..MaxQueue
    BY BindAssumption
  <2> QED
    BY <2>1, <2>2, <2>3 DEF JbConnectClient, TypeOK, SocketStatus, loopVars
<1>9. CASE \E s \in Clients, terminate \in BOOLEAN : JbHandleHttpPost(h, s, terminate)
  <2>1. PICK s \in Clients, terminate \in BOOLEAN : JbHandleHttpPost(h, s, terminate)
    BY <1>9
  <2>2. http[h] = "CONNECTED" /\ JcSetHttp(h, s, terminate \/ output_queue[s] > 0)
    BY <2>1 DEF JbHandleHttpPost, MayRequest
  <2>3. (terminate \/ output_queue[s] > 0) \in BOOLEAN
    OBVIOUS
  <2>4. /\ http' \in [Conns -> {"freed", "CONNECTED", "IDLE"}]
        /\ unsent' \in SUBSET {g \in Conns : http'[g] = "CONNECTED"}
        /\ close_callback' \in [Conns -> Clients \cup {NULL}]
        /\ awaiting' \in SUBSET (Conns \X Clients)
        /\ connection' \in [Clients -> Conns \cup {NULL}]
        /\ idle' \in [Clients -> 0..MaxIdle]
    BY <2>2, <2>3, JcSetHttpFacts
  <2>5. /\ jabber_connections' \in SUBSET Clients
        /\ sids' \in SUBSET Clients
        /\ client_count' \in Int
        /\ max_client_count' \in Int
        /\ output_queue' \in [Clients -> 0..MaxQueue]
        /\ wait' \in [Clients -> Waits \cup {0}]
        /\ jabber_sock' \in [Clients -> SocketStatus]
    <3>1. CASE terminate
      <4>1. {s} \in SUBSET Clients /\ JbCloseClients({s})
        BY <2>1, <3>1 DEF JbHandleHttpPost
      <4> QED
        BY <4>1, JbCloseClientsFacts DEF TypeOK
    <3>2. CASE ~terminate
      BY <2>1, <3>2, BindAssumption
        DEF JbHandleHttpPost, TypeOK, SocketStatus, bindVars
    <3> QED
      BY <3>1, <3>2
  <2> QED
    BY <2>1, <2>4, <2>5 DEF JbHandleHttpPost, TypeOK, loopVars
<1> QED
  BY <1>1, <1>2, <1>3, <1>4, <1>5, <1>6, <1>7, <1>8, <1>9

LEMMA TypeJabberEvent ==
    ASSUME TypeOK, JabberEvent
    PROVE  TypeOK'
<1>1. PICK s \in Clients :
        \/ JcAnswerCreation(s)
        \/ JcHandleError(s)
        \/ JabberWritable(s)
        \/ \E n \in 0..MaxQueue, ends \in BOOLEAN : JcReadJabber(s, n, ends)
  BY DEF JabberEvent
<1>2. CASE JcAnswerCreation(s)
  BY <1>2, EndSessionType
    DEF JcAnswerCreation, TypeOK, SocketStatus, loopVars, bindVars, httpVars
<1>3. CASE JcHandleError(s)
  BY <1>3, EndSessionType DEF JcHandleError
<1>4. CASE JabberWritable(s)
  BY <1>4 DEF JabberWritable, TypeOK, SocketStatus, loopVars, bindVars, httpVars
<1>5. CASE \E n \in 0..MaxQueue, ends \in BOOLEAN : JcReadJabber(s, n, ends)
  <2>1. PICK n \in 0..MaxQueue, ends \in BOOLEAN : JcReadJabber(s, n, ends)
    BY <1>5
  <2>2. CASE ends
    BY <2>1, <2>2, EndSessionType DEF JcReadJabber
  <2>3. CASE ~ends
    <3>1. output_queue[s] + n \in 0..MaxQueue /\ 0 \in 0..MaxQueue
      BY <2>1, BindAssumption DEF JcReadJabber, TypeOK
    <3>2. /\ JcFlushMessages(s, output_queue[s] + n)
          /\ UNCHANGED <<loopVars, bindVars, wait, jabber_sock>>
      BY <2>1, <2>3 DEF JcReadJabber
    <3>3. CASE Holds(s) /\ output_queue[s] + n > 0
      <4>1. /\ AnswerHeld({s}) /\ Release({s}) /\ {s} \in SUBSET Clients
            /\ output_queue' = [output_queue EXCEPT ![s] = 0]
        BY <3>2, <3>3 DEF JcFlushMessages
      <4>2. /\ http' \in [Conns -> {"freed", "CONNECTED", "IDLE"}]
            /\ unsent' \in SUBSET {h \in Conns : http'[h] = "CONNECTED"}
            /\ close_callback' \in [Conns -> Clients \cup {NULL}]
            /\ awaiting' \in SUBSET (Conns \X Clients)
        BY <3>3, <4>1, AnswerHeldFacts
      <4>3. /\ connection' \in [Clients -> Conns \cup {NULL}]
            /\ idle' \in [Clients -> 0..MaxIdle]
        BY <4>1, ReleaseFacts
      <4> QED
        BY <3>1, <3>2, <4>1, <4>2, <4>3 DEF TypeOK, loopVars, bindVars
    <3>4. CASE ~(Holds(s) /\ output_queue[s] + n > 0)
      BY <3>1, <3>2, <3>4
        DEF JcFlushMessages, TypeOK, loopVars, bindVars, httpVars
    <3> QED
      BY <3>3, <3>4
  <2> QED
    BY <2>2, <2>3
<1> QED
  BY <1>1, <1>2, <1>3, <1>4, <1>5

LEMMA TypeLoopStep ==
    ASSUME TypeOK, LoopStep
    PROVE  TypeOK'
<1>1. CASE LoopTop
  BY <1>1, LoopTopFacts
    DEF LoopTop, Goto, TypeOK, Phases, bindVars, clientVars, httpVars
<1>2. CASE PollEvents
  BY <1>2, BindAssumption
    DEF PollEvents, Goto, TypeOK, Phases, bindVars, clientVars, httpVars
<1>3. CASE PollTimeout
  BY <1>3 DEF PollTimeout, Goto, TypeOK, Phases, bindVars, clientVars, httpVars
<1>4. CASE DispatchDone
  BY <1>4 DEF DispatchDone, Goto, TypeOK, Phases, bindVars, clientVars, httpVars
<1>5. CASE JbCheckTimeout
  <2> DEFINE R == {s \in jabber_connections : RequestTimedOut(s)}
             C == {s \in jabber_connections : SessionTimedOut(s)}
  <2>1. /\ R \in SUBSET Clients
        /\ C \in SUBSET Clients
        /\ \A s \in R : Holds(s)
    BY DEF TypeOK, RequestTimedOut
  <2>2. AnswerHeld(R) /\ Release(R \cup C) /\ JbCloseClients(C)
    BY <1>5 DEF JbCheckTimeout
  <2> HIDE DEF R, C
  <2>3. /\ http' \in [Conns -> {"freed", "CONNECTED", "IDLE"}]
        /\ unsent' \in SUBSET {h \in Conns : http'[h] = "CONNECTED"}
        /\ close_callback' \in [Conns -> Clients \cup {NULL}]
        /\ awaiting' \in SUBSET (Conns \X Clients)
    BY <2>1, <2>2, AnswerHeldFacts
  <2>4. /\ connection' \in [Clients -> Conns \cup {NULL}]
        /\ idle' \in [Clients -> 0..MaxIdle]
    BY <2>2, ReleaseFacts
  <2>5. /\ jabber_connections' \in SUBSET Clients
        /\ sids' \in SUBSET Clients
        /\ client_count' \in Int
        /\ max_client_count' \in Int
        /\ output_queue' \in [Clients -> 0..MaxQueue]
        /\ wait' \in [Clients -> Waits \cup {0}]
        /\ jabber_sock' \in [Clients -> SocketStatus]
    BY <2>1, <2>2, JbCloseClientsFacts DEF TypeOK
  <2> QED
    BY <1>5, <2>3, <2>4, <2>5 DEF JbCheckTimeout, TypeOK, Phases
<1>6. CASE JbDelete
  <2>1. jabber_connections \in SUBSET Clients
    BY DEF TypeOK
  <2>2. /\ Release(jabber_connections)
        /\ JbCloseClients(jabber_connections)
    BY <1>6 DEF JbDelete
  <2>3. /\ connection' \in [Clients -> Conns \cup {NULL}]
        /\ idle' \in [Clients -> 0..MaxIdle]
    BY <2>2, ReleaseFacts
  <2>4. /\ jabber_connections' \in SUBSET Clients
        /\ sids' \in SUBSET Clients
        /\ client_count' \in Int
        /\ max_client_count' \in Int
        /\ output_queue' \in [Clients -> 0..MaxQueue]
        /\ wait' \in [Clients -> Waits \cup {0}]
        /\ jabber_sock' \in [Clients -> SocketStatus]
    BY <2>1, <2>2, JbCloseClientsFacts DEF TypeOK
  <2> QED
    BY <1>6, <2>3, <2>4 DEF JbDelete, TypeOK, Phases
<1> QED
  BY <1>1, <1>2, <1>3, <1>4, <1>5, <1>6 DEF LoopStep

(* Every step keeps every variable in its type.                            *)
LEMMA TypeStep == TypeOK /\ [Next]_vars => TypeOK'
<1> SUFFICES ASSUME TypeOK, [Next]_vars PROVE TypeOK'
  OBVIOUS
<1>1. CASE HandleSignal
  BY <1>1 DEF HandleSignal, TypeOK, Phases, bindVars, clientVars, httpVars
<1>2. CASE Tick
  BY <1>2, BindAssumption DEF Tick, TypeOK, bindVars, httpVars
<1>3. CASE UNCHANGED vars
  BY <1>3 DEF vars, TypeOK, loopVars, bindVars, clientVars, httpVars
<1>4. CASE Terminated
  BY <1>3, <1>4 DEF Terminated
<1> QED
  BY <1>1, <1>2, <1>3, <1>4, TypeHttpEvent, TypeJabberEvent, TypeLoopStep DEF Next

(* JabberBind keeps its types: in particular the argument of sm_poll is    *)
(* never negative and never above the session timeout.                     *)
THEOREM TypeCorrect == Spec => []TypeOK
BY TypeInit, TypeStep, PTL DEF Spec
-----------------------------------------------------------------------------
(* Sessions, requests and close callbacks                                  *)
(*                                                                         *)
(* A pending request is recorded three times: the session points to its    *)
(* connection, the connection's callback points back, and a web client     *)
(* waits.  None of the three facts is inductive alone; together with the   *)
(* registry they are.                                                      *)
PointersConsistent ==
    /\ PendingConnectionOpen
    /\ CallbackPointsToHolder
    /\ OneAnswerPerRequest

LEMMA AwaitingPairs ==
    ASSUME TypeOK, OneAnswerPerRequest
    PROVE  \A h \in Conns, s \in Clients : <<h, s>> \in awaiting <=> connection[s] = h
BY BindAssumption DEF OneAnswerPerRequest, Requests, Holds, TypeOK

LEMMA AwaitingPairsPrimed ==
    ASSUME TypeOK',
           \A h \in Conns, s \in Clients : <<h, s>> \in awaiting' <=> connection'[s] = h
    PROVE  OneAnswerPerRequest'
<1>1. awaiting' \subseteq Requests'
  <2> SUFFICES ASSUME NEW h \in Conns, NEW s \in Clients, <<h, s>> \in awaiting'
               PROVE  <<h, s>> \in Requests'
    BY DEF TypeOK
  <2> QED
    BY BindAssumption DEF Requests, Holds
<1>2. Requests' \subseteq awaiting'
  BY DEF Requests, Holds, TypeOK
<1> QED
  BY <1>1, <1>2 DEF OneAnswerPerRequest

(* Under request/response clients the connection of a new request is free. *)
LEMMA RequestOnFreeConnection ==
    ASSUME ~Pipelining, TypeOK, PointersConsistent,
           NEW h \in Conns, MayRequest(h)
    PROVE  /\ \A s \in Clients : connection[s] # h
           /\ close_callback[h] = NULL
           /\ h \notin unsent
           /\ \A s \in Clients : <<h, s>> \notin awaiting
<1>1. h \notin unsent /\ \A s \in Clients : <<h, s>> \notin awaiting
  BY DEF MayRequest
<1>2. \A s \in Clients : connection[s] # h
  BY <1>1, AwaitingPairs DEF PointersConsistent
<1>3. close_callback[h] = NULL
  BY <1>2 DEF PointersConsistent, CallbackPointsToHolder, TypeOK
<1> QED
  BY <1>1, <1>2, <1>3

(* Answering the requests of some clients, which may be closed with it,    *)
(* leaves those of the others as they were.                                *)
LEMMA AnswerKeepsPointers ==
    ASSUME TypeOK, TypeOK', PointersConsistent,
           NEW S \in SUBSET Clients, NEW R \in SUBSET S,
           \A s \in R : Holds(s), \A s \in S \ R : ~Holds(s),
           AnswerHeld(R), Release(S),
           jabber_connections \ S \subseteq jabber_connections'
    PROVE  PointersConsistent'
<1>1. R \in SUBSET Clients
  OBVIOUS
<1>2. /\ unsent' \subseteq unsent \cup Held(R)
      /\ \A h \in Conns : h \notin Held(R) =>
            http'[h] = http[h] /\ close_callback'[h] = close_callback[h]
      /\ \A h \in Held(R) : close_callback'[h] = NULL
      /\ awaiting' = awaiting \ {<<connection[s], s>> : s \in R}
  BY <1>1, AnswerHeldFacts
<1>3. \A s \in Clients : connection'[s] = IF s \in S THEN NULL ELSE connection[s]
  BY ReleaseFacts
<1>4. \A s \in Clients : Holds(s) =>
        /\ connection[s] \in Conns
        /\ http[connection[s]] = "CONNECTED"
        /\ close_callback[connection[s]] = s
        /\ connection[s] \notin unsent
  BY DEF PointersConsistent, PendingConnectionOpen, Holds, TypeOK
<1>5. \A s \in Clients : Holds(s) /\ s \notin S => connection[s] \notin Held(R)
  BY <1>1, <1>4 DEF Held
<1>6. PendingConnectionOpen'
  <2> SUFFICES ASSUME NEW s \in Clients, connection'[s] # NULL
               PROVE  /\ http'[connection'[s]] = "CONNECTED"
                      /\ close_callback'[connection'[s]] = s
                      /\ connection'[s] \notin unsent'
    BY DEF PendingConnectionOpen, Holds
  <2>1. s \notin S /\ connection'[s] = connection[s] /\ Holds(s)
    BY <1>3 DEF Holds
  <2> QED
    BY <1>2, <1>4, <1>5, <2>1
<1>7. CallbackPointsToHolder'
  <2> SUFFICES ASSUME NEW h \in Conns, close_callback'[h] # NULL
               PROVE  /\ close_callback'[h] \in jabber_connections'
                      /\ connection'[close_callback'[h]] = h
    BY DEF CallbackPointsToHolder
  <2>1. h \notin Held(R) /\ close_callback'[h] = close_callback[h]
    BY <1>2
  <2>2. close_callback[h] \in jabber_connections /\ connection[close_callback[h]] = h
    BY <2>1 DEF PointersConsistent, CallbackPointsToHolder
  <2>3. close_callback[h] \in Clients /\ Holds(close_callback[h])
    BY <2>2, BindAssumption DEF Holds, TypeOK
  <2>4. close_callback[h] \notin S
    BY <2>1, <2>2, <2>3 DEF Held
  <2> QED
    BY <1>3, <2>1, <2>2, <2>3, <2>4
<1>8. OneAnswerPerRequest'
  <2>1. \A h \in Conns, s \in Clients : <<h, s>> \in awaiting <=> connection[s] = h
    BY AwaitingPairs DEF PointersConsistent
  <2>2. ASSUME NEW h \in Conns, NEW s \in Clients
        PROVE  <<h, s>> \in awaiting' <=> connection'[s] = h
    <3>1. CASE s \in R
      BY <1>2, <1>3, <2>1, <3>1, BindAssumption
    <3>2. CASE s \in S \ R
      BY <1>2, <1>3, <2>1, <3>2, BindAssumption DEF Holds
    <3>3. CASE s \notin S
      BY <1>2, <1>3, <2>1, <3>3
    <3> QED
      BY <3>1, <3>2, <3>3
  <2> QED
    BY <2>2, AwaitingPairsPrimed
<1> QED
  BY <1>6, <1>7, <1>8 DEF PointersConsistent

(* hc_delete tells the session that holds a request on the connection.     *)
LEMMA HcDeleteKeepsPointers ==
    ASSUME TypeOK, TypeOK', PointersConsistent, NEW h \in Conns, HcDelete(h),
           jabber_connections' = jabber_connections
    PROVE  PointersConsistent'
<1>1. /\ \A g \in Conns \ {h} : http'[g] = http[g] /\ close_callback'[g] = close_callback[g]
      /\ close_callback'[h] = NULL
      /\ unsent' \subseteq unsent
      /\ awaiting' = {a \in awaiting : a[1] # h}
  BY DEF HcDelete, TypeOK
<1>2. \A s \in Clients : connection'[s] = IF s = close_callback[h] THEN NULL ELSE connection[s]
  BY ReleaseFacts, BindAssumption DEF HcDelete
<1>3. \A s \in Clients : connection[s] = h => s = close_callback[h]
  BY BindAssumption DEF PointersConsistent, PendingConnectionOpen, Holds
<1>4. \A s \in Clients : s = close_callback[h] => connection[s] = h
  BY BindAssumption DEF PointersConsistent, CallbackPointsToHolder
<1>5. PendingConnectionOpen'
  <2> SUFFICES ASSUME NEW s \in Clients, connection'[s] # NULL
               PROVE  /\ http'[connection'[s]] = "CONNECTED"
                      /\ close_callback'[connection'[s]] = s
                      /\ connection'[s] \notin unsent'
    BY DEF PendingConnectionOpen, Holds
  <2>1. connection'[s] = connection[s] /\ connection[s] \in Conns \ {h}
    BY <1>2, <1>3 DEF TypeOK
  <2> QED
    BY <1>1, <2>1 DEF PointersConsistent, PendingConnectionOpen, Holds
<1>6. CallbackPointsToHolder'
  <2> SUFFICES ASSUME NEW g \in Conns, close_callback'[g] # NULL
               PROVE  /\ close_callback'[g] \in jabber_connections'
                      /\ connection'[close_callback'[g]] = g
    BY DEF CallbackPointsToHolder
  <2>1. g # h /\ close_callback'[g] = close_callback[g]
    BY <1>1
  <2>2. close_callback[g] \in jabber_connections /\ connection[close_callback[g]] = g
    BY <2>1 DEF PointersConsistent, CallbackPointsToHolder
  <2>3. close_callback[g] \in Clients
    BY <2>2 DEF TypeOK
  <2> QED
    BY <1>2, <1>4, <2>1, <2>2, <2>3
<1>7. OneAnswerPerRequest'
  <2>1. \A g \in Conns, s \in Clients : <<g, s>> \in awaiting <=> connection[s] = g
    BY AwaitingPairs DEF PointersConsistent
  <2>2. ASSUME NEW g \in Conns, NEW s \in Clients
        PROVE  <<g, s>> \in awaiting' <=> connection'[s] = g
    <3>1. <<g, s>> \in awaiting' <=> <<g, s>> \in awaiting /\ g # h
      BY <1>1
    <3>2. connection'[s] = g <=> connection[s] = g /\ s # close_callback[h]
      BY <1>2, BindAssumption
    <3>3. connection[s] = g => (g # h <=> s # close_callback[h])
      BY <1>3, <1>4
    <3> QED
      BY <2>1, <3>1, <3>2, <3>3
  <2> QED
    BY <2>2, AwaitingPairsPrimed
<1> QED
  BY <1>5, <1>6, <1>7 DEF PointersConsistent

(* An answer on a free connection concerns no pending request.             *)
LEMMA AnswerAtOnceKeepsPointers ==
    ASSUME ~Pipelining, TypeOK, TypeOK', PointersConsistent,
           NEW h \in Conns, MayRequest(h), AnswerAtOnce(h),
           connection' = connection, jabber_connections \subseteq jabber_connections'
    PROVE  PointersConsistent'
<1>1. /\ unsent' \subseteq unsent \cup {h}
      /\ \A g \in Conns \ {h} :
            http'[g] = http[g] /\ close_callback'[g] = close_callback[g]
      /\ close_callback'[h] = NULL
      /\ \A a \in awaiting : a[1] # h => a \in awaiting'
      /\ awaiting' \subseteq awaiting
  BY AnswerAtOnceFacts
<1>2. \A s \in Clients : connection[s] # h /\ <<h, s>> \notin awaiting
  BY RequestOnFreeConnection
<1>3. PendingConnectionOpen'
  <2> SUFFICES ASSUME NEW s \in Clients, connection[s] # NULL
               PROVE  /\ http'[connection[s]] = "CONNECTED"
                      /\ close_callback'[connection[s]] = s
                      /\ connection[s] \notin unsent'
    BY DEF PendingConnectionOpen, Holds
  <2>1. connection[s] \in Conns \ {h}
    BY <1>2 DEF TypeOK
  <2> QED
    BY <1>1, <2>1 DEF PointersConsistent, PendingConnectionOpen, Holds
<1>4. CallbackPointsToHolder'
  BY <1>1 DEF PointersConsistent, CallbackPointsToHolder
<1>5. OneAnswerPerRequest'
  <2>1. \A g \in Conns, s \in Clients : <<g, s>> \in awaiting <=> connection[s] = g
    BY AwaitingPairs DEF PointersConsistent
  <2>2. \A g \in Conns, s \in Clients : <<g, s>> \in awaiting' <=> connection'[s] = g
    BY <1>1, <1>2, <2>1
  <2> QED
    BY <2>2, AwaitingPairsPrimed
<1> QED
  BY <1>3, <1>4, <1>5 DEF PointersConsistent

(* jc_set_http gives up the old request of s before it records the new one. *)
LEMMA JcSetHttpKeepsPointers ==
    ASSUME ~Pipelining, TypeOK, TypeOK', PointersConsistent,
           NEW h \in Conns, NEW s \in Clients, NEW answered \in BOOLEAN,
           MayRequest(h), JcSetHttp(h, s, answered),
           jabber_connections \ {s} \subseteq jabber_connections',
           ~answered => s \in jabber_connections'
    PROVE  PointersConsistent'
<1>1. /\ \A c \in Clients : connection[c] # h /\ <<h, c>> \notin awaiting
      /\ h \notin unsent
      /\ close_callback[h] = NULL
  BY RequestOnFreeConnection
<1>2. http[h] = "CONNECTED"
  BY DEF MayRequest
<1>3. PICK holds \in BOOLEAN :
        /\ answered => ~holds
        /\ holds /\ connection[s] # h => http'[h] = "CONNECTED" /\ h \notin unsent' \ unsent
        /\ \A c \in Clients \ {s} : connection'[c] = connection[c]
        /\ connection'[s] = IF holds THEN h ELSE NULL
        /\ close_callback'[h] = IF holds THEN s ELSE NULL
        /\ \A g \in Conns \ {h, connection[s]} :
                /\ close_callback'[g] = close_callback[g]
                /\ http'[g] = http[g]
                /\ g \in unsent' => g \in unsent
        /\ connection[s] # h => \A g \in Conns \ {h} :
                g = connection[s] => close_callback'[g] = NULL
        /\ \A a \in Conns \X Clients : a[1] # h /\ a[2] # s =>
                (a \in awaiting' <=> a \in awaiting)
        /\ \A g \in Conns : g # h /\ g # connection[s] =>
                (<<g, s>> \in awaiting' <=> <<g, s>> \in awaiting)
        /\ connection[s] # h => <<connection[s], s>> \notin awaiting'
        /\ \A c \in Clients \ {s} : <<h, c>> \notin awaiting => <<h, c>> \notin awaiting'
        /\ <<h, s>> \notin awaiting => (<<h, s>> \in awaiting' <=> holds)
  BY <1>2, JcSetHttpFacts
<1>4. \A c \in Clients : connection[c] # NULL =>
        /\ connection[c] \in Conns
        /\ http[connection[c]] = "CONNECTED"
        /\ close_callback[connection[c]] = c
        /\ connection[c] \notin unsent
  BY DEF PointersConsistent, PendingConnectionOpen, Holds, TypeOK
<1>5. PendingConnectionOpen'
  <2> SUFFICES ASSUME NEW c \in Clients, connection'[c] # NULL
               PROVE  /\ http'[connection'[c]] = "CONNECTED"
                      /\ close_callback'[connection'[c]] = c
                      /\ connection'[c] \notin unsent'
    BY DEF PendingConnectionOpen, Holds
  <2>1. CASE c = s
    BY <1>1, <1>3, <2>1
  <2>2. CASE c # s
    <3>1. connection'[c] = connection[c]
      BY <1>3, <2>2
    <3>2. connection[c] \in Conns \ {h, connection[s]}
      BY <1>1, <1>4, <2>2, <3>1
    <3> QED
      BY <1>3, <1>4, <3>1, <3>2
  <2> QED
    BY <2>1, <2>2
<1>6. CallbackPointsToHolder'
  <2> SUFFICES ASSUME NEW g \in Conns, close_callback'[g] # NULL
               PROVE  /\ close_callback'[g] \in jabber_connections'
                      /\ connection'[close_callback'[g]] = g
    BY DEF CallbackPointsToHolder
  <2>1. CASE g = h
    BY <1>3, <2>1
  <2>2. CASE g # h
    <3>1. g # connection[s] /\ close_callback'[g] = close_callback[g]
      BY <1>1, <1>3, <2>2
    <3>2. /\ close_callback[g] \in jabber_connections
          /\ connection[close_callback[g]] = g
      BY <3>1 DEF PointersConsistent, CallbackPointsToHolder
    <3>3. close_callback[g] \in Clients /\ close_callback[g] # s
      BY <3>1, <3>2 DEF TypeOK
    <3> QED
      BY <1>3, <3>1, <3>2, <3>3
  <2> QED
    BY <2>1, <2>2
<1>7. OneAnswerPerRequest'
  <2>1. \A g \in Conns, c \in Clients : <<g, c>> \in awaiting <=> connection[c] = g
    BY AwaitingPairs DEF PointersConsistent
  <2>2. ASSUME NEW g \in Conns, NEW c \in Clients
        PROVE  <<g, c>> \in awaiting' <=> connection'[c] = g
    <3>1. CASE g = h /\ c = s
      BY <1>1, <1>3, <3>1, BindAssumption
    <3>2. CASE g = h /\ c # s
      BY <1>1, <1>3, <3>2
    <3>3. CASE g # h /\ c = s
      BY <1>1, <1>3, <2>1, <3>3, BindAssumption
    <3>4. CASE g # h /\ c # s
      BY <1>3, <2>1, <3>4
    <3> QED
      BY <3>1, <3>2, <3>3, <3>4
  <2> QED
    BY <2>2, AwaitingPairsPrimed
<1> QED
  BY <1>5, <1>6, <1>7 DEF PointersConsistent
-----------------------------------------------------------------------------
(* The registry *)

LEMMA CloseKeepsRegistry ==
    ASSUME TypeOK, RegistryConsistent, NEW C \in SUBSET jabber_connections,
           JbCloseClients(C),
           \A s \in C : connection'[s] = NULL,
           \A s \in Clients \ jabber_connections : connection'[s] = NULL
    PROVE  RegistryConsistent'
<1>1. C \in SUBSET Clients /\ jabber_connections \in SUBSET Clients
  BY DEF TypeOK
<1>2. /\ jabber_connections' = jabber_connections \ C
      /\ sids' = sids \ C
      /\ client_count' = client_count - Cardinality(C)
      /\ max_client_count' = max_client_count
      /\ \A s \in Clients :
            /\ output_queue'[s] = IF s \in C THEN 0 ELSE output_queue[s]
            /\ jabber_sock'[s] = IF s \in C THEN "IDLE" ELSE jabber_sock[s]
  BY <1>1, JbCloseClientsFacts
<1>3. /\ Cardinality(jabber_connections \ C) = Cardinality(jabber_connections) - Cardinality(C)
      /\ Cardinality(C) \in Nat
  <2>1. IsFiniteSet(jabber_connections) /\ IsFiniteSet(C) /\ Cardinality(C) \in Nat
    BY <1>1, ClientSetsFinite
  <2>2. jabber_connections \cap C = C
    OBVIOUS
  <2> QED
    BY <2>1, <2>2, FS_Difference
<1>4. client_count' = Cardinality(jabber_connections') /\ client_count' <= max_client_count'
  BY <1>2, <1>3 DEF RegistryConsistent, TypeOK
<1>5. \A s \in Clients \ jabber_connections' :
            connection'[s] = NULL /\ output_queue'[s] = 0 /\ jabber_sock'[s] = "IDLE"
  BY <1>2 DEF RegistryConsistent
<1> QED
  BY <1>2, <1>4, <1>5 DEF RegistryConsistent, Holds

(* Steps that neither open nor close a session. *)
LEMMA SameRegistry ==
    ASSUME TypeOK, RegistryConsistent, UNCHANGED bindVars,
           \A s \in Clients \ jabber_connections :
                /\ connection'[s] = connection[s]
                /\ output_queue'[s] = output_queue[s]
                /\ jabber_sock'[s] = jabber_sock[s]
    PROVE  RegistryConsistent'
BY DEF RegistryConsistent, bindVars, Holds

LEMMA EndSessionKeepsRegistry ==
    ASSUME TypeOK, RegistryConsistent, NEW s \in jabber_connections, EndSession(s)
    PROVE  RegistryConsistent'
<1>1. Release({s}) /\ JbCloseClients({s}) /\ {s} \in SUBSET jabber_connections
  BY DEF EndSession
<1>2. \A c \in Clients : connection'[c] = IF c = s THEN NULL ELSE connection[c]
  BY <1>1, ReleaseFacts
<1> QED
  BY <1>1, <1>2, CloseKeepsRegistry DEF RegistryConsistent, Holds, TypeOK

LEMMA MonitoredIsLive ==
    ASSUME RegistryConsistent, NEW s \in Clients, Monitored(s)
    PROVE  s \in jabber_connections
BY DEF RegistryConsistent, Monitored

LEMMA RegistryHttpEvent ==
    ASSUME TypeOK, RegistryConsistent, HttpEvent
    PROVE  RegistryConsistent'
<1>1. PICK h \in Conns :
        \/ HsAccept(h)
        \/ HcClose(h)
        \/ HcReportError(h)
        \/ HttpWritable(h)
        \/ AnswerNow(h)
        \/ ConnectRefused(h)
        \/ \E s \in Clients, w \in Waits : JbConnectClient(h, s, w)
        \/ \E s \in Clients, terminate \in BOOLEAN : JbHandleHttpPost(h, s, terminate)
  BY DEF HttpEvent
<1>2. CASE HsAccept(h) \/ HttpWritable(h) \/ AnswerNow(h) \/ ConnectRefused(h)
  <2>1. UNCHANGED <<bindVars, clientVars>>
    BY <1>2 DEF HsAccept, HttpWritable, AnswerNow, ConnectRefused
  <2> QED
    BY <2>1, SameRegistry DEF clientVars
<1>3. CASE HcClose(h) \/ HcReportError(h)
  <2>1. UNCHANGED <<bindVars, output_queue, jabber_sock>>
    BY <1>3 DEF HcClose, HcReportError
  <2>2. HcDelete(h) \/ UNCHANGED connection
    BY <1>3 DEF HcClose, HcReportError
  <2>3. \A s \in Clients : connection'[s] = connection[s] \/ connection'[s] = NULL
    BY <2>2, ReleaseFacts DEF HcDelete
  <2>4. \A s \in Clients \ jabber_connections : connection[s] = NULL
    BY DEF RegistryConsistent, Holds
  <2> QED
    BY <2>1, <2>3, <2>4, SameRegistry
<1>4. CASE \E s \in Clients, w \in Waits : JbConnectClient(h, s, w)
  <2>1. PICK s \in Clients, w \in Waits : JbConnectClient(h, s, w)
    BY <1>4
  <2>2. /\ s \notin jabber_connections
        /\ sids' = jabber_connections'
        /\ jabber_connections' = jabber_connections \cup {s}
    BY <2>1 DEF JbConnectClient, RegistryConsistent
  <2>3. /\ Cardinality(jabber_connections') = Cardinality(jabber_connections) + 1
        /\ Cardinality(jabber_connections) \in Nat
    <3>1. IsFiniteSet(jabber_connections) /\ Cardinality(jabber_connections) \in Nat
      BY ClientSetsFinite DEF TypeOK
    <3> QED
      BY <2>2, <3>1, FS_AddElement
  <2>4. client_count' = Cardinality(jabber_connections') /\ client_count' <= max_client_count'
    BY <2>1, <2>3 DEF JbConnectClient, RegistryConsistent, TypeOK
  <2>5. \A c \in Clients \ jabber_connections' :
            connection'[c] = NULL /\ output_queue'[c] = 0 /\ jabber_sock'[c] = "IDLE"
    BY <2>1, <2>2 DEF JbConnectClient, RegistryConsistent, Holds, TypeOK
  <2> QED
    BY <2>2, <2>4, <2>5 DEF RegistryConsistent, Holds
<1>5. CASE \E s \in Clients, terminate \in BOOLEAN : JbHandleHttpPost(h, s, terminate)
  <2>1. PICK s \in Clients, terminate \in BOOLEAN : JbHandleHttpPost(h, s, terminate)
    BY <1>5
  <2>2. /\ s \in jabber_connections
        /\ http[h] = "CONNECTED"
        /\ JcSetHttp(h, s, terminate \/ output_queue[s] > 0)
    BY <2>1 DEF JbHandleHttpPost, MayRequest, RegistryConsistent
  <2>3. (terminate \/ output_queue[s] > 0) \in BOOLEAN
    OBVIOUS
  <2>4. /\ \A c \in Clients \ {s} : connection'[c] = connection[c]
        /\ terminate => connection'[s] = NULL
    BY <2>2, <2>3, JcSetHttpConnection DEF TypeOK
  <2>5. CASE terminate
    <3>1. JbCloseClients({s}) /\ {s} \in SUBSET jabber_connections
      BY <2>1, <2>2, <2>5 DEF JbHandleHttpPost
    <3> QED
      BY <2>2, <2>4, <2>5, <3>1, CloseKeepsRegistry DEF RegistryConsistent, Holds
  <2>6. CASE ~terminate
    <3>1. UNCHANGED bindVars
      BY <2>1, <2>6 DEF JbHandleHttpPost
    <3>2. \A c \in Clients \ {s} :
            output_queue'[c] = output_queue[c] /\ jabber_sock'[c] = jabber_sock[c]
      BY <2>1, <2>6 DEF JbHandleHttpPost, TypeOK
    <3> QED
      BY <2>2, <2>4, <3>1, <3>2, SameRegistry
  <2> QED
    BY <2>5, <2>6
<1> QED
  BY <1>1, <1>2, <1>3, <1>4, <1>5

LEMMA RegistryJabberEvent ==
    ASSUME TypeOK, RegistryConsistent, JabberEvent
    PROVE  RegistryConsistent'
<1>1. PICK s \in Clients :
        \/ JcAnswerCreation(s)
        \/ JcHandleError(s)
        \/ JabberWritable(s)
        \/ \E n \in 0..MaxQueue, ends \in BOOLEAN : JcReadJabber(s, n, ends)
  BY DEF JabberEvent
<1>2. s \in jabber_connections
  BY <1>1, MonitoredIsLive DEF JcAnswerCreation, JcHandleError, JabberWritable, JcReadJabber
<1>3. CASE EndSession(s)
  BY <1>2, <1>3, EndSessionKeepsRegistry
<1>4. CASE ~EndSession(s)
  <2>1. UNCHANGED bindVars
    BY <1>1, <1>4 DEF JcAnswerCreation, JcHandleError, JabberWritable, JcReadJabber
  <2>2. \A c \in Clients \ {s} :
            /\ connection'[c] = connection[c]
            /\ output_queue'[c] = output_queue[c]
            /\ jabber_sock'[c] = jabber_sock[c]
    <3>1. CASE JcAnswerCreation(s) \/ JcHandleError(s) \/ JabberWritable(s)
      BY <1>4, <3>1 DEF JcAnswerCreation, JcHandleError, JabberWritable, TypeOK
    <3>2. CASE \E n \in 0..MaxQueue, ends \in BOOLEAN : JcReadJabber(s, n, ends)
      <4>1. PICK n \in 0..MaxQueue, ends \in BOOLEAN : JcReadJabber(s, n, ends)
        BY <3>2
      <4>2. JcFlushMessages(s, output_queue[s] + n) /\ UNCHANGED jabber_sock
        BY <1>4, <4>1 DEF JcReadJabber
      <4>3. Release({s}) \/ UNCHANGED connection
        BY <4>2 DEF JcFlushMessages
      <4>4. \A c \in Clients \ {s} : connection'[c] = connection[c]
        BY <4>3, ReleaseFacts
      <4> QED
        BY <4>2, <4>4 DEF JcFlushMessages, TypeOK
    <3> QED
      BY <1>1, <3>1, <3>2
  <2> QED
    BY <1>2, <2>1, <2>2, SameRegistry
<1> QED
  BY <1>3, <1>4

LEMMA RegistryLoopStep ==
    ASSUME TypeOK, RegistryConsistent, LoopStep
    PROVE  RegistryConsistent'
<1>1. CASE LoopTop \/ PollEvents \/ PollTimeout \/ DispatchDone
  <2>1. UNCHANGED <<bindVars, clientVars>>
    BY <1>1 DEF LoopTop, PollEvents, PollTimeout, DispatchDone, Goto
  <2> QED
    BY <2>1, SameRegistry DEF clientVars
<1>2. CASE JbCheckTimeout
  <2> DEFINE R == {s \in jabber_connections : RequestTimedOut(s)}
             C == {s \in jabber_connections : SessionTimedOut(s)}
  <2>1. C \in SUBSET jabber_connections /\ Release(R \cup C) /\ JbCloseClients(C)
    BY <1>2 DEF JbCheckTimeout
  <2> HIDE DEF R, C
  <2>2. \A s \in Clients : connection'[s] = IF s \in R \cup C THEN NULL ELSE connection[s]
    BY <2>1, ReleaseFacts
  <2>3. C \subseteq Clients
    BY <2>1 DEF TypeOK
  <2> QED
    BY <2>1, <2>2, <2>3, CloseKeepsRegistry DEF RegistryConsistent, Holds
<1>3. CASE JbDelete
  <2>1. Release(jabber_connections) /\ JbCloseClients(jabber_connections)
    BY <1>3 DEF JbDelete
  <2>2. \A s \in Clients :
            connection'[s] = IF s \in jabber_connections THEN NULL ELSE connection[s]
    BY <2>1, ReleaseFacts
  <2>3. jabber_connections \subseteq Clients
    BY DEF TypeOK
  <2> QED
    BY <2>1, <2>2, <2>3, CloseKeepsRegistry DEF RegistryConsistent, Holds
<1> QED
  BY <1>1, <1>2, <1>3 DEF LoopStep

LEMMA RegistryStep == TypeOK /\ RegistryConsistent /\ [Next]_vars => RegistryConsistent'
<1> SUFFICES ASSUME TypeOK, RegistryConsistent, [Next]_vars PROVE RegistryConsistent'
  OBVIOUS
<1>1. CASE HandleSignal \/ Tick \/ Terminated \/ UNCHANGED vars
  <2>1. UNCHANGED <<bindVars, connection, output_queue, jabber_sock>>
    BY <1>1 DEF HandleSignal, Tick, Terminated, vars, clientVars
  <2> QED
    BY <2>1, SameRegistry
<1> QED
  BY <1>1, RegistryHttpEvent, RegistryJabberEvent, RegistryLoopStep DEF Next

(* The list, the hash and the counters agree, and a closed session leaves  *)
(* nothing behind, whatever ends it: no path through jb_close_client or    *)
(* jb_connect_client updates one and not the others.                       *)
THEOREM RegistryAlwaysConsistent == Spec => []RegistryConsistent
<1>1. Init => RegistryConsistent
  BY FS_EmptySet DEF Init, RegistryConsistent, Holds
<1> QED
  BY <1>1, TypeCorrect, RegistryStep, PTL DEF Spec
-----------------------------------------------------------------------------
(* The pointers, step by step *)

LEMMA SamePointers ==
    ASSUME PointersConsistent,
           UNCHANGED <<jabber_connections, connection, httpVars>>
    PROVE  PointersConsistent'
BY DEF PointersConsistent, PendingConnectionOpen, CallbackPointsToHolder,
       OneAnswerPerRequest, Requests, Holds, httpVars

(* A connection no session holds may be opened, or lose its socket.        *)
LEMMA FreeConnectionChanges ==
    ASSUME TypeOK, TypeOK', PointersConsistent, NEW h \in Conns,
           \A s \in Clients : connection[s] # h,
           \A g \in Conns \ {h} : http'[g] = http[g],
           unsent' \subseteq unsent \cup {h},
           UNCHANGED <<jabber_connections, connection, close_callback, awaiting>>
    PROVE  PointersConsistent'
<1>1. PendingConnectionOpen'
  <2> SUFFICES ASSUME NEW s \in Clients, connection[s] # NULL
               PROVE  /\ http'[connection[s]] = "CONNECTED"
                      /\ close_callback[connection[s]] = s
                      /\ connection[s] \notin unsent'
    BY DEF PendingConnectionOpen, Holds
  <2>1. connection[s] \in Conns \ {h}
    BY DEF TypeOK
  <2> QED
    BY <2>1 DEF PointersConsistent, PendingConnectionOpen, Holds
<1> QED
  BY <1>1 DEF PointersConsistent, CallbackPointsToHolder, OneAnswerPerRequest, Requests, Holds

LEMMA EndSessionKeepsPointers ==
    ASSUME TypeOK, TypeOK', PointersConsistent, NEW s \in Clients, EndSession(s)
    PROVE  PointersConsistent'
<1> DEFINE R == {c \in {s} : Holds(c)}
<1>1. /\ {s} \in SUBSET Clients
      /\ R \in SUBSET {s}
      /\ \A c \in R : Holds(c)
      /\ \A c \in {s} \ R : ~Holds(c)
  OBVIOUS
<1>2. /\ AnswerHeld(R)
      /\ Release({s})
      /\ jabber_connections \ {s} \subseteq jabber_connections'
  BY DEF EndSession, JbCloseClients
<1> HIDE DEF R
<1> QED
  BY <1>1, <1>2, AnswerKeepsPointers

LEMMA PointersHttpEvent ==
    ASSUME ~Pipelining, TypeOK, TypeOK', RegistryConsistent, PointersConsistent, HttpEvent
    PROVE  PointersConsistent'
<1>1. PICK h \in Conns :
        \/ HsAccept(h)
        \/ HcClose(h)
        \/ HcReportError(h)
        \/ HttpWritable(h)
        \/ AnswerNow(h)
        \/ ConnectRefused(h)
        \/ \E s \in Clients, w \in Waits : JbConnectClient(h, s, w)
        \/ \E s \in Clients, terminate \in BOOLEAN : JbHandleHttpPost(h, s, terminate)
  BY DEF HttpEvent
<1>2. CASE HsAccept(h)
  <2>1. \A s \in Clients : connection[s] # h
    BY <1>2, BindAssumption
      DEF HsAccept, PointersConsistent, PendingConnectionOpen, Holds
  <2>2. \A g \in Conns \ {h} : http'[g] = http[g]
    BY <1>2 DEF HsAccept, TypeOK
  <2>3. UNCHANGED <<jabber_connections, connection, close_callback, unsent, awaiting>>
    BY <1>2 DEF HsAccept, bindVars, clientVars
  <2> QED
    BY <2>1, <2>2, <2>3, FreeConnectionChanges
<1>3. CASE HcClose(h)
  BY <1>3, HcDeleteKeepsPointers DEF HcClose, bindVars
<1>4. CASE HcReportError(h)
  <2>1. CASE HcDelete(h)
    BY <1>4, <2>1, HcDeleteKeepsPointers DEF HcReportError, bindVars
  <2>2. CASE /\ \E Q \in SUBSET {h} : SendTo({h}, {}, Q)
             /\ UNCHANGED <<http, close_callback, awaiting, connection, idle>>
    <3>1. \A s \in Clients : connection[s] # h
      BY <1>4, RequestOnFreeConnection DEF HcReportError
    <3>2. unsent' \subseteq unsent \cup {h}
      BY <2>2 DEF SendTo
    <3>3. UNCHANGED <<jabber_connections, connection, close_callback, awaiting, http>>
      BY <1>4, <2>2 DEF HcReportError, bindVars
    <3> QED
      BY <3>1, <3>2, <3>3, FreeConnectionChanges
  <2> QED
    BY <1>4, <2>1, <2>2 DEF HcReportError
<1>5. CASE HttpWritable(h)
  <2>1. \A s \in Clients : connection[s] # h
    BY <1>5, BindAssumption
      DEF HttpWritable, PointersConsistent, PendingConnectionOpen, Holds
  <2>2. (\A g \in Conns \ {h} : http'[g] = http[g]) /\ unsent' \subseteq unsent \cup {h}
    BY <1>5 DEF HttpWritable, Overwrite, TypeOK
  <2>3. UNCHANGED <<jabber_connections, connection, close_callback, awaiting>>
    BY <1>5 DEF HttpWritable, bindVars, clientVars
  <2> QED
    BY <2>1, <2>2, <2>3, FreeConnectionChanges
<1>6. CASE AnswerNow(h)
  BY <1>6, AnswerAtOnceKeepsPointers DEF AnswerNow, bindVars, clientVars
<1>7. CASE ConnectRefused(h)
  BY <1>7, SamePointers DEF ConnectRefused, bindVars, clientVars
<1>8. CASE \E s \in Clients, w \in Waits : JbConnectClient(h, s, w)
  <2>1. PICK s \in Clients, w \in Waits : JbConnectClient(h, s, w)
    BY <1>8
  <2>2. MayRequest(h) /\ AnswerAtOnce(h) /\ jabber_connections \subseteq jabber_connections'
    BY <2>1 DEF JbConnectClient
  <2>3. connection[s] = NULL /\ connection' = [connection EXCEPT ![s] = NULL]
    BY <2>1 DEF JbConnectClient, RegistryConsistent, Holds
  <2>4. connection' = connection
    BY <2>3 DEF TypeOK
  <2> QED
    BY <2>2, <2>4, AnswerAtOnceKeepsPointers
<1>9. CASE \E s \in Clients, terminate \in BOOLEAN : JbHandleHttpPost(h, s, terminate)
  <2>1. PICK s \in Clients, terminate \in BOOLEAN : JbHandleHttpPost(h, s, terminate)
    BY <1>9
  <2> DEFINE answered == terminate \/ output_queue[s] > 0
  <2>2. /\ answered \in BOOLEAN
        /\ MayRequest(h)
        /\ JcSetHttp(h, s, answered)
    BY <2>1 DEF JbHandleHttpPost
  <2>3. jabber_connections \ {s} \subseteq jabber_connections'
    BY <2>1 DEF JbHandleHttpPost, JbCloseClients, bindVars
  <2>4. ~answered => s \in jabber_connections'
    BY <2>1 DEF JbHandleHttpPost, RegistryConsistent, bindVars
  <2> HIDE DEF answered
  <2> QED
    BY <2>2, <2>3, <2>4, JcSetHttpKeepsPointers
<1> QED
  BY <1>1, <1>2, <1>3, <1>4, <1>5, <1>6, <1>7, <1>8, <1>9

LEMMA PointersJabberEvent ==
    ASSUME TypeOK, TypeOK', PointersConsistent, JabberEvent
    PROVE  PointersConsistent'
<1>1. PICK s \in Clients :
        \/ JcAnswerCreation(s)
        \/ JcHandleError(s)
        \/ JabberWritable(s)
        \/ \E n \in 0..MaxQueue, ends \in BOOLEAN : JcReadJabber(s, n, ends)
  BY DEF JabberEvent
<1>2. CASE EndSession(s)
  BY <1>2, EndSessionKeepsPointers
<1>3. CASE AnswerHeld({s}) /\ Release({s}) /\ Holds(s) /\ UNCHANGED bindVars
  <2>1. /\ {s} \in SUBSET Clients
        /\ {s} \in SUBSET {s}
        /\ \A c \in {s} : Holds(c)
        /\ \A c \in {s} \ {s} : ~Holds(c)
        /\ jabber_connections \ {s} \subseteq jabber_connections'
    BY <1>3 DEF bindVars
  <2> QED
    BY <1>3, <2>1, AnswerKeepsPointers
<1>4. CASE UNCHANGED <<jabber_connections, connection, httpVars>>
  BY <1>4, SamePointers
<1>5. \/ EndSession(s)
      \/ AnswerHeld({s}) /\ Release({s}) /\ Holds(s) /\ UNCHANGED bindVars
      \/ UNCHANGED <<jabber_connections, connection, httpVars>>
  <2>1. CASE JcAnswerCreation(s) \/ JcHandleError(s) \/ JabberWritable(s)
    BY <2>1 DEF JcAnswerCreation, JcHandleError, JabberWritable, bindVars
  <2>2. CASE \E n \in 0..MaxQueue, ends \in BOOLEAN : JcReadJabber(s, n, ends)
    BY <2>2 DEF JcReadJabber, JcFlushMessages, bindVars
  <2> QED
    BY <1>1, <2>1, <2>2
<1> QED
  BY <1>2, <1>3, <1>4, <1>5

LEMMA PointersLoopStep ==
    ASSUME TypeOK, TypeOK', RegistryConsistent, PointersConsistent, LoopStep
    PROVE  PointersConsistent'
<1>1. CASE LoopTop \/ PollEvents \/ PollTimeout \/ DispatchDone
  BY <1>1, SamePointers
    DEF LoopTop, PollEvents, PollTimeout, DispatchDone, Goto, bindVars, clientVars
<1>2. CASE JbCheckTimeout
  <2> DEFINE R == {s \in jabber_connections : RequestTimedOut(s)}
             C == {s \in jabber_connections : SessionTimedOut(s)}
  <2>1. /\ R \cup C \in SUBSET Clients
        /\ R \in SUBSET (R \cup C)
        /\ \A s \in R : Holds(s)
        /\ \A s \in (R \cup C) \ R : ~Holds(s)
    BY DEF TypeOK, RequestTimedOut, SessionTimedOut
  <2>2. /\ AnswerHeld(R)
        /\ Release(R \cup C)
        /\ jabber_connections \ (R \cup C) \subseteq jabber_connections'
    BY <1>2 DEF JbCheckTimeout, JbCloseClients
  <2> HIDE DEF R, C
  <2> QED
    BY <2>1, <2>2, AnswerKeepsPointers
<1>3. CASE JbDelete
  <2>1. /\ \A s \in Clients : connection'[s] = NULL
        /\ \A h \in Conns : close_callback'[h] = NULL
        /\ awaiting' = {}
    BY <1>3, ReleaseFacts DEF JbDelete, RegistryConsistent, Holds
  <2>2. PendingConnectionOpen' /\ CallbackPointsToHolder'
    BY <2>1 DEF PendingConnectionOpen, CallbackPointsToHolder, Holds
  <2>3. OneAnswerPerRequest'
    BY <2>1 DEF OneAnswerPerRequest, Requests, Holds
  <2> QED
    BY <2>2, <2>3 DEF PointersConsistent
<1> QED
  BY <1>1, <1>2, <1>3 DEF LoopStep

(* The inductive invariant of the pointers.                                *)
PointersInv == TypeOK /\ RegistryConsistent /\ PointersConsistent

LEMMA PointersStep ==
    ASSUME ~Pipelining, PointersInv, [Next]_vars
    PROVE  PointersInv'
<1>1. TypeOK' /\ RegistryConsistent'
  BY TypeStep, RegistryStep DEF PointersInv
<1>2. CASE HandleSignal \/ Tick \/ Terminated \/ UNCHANGED vars
  <2>1. UNCHANGED <<jabber_connections, connection, httpVars>>
    BY <1>2 DEF HandleSignal, Tick, Terminated, vars, bindVars, clientVars
  <2> QED
    BY <1>1, <2>1, SamePointers DEF PointersInv
<1> QED
  BY <1>1, <1>2, PointersHttpEvent, PointersJabberEvent, PointersLoopStep
    DEF Next, PointersInv

LEMMA PointersInit == Init => PointersInv
<1> SUFFICES ASSUME Init PROVE PointersInv
  OBVIOUS
<1>1. TypeOK /\ RegistryConsistent
  BY TypeInit, FS_EmptySet DEF Init, RegistryConsistent, Holds
<1>2. PendingConnectionOpen /\ CallbackPointsToHolder /\ OneAnswerPerRequest
  BY DEF Init, PendingConnectionOpen, CallbackPointsToHolder, OneAnswerPerRequest,
         Requests, Holds
<1> QED
  BY <1>1, <1>2 DEF PointersInv, PointersConsistent

LEMMA PointersAlways ==
    ASSUME ~Pipelining
    PROVE  Spec => []PointersInv
<1>1. PointersInv /\ [Next]_vars => PointersInv'
  BY PointersStep
<1> QED
  BY <1>1, PointersInit, PTL DEF Spec

(* A session never points to a freed, closed or blocked connection, for    *)
(* clients that wait for each answer: jc_clear_http is always called.      *)
THEOREM PendingConnectionAlwaysOpen ==
    ASSUME ~Pipelining
    PROVE  Spec => []PendingConnectionOpen
<1>1. PointersInv => PendingConnectionOpen
  BY DEF PointersInv, PointersConsistent
<1> QED
  BY <1>1, PointersAlways, PTL

(* A close callback is only ever called for the live session that holds    *)
(* its request on that connection.                                         *)
THEOREM CallbackAlwaysPointsToHolder ==
    ASSUME ~Pipelining
    PROVE  Spec => []CallbackPointsToHolder
<1>1. PointersInv => CallbackPointsToHolder
  BY DEF PointersInv, PointersConsistent
<1> QED
  BY <1>1, PointersAlways, PTL

(* Every request is either held by its session or has been answered once,  *)
(* or its connection is gone.                                              *)
THEOREM RequestsAnsweredOnce ==
    ASSUME ~Pipelining
    PROVE  Spec => []OneAnswerPerRequest
<1>1. PointersInv => OneAnswerPerRequest
  BY DEF PointersInv, PointersConsistent
<1> QED
  BY <1>1, PointersAlways, PTL
-----------------------------------------------------------------------------
(* Sessions and their messages: JabberBind implements BoshSession          *)

(* The next-state relation of BoshSession for one session, in terms of the *)
(* state of JabberBind.                                                    *)
SessionMoves(s) ==
    \/ /\ SessionState(s) = "none" /\ SessionState(s)' = "idle"
       /\ output_queue'[s] = 0
    \/ /\ SessionState(s) = "idle" /\ SessionState(s)' = "waiting"
       /\ output_queue[s] = 0 /\ output_queue'[s] = 0
    \/ /\ SessionState(s) = "idle" /\ SessionState(s)' = "idle"
       /\ output_queue'[s] = 0 \/ output_queue'[s] >= output_queue[s]
    \/ /\ SessionState(s) = "waiting" /\ SessionState(s)' = "idle"
       /\ output_queue'[s] = 0
    \/ /\ SessionState(s) # "none" /\ SessionState(s)' = "none"
       /\ output_queue'[s] = 0
    \/ /\ SessionState(s)' = SessionState(s)
       /\ output_queue'[s] = output_queue[s]

SessionInv == TypeOK /\ RegistryConsistent /\ NoMessageBehindRequest

(* A session that keeps its place, and at most loses its request, its      *)
(* messages or both.                                                       *)
LEMMA LosesMoves ==
    ASSUME SessionInv, NEW s \in Clients,
           s \in jabber_connections' <=> s \in jabber_connections,
           connection'[s] = connection[s] \/ connection'[s] = NULL,
           output_queue'[s] = output_queue[s] \/ output_queue'[s] = 0
    PROVE  SessionMoves(s)
<1>1. s \notin jabber_connections => connection[s] = NULL /\ output_queue[s] = 0
  BY DEF SessionInv, RegistryConsistent, Holds
<1>2. connection[s] # NULL => output_queue[s] = 0
  BY DEF SessionInv, NoMessageBehindRequest, Holds
<1> QED
  BY <1>1, <1>2 DEF SessionMoves, SessionState, Holds

LEMMA EndsMoves ==
    ASSUME SessionInv, NEW s \in Clients,
           s \notin jabber_connections', output_queue'[s] = 0
    PROVE  SessionMoves(s)
<1>1. s \notin jabber_connections => output_queue[s] = 0
  BY DEF SessionInv, RegistryConsistent
<1> QED
  BY <1>1 DEF SessionMoves, SessionState

LEMMA EndSessionMoves ==
    ASSUME SessionInv, NEW s \in Clients, EndSession(s)
    PROVE  \A c \in Clients : SessionMoves(c)
<1> SUFFICES ASSUME NEW c \in Clients PROVE SessionMoves(c)
  OBVIOUS
<1>1. Release({s}) /\ JbCloseClients({s}) /\ {s} \in SUBSET Clients /\ TypeOK
  BY DEF EndSession, SessionInv
<1>2. connection'[c] = IF c = s THEN NULL ELSE connection[c]
  BY <1>1, ReleaseFacts
<1>3. /\ jabber_connections' = jabber_connections \ {s}
      /\ output_queue'[c] = IF c = s THEN 0 ELSE output_queue[c]
  BY <1>1, JbCloseClientsFacts
<1>4. CASE c = s
  BY <1>3, <1>4, EndsMoves
<1>5. CASE c # s
  BY <1>2, <1>3, <1>5, LosesMoves
<1> QED
  BY <1>4, <1>5

LEMMA HttpEventMoves ==
    ASSUME SessionInv, HttpEvent
    PROVE  \A c \in Clients : SessionMoves(c)
<1> SUFFICES ASSUME NEW c \in Clients PROVE SessionMoves(c)
  OBVIOUS
<1>1. PICK h \in Conns :
        \/ HsAccept(h)
        \/ HcClose(h)
        \/ HcReportError(h)
        \/ HttpWritable(h)
        \/ AnswerNow(h)
        \/ ConnectRefused(h)
        \/ \E s \in Clients, w \in Waits : JbConnectClient(h, s, w)
        \/ \E s \in Clients, terminate \in BOOLEAN : JbHandleHttpPost(h, s, terminate)
  BY DEF HttpEvent
<1>2. TypeOK
  BY DEF SessionInv
<1>3. CASE HsAccept(h) \/ HttpWritable(h) \/ AnswerNow(h) \/ ConnectRefused(h)
  <2>1. UNCHANGED <<bindVars, clientVars>>
    BY <1>3 DEF HsAccept, HttpWritable, AnswerNow, ConnectRefused
  <2> QED
    BY <2>1, LosesMoves DEF bindVars, clientVars
<1>4. CASE HcClose(h) \/ HcReportError(h)
  <2>1. UNCHANGED <<bindVars, output_queue>>
    BY <1>4 DEF HcClose, HcReportError
  <2>2. HcDelete(h) \/ UNCHANGED connection
    BY <1>4 DEF HcClose, HcReportError
  <2>3. connection'[c] = connection[c] \/ connection'[c] = NULL
    BY <1>2, <2>2, ReleaseFacts DEF HcDelete
  <2> QED
    BY <2>1, <2>3, LosesMoves DEF bindVars
<1>5. CASE \E s \in Clients, w \in Waits : JbConnectClient(h, s, w)
  <2>1. PICK s \in Clients, w \in Waits : JbConnectClient(h, s, w)
    BY <1>5
  <2>2. s \notin jabber_connections /\ jabber_connections' = jabber_connections \cup {s}
    BY <2>1 DEF JbConnectClient, SessionInv, RegistryConsistent
  <2>3. /\ connection'[c] = IF c = s THEN NULL ELSE connection[c]
        /\ output_queue'[c] = IF c = s THEN 0 ELSE output_queue[c]
    BY <1>2, <2>1 DEF JbConnectClient, TypeOK
  <2>4. CASE c = s
    BY <2>2, <2>3, <2>4 DEF SessionMoves, SessionState, Holds
  <2>5. CASE c # s
    BY <2>2, <2>3, <2>5, LosesMoves
  <2> QED
    BY <2>4, <2>5
<1>6. CASE \E s \in Clients, terminate \in BOOLEAN : JbHandleHttpPost(h, s, terminate)
  <2>1. PICK s \in Clients, terminate \in BOOLEAN : JbHandleHttpPost(h, s, terminate)
    BY <1>6
  <2> DEFINE answered == terminate \/ output_queue[s] > 0
  <2>2. /\ s \in jabber_connections
        /\ answered \in BOOLEAN
        /\ JcSetHttp(h, s, answered)
    BY <2>1 DEF JbHandleHttpPost, SessionInv, RegistryConsistent
  <2> HIDE DEF answered
  <2>3. /\ \A d \in Clients \ {s} : connection'[d] = connection[d]
        /\ answered => connection'[s] = NULL
    BY <1>2, <2>2, JcSetHttpConnection
  <2> USE DEF answered
  <2>4. CASE terminate
    <3>1. JbCloseClients({s}) /\ {s} \in SUBSET Clients
      BY <2>1, <2>4 DEF JbHandleHttpPost
    <3>2. /\ jabber_connections' = jabber_connections \ {s}
          /\ output_queue'[c] = IF c = s THEN 0 ELSE output_queue[c]
      BY <1>2, <3>1, JbCloseClientsFacts
    <3>3. CASE c = s
      BY <3>2, <3>3, EndsMoves
    <3>4. CASE c # s
      BY <2>3, <3>2, <3>4, LosesMoves
    <3> QED
      BY <3>3, <3>4
  <2>5. CASE ~terminate
    <3>1. /\ jabber_connections' = jabber_connections
          /\ output_queue'[c] = IF c = s THEN 0 ELSE output_queue[c]
      BY <1>2, <2>1, <2>5 DEF JbHandleHttpPost, bindVars, TypeOK
    <3>2. CASE c # s
      BY <2>3, <3>1, <3>2, LosesMoves
    <3>3. CASE c = s /\ output_queue[s] > 0
      BY <2>3, <3>1, <3>3, LosesMoves
    <3>4. CASE c = s /\ ~(output_queue[s] > 0)
      <4>1. output_queue[s] = 0
        BY <1>2, <3>4, BindAssumption DEF TypeOK
      <4> QED
        BY <2>2, <3>1, <3>4, <4>1 DEF SessionMoves, SessionState, Holds
    <3> QED
      BY <3>2, <3>3, <3>4
  <2> QED
    BY <2>4, <2>5
<1> QED
  BY <1>1, <1>3, <1>4, <1>5, <1>6

LEMMA JabberEventMoves ==
    ASSUME SessionInv, JabberEvent
    PROVE  \A c \in Clients : SessionMoves(c)
<1> SUFFICES ASSUME NEW c \in Clients PROVE SessionMoves(c)
  OBVIOUS
<1>1. PICK s \in Clients :
        \/ JcAnswerCreation(s)
        \/ JcHandleError(s)
        \/ JabberWritable(s)
        \/ \E n \in 0..MaxQueue, ends \in BOOLEAN : JcReadJabber(s, n, ends)
  BY DEF JabberEvent
<1>2. TypeOK
  BY DEF SessionInv
<1>3. CASE EndSession(s)
  BY <1>3, EndSessionMoves
<1>4. CASE ~EndSession(s) /\ (JcAnswerCreation(s) \/ JcHandleError(s) \/ JabberWritable(s))
  <2>1. UNCHANGED <<bindVars, connection, output_queue>>
    BY <1>4 DEF JcAnswerCreation, JcHandleError, JabberWritable
  <2> QED
    BY <2>1, LosesMoves DEF bindVars
<1>5. CASE ~EndSession(s) /\ \E n \in 0..MaxQueue, ends \in BOOLEAN : JcReadJabber(s, n, ends)
  <2>1. PICK n \in 0..MaxQueue, ends \in BOOLEAN : JcReadJabber(s, n, ends)
    BY <1>5
  <2>2. /\ JcFlushMessages(s, output_queue[s] + n)
        /\ jabber_connections' = jabber_connections
    BY <1>5, <2>1 DEF JcReadJabber, bindVars
  <2>3. CASE Holds(s) /\ output_queue[s] + n > 0
    <3>1. Release({s}) /\ output_queue' = [output_queue EXCEPT ![s] = 0]
      BY <2>2, <2>3 DEF JcFlushMessages
    <3>2. connection'[c] = IF c = s THEN NULL ELSE connection[c]
      BY <1>2, <3>1, ReleaseFacts
    <3>3. output_queue'[c] = IF c = s THEN 0 ELSE output_queue[c]
      BY <1>2, <3>1 DEF TypeOK
    <3> QED
      BY <2>2, <3>2, <3>3, LosesMoves
  <2>4. CASE ~(Holds(s) /\ output_queue[s] + n > 0)
    <3>1. /\ connection' = connection
          /\ output_queue'[c] = IF c = s THEN output_queue[s] + n ELSE output_queue[c]
      BY <1>2, <2>2, <2>4 DEF JcFlushMessages, TypeOK
    <3>2. n \in Nat /\ output_queue[s] \in Nat
      BY <1>2, BindAssumption DEF TypeOK
    <3>3. CASE c # s \/ n = 0
      BY <2>2, <3>1, <3>2, <3>3, LosesMoves
    <3>4. CASE c = s /\ n > 0
      <4>1. s \in jabber_connections
        BY <2>1, MonitoredIsLive DEF JcReadJabber, SessionInv
      <4>2. ~Holds(s)
        BY <2>4, <3>2, <3>4
      <4> QED
        BY <2>2, <3>1, <3>2, <3>4, <4>1, <4>2 DEF SessionMoves, SessionState, Holds
    <3> QED
      BY <3>2, <3>3, <3>4
  <2> QED
    BY <2>3, <2>4
<1> QED
  BY <1>1, <1>3, <1>4, <1>5

LEMMA LoopStepMoves ==
    ASSUME SessionInv, LoopStep
    PROVE  \A c \in Clients : SessionMoves(c)
<1> SUFFICES ASSUME NEW c \in Clients PROVE SessionMoves(c)
  OBVIOUS
<1>1. TypeOK
  BY DEF SessionInv
<1>2. CASE LoopTop \/ PollEvents \/ PollTimeout \/ DispatchDone
  <2>1. UNCHANGED <<bindVars, clientVars>>
    BY <1>2 DEF LoopTop, PollEvents, PollTimeout, DispatchDone, Goto
  <2> QED
    BY <2>1, LosesMoves DEF bindVars, clientVars
<1>3. CASE \E R, C \in SUBSET Clients : Release(R \cup C) /\ JbCloseClients(C)
  <2>1. PICK R \in SUBSET Clients, C \in SUBSET Clients :
            Release(R \cup C) /\ JbCloseClients(C)
    BY <1>3
  <2>2. connection'[c] = connection[c] \/ connection'[c] = NULL
    BY <1>1, <2>1, ReleaseFacts
  <2>3. /\ jabber_connections' = jabber_connections \ C
        /\ output_queue'[c] = IF c \in C THEN 0 ELSE output_queue[c]
    BY <1>1, <2>1, JbCloseClientsFacts
  <2>4. CASE c \in C
    BY <2>3, <2>4, EndsMoves
  <2>5. CASE c \notin C
    BY <2>2, <2>3, <2>5, LosesMoves
  <2> QED
    BY <2>4, <2>5
<1>4. CASE JbCheckTimeout
  <2> DEFINE R == {s \in jabber_connections : RequestTimedOut(s)}
             C == {s \in jabber_connections : SessionTimedOut(s)}
  <2>1. R \in SUBSET Clients /\ C \in SUBSET Clients
    BY <1>1 DEF TypeOK
  <2>2. Release(R \cup C) /\ JbCloseClients(C)
    BY <1>4 DEF JbCheckTimeout
  <2> HIDE DEF R, C
  <2> QED
    BY <1>3, <2>1, <2>2
<1>5. CASE JbDelete
  <2>1. jabber_connections \in SUBSET Clients /\ {} \in SUBSET Clients
    BY <1>1 DEF TypeOK
  <2>2. Release({} \cup jabber_connections) /\ JbCloseClients(jabber_connections)
    <3>1. {} \cup jabber_connections = jabber_connections
      OBVIOUS
    <3> QED
      BY <1>5, <3>1 DEF JbDelete
  <2> QED
    BY <1>3, <2>1, <2>2
<1> QED
  BY <1>2, <1>4, <1>5 DEF LoopStep

LEMMA EveryStepMoves ==
    ASSUME SessionInv, [Next]_vars
    PROVE  \A c \in Clients : SessionMoves(c)
<1>1. CASE HandleSignal \/ Tick \/ Terminated \/ UNCHANGED vars
  <2>1. UNCHANGED <<jabber_connections, connection, output_queue>>
    BY <1>1 DEF HandleSignal, Tick, Terminated, vars, bindVars, clientVars
  <2> QED
    BY <2>1, LosesMoves
<1> QED
  BY <1>1, HttpEventMoves, JabberEventMoves, LoopStepMoves DEF Next

LEMMA SessionInvStep == SessionInv /\ [Next]_vars => SessionInv'
<1> SUFFICES ASSUME SessionInv, [Next]_vars PROVE SessionInv'
  OBVIOUS
<1>1. TypeOK' /\ RegistryConsistent'
  BY TypeStep, RegistryStep DEF SessionInv
<1>2. NoMessageBehindRequest'
  <2> SUFFICES ASSUME NEW s \in Clients, connection'[s] # NULL
               PROVE  output_queue'[s] = 0
    BY DEF NoMessageBehindRequest, Holds
  <2>1. SessionState(s)' = "waiting"
    BY <1>1 DEF SessionState, RegistryConsistent, Holds
  <2>2. SessionState(s) = "waiting" => output_queue[s] = 0
    BY DEF SessionInv, NoMessageBehindRequest, SessionState
  <2> QED
    BY <2>1, <2>2, EveryStepMoves DEF SessionMoves
<1> QED
  BY <1>1, <1>2 DEF SessionInv

LEMMA SessionInvAlways == Spec => []SessionInv
<1>1. Init => SessionInv
  BY TypeInit, FS_EmptySet
    DEF Init, SessionInv, RegistryConsistent, NoMessageBehindRequest, Holds
<1> QED
  BY <1>1, SessionInvStep, PTL DEF Spec

(* No message waits in a session that holds a request it could be sent in: *)
(* every handler that queues messages or installs a request flushes.       *)
THEOREM NoMessageWaitsBehindRequest == Spec => []NoMessageBehindRequest
<1>1. SessionInv => NoMessageBehindRequest
  BY DEF SessionInv
<1> QED
  BY <1>1, SessionInvAlways, PTL

(* The connection manager implements the abstract sessions, several of     *)
(* which may move in one pass over the timeouts.                           *)
THEOREM BindImplementsBoshSession == Spec => ImplementsBoshSession
<1>1. Init => Sessions!Init
  BY DEF Init, Sessions!Init, SessionState
<1>2. ASSUME SessionInv, SessionInv', [Next]_vars
      PROVE  [Sessions!Next]_(Sessions!vars)
  <2>1. \A s \in Clients : SessionState(s)' \in {"none", "idle", "waiting"}
    BY DEF SessionState
  <2>2. \A s \in Clients : output_queue'[s] \in Nat
    BY <1>2, BindAssumption DEF SessionInv, TypeOK
  <2>3. output_queue' \in [Clients -> Nat]
    BY <1>2, <2>2 DEF SessionInv, TypeOK
  <2>4. \A s \in Clients : SessionMoves(s)
    BY <1>2, EveryStepMoves
  <2>5. Sessions!Next
    BY <2>1, <2>3, <2>4
      DEF Sessions!Next, Sessions!Sessions, Sessions!Create, Sessions!Hold, Sessions!Take,
          Sessions!Answer, Sessions!Queue, Sessions!End, Sessions!Stay, Sessions!From,
          SessionMoves
  <2> QED
    BY <2>5
<1> QED
  BY <1>1, <1>2, SessionInvAlways, PTL DEF Spec, ImplementsBoshSession, Sessions!Spec
-----------------------------------------------------------------------------
(* The argument of sm_poll                                                 *)

LEMMA EventsInDispatch ==
    ASSUME HttpEvent \/ JabberEvent
    PROVE  phase = "dispatch"
<1>1. ASSUME HttpEvent PROVE phase = "dispatch"
  <2>1. ASSUME NEW h \in Conns PROVE MayRequest(h) => phase = "dispatch"
    BY DEF MayRequest
  <2> QED
    BY <1>1, <2>1
      DEF HttpEvent, HsAccept, HcClose, HcReportError, HttpWritable, AnswerNow,
          ConnectRefused, JbConnectClient, JbHandleHttpPost
<1>2. ASSUME JabberEvent PROVE phase = "dispatch"
  BY <1>2
    DEF JabberEvent, JcAnswerCreation, JcHandleError, JabberWritable, JcReadJabber, Monitored
<1> QED
  BY <1>1, <1>2

LEMMA TickKeepsPace ==
    ASSUME TypeOK, NeverOversleeps, Tick
    PROVE  NeverOversleeps'
<1> SUFFICES ASSUME phase = "poll", NEW s \in jabber_connections
             PROVE  timeout' <= NotNegative(Remaining(s))'
  BY DEF Tick, NeverOversleeps, bindVars
<1>1. /\ s \in Clients
      /\ wait[s] \in Int /\ idle[s] \in Int /\ SessionTimeout \in Int
      /\ timeout \in Int
  <2>1. s \in Clients /\ timeout \in 0..SessionTimeout
    BY DEF TypeOK
  <2> QED
    BY <2>1, ClientTimes
<1>2. timeout <= NotNegative(Remaining(s))
  BY DEF NeverOversleeps
<1>3. /\ idle'[s] = idle[s] \/ idle'[s] = idle[s] + 1
      /\ connection' = connection /\ wait' = wait
      /\ timeout' = IF timeout > 0 THEN timeout - 1 ELSE 0
  BY <1>1 DEF Tick, TypeOK
<1>4. Remaining(s)' >= Remaining(s) - 1 /\ Remaining(s)' \in Int /\ Remaining(s) \in Int
  BY <1>1, <1>3 DEF Remaining, Holds
<1> QED
  BY <1>1, <1>2, <1>3, <1>4 DEF NotNegative

LEMMA OversleepStep == TypeOK /\ NeverOversleeps /\ [Next]_vars => NeverOversleeps'
<1> SUFFICES ASSUME TypeOK, NeverOversleeps, [Next]_vars PROVE NeverOversleeps'
  OBVIOUS
<1>1. CASE LoopTop
  BY <1>1, LoopTopFacts
    DEF LoopTop, Goto, NeverOversleeps, NotNegative, Remaining, Holds, bindVars, clientVars
<1>2. CASE Tick
  BY <1>2, TickKeepsPace
<1>3. CASE UNCHANGED vars \/ Terminated
  BY <1>3
    DEF Terminated, NeverOversleeps, NotNegative, Remaining, Holds, vars, loopVars,
        bindVars, clientVars
<1>4. CASE HttpEvent \/ JabberEvent
  <2>1. phase' # "poll"
    BY <1>4
      DEF HttpEvent, JabberEvent, HsAccept, HcClose, HcReportError, MayRequest,
          HttpWritable, AnswerNow, ConnectRefused, JbConnectClient, JbHandleHttpPost,
          JcAnswerCreation, JcHandleError, JabberWritable, JcReadJabber, Monitored,
          EndSession, loopVars
  <2> QED
    BY <2>1 DEF NeverOversleeps
<1>5. CASE PollEvents \/ PollTimeout \/ DispatchDone \/ JbCheckTimeout \/ JbDelete
  <2>1. phase' # "poll"
    BY <1>5
      DEF PollEvents, PollTimeout, DispatchDone, JbCheckTimeout, JbDelete, Goto
  <2> QED
    BY <2>1 DEF NeverOversleeps
<1>6. CASE HandleSignal
  <2>1. phase' = "poll" => phase = "poll"
    BY <1>6 DEF HandleSignal
  <2>2. UNCHANGED <<timeout, jabber_connections, connection, idle, wait>>
    BY <1>6 DEF HandleSignal, bindVars, clientVars
  <2> QED
    BY <2>1, <2>2 DEF NeverOversleeps, NotNegative, Remaining, Holds
<1> QED
  BY <1>1, <1>2, <1>3, <1>4, <1>5, <1>6 DEF Next, LoopStep

(* Whatever requests come and go between two calls, sm_poll is called with *)
(* a time that no live session's deadline comes before.                    *)
THEOREM LoopNeverOversleeps == Spec => []NeverOversleeps
<1>1. Init => NeverOversleeps
  BY DEF Init, NeverOversleeps
<1> QED
  BY <1>1, TypeCorrect, OversleepStep, PTL DEF Spec

(* jb_check_timeout closes no session that holds a request and none that   *)
(* was active within the session timeout.                                  *)
THEOREM ReapsOnlyIdle == Spec => ReapsOnlyIdleSessions
<1>1. ASSUME TypeOK, [Next]_vars
      PROVE  [\A s \in jabber_connections \ jabber_connections' :
                    phase = "check" => ~Holds(s) /\ idle[s] >= SessionTimeout]_vars
  <2> SUFFICES ASSUME NEW s \in jabber_connections \ jabber_connections',
                      phase = "check"
               PROVE  ~Holds(s) /\ idle[s] >= SessionTimeout
    OBVIOUS
  <2>1. ~HttpEvent /\ ~JabberEvent
    BY EventsInDispatch
  <2>2. JbCheckTimeout
    BY <1>1, <2>1
      DEF Next, LoopStep, LoopTop, PollEvents, PollTimeout, DispatchDone, JbDelete, Goto,
          HandleSignal, Tick, Terminated, vars, bindVars
  <2> DEFINE C == {c \in jabber_connections : SessionTimedOut(c)}
  <2>3. JbCloseClients(C)
    BY <2>2 DEF JbCheckTimeout
  <2>4. s \in C
    BY <2>3 DEF JbCloseClients
  <2> QED
    BY <2>4 DEF SessionTimedOut
<1> QED
  BY <1>1, TypeCorrect, PTL DEF Spec, ReapsOnlyIdleSessions

=============================================================================
