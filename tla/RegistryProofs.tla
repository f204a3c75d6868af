--------------------------- MODULE RegistryProofs ---------------------------
(***************************************************************************)
(* The clients of Registry for any number of clients, sids, lists and       *)
(* nodes: the list, the iterators in the structs and the hash name the      *)
(* same clients, and a check of the timeouts closes the expired ones.       *)
(*                                                                         *)
(* Registry is a user of the lists and of the hash: each of its steps is    *)
(* one of theirs or leaves them alone, so what is proved of them holds      *)
(* here.                                                                   *)
(***************************************************************************)
EXTENDS Registry, LinkedListProofs, HashTableProofs

FieldTypes ==
    /\ live \subseteq Clients
    /\ sid \in [Clients -> Keys \cup {NULL}]
    /\ it \in [Clients -> Nodes \cup {NULL}]
    /\ phase \in {"idle", "scan", "close", "delete", "deleted"}
    /\ cursor \in Lists \cup Nodes \cup {NULL}
    /\ closing \in Clients \cup {NULL}
    /\ expired \subseteq Clients
    /\ before \subseteq Clients

(* Each client is on the list once, where its iterator points. *)
Listed ==
    /\ \A n \in NodesOf(jabber_connections) : value[n] \in live /\ it[value[n]] = n
    /\ \A c \in live : it[c] \in NodesOf(jabber_connections) /\ value[it[c]] = c

Entry(c) == [key |-> sid[c], value |-> c]

(* The nodes of the hash are the clients under their sids. *)
Hashed ==
    /\ AllNodes = {Entry(c) : c \in live}
    /\ \A c, d \in live : sid[c] = sid[d] => c = d

Waiting == {value[n] : n \in NodesOf(to_close)}

(* A client waits to be closed once, and while it exists. *)
WaitOnce ==
    /\ \A m, n \in NodesOf(to_close) : value[m] = value[n] => m = n
    /\ Waiting \subseteq live

(* The clients that the loop has looked at when it is at the vertex i. *)
Seen(i) == {value[Walk(jabber_connections)[j]] : j \in 1..(i - 1)}

Scanning ==
    /\ before = live
    /\ \E i \in 1..(Len(Walk(jabber_connections)) + 1) :
        /\ cursor = Vertex(jabber_connections, Walk(jabber_connections), i)
        /\ Waiting = Seen(i) \cap expired

(* Of the clients that were there only expired ones have gone, and those    *)
(* that have not are in to_close or in the hands of the loop.              *)
Closing ==
    /\ live \ expired = before \ expired
    /\ live \cap expired = Waiting \cup ({closing} \ {NULL})
    /\ closing \notin Waiting

PassInv ==
    /\ phase = "scan" => Scanning
    /\ phase = "close" => Closing
    /\ phase \notin {"scan", "close"} => Waiting = {}
    /\ phase # "close" => closing = NULL
    /\ phase = "deleted" => live = {}
    /\ task = "clear" => live = {}

RegistryInv ==
    /\ ListInv
    /\ HashInv
    /\ FieldTypes
    /\ Listed
    /\ Hashed
    /\ WaitOnce
    /\ PassInv

-----------------------------------------------------------------------------
(* The lists after a step *)

Kept(m) ==
    /\ Walk(m)' = Walk(m) /\ NodesOf(m)' = NodesOf(m)
    /\ \A n \in NodesOf(m) : value'[n] = value[n]

NodeAdded(l, node, v) ==
    /\ \A m \in Lists : node \notin NodesOf(m)
    /\ NodesOf(l)' = NodesOf(l) \cup {node}
    /\ value'[node] = v
    /\ \A n \in NodesOf(l) : value'[n] = value[n]
    /\ \A m \in Lists \ {l} : Kept(m)

NodeGone(l, node) ==
    /\ node \in NodesOf(l)
    /\ NodesOf(l)' = NodesOf(l) \ {node}
    /\ \A n \in NodesOf(l) \ {node} : value'[n] = value[n]
    /\ \A m \in Lists \ {l} : Kept(m)

LEMMA NodesAfter == \A m \in Lists : NodesOf(m)' = Members(Chain(m, next'))
  BY WalkAfter DEF NodesOf, Members

LEMMA WalkKept ==
    ASSUME ListInv, NEW m \in Lists, Chain(m, next') = Walk(m),
           \A n \in NodesOf(m) : value'[n] = value[n]
    PROVE  Kept(m)
  BY WalkAfter, NodesAfter, ListFacts DEF Kept

LEMMA InsertedNode ==
    ASSUME ListInv, NEW l \in Lists, NEW i \in 1..(Len(Walk(l)) + 1),
           NEW node \in Nodes, NEW v, InsertDone(l, i, node, v)
    PROVE  NodeAdded(l, node, v)
<1>1. /\ node \notin used /\ Chain(l, next') = Ins(Walk(l), i, node)
      /\ \A m \in Lists \ {l} : Chain(m, next') = Walk(m)
      /\ value' = [value EXCEPT ![node] = v] /\ value \in [Nodes -> Values \cup {NULL}]
  BY DEF InsertDone, ListInv, ListTypes
<1>2. \A m \in Lists : node \notin NodesOf(m) /\ NodesOf(m) \subseteq Nodes
  BY <1>1, ListFacts
<1>3. \A m \in Lists : \A n \in NodesOf(m) : value'[n] = value[n]
  BY <1>1, <1>2
<1>4. \A m \in Lists \ {l} : Kept(m)
  BY <1>1, <1>3, WalkKept
<1>5. NodesOf(l)' = NodesOf(l) \cup {node}
  <2>1. Walk(l) \in Seq(Nodes) /\ Members(Walk(l)) = NodesOf(l)
    BY ListFacts
  <2> QED
    BY <1>1, <2>1, NodesAfter, InsMembers
<1> QED
  BY <1>1, <1>2, <1>3, <1>4, <1>5 DEF NodeAdded

LEMMA ErasedNode ==
    ASSUME ListInv, NEW l \in Lists, NEW i \in 1..Len(Walk(l)), EraseDone(l, i)
    PROVE  NodeGone(l, Walk(l)[i])
<1>1. PICK node : node = Walk(l)[i]
  OBVIOUS
<1>2. /\ Chain(l, next') = Del(Walk(l), i)
      /\ \A m \in Lists \ {l} : Chain(m, next') = Walk(m)
      /\ value' = [value EXCEPT ![node] = NULL] /\ value \in [Nodes -> Values \cup {NULL}]
  BY <1>1 DEF EraseDone, ListInv, ListTypes
<1>3. /\ node \in NodesOf(l) /\ Walk(l) \in Seq(Nodes) /\ Members(Walk(l)) = NodesOf(l)
      /\ \A a, b \in 1..Len(Walk(l)) : Walk(l)[a] = Walk(l)[b] => a = b
  BY <1>1, ListFacts
<1>4. \A m \in Lists \ {l} : node \notin NodesOf(m)
  BY <1>3 DEF ListInv
<1>5. \A m \in Lists : \A n \in NodesOf(m) \ {node} : value'[n] = value[n]
  <2>1. \A m \in Lists : NodesOf(m) \subseteq Nodes
    BY ListFacts
  <2> QED
    BY <1>2, <2>1
<1>6. \A m \in Lists \ {l} : Kept(m)
  BY <1>2, <1>4, <1>5, WalkKept
<1>7. NodesOf(l)' = NodesOf(l) \ {node}
  BY <1>1, <1>2, <1>3, NodesAfter, DelMembers
<1> QED
  BY <1>1, <1>3, <1>5, <1>6, <1>7 DEF NodeGone

LEMMA PushBack ==
    ASSUME ListInv, NEW l \in Lists, NEW node \in Nodes, NEW v \in Values,
           list_push_back(l, node, v)
    PROVE  ListInv' /\ NodeAdded(l, node, v) /\ used' = used \cup {node}
<1>1. PICK i : i = Len(Walk(l)) + 1
  OBVIOUS
<1>2. i \in 1..(Len(Walk(l)) + 1) /\ Vertex(l, Walk(l), i) = l
  BY <1>1, ListFacts, VertexFacts
<1>3. ListInv' /\ InsertDone(l, i, node, v)
  BY <1>2, InsertStep DEF list_push_back
<1> QED
  BY <1>2, <1>3, InsertedNode DEF InsertDone

LEMMA EraseListNode ==
    ASSUME ListInv, NEW l \in Lists, NEW n \in NodesOf(l), list_erase(n)
    PROVE  ListInv' /\ NodeGone(l, n)
  BY EraseListed, ErasedNode

(* The list of the clients and to_close do not see the other lists. *)
LEMMA OtherLists ==
    ASSUME ListInv, NEW l \in Lists, NEW S \in SUBSET Values, ListStep(l, S),
           NEW m \in Lists, m # l
    PROVE  ListInv' /\ Kept(m)
<1>1. ListInv' /\ (Inserts(l) \/ Erases(l))
  BY ListStepFacts
<1>2. CASE Inserts(l)
  BY <1>1, <1>2, InsertedNode DEF Inserts, NodeAdded
<1>3. CASE Erases(l)
  BY <1>1, <1>3, ErasedNode DEF Erases, NodeGone
<1> QED
  BY <1>1, <1>2, <1>3

LEMMA StillLists ==
    ASSUME ListInv, UNCHANGED listVars, NEW m \in Lists
    PROVE  ListInv' /\ Kept(m)
<1>1. ListInv'
  BY ListUnchanged
<1>2. next' = next /\ value' = value
  BY DEF listVars
<1> QED
  BY <1>1, <1>2, WalkKept DEF Walk

-----------------------------------------------------------------------------
(* The hash *)

LEMMA EntryFacts ==
    ASSUME HashInv, FieldTypes, Hashed
    PROVE  /\ \A c \in live : Entry(c) \in AllNodes /\ sid[c] \in Keys
           /\ \A c \in live : Entry(c).key = sid[c] /\ Entry(c).value = c
           /\ KeysOf(AllNodes) = {sid[c] : c \in live}
           /\ \A n \in AllNodes : n.value \in live /\ n = Entry(n.value)
<1>1. \A c \in live : Entry(c) \in AllNodes /\ Entry(c).key = sid[c] /\ Entry(c).value = c
  BY DEF Hashed, Entry
<1>2. \A c \in live : sid[c] \in Keys
  <2>1. AllNodes \subseteq HashNodes
    BY InvFacts
  <2>2. \A n \in HashNodes : n.key \in Keys
    BY DEF HashNodes
  <2> QED
    BY <1>1, <2>1, <2>2
<1>3. \A n \in AllNodes : n.value \in live /\ n = Entry(n.value)
  BY <1>1 DEF Hashed
<1>4. KeysOf(AllNodes) = {sid[c] : c \in live}
  BY <1>1, <1>3 DEF KeysOf
<1> QED
  BY <1>1, <1>2, <1>3, <1>4

(* A find with the sid of a client gives the client. *)
LEMMA Found ==
    ASSUME HashInv, FieldTypes, Hashed, task = "none", NEW s \in Keys, hash_has_key(s)
    PROVE  /\ hash_find(s) \in live /\ sid[hash_find(s)] = s
           /\ SlotOf(s, table_size) \in DOMAIN table
           /\ First(Matches(s)) \in 1..Len(table[SlotOf(s, table_size)])
           /\ table[SlotOf(s, table_size)][First(Matches(s))] = Entry(hash_find(s))
<1>1. PICK b : b = SlotOf(s, table_size)
  OBVIOUS
<1>2. PICK i : i = First(Matches(s))
  OBVIOUS
<1>3. b \in DOMAIN table /\ i \in 1..Len(table[b]) /\ table[b][i].key = s
  BY <1>1, <1>2, MatchFacts
<1>4. table[b][i] \in AllNodes
  BY <1>3, InvFacts, ChainFacts DEF AllNodes
<1>5. hash_find(s) = table[b][i].value
  BY <1>1, <1>2 DEF hash_find
<1> QED
  BY <1>1, <1>2, <1>3, <1>4, <1>5, EntryFacts

LEMMA ClientFound ==
    ASSUME HashInv, FieldTypes, Hashed, task = "none", NEW c \in live
    PROVE  sid[c] \in Keys /\ hash_has_key(sid[c]) /\ hash_find(sid[c]) = c
<1>1. sid[c] \in Keys /\ sid[c] \in KeysOf(AllNodes)
  BY EntryFacts
<1>2. AllNodes = NodesIn(table)
  BY InvFacts
<1>3. hash_has_key(sid[c])
  BY <1>1, <1>2, MatchFacts
<1>4. hash_find(sid[c]) \in live /\ sid[hash_find(sid[c])] = sid[c]
  BY <1>1, <1>3, Found
<1> QED
  BY <1>1, <1>3, <1>4 DEF Hashed

LEMMA ErasedSid ==
    ASSUME HashInv, FieldTypes, Hashed, NEW c \in live, hash_erase(sid[c])
    PROVE  HashInv' /\ AllNodes' = AllNodes \ {Entry(c)} /\ task' = "none"
<1>1. task = "none" /\ task' = "none"
  BY DEF hash_erase
<1>2. PICK s : s = sid[c]
  OBVIOUS
<1>3. s \in Keys /\ hash_has_key(s) /\ hash_find(s) = c
  BY <1>1, <1>2, ClientFound
<1>4. PICK b : b = SlotOf(s, table_size)
  OBVIOUS
<1>5. PICK i : i = First(Matches(s))
  OBVIOUS
<1>6. b \in DOMAIN table /\ i \in 1..Len(table[b]) /\ table[b][i] = Entry(c)
  BY <1>1, <1>3, <1>4, <1>5, Found
<1>7. EraseNode(b, i)
  BY <1>2, <1>3, <1>4, <1>5 DEF hash_erase
<1>8. HashInv' /\ AllNodes' = AllNodes \ {table[b][i]}
  BY <1>1, <1>6, <1>7, HashInvErase
<1> QED
  BY <1>1, <1>6, <1>8

LEMMA StillHash ==
    ASSUME HashInv, UNCHANGED hashVars
    PROVE  HashInv' /\ AllNodes' = AllNodes
  BY HashInvStill DEF hashVars

(* A loop of the hash moves the nodes, or frees those that are left. *)
LEMMA HashLoopFacts ==
    ASSUME HashInv, HashLoop
    PROVE  /\ HashInv' /\ AllNodes' \subseteq AllNodes
           /\ task # "clear" => AllNodes' = AllNodes
           /\ task' = "clear" => task = "clear"
<1>1. CASE ResizeStep
  <2>1. HashInv' /\ AllNodes' = AllNodes
    BY <1>1, HashInvResizeStep
  <2>2. task = "resize" /\ task' \in {"none", "resize"}
    BY <1>1 DEF ResizeStep
  <2> QED
    BY <2>1, <2>2
<1>2. CASE ClearStep
  <2>1. task = "clear"
    BY <1>2 DEF ClearStep
  <2>2. PICK B : B = HasNodes(table)
    OBVIOUS
  <2>3. IsTable(table) /\ AllNodes = NodesIn(table)
    BY <2>1, InvFacts
  <2>4. CASE B = {}
    <3>1. AllNodes = {}
      BY <2>2, <2>3, <2>4, NoneLeft
    <3>2. task' = "none" /\ UNCHANGED <<table, table_size, element_count, old_table>>
      BY <1>2, <2>2, <2>4 DEF ClearStep
    <3>3. HashInv' /\ AllNodes' = AllNodes
      BY <2>1, <3>1, <3>2, HashInvStill
    <3> QED
      BY <2>1, <3>3
  <2>5. CASE B # {}
    <3>1. PICK b : b = First(B)
      OBVIOUS
    <3>2. b \in DOMAIN table /\ table[b] # <<>>
      BY <2>2, <2>3, <2>5, <3>1, FirstWithNodes
    <3>3. 1 \in 1..Len(table[b])
      BY <2>3, <3>2, ChainFacts, TailIsUnlink
    <3>4. EraseNode(b, 1) /\ UNCHANGED task
      BY <1>2, <2>2, <2>5, <3>1 DEF ClearStep
    <3>5. HashInv' /\ AllNodes' = AllNodes \ {table[b][1]}
      BY <2>1, <3>2, <3>3, <3>4, HashInvErase
    <3> QED
      BY <2>1, <3>5
  <2> QED
    BY <2>4, <2>5
<1> QED
  BY <1>1, <1>2 DEF HashLoop

-----------------------------------------------------------------------------
(* The steps of the clients *)

LEMMA InitInv == Init => RegistryInv
<1> SUFFICES ASSUME Init PROVE RegistryInv
  OBVIOUS
<1>1. ListInv /\ HashInv /\ AllNodes = {} /\ task = "none"
  BY ListInitInv, HashInvInit DEF Init, HashInit
<1>2. \A l \in Lists : NodesOf(l) = {}
  <2>1. \A l \in Lists : Walk(l) = <<>>
    BY ListInitInv DEF Init
  <2> QED
    BY <2>1, EmptySeq DEF NodesOf
<1>3. FieldTypes
  BY DEF Init, FieldTypes
<1>4. Listed /\ Hashed
  BY <1>1, <1>2, RegistryAssumption DEF Init, Listed, Hashed
<1>5. WaitOnce /\ Waiting = {}
  BY <1>2, RegistryAssumption DEF WaitOnce, Waiting
<1>6. PassInv
  BY <1>1, <1>5 DEF Init, PassInv
<1> QED
  BY <1>1, <1>3, <1>4, <1>5, <1>6 DEF RegistryInv

(* What the parts of the invariant that are about to_close need. *)
LEMMA WaitingKept ==
    ASSUME Kept(to_close) PROVE Waiting' = Waiting /\ (WaitOnce /\ live \subseteq live' => WaitOnce')
<1>1. Waiting' = Waiting
  BY DEF Kept, Waiting
<1> QED
  BY <1>1 DEF Kept, WaitOnce

LEMMA ListedKept ==
    ASSUME Kept(jabber_connections), Listed, UNCHANGED <<live, it>>
    PROVE  Listed'
  BY DEF Kept, Listed

LEMMA NewClientInv ==
    ASSUME RegistryInv, NEW c \in Clients, NEW s \in Keys, NEW node \in Nodes,
           NewClient(c, s, node)
    PROVE  RegistryInv'
<1>1. /\ ListInv /\ HashInv /\ FieldTypes /\ Listed /\ Hashed /\ WaitOnce /\ PassInv
      /\ jabber_connections \in Lists /\ to_close \in Lists /\ jabber_connections # to_close
      /\ c \in Values /\ c \in HashValues
  BY RegistryAssumption DEF RegistryInv
<1>2. /\ c \notin live /\ ~hash_has_key(s) /\ hash_insert(s, c)
      /\ list_push_back(jabber_connections, node, c)
      /\ live' = live \cup {c} /\ sid' = [sid EXCEPT ![c] = s] /\ it' = [it EXCEPT ![c] = node]
      /\ phase = "idle" /\ UNCHANGED passVars
  BY DEF NewClient, Ready
<1>3. ListInv' /\ NodeAdded(jabber_connections, node, c)
  BY <1>1, <1>2, PushBack
<1>4. /\ HashInv' /\ s \notin KeysOf(AllNodes)
      /\ AllNodes' = AllNodes \cup {[key |-> s, value |-> c]}
  BY <1>1, <1>2, HashInvInsert
<1>5. task' # "clear"
  BY <1>2 DEF hash_insert, Resize
<1>6. FieldTypes'
  BY <1>1, <1>2 DEF FieldTypes, passVars
<1>7. /\ sid'[c] = s /\ it'[c] = node
      /\ \A d \in live : sid'[d] = sid[d] /\ it'[d] = it[d]
  BY <1>1, <1>2 DEF FieldTypes
<1>8. Listed'
  <2>1. ASSUME NEW n \in NodesOf(jabber_connections)'
        PROVE  value'[n] \in live' /\ it'[value'[n]] = n
    <3>1. CASE n = node
      BY <1>2, <1>3, <1>7, <3>1 DEF NodeAdded
    <3>2. CASE n \in NodesOf(jabber_connections)
      <4>1. value'[n] = value[n] /\ value[n] \in live /\ it[value[n]] = n
        BY <1>1, <1>3, <3>2 DEF NodeAdded, Listed
      <4> QED
        BY <1>2, <1>7, <4>1
    <3> QED
      BY <1>3, <3>1, <3>2 DEF NodeAdded
  <2>2. ASSUME NEW d \in live'
        PROVE  it'[d] \in NodesOf(jabber_connections)' /\ value'[it'[d]] = d
    <3>1. CASE d = c
      BY <1>3, <1>7, <3>1 DEF NodeAdded
    <3>2. CASE d \in live
      <4>1. it[d] \in NodesOf(jabber_connections) /\ value[it[d]] = d /\ it'[d] = it[d]
        BY <1>1, <1>7, <3>2 DEF Listed
      <4> QED
        BY <1>3, <4>1 DEF NodeAdded
    <3> QED
      BY <1>2, <3>1, <3>2
  <2> QED
    BY <2>1, <2>2 DEF Listed
<1>9. Hashed'
  <2>1. \A d \in live : Entry(d)' = Entry(d)
    BY <1>7 DEF Entry
  <2>2. Entry(c)' = [key |-> s, value |-> c]
    BY <1>7 DEF Entry
  <2>3. AllNodes' = {Entry(d)' : d \in live'}
    BY <1>1, <1>2, <1>4, <2>1, <2>2 DEF Hashed
  <2>4. ASSUME NEW d \in live', NEW e \in live', sid'[d] = sid'[e] PROVE d = e
    <3>1. \A f \in live : sid[f] # s
      BY <1>1, <1>4, EntryFacts
    <3> QED
      BY <1>1, <1>2, <1>7, <2>4, <3>1 DEF Hashed
  <2> QED
    BY <2>3, <2>4 DEF Hashed
<1>10. WaitOnce' /\ Waiting' = Waiting
  BY <1>1, <1>2, <1>3, WaitingKept DEF NodeAdded
<1>11. PassInv'
  BY <1>1, <1>2, <1>5, <1>10 DEF PassInv, passVars
<1> QED
  BY <1>3, <1>4, <1>6, <1>8, <1>9, <1>10, <1>11 DEF RegistryInv

(* What a close of a client does, in whichever loop. *)
Closed(c) ==
    /\ ListInv' /\ HashInv' /\ Listed' /\ Hashed'
    /\ live' = live \ {c}
    /\ sid' \in [Clients -> Keys \cup {NULL}] /\ it' \in [Clients -> Nodes \cup {NULL}]
    /\ Kept(to_close)
    /\ task' = "none"
    /\ used' \subseteq used

LEMMA CloseClientFacts ==
    ASSUME RegistryInv, NEW c \in live, CloseClient(c)
    PROVE  Closed(c)
<1>1. /\ ListInv /\ HashInv /\ FieldTypes /\ Listed /\ Hashed
      /\ jabber_connections \in Lists /\ to_close \in Lists /\ jabber_connections # to_close
      /\ c \in Clients
  BY RegistryAssumption DEF RegistryInv, FieldTypes
<1>2. /\ list_erase(it[c]) /\ hash_erase(sid[c]) /\ live' = live \ {c}
      /\ sid' = [sid EXCEPT ![c] = NULL] /\ it' = [it EXCEPT ![c] = NULL]
  BY DEF CloseClient
<1>3. it[c] \in NodesOf(jabber_connections) /\ value[it[c]] = c
  BY <1>1 DEF Listed
<1>4. ListInv' /\ NodeGone(jabber_connections, it[c])
  BY <1>1, <1>2, <1>3, EraseListNode
<1>5. HashInv' /\ AllNodes' = AllNodes \ {Entry(c)} /\ task' = "none"
  BY <1>1, <1>2, ErasedSid
<1>6. \A d \in live \ {c} : sid'[d] = sid[d] /\ it'[d] = it[d]
  BY <1>1, <1>2 DEF FieldTypes
<1>7. Listed'
  <2>1. ASSUME NEW n \in NodesOf(jabber_connections)'
        PROVE  value'[n] \in live' /\ it'[value'[n]] = n
    <3>1. n \in NodesOf(jabber_connections) /\ n # it[c] /\ value'[n] = value[n]
      BY <1>4 DEF NodeGone
    <3>2. value[n] \in live /\ it[value[n]] = n
      BY <1>1, <3>1 DEF Listed
    <3>3. value[n] # c
      BY <3>1, <3>2
    <3> QED
      BY <1>2, <1>6, <3>1, <3>2, <3>3
  <2>2. ASSUME NEW d \in live'
        PROVE  it'[d] \in NodesOf(jabber_connections)' /\ value'[it'[d]] = d
    <3>1. it[d] \in NodesOf(jabber_connections) /\ value[it[d]] = d /\ it'[d] = it[d] /\ d # c
      BY <1>1, <1>2, <1>6 DEF Listed
    <3>2. it[d] # it[c]
      BY <1>3, <3>1
    <3> QED
      BY <1>4, <3>1, <3>2 DEF NodeGone
  <2> QED
    BY <2>1, <2>2 DEF Listed
<1>8. Hashed'
  <2>1. \A d \in live' : Entry(d)' = Entry(d)
    BY <1>2, <1>6 DEF Entry
  <2>2. \A d \in live' : Entry(d) # Entry(c)
    BY <1>1, <1>2, EntryFacts
  <2>3. AllNodes' = {Entry(d)' : d \in live'}
    BY <1>1, <1>2, <1>5, <2>1, <2>2 DEF Hashed
  <2>4. \A d, e \in live' : sid'[d] = sid'[e] => d = e
    BY <1>1, <1>2, <1>6 DEF Hashed
  <2> QED
    BY <2>3, <2>4 DEF Hashed
<1>9. sid' \in [Clients -> Keys \cup {NULL}] /\ it' \in [Clients -> Nodes \cup {NULL}]
  BY <1>1, <1>2 DEF FieldTypes
<1>10. used' \subseteq used
  BY <1>2 DEF list_erase, Free
<1> QED
  BY <1>1, <1>2, <1>4, <1>5, <1>7, <1>8, <1>9, <1>10 DEF Closed, NodeGone

(* A close outside of the check, when to_close is empty. *)
LEMMA CloseIdleInv ==
    ASSUME RegistryInv, NEW c \in live, phase \in {"idle", "delete"}, CloseClient(c),
           UNCHANGED passVars
    PROVE  RegistryInv'
<1>1. Closed(c)
  BY CloseClientFacts
<1>2. FieldTypes /\ WaitOnce /\ PassInv
  BY DEF RegistryInv
<1>3. FieldTypes'
  BY <1>1, <1>2 DEF Closed, FieldTypes, passVars
<1>4. Waiting = {} /\ Waiting' = {}
  BY <1>1, <1>2, WaitingKept DEF PassInv, Closed
<1>5. WaitOnce'
  BY <1>1, <1>2, <1>4 DEF WaitOnce, Closed, Kept
<1>6. PassInv'
  BY <1>1, <1>2, <1>4 DEF PassInv, passVars, Closed
<1> QED
  BY <1>1, <1>3, <1>5, <1>6 DEF RegistryInv, Closed

LEMMA CloseBySidInv ==
    ASSUME RegistryInv, NEW s \in Keys, CloseBySid(s)
    PROVE  RegistryInv'
<1>1. hash_find(s) \in live
  BY Found DEF RegistryInv, CloseBySid, Ready
<1> QED
  BY <1>1, CloseIdleInv DEF CloseBySid, Ready

LEMMA CloseByCallbackInv ==
    ASSUME RegistryInv, NEW c \in Clients, CloseByCallback(c)
    PROVE  RegistryInv'
  BY CloseIdleInv DEF CloseByCallback, Ready

-----------------------------------------------------------------------------
(* The steps of jb_check_timeout *)

LEMMA StillParts ==
    ASSUME RegistryInv, UNCHANGED <<listVars, hashVars, fieldVars>>
    PROVE  /\ ListInv' /\ HashInv' /\ Listed' /\ Hashed' /\ WaitOnce'
           /\ Waiting' = Waiting /\ live' = live /\ sid' = sid /\ it' = it /\ task' = task
           /\ Kept(jabber_connections) /\ Kept(to_close)
<1>1. /\ ListInv /\ HashInv /\ Listed /\ Hashed /\ WaitOnce
      /\ jabber_connections \in Lists /\ to_close \in Lists
      /\ UNCHANGED listVars /\ UNCHANGED hashVars
  BY RegistryAssumption DEF RegistryInv
<1>2. live' = live /\ sid' = sid /\ it' = it /\ task' = task
  BY DEF fieldVars, hashVars
<1>3. ListInv' /\ Kept(jabber_connections) /\ Kept(to_close)
  BY <1>1, StillLists
<1>4. HashInv' /\ AllNodes' = AllNodes
  BY <1>1, StillHash
<1>5. Hashed'
  BY <1>1, <1>2, <1>4 DEF Hashed, Entry
<1> QED
  BY <1>1, <1>2, <1>3, <1>4, <1>5, ListedKept, WaitingKept

LEMMA SeenKept ==
    ASSUME ListInv, Kept(jabber_connections),
           NEW i \in 1..(Len(Walk(jabber_connections)) + 1)
    PROVE  Seen(i)' = Seen(i)
<1>1. PICK w : w = Walk(jabber_connections)
  OBVIOUS
<1>2. PICK k \in Nat : k = Len(w)
  BY <1>1, ListFacts, RegistryAssumption
<1>3. \A j \in 1..(i - 1) : j \in 1..k
  BY <1>1, <1>2
<1>4. \A j \in 1..k : value'[w[j]] = value[w[j]]
  <2>1. \A j \in 1..k : w[j] \in NodesOf(jabber_connections)
    BY <1>1, <1>2, ListFacts, RegistryAssumption
  <2> QED
    BY <2>1 DEF Kept
<1>5. Walk(jabber_connections)' = w
  BY <1>1 DEF Kept
<1> QED
  BY <1>1, <1>3, <1>4, <1>5 DEF Seen

(* The client at the vertex i is one that the loop has not seen. *)
LEMMA SeenNext ==
    ASSUME ListInv, Listed, NEW i \in 1..Len(Walk(jabber_connections)),
           NEW n, n = Walk(jabber_connections)[i]
    PROVE  /\ n \in NodesOf(jabber_connections) /\ value[n] \in live
           /\ Seen(i + 1) = Seen(i) \cup {value[n]}
           /\ value[n] \notin Seen(i)
           /\ i + 1 \in 1..(Len(Walk(jabber_connections)) + 1)
           /\ i \in 1..(Len(Walk(jabber_connections)) + 1)
<1>1. PICK w : w = Walk(jabber_connections)
  OBVIOUS
<1>2. PICK k \in Nat : k = Len(w)
  BY <1>1, ListFacts, RegistryAssumption
<1>3. /\ \A j \in 1..k : w[j] \in NodesOf(jabber_connections)
      /\ \A a, b \in 1..k : w[a] = w[b] => a = b
  BY <1>1, <1>2, ListFacts, RegistryAssumption
<1>4. i \in 1..k /\ n = w[i]
  BY <1>1, <1>2
<1>5. \A j : j \in 1..(i + 1 - 1) <=> j \in 1..(i - 1) \/ j = i
  BY <1>4
<1>6. Seen(i + 1) = Seen(i) \cup {value[n]}
  BY <1>1, <1>4, <1>5 DEF Seen
<1>7. ASSUME NEW j \in 1..(i - 1) PROVE value[w[j]] # value[n]
  <2>1. j \in 1..k /\ j # i
    BY <1>4
  <2>2. w[j] # n /\ w[j] \in NodesOf(jabber_connections)
    BY <1>3, <1>4, <2>1
  <2> QED
    BY <1>3, <1>4, <2>2 DEF Listed
<1>8. value[n] \notin Seen(i)
  BY <1>1, <1>7 DEF Seen
<1>9. i + 1 \in 1..(k + 1) /\ i \in 1..(k + 1)
  BY <1>4
<1> QED
  BY <1>1, <1>2, <1>3, <1>4, <1>6, <1>8, <1>9 DEF Listed

(* At the head again, the loop has seen every client. *)
LEMMA SeenAll ==
    ASSUME ListInv, Listed
    PROVE  Seen(Len(Walk(jabber_connections)) + 1) = live
<1>1. PICK w : w = Walk(jabber_connections)
  OBVIOUS
<1>2. PICK k \in Nat : k = Len(w)
  BY <1>1, ListFacts, RegistryAssumption
<1>3. /\ \A j \in 1..k : w[j] \in NodesOf(jabber_connections)
      /\ \A n \in NodesOf(jabber_connections) : \E j \in 1..k : n = w[j]
  BY <1>1, <1>2, ListFacts, RegistryAssumption
<1>4. \A j : j \in 1..(k + 1 - 1) <=> j \in 1..k
  BY <1>2
<1>5. Seen(k + 1) = {value[w[j]] : j \in 1..k}
  BY <1>1, <1>4 DEF Seen
<1>6. {value[w[j]] : j \in 1..k} = live
  <2>1. \A j \in 1..k : value[w[j]] \in live
    BY <1>3 DEF Listed
  <2>2. \A c \in live : \E j \in 1..k : c = value[w[j]]
    BY <1>3 DEF Listed
  <2> QED
    BY <2>1, <2>2
<1> QED
  BY <1>1, <1>2, <1>5, <1>6

LEMMA StartCheckInv ==
    ASSUME RegistryInv, StartCheck
    PROVE  RegistryInv'
<1>1. /\ phase = "idle" /\ task = "none" /\ phase' = "scan"
      /\ cursor' = next[jabber_connections] /\ expired' \subseteq live /\ before' = live
      /\ closing' = closing /\ UNCHANGED <<listVars, hashVars, fieldVars>>
  BY DEF StartCheck, Ready, list_begin
<1>2. /\ ListInv' /\ HashInv' /\ Listed' /\ Hashed' /\ WaitOnce'
      /\ Waiting' = Waiting /\ live' = live /\ sid' = sid /\ it' = it /\ task' = task
      /\ Kept(jabber_connections)
  BY <1>1, StillParts
<1>3. /\ ListInv /\ FieldTypes /\ PassInv /\ jabber_connections \in Lists
  BY RegistryAssumption DEF RegistryInv
<1>4. cursor' = Vertex(jabber_connections, Walk(jabber_connections), 1)
  BY <1>1, <1>3, Ends
<1>5. 1 \in 1..(Len(Walk(jabber_connections)) + 1)
  BY <1>3, ListFacts
<1>6. cursor' \in Lists \cup Nodes \cup {NULL}
  BY <1>1, <1>3 DEF ListInv, ListTypes, Pointers
<1>7. FieldTypes'
  BY <1>1, <1>2, <1>3, <1>6 DEF FieldTypes
<1>8. Seen(1)' = {} /\ Waiting' = {}
  <2>1. Seen(1) = {}
    BY DEF Seen
  <2> QED
    BY <1>1, <1>2, <1>3, <1>5, <2>1, SeenKept DEF PassInv
<1>9. Scanning'
  BY <1>1, <1>2, <1>4, <1>5, <1>8 DEF Scanning, Kept
<1>10. PassInv'
  BY <1>1, <1>2, <1>3, <1>9 DEF PassInv
<1> QED
  BY <1>2, <1>7, <1>10 DEF RegistryInv

LEMMA ScanInv ==
    ASSUME RegistryInv, NEW node \in Nodes, Scan(node)
    PROVE  RegistryInv'
<1>1. /\ phase = "scan" /\ task = "none" /\ cursor \in Nodes
      /\ cursor' = next'[cursor]
      /\ UNCHANGED <<phase, closing, expired, before, hashVars, fieldVars>>
  BY DEF Scan, Ready
<1>2. /\ ListInv /\ HashInv /\ FieldTypes /\ Listed /\ Hashed /\ WaitOnce /\ PassInv /\ Scanning
      /\ jabber_connections \in Lists /\ to_close \in Lists /\ jabber_connections # to_close
  BY <1>1, RegistryAssumption DEF RegistryInv, PassInv
<1>3. PICK w : w = Walk(jabber_connections)
  OBVIOUS
<1>4. PICK i \in 1..(Len(w) + 1) : cursor = Vertex(jabber_connections, w, i)
                                   /\ Waiting = Seen(i) \cap expired
  BY <1>2, <1>3 DEF Scanning
<1>5. i \in 1..Len(w) /\ cursor = w[i]
  BY <1>1, <1>2, <1>4, ListAssumption DEF Vertex
<1>6. /\ cursor \in NodesOf(jabber_connections) /\ value[cursor] \in live
      /\ Seen(i + 1) = Seen(i) \cup {value[cursor]} /\ value[cursor] \notin Seen(i)
      /\ i + 1 \in 1..(Len(w) + 1)
  BY <1>2, <1>3, <1>5, SeenNext
<1>7. value[cursor] \in Values
  BY <1>2, <1>6, RegistryAssumption DEF FieldTypes
<1>8. /\ ListInv' /\ Kept(jabber_connections)
      /\ Waiting' = Seen(i + 1) \cap expired /\ WaitOnce'
  <2>1. live' = live
    BY <1>1 DEF fieldVars
  <2>2. CASE value[cursor] \in expired
    <3>1. list_push_back(to_close, node, value[cursor])
      BY <2>2 DEF Scan
    <3>2. ListInv' /\ NodeAdded(to_close, node, value[cursor])
      BY <1>2, <1>7, <3>1, PushBack
    <3>3. Kept(jabber_connections)
      BY <1>2, <3>2 DEF NodeAdded
    <3>4. /\ NodesOf(to_close)' = NodesOf(to_close) \cup {node} /\ value'[node] = value[cursor]
          /\ \A n \in NodesOf(to_close) : value'[n] = value[n]
      BY <3>2 DEF NodeAdded
    <3>5. Waiting' = Waiting \cup {value[cursor]}
      BY <3>4 DEF Waiting
    <3>6. WaitOnce'
      <4>1. value[cursor] \notin Waiting
        BY <1>4, <1>6
      <4>2. \A n \in NodesOf(to_close) : value'[n] # value[cursor]
        BY <3>4, <4>1 DEF Waiting
      <4>3. \A m, n \in NodesOf(to_close)' : value'[m] = value'[n] => m = n
        BY <1>2, <3>4, <4>2 DEF WaitOnce
      <4> QED
        BY <1>2, <1>6, <2>1, <3>5, <4>3 DEF WaitOnce
    <3> QED
      BY <1>4, <1>6, <2>2, <3>2, <3>3, <3>5, <3>6
  <2>3. CASE value[cursor] \notin expired
    <3>1. UNCHANGED listVars
      BY <2>3 DEF Scan
    <3>2. ListInv' /\ Kept(jabber_connections) /\ Kept(to_close)
      BY <1>2, <3>1, StillLists
    <3>3. Waiting' = Waiting /\ WaitOnce'
      BY <1>2, <2>1, <3>2, WaitingKept
    <3> QED
      BY <1>4, <1>6, <2>3, <3>2, <3>3
  <2> QED
    BY <2>2, <2>3
<1>9. cursor' = Vertex(jabber_connections, w, i + 1)
  <2>1. Walk(jabber_connections)' = w
    BY <1>3, <1>8 DEF Kept
  <2>2. IsRing(jabber_connections, w, next', prev')
    <3>1. \A l \in Lists : IsRing(l, Walk(l)', next', prev')
      BY <1>8 DEF ListInv
    <3> QED
      BY <1>2, <2>1, <3>1
  <2>3. i \in 0..Len(w)
    BY <1>5
  <2>4. next'[Vertex(jabber_connections, w, i)] = Vertex(jabber_connections, w, i + 1)
    BY <2>2, <2>3 DEF IsRing
  <2> QED
    BY <1>1, <1>4, <2>4
<1>10. HashInv' /\ AllNodes' = AllNodes
  BY <1>1, <1>2, StillHash
<1>11. Listed' /\ Hashed'
  BY <1>1, <1>2, <1>8, <1>10, ListedKept DEF Hashed, Entry, fieldVars
<1>12. cursor' \in Lists \cup Nodes \cup {NULL}
  BY <1>2, <1>3, <1>9, ListFacts DEF Vertex
<1>13. FieldTypes'
  BY <1>1, <1>2, <1>12 DEF FieldTypes, fieldVars
<1>14. Scanning'
  <2>1. Seen(i + 1)' = Seen(i + 1) /\ Walk(jabber_connections)' = w
    BY <1>2, <1>3, <1>6, <1>8, SeenKept DEF Kept
  <2>2. before' = live' /\ expired' = expired
    BY <1>1, <1>2 DEF Scanning, fieldVars
  <2> QED
    BY <1>6, <1>8, <1>9, <2>1, <2>2 DEF Scanning
<1>15. PassInv'
  BY <1>1, <1>2, <1>14 DEF PassInv, hashVars
<1> QED
  BY <1>8, <1>10, <1>11, <1>13, <1>15 DEF RegistryInv

LEMMA ScanEndsInv ==
    ASSUME RegistryInv, ScanEnds
    PROVE  RegistryInv'
<1>1. /\ phase = "scan" /\ task = "none" /\ phase' = "close" /\ cursor = jabber_connections
      /\ UNCHANGED <<cursor, closing, expired, before, listVars, hashVars, fieldVars>>
  BY DEF ScanEnds, Ready
<1>2. /\ ListInv' /\ HashInv' /\ Listed' /\ Hashed' /\ WaitOnce'
      /\ Waiting' = Waiting /\ live' = live /\ sid' = sid /\ it' = it /\ task' = task
  BY <1>1, StillParts
<1>3. ListInv /\ FieldTypes /\ Listed /\ PassInv /\ Scanning /\ jabber_connections \in Lists
  BY <1>1, RegistryAssumption DEF RegistryInv, PassInv
<1>4. FieldTypes'
  BY <1>1, <1>2, <1>3 DEF FieldTypes
<1>5. PICK w : w = Walk(jabber_connections)
  OBVIOUS
<1>6. PICK i \in 1..(Len(w) + 1) : cursor = Vertex(jabber_connections, w, i)
                                   /\ Waiting = Seen(i) \cap expired
  BY <1>3, <1>5 DEF Scanning
<1>7. i = Len(w) + 1
  <2>1. jabber_connections \notin Nodes /\ Len(w) \in Nat
        /\ \A j \in 1..Len(w) : w[j] \in Nodes
    BY <1>3, <1>5, ListFacts, ListAssumption
  <2>2. i \notin 1..Len(w)
    BY <1>1, <1>6, <2>1 DEF Vertex
  <2> QED
    BY <2>1, <2>2
<1>8. Waiting = live \cap expired
  BY <1>3, <1>5, <1>6, <1>7, SeenAll
<1>9. closing = NULL /\ NULL \notin Waiting
  <2>1. NULL \notin Clients
    BY ListAssumption, RegistryAssumption
  <2> QED
    BY <1>1, <1>3, <1>8, <2>1 DEF PassInv, FieldTypes
<1>10. Closing'
  BY <1>1, <1>2, <1>3, <1>8, <1>9 DEF Closing, Scanning
<1>11. PassInv'
  BY <1>1, <1>2, <1>3, <1>10 DEF PassInv
<1> QED
  BY <1>2, <1>4, <1>11 DEF RegistryInv

LEMMA PopClientInv ==
    ASSUME RegistryInv, PopClient
    PROVE  RegistryInv'
<1>1. /\ phase = "close" /\ task = "none" /\ closing = NULL
      /\ list_pop_front(to_close) /\ closing' = value[next[to_close]]
      /\ UNCHANGED <<phase, cursor, expired, before, hashVars, fieldVars>>
  BY DEF PopClient, Ready, list_begin
<1>2. /\ ListInv /\ HashInv /\ FieldTypes /\ Listed /\ Hashed /\ WaitOnce /\ PassInv /\ Closing
      /\ jabber_connections \in Lists /\ to_close \in Lists /\ jabber_connections # to_close
  BY <1>1, RegistryAssumption DEF RegistryInv, PassInv
<1>3. PICK n : n = next[to_close]
  OBVIOUS
<1>4. n \in NodesOf(to_close) /\ list_erase(n)
  BY <1>1, <1>2, <1>3, Ends DEF list_pop_front, list_empty
<1>5. ListInv' /\ NodeGone(to_close, n)
  BY <1>2, <1>4, EraseListNode
<1>6. Kept(jabber_connections)
  BY <1>2, <1>5 DEF NodeGone
<1>7. /\ NodesOf(to_close)' = NodesOf(to_close) \ {n}
      /\ \A m \in NodesOf(to_close) \ {n} : value'[m] = value[m]
  BY <1>5 DEF NodeGone
<1>8. live' = live /\ closing' = value[n] /\ value[n] \in Waiting /\ value[n] \in live
  BY <1>1, <1>2, <1>3, <1>4 DEF Waiting, WaitOnce, fieldVars
<1>9. Waiting' = Waiting \ {value[n]}
  BY <1>2, <1>4, <1>7 DEF Waiting, WaitOnce
<1>10. WaitOnce'
  <2>1. \A a, b \in NodesOf(to_close)' : value'[a] = value'[b] => a = b
    BY <1>2, <1>7 DEF WaitOnce
  <2> QED
    BY <1>2, <1>8, <1>9, <2>1 DEF WaitOnce
<1>11. HashInv' /\ AllNodes' = AllNodes
  BY <1>1, <1>2, StillHash
<1>12. Listed' /\ Hashed'
  BY <1>1, <1>2, <1>6, <1>11, ListedKept DEF Hashed, Entry, fieldVars
<1>13. value[n] \in Clients /\ value[n] # NULL
  BY <1>2, <1>8, ListAssumption, RegistryAssumption DEF FieldTypes
<1>14. FieldTypes'
  BY <1>1, <1>2, <1>8, <1>13 DEF FieldTypes, fieldVars
<1>15. Closing'
  BY <1>1, <1>2, <1>8, <1>9, <1>13 DEF Closing
<1>16. PassInv'
  BY <1>1, <1>2, <1>15 DEF PassInv, hashVars
<1> QED
  BY <1>5, <1>10, <1>11, <1>12, <1>14, <1>16 DEF RegistryInv

LEMMA ClosePoppedInv ==
    ASSUME RegistryInv, ClosePopped
    PROVE  RegistryInv'
<1>1. /\ phase = "close" /\ closing # NULL /\ CloseClient(closing) /\ closing' = NULL
      /\ UNCHANGED <<phase, cursor, expired, before>>
  BY DEF ClosePopped, Ready
<1>2. FieldTypes /\ WaitOnce /\ PassInv /\ Closing
  BY <1>1 DEF RegistryInv, PassInv
<1>3. closing \in live /\ closing \in expired /\ closing \notin Waiting
  BY <1>1, <1>2 DEF Closing
<1>4. Closed(closing)
  BY <1>1, <1>3, CloseClientFacts
<1>5. Waiting' = Waiting /\ live' = live \ {closing} /\ task' = "none" /\ Kept(to_close)
  BY <1>4, WaitingKept DEF Closed
<1>6. FieldTypes'
  BY <1>1, <1>2, <1>4 DEF FieldTypes, Closed
<1>7. WaitOnce'
  <2>1. \A a, b \in NodesOf(to_close)' : value'[a] = value'[b] => a = b
    BY <1>2, <1>5 DEF WaitOnce, Kept
  <2> QED
    BY <1>2, <1>3, <1>5, <2>1 DEF WaitOnce
<1>8. NULL \notin Waiting
  BY <1>2, ListAssumption, RegistryAssumption DEF WaitOnce, FieldTypes
<1>9. Closing'
  BY <1>1, <1>2, <1>3, <1>5, <1>8 DEF Closing
<1>10. PassInv'
  BY <1>1, <1>2, <1>5, <1>9 DEF PassInv
<1> QED
  BY <1>4, <1>6, <1>7, <1>10 DEF RegistryInv, Closed

(* Nobody waits when to_close is empty, and what is left was not expired. *)
LEMMA AllClosed ==
    ASSUME RegistryInv, CheckEnds
    PROVE  Waiting = {} /\ live = before \ expired
<1>1. /\ ListInv /\ Closing /\ closing = NULL /\ next[to_close] = to_close /\ to_close \in Lists
  BY RegistryAssumption DEF RegistryInv, PassInv, CheckEnds, Ready, list_empty
<1>2. Walk(to_close) = <<>>
  BY <1>1, Ends
<1>3. Waiting = {}
  BY <1>2, EmptySeq DEF Waiting, NodesOf
<1> QED
  BY <1>1, <1>3 DEF Closing

LEMMA CheckEndsInv ==
    ASSUME RegistryInv, CheckEnds
    PROVE  RegistryInv'
<1>1. /\ phase = "close" /\ task = "none" /\ closing = NULL /\ phase' = "idle"
      /\ expired' = {} /\ before' = {} /\ cursor' = NULL
      /\ closing' = closing /\ UNCHANGED <<listVars, hashVars, fieldVars>>
  BY DEF CheckEnds, Ready
<1>2. /\ ListInv' /\ HashInv' /\ Listed' /\ Hashed' /\ WaitOnce'
      /\ Waiting' = Waiting /\ live' = live /\ sid' = sid /\ it' = it /\ task' = task
  BY <1>1, StillParts
<1>3. FieldTypes'
  BY <1>1, <1>2 DEF RegistryInv, FieldTypes
<1>4. PassInv'
  BY <1>1, <1>2, AllClosed DEF PassInv
<1> QED
  BY <1>2, <1>3, <1>4 DEF RegistryInv

-----------------------------------------------------------------------------
(* The steps of jb_delete, of the hash and of the other lists *)

LEMMA StartDeleteInv ==
    ASSUME RegistryInv, StartDelete
    PROVE  RegistryInv'
<1>1. /\ phase = "idle" /\ task = "none" /\ phase' = "delete"
      /\ UNCHANGED <<cursor, closing, expired, before, listVars, hashVars, fieldVars>>
  BY DEF StartDelete, Ready
<1>2. /\ ListInv' /\ HashInv' /\ Listed' /\ Hashed' /\ WaitOnce'
      /\ Waiting' = Waiting /\ live' = live /\ sid' = sid /\ it' = it /\ task' = task
  BY <1>1, StillParts
<1>3. FieldTypes'
  BY <1>1, <1>2 DEF RegistryInv, FieldTypes
<1>4. PassInv'
  BY <1>1, <1>2 DEF RegistryInv, PassInv
<1> QED
  BY <1>2, <1>3, <1>4 DEF RegistryInv

LEMMA DeleteFrontInv ==
    ASSUME RegistryInv, DeleteFront
    PROVE  RegistryInv'
<1>1. /\ phase = "delete" /\ next[jabber_connections] # jabber_connections
      /\ CloseClient(value[next[jabber_connections]]) /\ UNCHANGED passVars
  BY DEF DeleteFront, Ready, list_empty, list_begin
<1>2. next[jabber_connections] \in NodesOf(jabber_connections)
  BY <1>1, Ends, RegistryAssumption DEF RegistryInv
<1>3. value[next[jabber_connections]] \in live
  BY <1>2 DEF RegistryInv, Listed
<1> QED
  BY <1>1, <1>3, CloseIdleInv

LEMMA DeleteHashInv ==
    ASSUME RegistryInv, DeleteHash
    PROVE  RegistryInv'
<1>1. /\ phase = "delete" /\ task = "none" /\ next[jabber_connections] = jabber_connections
      /\ phase' = "deleted" /\ task' = "clear"
      /\ UNCHANGED <<table, table_size, element_count, old_table>>
      /\ UNCHANGED <<cursor, closing, expired, before, listVars, fieldVars>>
  BY DEF DeleteHash, Ready, list_empty, hash_clear
<1>2. /\ ListInv /\ HashInv /\ FieldTypes /\ Listed /\ Hashed /\ WaitOnce /\ PassInv
      /\ jabber_connections \in Lists /\ to_close \in Lists
  BY RegistryAssumption DEF RegistryInv
<1>3. ListInv' /\ Kept(jabber_connections) /\ Kept(to_close)
  BY <1>1, <1>2, StillLists
<1>4. HashInv' /\ AllNodes' = AllNodes
  BY <1>1, <1>2, HashInvStill
<1>5. live' = live /\ sid' = sid /\ it' = it
  BY <1>1 DEF fieldVars
<1>6. Listed' /\ Hashed'
  BY <1>2, <1>3, <1>4, <1>5, ListedKept DEF Hashed, Entry
<1>7. WaitOnce' /\ Waiting' = Waiting
  BY <1>2, <1>3, <1>5, WaitingKept
<1>8. live = {}
  <2>1. Walk(jabber_connections) = <<>>
    BY <1>1, <1>2, Ends
  <2>2. NodesOf(jabber_connections) = {}
    BY <2>1, EmptySeq DEF NodesOf
  <2> QED
    BY <1>2, <2>2 DEF Listed
<1>9. FieldTypes'
  BY <1>1, <1>2, <1>5 DEF FieldTypes
<1>10. PassInv'
  BY <1>1, <1>2, <1>5, <1>7, <1>8 DEF PassInv
<1> QED
  BY <1>3, <1>4, <1>6, <1>7, <1>9, <1>10 DEF RegistryInv

(* A step that leaves the clients, to_close and the loops alone. *)
LEMMA AsideInv ==
    ASSUME RegistryInv, ListInv', HashInv', Hashed',
           Kept(jabber_connections), Kept(to_close),
           UNCHANGED <<fieldVars, passVars>>, task' = "clear" => task = "clear"
    PROVE  RegistryInv'
<1>1. ListInv /\ FieldTypes /\ Listed /\ WaitOnce /\ PassInv
  BY DEF RegistryInv
<1>2. /\ live' = live /\ sid' = sid /\ it' = it /\ phase' = phase /\ cursor' = cursor
      /\ closing' = closing /\ expired' = expired /\ before' = before
  BY DEF fieldVars, passVars
<1>3. Listed'
  BY <1>1, <1>2, ListedKept
<1>4. WaitOnce' /\ Waiting' = Waiting
  BY <1>1, <1>2, WaitingKept
<1>5. FieldTypes'
  BY <1>1, <1>2 DEF FieldTypes
<1>6. Scanning => Scanning'
  <2> SUFFICES ASSUME Scanning PROVE Scanning'
    OBVIOUS
  <2>1. PICK i \in 1..(Len(Walk(jabber_connections)) + 1) :
          /\ cursor = Vertex(jabber_connections, Walk(jabber_connections), i)
          /\ Waiting = Seen(i) \cap expired
    BY DEF Scanning
  <2>2. Seen(i)' = Seen(i) /\ Walk(jabber_connections)' = Walk(jabber_connections)
    BY <1>1, SeenKept DEF Kept
  <2> QED
    BY <1>2, <1>4, <2>1, <2>2 DEF Scanning
<1>7. Closing => Closing'
  BY <1>2, <1>4 DEF Closing
<1>8. PassInv'
  BY <1>1, <1>2, <1>4, <1>6, <1>7 DEF PassInv
<1> QED
  BY <1>3, <1>4, <1>5, <1>8 DEF RegistryInv

LEMMA HashGoesOnInv ==
    ASSUME RegistryInv, HashGoesOn
    PROVE  RegistryInv'
<1>1. HashLoop /\ UNCHANGED listVars /\ UNCHANGED <<fieldVars, passVars>>
  BY DEF HashGoesOn
<1>2. ListInv /\ HashInv /\ Hashed /\ PassInv
      /\ jabber_connections \in Lists /\ to_close \in Lists
  BY RegistryAssumption DEF RegistryInv
<1>3. ListInv' /\ Kept(jabber_connections) /\ Kept(to_close)
  BY <1>1, <1>2, StillLists
<1>4. /\ HashInv' /\ AllNodes' \subseteq AllNodes
      /\ task # "clear" => AllNodes' = AllNodes
      /\ task' = "clear" => task = "clear"
  BY <1>1, <1>2, HashLoopFacts
<1>5. task = "clear" => AllNodes = {}
  BY <1>2 DEF PassInv, Hashed
<1>6. AllNodes' = AllNodes
  BY <1>4, <1>5
<1>7. Hashed'
  BY <1>1, <1>2, <1>6 DEF Hashed, Entry, fieldVars
<1> QED
  BY <1>1, <1>3, <1>4, <1>7, AsideInv

LEMMA OtherListInv ==
    ASSUME RegistryInv, NEW l \in Others, OtherList(l)
    PROVE  RegistryInv'
<1>1. /\ task = "none" /\ ListStep(l, Messages) /\ UNCHANGED hashVars
      /\ UNCHANGED <<fieldVars, passVars>>
  BY DEF OtherList
<1>2. /\ ListInv /\ HashInv /\ Hashed /\ l \in Lists
      /\ jabber_connections \in Lists /\ to_close \in Lists
      /\ jabber_connections # l /\ to_close # l
      /\ Messages \in SUBSET Values
  BY RegistryAssumption DEF RegistryInv, Others
<1>3. ListInv' /\ Kept(jabber_connections) /\ Kept(to_close)
  BY <1>1, <1>2, OtherLists
<1>4. HashInv' /\ AllNodes' = AllNodes
  BY <1>1, <1>2, StillHash
<1>5. Hashed'
  BY <1>1, <1>2, <1>4 DEF Hashed, Entry, fieldVars
<1> QED
  BY <1>1, <1>3, <1>4, <1>5, AsideInv DEF hashVars

LEMMA StutterInv ==
    ASSUME RegistryInv, UNCHANGED vars
    PROVE  RegistryInv'
<1>1. UNCHANGED <<listVars, hashVars, fieldVars>> /\ UNCHANGED <<fieldVars, passVars>>
  BY DEF vars
<1>2. ListInv' /\ HashInv' /\ Hashed' /\ Kept(jabber_connections) /\ Kept(to_close)
      /\ task' = task
  BY <1>1, StillParts
<1> QED
  BY <1>1, <1>2, AsideInv

LEMMA NextInv == RegistryInv /\ [Next]_vars => RegistryInv'
<1> SUFFICES ASSUME RegistryInv, [Next]_vars PROVE RegistryInv'
  OBVIOUS
<1>1. CASE \E c \in Clients, s \in Keys, node \in Nodes : NewClient(c, s, node)
  BY <1>1, NewClientInv
<1>2. CASE \E s \in Keys : CloseBySid(s)
  BY <1>2, CloseBySidInv
<1>3. CASE \E c \in Clients : CloseByCallback(c)
  BY <1>3, CloseByCallbackInv
<1>4. CASE StartCheck
  BY <1>4, StartCheckInv
<1>5. CASE Pass
  BY <1>5, ScanInv, ScanEndsInv, PopClientInv, ClosePoppedInv, CheckEndsInv DEF Pass
<1>6. CASE StartDelete \/ DeleteFront \/ DeleteHash
  BY <1>6, StartDeleteInv, DeleteFrontInv, DeleteHashInv
<1>7. CASE HashGoesOn
  BY <1>7, HashGoesOnInv
<1>8. CASE \E l \in Others : OtherList(l)
  BY <1>8, OtherListInv
<1>9. CASE UNCHANGED vars
  BY <1>9, StutterInv
<1> QED
  BY <1>1, <1>2, <1>3, <1>4, <1>5, <1>6, <1>7, <1>8, <1>9 DEF Next

-----------------------------------------------------------------------------
(* The theorems *)

(* The inductive invariant: the list, the structs and the hash name the     *)
(* same clients; while jb_check_timeout walks, to_close holds the expired   *)
(* ones among those it has passed, and afterwards those still to be closed. *)
THEOREM RegistryInvariant == Spec => []RegistryInv
<1> QED
  BY InitInv, NextInv, PTL DEF Spec

(* Every variable of the composition has its type. *)
THEOREM RegistryTypeCorrect == Spec => []TypeOK
<1>1. RegistryInv => TypeOK
  BY DEF RegistryInv, ListInv, ListTypes, Pointers, AllocatorInv, HashInv, FieldTypes, TypeOK
<1> QED
  BY <1>1, RegistryInvariant, PTL

(* The list is as long as there are clients: no client is on it twice. *)
LEMMA SizeOfList ==
    ASSUME RegistryInv
    PROVE  Size(jabber_connections) = Cardinality(live)
<1>1. ListInv /\ Listed /\ jabber_connections \in Lists
  BY RegistryAssumption DEF RegistryInv
<1>2. PICK w : w = Walk(jabber_connections)
  OBVIOUS
<1>3. PICK k \in Nat : k = Len(w)
  BY <1>1, <1>2, ListFacts
<1>4. /\ \A j \in 1..k : w[j] \in NodesOf(jabber_connections)
      /\ \A a, b \in 1..k : w[a] = w[b] => a = b
      /\ \A n \in NodesOf(jabber_connections) : \E j \in 1..k : n = w[j]
  BY <1>1, <1>2, <1>3, ListFacts
<1>5. PICK f : f = [j \in 1..k |-> value[w[j]]]
  OBVIOUS
<1>6. \A j \in 1..k : f[j] \in live /\ it[f[j]] = w[j]
  BY <1>1, <1>4, <1>5 DEF Listed
<1>7. \A c \in live : \E j \in 1..k : f[j] = c
  BY <1>1, <1>4, <1>5 DEF Listed
<1>8. f \in Injection(1..k, live) /\ f \in Surjection(1..k, live)
  <2>1. f \in [1..k -> live]
    BY <1>5, <1>6
  <2>2. \A a, b \in 1..k : f[a] = f[b] => a = b
    BY <1>4, <1>6
  <2> QED
    BY <1>7, <2>1, <2>2 DEF Injection, Surjection, IsInjective
<1>9. IsFiniteSet(1..k) /\ Cardinality(1..k) = k
  <2>1. /\ IsFiniteSet(1..k)
        /\ Cardinality(1..k) = IF 1 > k THEN 0 ELSE k - 1 + 1
    BY FS_Interval
  <2> QED
    BY <2>1
<1>10. Cardinality(live) = k
  BY <1>8, <1>9, FS_Surjection
<1> QED
  BY <1>2, <1>3, <1>10 DEF Size

(* However clients come, are closed by their sid, by a callback or by the   *)
(* check of the timeouts, and whatever the other lists do with the freed    *)
(* nodes: the list, the iterators and the hash agree on who is there.       *)
THEOREM RegistryAlwaysAgrees == Spec => []RegistryAgrees
<1>1. ASSUME RegistryInv PROVE RegistryAgrees
  <2>1. HashInv /\ FieldTypes /\ Listed /\ Hashed /\ WaitOnce
    BY <1>1 DEF RegistryInv
  <2>2. {value[n] : n \in NodesOf(jabber_connections)} = live
    BY <2>1 DEF Listed
  <2>3. Size(jabber_connections) = Cardinality(live)
    BY <1>1, SizeOfList
  <2>4. \A c \in live : it[c] \in NodesOf(jabber_connections) /\ value[it[c]] = c
    BY <2>1 DEF Listed
  <2>5. DOMAIN Contents = {sid[c] : c \in live}
    <3>1. Contents = MapOf(AllNodes) /\ KeysName(AllNodes)
      BY <2>1, ContentsOfNodes, InvFacts
    <3> QED
      BY <2>1, <3>1, MapOfFacts, EntryFacts
  <2>6. task = "none" => \A c \in live : hash_has_key(sid[c]) /\ hash_find(sid[c]) = c
    BY <2>1, ClientFound
  <2>7. {value[n] : n \in NodesOf(to_close)} \subseteq live
    BY <2>1 DEF WaitOnce, Waiting
  <2> QED
    BY <2>2, <2>3, <2>4, <2>5, <2>6, <2>7 DEF RegistryAgrees
<1> QED
  BY <1>1, RegistryInvariant, PTL

(* A check of the timeouts closes exactly the clients that were expired     *)
(* when it looked at them.                                                 *)
THEOREM CheckClosesExpired == Spec => PassClosesExpired
<1>1. ASSUME RegistryInv, [Next]_vars
      PROVE  [phase = "close" /\ phase' = "idle" => live' = before \ expired]_vars
  <2>1. ASSUME phase = "close", phase' = "idle", Next PROVE live' = before \ expired
    <3>1. CheckEnds
      BY <2>1 DEF Next, NewClient, CloseBySid, CloseByCallback, StartCheck, Pass, Scan,
                  ScanEnds, PopClient, ClosePopped, StartDelete, DeleteFront, DeleteHash,
                  HashGoesOn, OtherList, Ready, passVars
    <3>2. live = before \ expired
      BY <1>1, <3>1, AllClosed
    <3> QED
      BY <3>1, <3>2 DEF CheckEnds, fieldVars
  <2> QED
    BY <1>1, <2>1
<1> QED
  BY <1>1, RegistryInvariant, PTL DEF Spec, PassClosesExpired

-----------------------------------------------------------------------------
(* The components *)

(* The client under the iterator of the loop exists. *)
LEMMA CursorFacts ==
    ASSUME RegistryInv, phase = "scan", cursor \in Nodes
    PROVE  cursor \in NodesOf(jabber_connections) /\ value[cursor] \in live
<1>1. ListInv /\ Listed /\ Scanning /\ jabber_connections \in Lists
  BY RegistryAssumption DEF RegistryInv, PassInv
<1>2. cursor \in NodesOf(jabber_connections)
  <2>1. PICK i : cursor = Vertex(jabber_connections, Walk(jabber_connections), i)
    BY <1>1 DEF Scanning
  <2> QED
    BY <1>1, <2>1, ListFacts, ListAssumption DEF Vertex
<1> QED
  BY <1>1, <1>2 DEF Listed

LEMMA RegistryListStep ==
    ASSUME RegistryInv, [Next]_vars
    PROVE  [ListNext]_listVars
<1>1. jabber_connections \in Lists /\ to_close \in Lists
      /\ Clients \subseteq Values /\ Messages \subseteq Values
  BY RegistryAssumption
<1>2. ASSUME NEW c \in live, CloseClient(c) PROVE ListNext
  <2>1. it[c] \in NodesOf(jabber_connections) /\ list_erase(it[c])
    BY <1>2 DEF RegistryInv, Listed, CloseClient
  <2> QED
    BY <1>1, <2>1 DEF ListNext, ListStep
<1>3. ASSUME NEW l \in Lists, NEW node \in Nodes, NEW v \in Values, list_push_back(l, node, v)
      PROVE  ListNext
  BY <1>3 DEF ListNext, ListStep
<1>4. ASSUME NEW c \in Clients, NEW s \in Keys, NEW node \in Nodes, NewClient(c, s, node)
      PROVE  ListNext
  BY <1>1, <1>3, <1>4 DEF NewClient
<1>5. ASSUME NEW s \in Keys, CloseBySid(s) PROVE ListNext
  <2>1. hash_find(s) \in live
    BY <1>5, Found DEF RegistryInv, CloseBySid, Ready
  <2> QED
    BY <1>2, <1>5, <2>1 DEF CloseBySid
<1>6. ASSUME NEW c \in Clients, CloseByCallback(c) PROVE ListNext
  BY <1>2, <1>6 DEF CloseByCallback
<1>7. ASSUME NEW node \in Nodes, Scan(node) PROVE ListNext \/ UNCHANGED listVars
  <2>1. value[cursor] \in Values
    BY <1>1, <1>7, CursorFacts DEF Scan, Ready, RegistryInv, FieldTypes
  <2> QED
    BY <1>1, <1>3, <1>7, <2>1 DEF Scan
<1>8. ASSUME PopClient PROVE ListNext
  BY <1>1, <1>8 DEF PopClient, ListNext, ListStep
<1>9. ASSUME ClosePopped PROVE ListNext
  <2>1. closing \in live
    BY <1>9 DEF ClosePopped, Ready, RegistryInv, PassInv, Closing
  <2> QED
    BY <1>2, <1>9, <2>1 DEF ClosePopped
<1>10. ASSUME DeleteFront PROVE ListNext
  <2>1. next[jabber_connections] \in NodesOf(jabber_connections)
    BY <1>1, <1>10, Ends DEF DeleteFront, list_empty, RegistryInv
  <2>2. value[next[jabber_connections]] \in live
    BY <2>1 DEF RegistryInv, Listed
  <2> QED
    BY <1>2, <1>10, <2>2 DEF DeleteFront, list_begin
<1>11. ASSUME NEW l \in Others, OtherList(l) PROVE ListNext
  <2>1. l \in Lists /\ ListStep(l, Messages)
    BY <1>11 DEF Others, OtherList
  <2>2. ListStep(l, Values)
    BY <1>1, <2>1 DEF ListStep
  <2> QED
    BY <2>1, <2>2 DEF ListNext
<1>12. ASSUME StartCheck \/ ScanEnds \/ CheckEnds \/ StartDelete \/ DeleteHash \/ HashGoesOn
       PROVE  UNCHANGED listVars
  BY <1>12 DEF StartCheck, ScanEnds, CheckEnds, StartDelete, DeleteHash, HashGoesOn
<1>13. ASSUME UNCHANGED vars PROVE UNCHANGED listVars
  BY <1>13 DEF vars
<1> QED
  BY <1>4, <1>5, <1>6, <1>7, <1>8, <1>9, <1>10, <1>11, <1>12, <1>13 DEF Next, Pass

LEMMA RegistryHashStep ==
    ASSUME RegistryInv, [Next]_vars
    PROVE  [HashNext]_hashVars
<1>1. HashInv /\ FieldTypes /\ Hashed /\ Clients = HashValues
  BY RegistryAssumption DEF RegistryInv
<1>2. ASSUME NEW c \in live, CloseClient(c) PROVE HashNext
  <2>1. sid[c] \in Keys /\ hash_erase(sid[c])
    BY <1>1, <1>2, EntryFacts DEF CloseClient
  <2> QED
    BY <2>1 DEF HashNext
<1>3. ASSUME NEW c \in Clients, NEW s \in Keys, NEW node \in Nodes, NewClient(c, s, node)
      PROVE  HashNext
  BY <1>1, <1>3 DEF NewClient, HashNext
<1>4. ASSUME NEW s \in Keys, CloseBySid(s) PROVE HashNext
  <2>1. hash_find(s) \in live
    BY <1>1, <1>4, Found DEF CloseBySid, Ready
  <2> QED
    BY <1>2, <1>4, <2>1 DEF CloseBySid
<1>5. ASSUME NEW c \in Clients, CloseByCallback(c) PROVE HashNext
  BY <1>2, <1>5 DEF CloseByCallback
<1>6. ASSUME ClosePopped PROVE HashNext
  <2>1. closing \in live
    BY <1>6 DEF ClosePopped, Ready, RegistryInv, PassInv, Closing
  <2> QED
    BY <1>2, <1>6, <2>1 DEF ClosePopped
<1>7. ASSUME DeleteFront PROVE HashNext
  <2>1. next[jabber_connections] \in NodesOf(jabber_connections)
    BY <1>7, Ends, RegistryAssumption DEF DeleteFront, list_empty, RegistryInv
  <2>2. value[next[jabber_connections]] \in live
    BY <2>1 DEF RegistryInv, Listed
  <2> QED
    BY <1>2, <1>7, <2>2 DEF DeleteFront, list_begin
<1>8. ASSUME DeleteHash \/ HashGoesOn PROVE HashNext
  BY <1>8 DEF DeleteHash, HashGoesOn, HashNext
<1>9. ASSUME NEW node \in Nodes, Scan(node) PROVE UNCHANGED hashVars
  BY <1>9 DEF Scan
<1>10. ASSUME StartCheck \/ ScanEnds \/ PopClient \/ CheckEnds \/ StartDelete
       PROVE  UNCHANGED hashVars
  BY <1>10 DEF StartCheck, ScanEnds, PopClient, CheckEnds, StartDelete
<1>11. ASSUME NEW l \in Others, OtherList(l) PROVE UNCHANGED hashVars
  BY <1>11 DEF OtherList
<1>12. ASSUME UNCHANGED vars PROVE UNCHANGED hashVars
  BY <1>12 DEF vars
<1> QED
  BY <1>3, <1>4, <1>5, <1>6, <1>7, <1>8, <1>9, <1>10, <1>11, <1>12 DEF Next, Pass

(* Each step of the registry is an operation of one list at most, on a node *)
(* that the list has: the program keeps the rules of list.h.               *)
THEOREM RegistryUsesLists == Spec => ListSpec
<1>1. Init => ListInit
  BY DEF Init
<1>2. RegistryInv /\ [Next]_vars => [ListNext]_listVars
  BY RegistryListStep
<1> QED
  BY <1>1, <1>2, RegistryInvariant, PTL DEF Spec, ListSpec

(* Each step is an operation of the hash at most, and an insert is of a key *)
(* that is not there: the program keeps the rules of hash.h.               *)
THEOREM RegistryUsesHash == Spec => HashSpec
<1>1. Init => HashInit
  BY DEF Init
<1>2. RegistryInv /\ [Next]_vars => [HashNext]_hashVars
  BY RegistryHashStep
<1> QED
  BY <1>1, <1>2, RegistryInvariant, PTL DEF Spec, HashSpec

(* What list.h, hash.h and allocator.h promise by themselves they promise   *)
(* to the registry: its lists are sequences of values, its hash is a map,   *)
(* and its nodes are neither shared nor lost.                              *)
THEOREM RegistryComponents ==
    Spec => /\ []RingsClosed /\ ImplementsValueLists
            /\ []HashConsistent /\ HashImplementsMap
            /\ []NoObjectSharedOrLost /\ MallocOnlyWhenNeeded
  BY RegistryUsesLists, RingsAlwaysClosed, ListsAreSequences, ListsUseAllocator,
     ObjectsNotSharedOrLost, MallocOnlyWhenEmpty,
     RegistryUsesHash, KeysAlwaysFound, HashTableImplementsMap, PTL

=============================================================================
