------------------------------ MODULE Registry ------------------------------
(***************************************************************************)
(* How src/src/jabber_bind.c keeps its clients: each is a node of the list  *)
(* jabber_connections, whose iterator it keeps, and a value of the hash of  *)
(* sids.  jb_check_timeout walks the list and closes the clients it found   *)
(* afterwards, through a list of its own.  The set jabber_connections of    *)
(* JabberBind is this list, and its sids are this hash.                    *)
(*                                                                         *)
(* The other lists of the program (queues of sockets and of clients) take   *)
(* and free nodes of the same allocator between any two steps: an answer    *)
(* sent from the walk puts its data on a queue, for one.                   *)
(***************************************************************************)
EXTENDS LinkedList, HashTable

CONSTANTS
    Clients,                        \* the structs JabberClient
    jabber_connections, to_close,   \* the heads of two lists
    Messages,                       \* what the other lists hold
    MaxNodes                        \* bound: the nodes in use, those of to_close apart

ASSUME RegistryAssumption ==
    /\ {jabber_connections, to_close} \subseteq Lists
    /\ jabber_connections # to_close
    /\ Values = Clients \cup Messages
    /\ HashValues = Clients
    /\ MaxNodes \in Nat

VARIABLES
    live,       \* the structs in use
    sid, it,    \* fields of the structs
    phase,      \* where the program is: "idle" outside of the loops below
    cursor,     \* the iterator of the loop of jb_check_timeout
    closing,    \* the client taken from to_close
    expired,    \* the clients idle for too long, as get_time() has it
    before      \* the clients when the check began

fieldVars == <<live, sid, it>>
passVars  == <<phase, cursor, closing, expired, before>>
vars      == <<listVars, hashVars, fieldVars, passVars>>

Others == Lists \ {jabber_connections, to_close}

Ready(p) == phase = p /\ task = "none"

HasRoom == Cardinality(used) < MaxNodes

-----------------------------------------------------------------------------
(* jb_connect_client: the struct c gets a sid that is not in the hash. *)
NewClient(c, s, node) ==
    /\ Ready("idle")
    /\ HasRoom
    /\ c \notin live
    /\ ~hash_has_key(s)
    /\ hash_insert(s, c)
    /\ list_push_back(jabber_connections, node, c)
    /\ live' = live \cup {c}
    /\ sid' = [sid EXCEPT ![c] = s]
    /\ it' = [it EXCEPT ![c] = node]
    /\ UNCHANGED passVars

(* Mutant: the sid stays in the hash. *)
CloseKeepingSid(c) ==
    /\ list_erase(it[c])
    /\ live' = live \ {c}
    /\ sid' = [sid EXCEPT ![c] = NULL]
    /\ it' = [it EXCEPT ![c] = NULL]
    /\ UNCHANGED hashVars

(* jb_close_client; the struct is freed. *)
CloseClient(c) ==
    /\ list_erase(it[c])
    /\ hash_erase(sid[c])
    /\ live' = live \ {c}
    /\ sid' = [sid EXCEPT ![c] = NULL]
    /\ it' = [it EXCEPT ![c] = NULL]

(* A request names the session by its sid. *)
CloseBySid(s) ==
    /\ Ready("idle")
    /\ hash_has_key(s)
    /\ CloseClient(hash_find(s))
    /\ UNCHANGED passVars

(* A callback of the jabber socket has the struct. *)
CloseByCallback(c) ==
    /\ Ready("idle")
    /\ c \in live
    /\ CloseClient(c)
    /\ UNCHANGED passVars

-----------------------------------------------------------------------------
(* jb_check_timeout *)

StartCheck ==
    /\ Ready("idle")
    /\ phase' = "scan"
    /\ cursor' = list_begin(jabber_connections)
    /\ expired' \in SUBSET live
    /\ before' = live
    /\ UNCHANGED <<closing, listVars, hashVars, fieldVars>>

(* Mutant: the client is closed inside of the loop. *)
ScanAndClose(node) ==
    /\ Ready("scan")
    /\ cursor \in Nodes
    /\ IF value[cursor] \in expired
       THEN CloseClient(value[cursor])
       ELSE UNCHANGED <<listVars, hashVars, fieldVars>>
    /\ cursor' = next'[cursor]
    /\ UNCHANGED <<phase, closing, expired, before>>

(* The loop looks at one client. *)
Scan(node) ==
    /\ Ready("scan")
    /\ cursor \in Nodes
    /\ IF value[cursor] \in expired
       THEN list_push_back(to_close, node, value[cursor])
       ELSE UNCHANGED listVars
    /\ cursor' = next'[cursor]
    /\ UNCHANGED <<phase, closing, expired, before, hashVars, fieldVars>>

ScanEnds ==
    /\ Ready("scan")
    /\ cursor = jabber_connections
    /\ phase' = "close"
    /\ UNCHANGED <<cursor, closing, expired, before, listVars, hashVars, fieldVars>>

PopClient ==
    /\ Ready("close")
    /\ closing = NULL
    /\ list_pop_front(to_close)
    /\ closing' = value[list_begin(to_close)]
    /\ UNCHANGED <<phase, cursor, expired, before, hashVars, fieldVars>>

ClosePopped ==
    /\ Ready("close")
    /\ closing # NULL
    /\ CloseClient(closing)
    /\ closing' = NULL
    /\ UNCHANGED <<phase, cursor, expired, before>>

(* Mutant: clients may be left in to_close. *)
CheckEndsEarly ==
    /\ Ready("close")
    /\ closing = NULL
    /\ phase' = "idle"
    /\ expired' = {}
    /\ before' = {}
    /\ cursor' = NULL
    /\ UNCHANGED <<closing, listVars, hashVars, fieldVars>>

CheckEnds ==
    /\ Ready("close")
    /\ closing = NULL
    /\ list_empty(to_close)
    /\ phase' = "idle"
    /\ expired' = {}
    /\ before' = {}
    /\ cursor' = NULL
    /\ UNCHANGED <<closing, listVars, hashVars, fieldVars>>

-----------------------------------------------------------------------------
(* jb_delete *)

StartDelete ==
    /\ Ready("idle")
    /\ phase' = "delete"
    /\ UNCHANGED <<cursor, closing, expired, before, listVars, hashVars, fieldVars>>

DeleteFront ==
    /\ Ready("delete")
    /\ ~list_empty(jabber_connections)
    /\ CloseClient(value[list_begin(jabber_connections)])
    /\ UNCHANGED passVars

DeleteHash ==
    /\ Ready("delete")
    /\ list_empty(jabber_connections)
    /\ phase' = "deleted"
    /\ hash_clear
    /\ UNCHANGED <<cursor, closing, expired, before, listVars, fieldVars>>

-----------------------------------------------------------------------------
(* A loop of the hash goes on. *)
HashGoesOn == HashLoop /\ UNCHANGED <<listVars, fieldVars, passVars>>

OtherList(l) ==
    /\ task = "none"
    /\ ListStep(l, Messages)
    /\ HasRoom \/ used' \subseteq used
    /\ UNCHANGED <<hashVars, fieldVars, passVars>>

Init ==
    /\ ListInit
    /\ HashInit
    /\ live = {}
    /\ sid = [c \in Clients |-> NULL]
    /\ it = [c \in Clients |-> NULL]
    /\ phase = "idle"
    /\ cursor = NULL
    /\ closing = NULL
    /\ expired = {}
    /\ before = {}

Pass == (\E node \in Nodes : Scan(node)) \/ ScanEnds \/ PopClient \/ ClosePopped \/ CheckEnds

Next ==
    \/ \E c \in Clients, s \in Keys, node \in Nodes : NewClient(c, s, node)
    \/ \E s \in Keys : CloseBySid(s)
    \/ \E c \in Clients : CloseByCallback(c)
    \/ StartCheck
    \/ Pass
    \/ StartDelete \/ DeleteFront \/ DeleteHash
    \/ HashGoesOn
    \/ \E l \in Others : OtherList(l)

Spec == Init /\ [][Next]_vars

(* The loops are a callback's, which runs to its end. *)
FairSpec == Spec /\ WF_vars(Pass) /\ WF_vars(HashGoesOn)

-----------------------------------------------------------------------------
(* Properties *)

(* Every variable has its type. *)
TypeOK ==
    /\ AllocatorTypeOK
    /\ HashTypeOK
    /\ next \in [Lists \cup Nodes \cup {NULL} -> Lists \cup Nodes \cup {NULL}]
    /\ prev \in [Lists \cup Nodes \cup {NULL} -> Lists \cup Nodes \cup {NULL}]
    /\ value \in [Nodes -> Values \cup {NULL}]
    /\ live \subseteq Clients
    /\ sid \in [Clients -> Keys \cup {NULL}]
    /\ it \in [Clients -> Nodes \cup {NULL}]
    /\ phase \in {"idle", "scan", "close", "delete", "deleted"}
    /\ cursor \in Lists \cup Nodes \cup {NULL}
    /\ closing \in Clients \cup {NULL}
    /\ expired \subseteq Clients
    /\ before \subseteq Clients

(* The list, the iterators in the structs and the hash name the same        *)
(* clients, each once, and a client that waits in to_close still exists.    *)
RegistryAgrees ==
    /\ {value[n] : n \in NodesOf(jabber_connections)} = live
    /\ Size(jabber_connections) = Cardinality(live)
    /\ \A c \in live : it[c] \in NodesOf(jabber_connections) /\ value[it[c]] = c
    /\ DOMAIN Contents = {sid[c] : c \in live}
    /\ task = "none" =>
        \A c \in live : hash_has_key(sid[c]) /\ hash_find(sid[c]) = c
    /\ {value[n] : n \in NodesOf(to_close)} \subseteq live

(* A check of the timeouts closes the clients that were idle for too long   *)
(* when it looked at them, all of them and no other, although the list it   *)
(* walks and the one it fills live on the same nodes.                      *)
PassClosesExpired ==
    [][phase = "close" /\ phase' = "idle" => live' = before \ expired]_vars

(* A check ends: no loop goes round a broken ring. *)
CheckTerminates == phase = "scan" ~> phase = "idle"

=============================================================================
