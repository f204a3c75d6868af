----------------------------- MODULE BoshSession -----------------------------
(***************************************************************************)
(* What jabber_bind.c promises of BOSH sessions, seen from outside: a      *)
(* session lives or not, and while it lives it either holds a request of   *)
(* its web client or it does not.  Messages of the jabber server wait only *)
(* while no request is held; a request takes all that wait at once, and    *)
(* while one is held the first message is handed over and ends it.         *)
(*                                                                         *)
(* JabberBind implements this module.  One pass over the timeouts ends or  *)
(* answers several sessions, so a step moves any number of sessions.       *)
(***************************************************************************)
EXTENDS Naturals

CONSTANT Sids

VARIABLES session, undelivered

vars == <<session, undelivered>>

Sessions == {"none", "idle", "waiting"}

Init ==
    /\ session = [s \in Sids |-> "none"]
    /\ undelivered = [s \in Sids |-> 0]

From(s, p, q) == session[s] = p /\ session'[s] = q

Create(s) == From(s, "none", "idle") /\ undelivered'[s] = 0

(* A request finds nothing to take: it is held. *)
Hold(s) ==
    /\ From(s, "idle", "waiting")
    /\ undelivered[s] = 0
    /\ undelivered'[s] = 0

(* A request takes everything that waits. *)
Take(s) ==
    /\ From(s, "idle", "idle")
    /\ undelivered'[s] = 0

(* The held request is answered, with messages or empty, or its connection *)
(* is lost; nothing waits yet.                                             *)
Answer(s) == From(s, "waiting", "idle") /\ undelivered'[s] = 0

(* Messages arrive while no request is held. *)
Queue(s) ==
    /\ From(s, "idle", "idle")
    /\ undelivered'[s] >= undelivered[s]

End(s) == session[s] # "none" /\ session'[s] = "none" /\ undelivered'[s] = 0

Stay(s) == session'[s] = session[s] /\ undelivered'[s] = undelivered[s]

Next ==
    /\ session' \in [Sids -> Sessions]
    /\ undelivered' \in [Sids -> Nat]
    /\ \A s \in Sids :
            \/ Create(s) \/ Hold(s) \/ Take(s) \/ Answer(s) \/ Queue(s)
            \/ End(s) \/ Stay(s)

Spec == Init /\ [][Next]_vars

=============================================================================
