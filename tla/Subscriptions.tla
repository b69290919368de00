--------------------------- MODULE Subscriptions ---------------------------
(***************************************************************************)
(* The Workspace Events subscription of one user: the row in               *)
(* event_subscriptions and the subscriptions that live at Google, between  *)
(* OAuth callbacks and disconnects                                         *)
(* (app/services/subscription_service.py, app/api/routes/connections.py).  *)
(*                                                                         *)
(* A step ends at an await.  No transaction spans the database and Google: *)
(* a request that dies, fails or meets another one leaves the two apart.   *)
(* Access tokens are ConnectionTokens' business; here a call that needs    *)
(* one succeeds or fails.                                                  *)
(***************************************************************************)
EXTENDS Naturals, FiniteSets

CONSTANTS
    Callbacks,    \* OAuth callbacks
    Disconnects,  \* DELETE requests
    First,        \* the connection, row and subscription at the start
    None,         \* Python's None
    MaxFaults     \* bound: failures and deaths of requests

ASSUME SubscriptionsAssumption ==
    /\ None # First /\ {None, First} \cap (Callbacks \cup Disconnects) = {}
    /\ Callbacks \cap Disconnects = {}
    /\ MaxFaults \in Nat

VARIABLES
    conn,      \* id of the user's row in oauth_connections, or None
    sub,       \* the user's row in event_subscriptions, or NoSub
    remote,    \* what became of each subscription at Google
    request,   \* control state and locals of callbacks and disconnects
    faults,    \* how many failures and deaths there were
    spoiled,   \* subscriptions a creation or deletion of which failed
    met        \* requests that ran while another one did

vars == <<conn, sub, remote, request, faults, spoiled, met>>

history == <<faults, spoiled, met>>

----------------------------------------------------------------------------
Requests == Callbacks \cup Disconnects

(* A callback inserts at most one row of each table and creates at most    *)
(* one subscription: it stands for their ids and for the name.             *)
Names == {First} \cup Callbacks

Sub == [id : Names, conn : Names, name : Names]

NoSub == [id |-> None, conn |-> None, name |-> None]

Remote == {"none", "live", "deleted", "expired"}

Stages == {"idle", "selected", "upserted", "connected", "unsubscribing",
           "creating", "storing", "dropping", "disconnecting", "done"}

(* A request: the connection and the subscription row it has loaded. *)
Request == [pc : Stages, conn : Names \cup {None}, sub : Sub \cup {NoSub}]

Fresh == [pc |-> "idle", conn |-> None, sub |-> NoSub]

Running == {r \in Requests : request[r].pc \notin {"idle", "done"}}

(* A failure that may cost the subscriptions of ns. *)
Fault(ns) ==
    /\ faults < MaxFaults /\ faults' = faults + 1
    /\ spoiled' = spoiled \cup ns
    /\ UNCHANGED met

Goto(r, pc) == request' = [request EXCEPT ![r].pc = pc]

End(r) == request' = [request EXCEPT ![r] = [Fresh EXCEPT !.pc = "done"]]

(* A request begins and loads the connection. *)
Begin(r, pc) ==
    /\ request[r].pc = "idle"
    /\ request' = [request EXCEPT ![r].pc = pc, ![r].conn = conn]
    /\ met' = IF Running = {} THEN met ELSE met \cup Running \cup {r}
    /\ UNCHANGED <<conn, sub, remote, faults, spoiled>>

(* The request's session sees the row of the connection it has loaded. *)
RowOf(r) == IF sub.conn = request[r].conn THEN sub ELSE NoSub

(* get_for_connection: without a row there is nothing to unsubscribe. *)
LoadSub(r, without) ==
    /\ request' = [request EXCEPT
                     ![r].pc = IF RowOf(r) = NoSub THEN without
                                                   ELSE "unsubscribing",
                     ![r].sub = RowOf(r)]
    /\ UNCHANGED <<conn, sub, remote, history>>

(* delete_subscription; 404 and 410 are as good as 200, and an answer that *)
(* gets lost after the deletion makes no difference.                       *)
DeleteRemote(r, next) ==
    LET name == request[r].sub.name
    IN /\ request[r].pc = "unsubscribing"
       /\ remote' = [remote EXCEPT ![name] = IF @ = "live" THEN "deleted"
                                                           ELSE @]
       /\ Goto(r, next)
       /\ UNCHANGED <<conn, sub, history>>

(* The access token or the deletion fails (Google also refuses the token   *)
(* of another account than the one that subscribed): logged, no more.      *)
KeepRemote(r, next) ==
    /\ request[r].pc = "unsubscribing"
    /\ Fault({request[r].sub.name})
    /\ Goto(r, next)
    /\ UNCHANGED <<conn, sub, remote>>

----------------------------------------------------------------------------
(* callback, from upsert_connection on *)

Select(k) == Begin(k, "selected")

(* Commit; a second INSERT for the user, or the UPDATE of a row that is    *)
(* gone, raises.                                                           *)
Upsert(k) ==
    /\ request[k].pc = "selected"
    /\ \/ conn = request[k].conn /\ conn # None
          /\ Goto(k, "upserted") /\ UNCHANGED conn
       \/ conn = request[k].conn /\ conn = None
          /\ conn' = k
          /\ request' = [request EXCEPT ![k].pc = "upserted", ![k].conn = k]
       \/ conn # request[k].conn /\ End(k) /\ UNCHANGED conn
    /\ UNCHANGED <<sub, remote, history>>

(* session.refresh, which raises when the row is gone. *)
Refresh(k) ==
    /\ request[k].pc = "upserted"
    /\ IF conn = request[k].conn THEN Goto(k, "connected") ELSE End(k)
    /\ UNCHANGED <<conn, sub, remote, history>>

(* create_for_connection, which wants a user id and a configured topic. *)
Skip(k) ==
    /\ request[k].pc = "connected"
    /\ End(k)
    /\ UNCHANGED <<conn, sub, remote, history>>

(* Mutant of LoadPrevious: nobody asks for the row of an earlier consent.  *)
LoadNothing(k) ==
    /\ request[k].pc = "connected"
    /\ Goto(k, "creating")
    /\ UNCHANGED <<conn, sub, remote, history>>

LoadPrevious(k) == request[k].pc = "connected" /\ LoadSub(k, "creating")

DeletePrevious(k) == DeleteRemote(k, "creating") \/ KeepRemote(k, "creating")

Create(k) ==
    /\ request[k].pc = "creating"
    /\ remote' = [remote EXCEPT ![k] = "live"]
    /\ Goto(k, "storing")
    /\ UNCHANGED <<conn, sub, history>>

(* Google creates the subscription and the answer gets lost. *)
CreateUnanswered(k) ==
    /\ request[k].pc = "creating"
    /\ Fault({k})
    /\ remote' = [remote EXCEPT ![k] = "live"]
    /\ End(k)
    /\ UNCHANGED <<conn, sub>>

(* Mutant of Store: a row that is there keeps the name it has. *)
StoreFirst(k) ==
    /\ request[k].pc = "storing"
    /\ sub' = IF sub = NoSub /\ request[k].sub = NoSub /\ conn = request[k].conn
                THEN [id |-> k, conn |-> conn, name |-> k] ELSE sub
    /\ End(k)
    /\ UNCHANGED <<conn, remote, history>>

(* Commit.  The INSERT breaks the unique key when there is a row by now,   *)
(* and the foreign key when the connection is gone; the UPDATE of a row    *)
(* that is gone raises StaleDataError.  The callback swallows either.      *)
Store(k) ==
    LET old == request[k].sub
    IN /\ request[k].pc = "storing"
       /\ sub' = IF old # NoSub /\ sub.id = old.id
                   THEN [sub EXCEPT !.name = k]
                 ELSE IF old = NoSub /\ sub = NoSub /\ conn = request[k].conn
                   THEN [id |-> k, conn |-> conn, name |-> k]
                 ELSE sub
       /\ End(k)
       /\ UNCHANGED <<conn, remote, history>>

----------------------------------------------------------------------------
(* disconnect *)

LoadConnection(d) == conn # None /\ Begin(d, "connected")

(* Nothing to disconnect: 204 as well. *)
FindNothing(d) ==
    /\ conn = None /\ request[d].pc = "idle"
    /\ End(d)
    /\ UNCHANGED <<conn, sub, remote, history>>

LoadCurrent(d) == request[d].pc = "connected" /\ LoadSub(d, "disconnecting")

DeleteCurrent(d) == DeleteRemote(d, "dropping") \/ KeepRemote(d, "dropping")

(* delete_for_connection's commit; a DELETE may find no row. *)
DeleteSub(d) ==
    /\ request[d].pc = "dropping"
    /\ sub' = IF sub.id = request[d].sub.id THEN NoSub ELSE sub
    /\ Goto(d, "disconnecting")
    /\ UNCHANGED <<conn, remote, history>>

(* Mutant of DeleteConnection: the foreign key does not cascade. *)
DeleteWithoutCascade(d) ==
    /\ request[d].pc = "disconnecting"
    /\ conn' = IF conn = request[d].conn THEN None ELSE conn
    /\ End(d)
    /\ UNCHANGED <<sub, remote, history>>

(* delete_connection's commit, with ON DELETE CASCADE. *)
DeleteConnection(d) ==
    /\ request[d].pc = "disconnecting"
    /\ conn' = IF conn = request[d].conn THEN None ELSE conn
    /\ sub' = IF sub.conn = request[d].conn THEN NoSub ELSE sub
    /\ End(d)
    /\ UNCHANGED <<remote, history>>

----------------------------------------------------------------------------
(* A call raises, a commit fails, or the process dies. *)
Abort(r) ==
    /\ r \in Running
    /\ Fault({r} \cap Callbacks)
    /\ End(r)
    /\ UNCHANGED <<conn, sub, remote>>

(* Nothing renews a subscription (renew_subscription has no caller). *)
Expire(n) ==
    /\ remote[n] = "live"
    /\ remote' = [remote EXCEPT ![n] = "expired"]
    /\ UNCHANGED <<conn, sub, request, history>>

Init ==
    /\ conn = First
    /\ sub = [id |-> First, conn |-> First, name |-> First]
    /\ remote = [n \in Names |-> IF n = First THEN "live" ELSE "none"]
    /\ request = [r \in Requests |-> Fresh]
    /\ faults = 0 /\ spoiled = {} /\ met = {}

Callback(k) ==
    \/ Select(k) \/ Upsert(k) \/ Refresh(k)
    \/ Skip(k) \/ LoadPrevious(k) \/ DeletePrevious(k)
    \/ Create(k) \/ CreateUnanswered(k) \/ Store(k)

Disconnect(d) ==
    \/ LoadConnection(d) \/ FindNothing(d) \/ LoadCurrent(d) \/ DeleteCurrent(d)
    \/ DeleteSub(d) \/ DeleteConnection(d)

Next ==
    \/ \E k \in Callbacks : Callback(k)
    \/ \E d \in Disconnects : Disconnect(d)
    \/ \E r \in Requests : Abort(r)
    \/ \E n \in Names : Expire(n)

Spec == Init /\ [][Next]_vars

----------------------------------------------------------------------------
(* Properties. *)

(* Every variable has its type, and the row belongs to the connection. *)
TypeOK ==
    /\ conn \in Names \cup {None}
    /\ sub \in Sub \cup {NoSub}
    /\ sub # NoSub => sub.conn = conn
    /\ remote \in [Names -> Remote]
    /\ request \in [Requests -> Request]
    /\ faults \in Nat /\ spoiled \subseteq Names /\ met \subseteq Requests

(* Subscriptions that fire events under a name no row maps to a user, and  *)
(* that no callback is about to store.                                     *)
Orphans ==
    {n \in Names : /\ remote[n] = "live" /\ sub.name # n
                   /\ n \in Callbacks => request[n].pc # "storing"}

(* What create_for_connection's comment is about: a reconnect or a         *)
(* disconnect leaks no subscription, unless the creation or a deletion of  *)
(* that very subscription failed, or the callback that created it ran at   *)
(* the same time as another request.                                       *)
LeaksExplained == Orphans \subseteq spoiled \cup met

(* As long as nothing fails, a row names a subscription the program has    *)
(* deleted only while the request that deleted it is about to replace the  *)
(* name or drop the row - also when callbacks and disconnects overlap.     *)
RowNotDeleted ==
    /\ faults = 0
    /\ sub # NoSub
    /\ remote[sub.name] = "deleted"
    => \E r \in Requests :
         /\ request[r].pc \in {"creating", "storing", "dropping"}
         /\ request[r].sub.id = sub.id
         /\ request[r].sub.name = sub.name

============================================================================
