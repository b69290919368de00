------------------------ MODULE SubscriptionsProofs ------------------------
(* Theorems about Subscriptions, for all values of its constants. *)
EXTENDS Subscriptions, TLAPS

USE DEF Names, Requests, history

(* What a request has loaded by the stage it is in. *)
Locals ==
    \A r \in Requests :
        /\ request[r].pc \in {"idle", "selected", "upserted", "connected",
                              "done"} => request[r].sub = NoSub
        /\ request[r].pc \in {"unsubscribing", "dropping"}
             => request[r].sub # NoSub
        /\ request[r].pc \notin {"idle", "selected", "done"}
             => request[r].conn # None

Base == TypeOK /\ Locals

(* Between LoadSub and the end of a request. *)
Loaded == {"unsubscribing", "creating", "storing", "dropping", "disconnecting"}

(* An id or a name is in a row or in a request's hand, or deleted, only    *)
(* after the callback that made it has stored it; and the row whose id or  *)
(* name a request has loaded is the row it has loaded.                     *)
Settled ==
    /\ \A k \in Callbacks :
         \/ sub.name = k \/ sub.id = k
         \/ \E r \in Requests : request[r].sub.name = k \/ request[r].sub.id = k
         \/ remote[k] = "deleted"
         => request[k].pc = "done"
    /\ \A r \in Requests :
         /\ request[r].sub # NoSub
         => /\ request[r].sub.conn = request[r].conn
            /\ sub.id = request[r].sub.id => sub.conn = request[r].sub.conn
            /\ sub.name = request[r].sub.name => sub.id = request[r].sub.id

(* Requests that run together know it; one that runs alone knows the rows  *)
(* as they are; and one that does not know the current name of its         *)
(* connection's row has met the callback that stored it.                   *)
Aware ==
    /\ \A r, t \in Running : r # t => r \in met
    /\ \A r \in Running \ met :
         /\ conn = request[r].conn
         /\ request[r].pc \in Loaded \ {"disconnecting"} => request[r].sub = sub
    /\ \A r \in Requests :
         /\ request[r].pc \in Loaded
         /\ sub # NoSub /\ sub.conn = request[r].conn
         => request[r].sub.name = sub.name \/ sub.name \in met

(* A request that has passed the deletion of a subscription has deleted    *)
(* it, unless that failed.                                                 *)
Unsubscribed ==
    \A r \in Requests :
        /\ request[r].pc \in Loaded \ {"unsubscribing"}
        /\ request[r].sub # NoSub
        /\ remote[request[r].sub.name] = "live"
        => request[r].sub.name \in spoiled

IInv == Base /\ Settled /\ RowNotDeleted /\ Aware /\ Unsubscribed /\ LeaksExplained

(* Request r is now at pc with the locals c and s; the others stay. *)
Moves(r, pc, c, s) ==
    /\ request' \in [Requests -> Request]
    /\ request'[r] = [pc |-> pc, conn |-> c, sub |-> s]
    /\ \A t \in Requests \ {r} : request'[t] = request[t]

Kept == UNCHANGED <<conn, sub, remote, history>>

Begins(r) ==
    /\ UNCHANGED <<conn, sub, remote, faults, spoiled>>
    /\ request[r].pc = "idle"
    /\ \/ r \in Callbacks /\ Moves(r, "selected", conn, request[r].sub)
       \/ conn # None /\ Moves(r, "connected", conn, request[r].sub)
    /\ met' = IF Running = {} THEN met ELSE met \cup Running \cup {r}

(* The steps of a request that change nothing else. *)
Walks(r) ==
    LET q == request[r]
    IN /\ Kept
       /\ \/ /\ q.pc = "selected" /\ q.conn = conn /\ conn # None
             /\ Moves(r, "upserted", q.conn, q.sub)
          \/ /\ q.pc = "upserted" /\ q.conn = conn
             /\ Moves(r, "connected", q.conn, q.sub)
          \/ /\ q.pc = "selected" /\ q.conn # conn
             /\ Moves(r, "done", None, NoSub)
          \/ /\ q.pc = "upserted" /\ q.conn # conn
             /\ Moves(r, "done", None, NoSub)
          \/ /\ q.pc \in {"idle", "connected"} /\ Moves(r, "done", None, NoSub)
          \/ /\ q.pc = "connected" /\ RowOf(r) # NoSub
             /\ Moves(r, "unsubscribing", q.conn, RowOf(r))
          \/ /\ q.pc = "connected" /\ RowOf(r) = NoSub
             /\ Moves(r, IF r \in Callbacks THEN "creating"
                                            ELSE "disconnecting",
                      q.conn, NoSub)

Connects(k) ==
    /\ request[k].pc = "selected" /\ conn = None /\ conn' = k
    /\ Moves(k, "upserted", k, request[k].sub)
    /\ UNCHANGED <<sub, remote, history>>

Unsubscribes(r) ==
    LET q == request[r]
    IN /\ q.pc = "unsubscribing"
       /\ remote' = [remote EXCEPT ![q.sub.name] =
                        IF @ = "live" THEN "deleted" ELSE @]
       /\ Moves(r, IF r \in Callbacks THEN "creating" ELSE "dropping",
                q.conn, q.sub)
       /\ UNCHANGED <<conn, sub, history>>

Fails(r) ==
    LET q == request[r]
    IN /\ faults' = faults + 1 /\ UNCHANGED <<conn, sub, met>>
       /\ \/ /\ q.pc = "unsubscribing"
             /\ Moves(r, IF r \in Callbacks THEN "creating" ELSE "dropping",
                      q.conn, q.sub)
             /\ spoiled' = spoiled \cup {q.sub.name} /\ UNCHANGED remote
          \/ /\ r \in Running /\ Moves(r, "done", None, NoSub)
             /\ spoiled' = spoiled \cup ({r} \cap Callbacks)
             /\ UNCHANGED remote
          \/ /\ q.pc = "creating" /\ r \in Callbacks
             /\ Moves(r, "done", None, NoSub)
             /\ spoiled' = spoiled \cup {r}
             /\ remote' = [remote EXCEPT ![r] = "live"]

Creates(k) ==
    /\ request[k].pc = "creating"
    /\ remote' = [remote EXCEPT ![k] = "live"]
    /\ Moves(k, "storing", request[k].conn, request[k].sub)
    /\ UNCHANGED <<conn, sub, history>>

(* Store, by the three outcomes of its commit. *)
Stores(k) ==
    LET old == request[k].sub
    IN /\ request[k].pc = "storing" /\ Moves(k, "done", None, NoSub)
       /\ UNCHANGED <<conn, remote, history>>
       /\ \/ /\ old # NoSub /\ sub.id = old.id
             /\ sub' = [id |-> sub.id, conn |-> sub.conn, name |-> k]
          \/ /\ old = NoSub /\ sub = NoSub /\ conn = request[k].conn
             /\ sub' = [id |-> k, conn |-> conn, name |-> k]
          \/ /\ ~(old # NoSub /\ sub.id = old.id)
             /\ ~(old = NoSub /\ sub = NoSub /\ conn = request[k].conn)
             /\ UNCHANGED sub

Drops(d) ==
    /\ request[d].pc = "dropping"
    /\ sub' = IF sub.id = request[d].sub.id THEN NoSub ELSE sub
    /\ Moves(d, "disconnecting", request[d].conn, request[d].sub)
    /\ UNCHANGED <<conn, remote, history>>

Forgets(d) ==
    /\ request[d].pc = "disconnecting" /\ Moves(d, "done", None, NoSub)
    /\ conn' = IF conn = request[d].conn THEN None ELSE conn
    /\ sub' = IF sub.conn = request[d].conn THEN NoSub ELSE sub
    /\ UNCHANGED <<remote, history>>

Expires(n) ==
    /\ remote[n] = "live" /\ remote' = [remote EXCEPT ![n] = "expired"]
    /\ UNCHANGED <<conn, sub, request, history>>

(* Every step of Subscriptions, by what it changes. *)
Does ==
    \/ \E r \in Requests : Begins(r) \/ Walks(r) \/ Unsubscribes(r) \/ Fails(r)
    \/ \E k \in Callbacks : Connects(k) \/ Creates(k) \/ Stores(k)
    \/ \E d \in Disconnects : Drops(d) \/ Forgets(d)
    \/ \E n \in Names : Expires(n)

LEMMA MoveIs ==
    ASSUME TypeOK, NEW r \in Requests, NEW pc \in Stages,
           request' = [request EXCEPT ![r].pc = pc]
    PROVE  Moves(r, pc, request[r].conn, request[r].sub)
BY DEF TypeOK, Moves, Request

LEMMA EndIs ==
    ASSUME TypeOK, NEW r \in Requests, End(r)
    PROVE  Moves(r, "done", None, NoSub)
BY DEF TypeOK, Moves, End, Fresh, Request, Stages

LEMMA LoadIs ==
    ASSUME TypeOK, NEW r \in Requests, NEW without \in Stages, LoadSub(r, without)
    PROVE  Moves(r, IF RowOf(r) = NoSub THEN without ELSE "unsubscribing",
                 request[r].conn, RowOf(r))
<1>1. RowOf(r) \in Sub \cup {NoSub}
  BY DEF TypeOK, RowOf
<1>2. (IF RowOf(r) = NoSub THEN without ELSE "unsubscribing") \in Stages
  BY DEF Stages
<1>. QED
  BY <1>1, <1>2 DEF TypeOK, Moves, LoadSub, Request
LEMMA CallbackDoes ==
    ASSUME Base, NEW k \in Callbacks, Callback(k)
    PROVE  Begins(k) \/ Walks(k) \/ Unsubscribes(k) \/ Fails(k)
             \/ Connects(k) \/ Creates(k) \/ Stores(k)
<1>0. TypeOK
  BY DEF Base
<1>1. CASE Select(k)
  <2>1. Moves(k, "selected", conn, request[k].sub)
    BY <1>0, <1>1 DEF Select, Begin, Moves, TypeOK, Request, Stages
  <2>. QED
    BY <1>1, <2>1 DEF Begins, Select, Begin
<1>2. CASE Upsert(k)
  <2>1. CASE conn = request[k].conn /\ conn # None
    <3>1. Moves(k, "upserted", request[k].conn, request[k].sub)
      BY <1>0, <1>2, <2>1, MoveIs DEF Stages, Upsert, Goto
    <3>. QED
      BY <1>2, <2>1, <3>1 DEF Walks, Kept, Upsert
  <2>2. CASE conn = request[k].conn /\ conn = None
    <3>1. Moves(k, "upserted", k, request[k].sub)
      BY <1>0, <1>2, <2>2 DEF Upsert, Moves, TypeOK, Request, Stages
    <3>. QED
      BY <1>2, <2>2, <3>1 DEF Connects, Upsert
  <2>3. CASE conn # request[k].conn
    <3>1. Moves(k, "done", None, NoSub)
      BY <1>0, <1>2, <2>3, EndIs DEF Upsert
    <3>. QED
      BY <1>2, <2>3, <3>1 DEF Walks, Kept, Upsert
  <2>. QED
    BY <2>1, <2>2, <2>3
<1>3. CASE Refresh(k)
  <2>1. CASE conn = request[k].conn
    <3>1. Moves(k, "connected", request[k].conn, request[k].sub)
      BY <1>0, <1>3, <2>1, MoveIs DEF Stages, Refresh, Goto
    <3>. QED
      BY <1>3, <2>1, <3>1 DEF Walks, Kept, Refresh
  <2>2. CASE conn # request[k].conn
    <3>1. Moves(k, "done", None, NoSub)
      BY <1>0, <1>3, <2>2, EndIs DEF Refresh
    <3>. QED
      BY <1>3, <2>2, <3>1 DEF Walks, Kept, Refresh
  <2>. QED
    BY <2>1, <2>2
<1>4. CASE Skip(k)
  <2>1. Moves(k, "done", None, NoSub)
    BY <1>0, <1>4, EndIs DEF Skip
  <2>. QED
    BY <1>4, <2>1 DEF Walks, Kept, Skip
<1>5. CASE LoadPrevious(k)
  <2>1. Moves(k, IF RowOf(k) = NoSub THEN "creating" ELSE "unsubscribing",
              request[k].conn, RowOf(k))
    BY <1>0, <1>5, LoadIs DEF Stages, LoadPrevious
  <2>2. Kept /\ request[k].pc = "connected"
    BY <1>5 DEF LoadPrevious, LoadSub, Kept
  <2>. QED
    BY <2>1, <2>2 DEF Walks
<1>6. CASE DeleteRemote(k, "creating")
  <2>1. Moves(k, "creating", request[k].conn, request[k].sub)
    BY <1>0, <1>6, MoveIs DEF Stages, DeleteRemote, Goto
  <2>. QED
    BY <1>6, <2>1 DEF Unsubscribes, DeleteRemote
<1>7. CASE KeepRemote(k, "creating")
  <2>1. Moves(k, "creating", request[k].conn, request[k].sub)
    BY <1>0, <1>7, MoveIs DEF Stages, KeepRemote, Goto
  <2>. QED
    BY <1>7, <2>1 DEF Fails, KeepRemote, Fault
<1>8. CASE Create(k)
  <2>1. Moves(k, "storing", request[k].conn, request[k].sub)
    BY <1>0, <1>8, MoveIs DEF Stages, Create, Goto
  <2>. QED
    BY <1>8, <2>1 DEF Creates, Create
<1>9. CASE CreateUnanswered(k)
  <2>1. Moves(k, "done", None, NoSub)
    BY <1>0, <1>9, EndIs DEF CreateUnanswered
  <2>. QED
    BY <1>9, <2>1 DEF Fails, CreateUnanswered, Fault
<1>10. CASE Store(k)
  <2>1. Moves(k, "done", None, NoSub)
    BY <1>0, <1>10, EndIs DEF Store
  <2>2. sub # NoSub => [sub EXCEPT !.name = k]
                         = [id |-> sub.id, conn |-> sub.conn, name |-> k]
    BY <1>0 DEF TypeOK, Sub
  <2>3. request[k].sub # NoSub /\ sub.id = request[k].sub.id => sub # NoSub
    BY <1>0, SubscriptionsAssumption DEF TypeOK, Request, Sub, NoSub
  <2>. QED
    BY <1>10, <2>1, <2>2, <2>3 DEF Stores, Store
<1>. QED
  BY <1>1, <1>2, <1>3, <1>4, <1>5, <1>6, <1>7, <1>8, <1>9, <1>10
     DEF Callback, DeletePrevious

LEMMA DisconnectDoes ==
    ASSUME Base, NEW d \in Disconnects, Disconnect(d)
    PROVE  Begins(d) \/ Walks(d) \/ Unsubscribes(d) \/ Fails(d)
             \/ Drops(d) \/ Forgets(d)
<1>0. TypeOK /\ d \notin Callbacks
  BY SubscriptionsAssumption DEF Base
<1>1. CASE LoadConnection(d)
  <2>1. Moves(d, "connected", conn, request[d].sub)
    BY <1>0, <1>1 DEF LoadConnection, Begin, Moves, TypeOK, Request, Stages
  <2>. QED
    BY <1>1, <2>1 DEF Begins, LoadConnection, Begin
<1>7. CASE FindNothing(d)
  <2>1. Moves(d, "done", None, NoSub)
    BY <1>0, <1>7, EndIs DEF FindNothing
  <2>. QED
    BY <1>7, <2>1 DEF Walks, Kept, FindNothing
<1>2. CASE LoadCurrent(d)
  <2>1. Moves(d, IF RowOf(d) = NoSub THEN "disconnecting" ELSE "unsubscribing",
              request[d].conn, RowOf(d))
    BY <1>0, <1>2, LoadIs DEF Stages, LoadCurrent
  <2>2. Kept /\ request[d].pc = "connected"
    BY <1>2 DEF LoadCurrent, LoadSub, Kept
  <2>. QED
    BY <1>0, <2>1, <2>2 DEF Walks
<1>3. CASE DeleteRemote(d, "dropping")
  <2>1. Moves(d, "dropping", request[d].conn, request[d].sub)
    BY <1>0, <1>3, MoveIs DEF Stages, DeleteRemote, Goto
  <2>. QED
    BY <1>0, <1>3, <2>1 DEF Unsubscribes, DeleteRemote
<1>4. CASE KeepRemote(d, "dropping")
  <2>1. Moves(d, "dropping", request[d].conn, request[d].sub)
    BY <1>0, <1>4, MoveIs DEF Stages, KeepRemote, Goto
  <2>. QED
    BY <1>0, <1>4, <2>1 DEF Fails, KeepRemote, Fault
<1>5. CASE DeleteSub(d)
  <2>1. Moves(d, "disconnecting", request[d].conn, request[d].sub)
    BY <1>0, <1>5, MoveIs DEF Stages, DeleteSub, Goto
  <2>. QED
    BY <1>5, <2>1 DEF Drops, DeleteSub
<1>6. CASE DeleteConnection(d)
  <2>1. Moves(d, "done", None, NoSub)
    BY <1>0, <1>6, EndIs DEF DeleteConnection
  <2>. QED
    BY <1>6, <2>1 DEF Forgets, DeleteConnection
<1>. QED
  BY <1>1, <1>2, <1>3, <1>4, <1>5, <1>6, <1>7 DEF Disconnect, DeleteCurrent

LEMMA StepDoes ==
    ASSUME Base, [Next]_vars
    PROVE  Does \/ UNCHANGED vars
<1>0. TypeOK
  BY DEF Base
<1>1. ASSUME NEW k \in Callbacks, Callback(k)
      PROVE  Does
  BY <1>1, CallbackDoes DEF Does
<1>2. ASSUME NEW d \in Disconnects, Disconnect(d)
      PROVE  Does
  BY <1>2, DisconnectDoes DEF Does
<1>3. ASSUME NEW r \in Requests, Abort(r)
      PROVE  Does
  <2>1. Moves(r, "done", None, NoSub)
    BY <1>0, <1>3, EndIs DEF Abort
  <2>2. Fails(r)
    BY <1>3, <2>1 DEF Abort, Fails, Fault
  <2>. QED
    BY <2>2 DEF Does
<1>4. ASSUME NEW n \in Names, Expire(n)
      PROVE  Does
  <2>1. Expires(n)
    BY <1>4 DEF Expire, Expires
  <2>. QED
    BY <2>1 DEF Does
<1>. QED
  BY <1>1, <1>2, <1>3, <1>4 DEF Next

LEMMA TypesStep ==
    ASSUME Base, Does \/ UNCHANGED vars
    PROVE  TypeOK'
<1>0. TypeOK /\ Locals
  BY DEF Base
<1>1. ASSUME NEW r \in Requests, Begins(r)
      PROVE  TypeOK'
  BY <1>1, <1>0 DEF Begins, TypeOK, Running, Moves
<1>2. ASSUME NEW r \in Requests, Walks(r)
      PROVE  TypeOK'
  BY <1>2, <1>0 DEF Walks, TypeOK, Moves, Kept
<1>3. ASSUME NEW r \in Requests, Unsubscribes(r)
      PROVE  TypeOK'
  BY <1>3, <1>0 DEF Unsubscribes, TypeOK, Moves, Remote
<1>4. ASSUME NEW r \in Requests, Fails(r)
      PROVE  TypeOK'
  <2>1. request[r].pc = "unsubscribing" => request[r].sub.name \in Names
    BY <1>0 DEF TypeOK, Locals, Request, Sub
  <2>. QED
    BY <1>0, <1>4, <2>1 DEF Fails, TypeOK, Moves, Remote
<1>5. ASSUME NEW k \in Callbacks, Connects(k)
      PROVE  TypeOK'
  BY <1>5, <1>0, SubscriptionsAssumption DEF Connects, TypeOK, Sub, Moves
<1>6. ASSUME NEW k \in Callbacks, Creates(k)
      PROVE  TypeOK'
  BY <1>6, <1>0 DEF Creates, TypeOK, Moves, Remote
<1>7. ASSUME NEW k \in Callbacks, Stores(k)
      PROVE  TypeOK'
  <2>1. sub' \in Sub \cup {NoSub} /\ (sub' # NoSub => sub'.conn = conn)
    <3>1. CASE sub' = [id |-> sub.id, conn |-> sub.conn, name |-> k]
      <4>1. CASE sub = NoSub
        BY <1>0, <1>7, <3>1, <4>1, SubscriptionsAssumption
           DEF Stores, TypeOK, Request, Sub, NoSub
      <4>2. CASE sub # NoSub
        BY <1>0, <3>1, <4>2 DEF TypeOK, Sub
      <4>. QED
        BY <4>1, <4>2
    <3>2. CASE /\ sub' = [id |-> k, conn |-> conn, name |-> k]
               /\ conn = request[k].conn
      BY <1>0, <1>7, <3>2 DEF Stores, Locals, TypeOK, Sub
    <3>3. CASE UNCHANGED sub
      BY <1>0, <3>3 DEF TypeOK
    <3>. QED
      BY <1>7, <3>1, <3>2, <3>3 DEF Stores
  <2>. QED
    BY <1>0, <1>7, <2>1 DEF Stores, TypeOK, Moves
<1>8. ASSUME NEW d \in Disconnects, Drops(d)
      PROVE  TypeOK'
  <2>1. sub' \in {sub, NoSub} /\ request' \in [Requests -> Request]
    BY <1>8 DEF Drops, Moves
  <2>. QED
    BY <1>0, <1>8, <2>1 DEF Drops, TypeOK, NoSub
<1>9. ASSUME NEW d \in Disconnects, Forgets(d)
      PROVE  TypeOK'
  <2>1. sub' \in {sub, NoSub} /\ request' \in [Requests -> Request]
    BY <1>9 DEF Forgets, Moves
  <2>. QED
    BY <1>0, <1>9, <2>1 DEF Forgets, TypeOK, NoSub
<1>10. ASSUME NEW n \in Names, Expires(n)
      PROVE  TypeOK'
  BY <1>10, <1>0 DEF Expires, TypeOK, Remote
<1>11. CASE UNCHANGED vars
  BY <1>11, <1>0 DEF TypeOK, vars
<1>. QED
  BY <1>1, <1>2, <1>3, <1>4, <1>5, <1>6, <1>7, <1>8, <1>9, <1>10, <1>11
     DEF Does

LEMMA LocalsStep ==
    ASSUME Base, TypeOK', Does \/ UNCHANGED vars
    PROVE  Locals'
<1>0. TypeOK /\ Locals /\ None \notin Names
  BY SubscriptionsAssumption DEF Base
<1>1. ASSUME NEW r \in Requests, Begins(r)
      PROVE  Locals'
  BY <1>1, <1>0, SubscriptionsAssumption
     DEF Begins, TypeOK, Locals, Moves, Kept, Running, RowOf, Sub, NoSub
<1>2. ASSUME NEW r \in Requests, Walks(r)
      PROVE  Locals'
  BY <1>2, <1>0, SubscriptionsAssumption
     DEF Walks, TypeOK, Locals, Moves, Kept, Running, RowOf, Sub, NoSub
<1>3. ASSUME NEW r \in Requests, Unsubscribes(r)
      PROVE  Locals'
  BY <1>3, <1>0, SubscriptionsAssumption
     DEF Unsubscribes, TypeOK, Locals, Moves, Kept, Running, RowOf, Sub, NoSub
<1>4. ASSUME NEW r \in Requests, Fails(r)
      PROVE  Locals'
  BY <1>4, <1>0, SubscriptionsAssumption
     DEF Fails, TypeOK, Locals, Moves, Kept, Running, RowOf, Sub, NoSub
<1>5. ASSUME NEW k \in Callbacks, Connects(k)
      PROVE  Locals'
  BY <1>5, <1>0, SubscriptionsAssumption
     DEF Connects, TypeOK, Locals, Moves, Kept, Running, RowOf, Sub, NoSub
<1>6. ASSUME NEW k \in Callbacks, Creates(k)
      PROVE  Locals'
  BY <1>6, <1>0, SubscriptionsAssumption
     DEF Creates, TypeOK, Locals, Moves, Kept, Running, RowOf, Sub, NoSub
<1>7. ASSUME NEW k \in Callbacks, Stores(k)
      PROVE  Locals'
  BY <1>7, <1>0, SubscriptionsAssumption
     DEF Stores, TypeOK, Locals, Moves, Kept, Running, RowOf, Sub, NoSub
<1>8. ASSUME NEW d \in Disconnects, Drops(d)
      PROVE  Locals'
  BY <1>8, <1>0, SubscriptionsAssumption
     DEF Drops, TypeOK, Locals, Moves, Kept, Running, RowOf, Sub, NoSub
<1>9. ASSUME NEW d \in Disconnects, Forgets(d)
      PROVE  Locals'
  BY <1>9, <1>0, SubscriptionsAssumption
     DEF Forgets, TypeOK, Locals, Moves, Kept, Running, RowOf, Sub, NoSub
<1>10. ASSUME NEW n \in Names, Expires(n)
      PROVE  Locals'
  BY <1>10, <1>0, SubscriptionsAssumption
     DEF Expires, TypeOK, Locals, Moves, Kept, Running, RowOf, Sub, NoSub
<1>11. CASE UNCHANGED vars
  BY <1>11, <1>0 DEF Locals, vars
<1>. QED
  BY <1>1, <1>2, <1>3, <1>4, <1>5, <1>6, <1>7, <1>8, <1>9, <1>10, <1>11
     DEF Does

LEMMA SettledStep ==
    ASSUME Base, Settled, TypeOK', Does \/ UNCHANGED vars
    PROVE  Settled'
<1>0. /\ TypeOK /\ Locals /\ Settled /\ None \notin Names
      /\ \A r \in Requests : request[r].sub \in Sub \cup {NoSub}
  BY SubscriptionsAssumption DEF Base, TypeOK, Request
<1>1. ASSUME NEW r \in Requests, Begins(r)
      PROVE  Settled'
  BY <1>1, <1>0
     DEF Begins, TypeOK, Settled, Locals, Moves, Kept, Running, RowOf, Sub,
         NoSub
<1>2. ASSUME NEW r \in Requests, Walks(r)
      PROVE  Settled'
  BY <1>2, <1>0
     DEF Walks, TypeOK, Settled, Locals, Moves, Kept, Running, RowOf, Sub,
         NoSub
<1>3. ASSUME NEW r \in Requests, Unsubscribes(r)
      PROVE  Settled'
  BY <1>3, <1>0
     DEF Unsubscribes, TypeOK, Settled, Locals, Moves, Kept, Running, RowOf,
         Sub, NoSub
<1>4. ASSUME NEW r \in Requests, Fails(r)
      PROVE  Settled'
  BY <1>4, <1>0
     DEF Fails, TypeOK, Settled, Locals, Moves, Kept, Running, RowOf, Sub,
         NoSub
<1>5. ASSUME NEW k \in Callbacks, Connects(k)
      PROVE  Settled'
  BY <1>5, <1>0
     DEF Connects, TypeOK, Settled, Locals, Moves, Kept, Running, RowOf, Sub,
         NoSub
<1>6. ASSUME NEW k \in Callbacks, Creates(k)
      PROVE  Settled'
  BY <1>6, <1>0
     DEF Creates, TypeOK, Settled, Locals, Moves, Kept, Running, RowOf, Sub,
         NoSub
<1>7. ASSUME NEW k \in Callbacks, Stores(k)
      PROVE  Settled'
  BY <1>7, <1>0
     DEF Stores, TypeOK, Settled, Locals, Moves, Kept, Running, RowOf, Sub,
         NoSub
<1>8. ASSUME NEW d \in Disconnects, Drops(d)
      PROVE  Settled'
  BY <1>8, <1>0
     DEF Drops, TypeOK, Settled, Locals, Moves, Kept, Running, RowOf, Sub,
         NoSub
<1>9. ASSUME NEW d \in Disconnects, Forgets(d)
      PROVE  Settled'
  BY <1>9, <1>0
     DEF Forgets, TypeOK, Settled, Locals, Moves, Kept, Running, RowOf, Sub,
         NoSub
<1>10. ASSUME NEW n \in Names, Expires(n)
      PROVE  Settled'
  BY <1>10, <1>0
     DEF Expires, TypeOK, Settled, Locals, Moves, Kept, Running, RowOf, Sub,
         NoSub
<1>11. CASE UNCHANGED vars
  BY <1>11, <1>0 DEF Settled, vars
<1>. QED
  BY <1>1, <1>2, <1>3, <1>4, <1>5, <1>6, <1>7, <1>8, <1>9, <1>10, <1>11
     DEF Does

LEMMA DeletedStep ==
    ASSUME Base, Settled, RowNotDeleted, TypeOK', Does \/ UNCHANGED vars
    PROVE  RowNotDeleted'
<1>0. /\ TypeOK /\ Locals /\ Settled /\ RowNotDeleted /\ TypeOK'
      /\ None \notin Names
      /\ \A r \in Requests : request[r].sub \in Sub \cup {NoSub}
  BY SubscriptionsAssumption DEF Base, TypeOK, Request
<1>1. ASSUME NEW r \in Requests, Begins(r)
      PROVE  RowNotDeleted'
  BY <1>1, <1>0
     DEF Begins, TypeOK, Locals, Settled, RowNotDeleted, Moves, Kept,
     Running, RowOf, Sub, NoSub
<1>2. ASSUME NEW r \in Requests, Walks(r)
      PROVE  RowNotDeleted'
  BY <1>2, <1>0 DEF Walks, TypeOK, Locals, Settled, RowNotDeleted, Moves, Kept,
     Running, RowOf, Sub, NoSub
<1>3. ASSUME NEW r \in Requests, Unsubscribes(r)
      PROVE  RowNotDeleted'
  BY <1>3, <1>0
     DEF Unsubscribes, TypeOK, Locals, Settled, RowNotDeleted, Moves, Kept,
     Running, RowOf, Sub, NoSub
<1>4. ASSUME NEW r \in Requests, Fails(r)
      PROVE  RowNotDeleted'
  BY <1>4, <1>0 DEF Fails, TypeOK, Locals, Settled, RowNotDeleted, Moves, Kept,
     Running, RowOf, Sub, NoSub
<1>5. ASSUME NEW k \in Callbacks, Connects(k)
      PROVE  RowNotDeleted'
  BY <1>5, <1>0
     DEF Connects, TypeOK, Locals, Settled, RowNotDeleted, Moves, Kept,
     Running, RowOf, Sub, NoSub
<1>6. ASSUME NEW k \in Callbacks, Creates(k)
      PROVE  RowNotDeleted'
  BY <1>6, <1>0
     DEF Creates, TypeOK, Locals, Settled, RowNotDeleted, Moves, Kept,
     Running, RowOf, Sub, NoSub
<1>7. ASSUME NEW k \in Callbacks, Stores(k)
      PROVE  RowNotDeleted'
  BY <1>7, <1>0
     DEF Stores, TypeOK, Locals, Settled, RowNotDeleted, Moves, Kept,
     Running, RowOf, Sub, NoSub
<1>8. ASSUME NEW d \in Disconnects, Drops(d)
      PROVE  RowNotDeleted'
  BY <1>8, <1>0 DEF Drops, TypeOK, Locals, Settled, RowNotDeleted, Moves, Kept,
     Running, RowOf, Sub, NoSub
<1>9. ASSUME NEW d \in Disconnects, Forgets(d)
      PROVE  RowNotDeleted'
  BY <1>9, <1>0
     DEF Forgets, TypeOK, Locals, Settled, RowNotDeleted, Moves, Kept,
     Running, RowOf, Sub, NoSub
<1>10. ASSUME NEW n \in Names, Expires(n)
      PROVE  RowNotDeleted'
  BY <1>10, <1>0
     DEF Expires, TypeOK, Locals, Settled, RowNotDeleted, Moves, Kept,
     Running, RowOf, Sub, NoSub
<1>11. CASE UNCHANGED vars
  BY <1>11, <1>0 DEF RowNotDeleted, vars
<1>. QED
  BY <1>1, <1>2, <1>3, <1>4, <1>5, <1>6, <1>7, <1>8, <1>9, <1>10, <1>11
     DEF Does

LEMMA AwareStep ==
    ASSUME Base, Settled, Aware, TypeOK', Does \/ UNCHANGED vars
    PROVE  Aware'
<1>0. /\ TypeOK /\ Locals /\ Settled /\ Aware /\ TypeOK'
      /\ None \notin Names /\ Callbacks \cap Disconnects = {}
      /\ \A r \in Requests : request[r].sub \in Sub \cup {NoSub}
  BY SubscriptionsAssumption DEF Base, TypeOK, Request
<1>1. ASSUME NEW r \in Requests, Begins(r)
      PROVE  Aware'
  BY <1>1, <1>0
     DEF Begins, TypeOK, Locals, Settled, Aware, Loaded, Moves, Kept,
     Running, RowOf, Sub, NoSub
<1>2. ASSUME NEW r \in Requests, Walks(r)
      PROVE  Aware'
  BY <1>2, <1>0 DEF Walks, TypeOK, Locals, Settled, Aware, Loaded, Moves, Kept,
     Running, RowOf, Sub, NoSub
<1>3. ASSUME NEW r \in Requests, Unsubscribes(r)
      PROVE  Aware'
  BY <1>3, <1>0
     DEF Unsubscribes, TypeOK, Locals, Settled, Aware, Loaded, Moves, Kept,
     Running, RowOf, Sub, NoSub
<1>4. ASSUME NEW r \in Requests, Fails(r)
      PROVE  Aware'
  BY <1>4, <1>0 DEF Fails, TypeOK, Locals, Settled, Aware, Loaded, Moves, Kept,
     Running, RowOf, Sub, NoSub
<1>5. ASSUME NEW k \in Callbacks, Connects(k)
      PROVE  Aware'
  BY <1>5, <1>0
     DEF Connects, TypeOK, Locals, Settled, Aware, Loaded, Moves, Kept,
     Running, RowOf, Sub, NoSub
<1>6. ASSUME NEW k \in Callbacks, Creates(k)
      PROVE  Aware'
  BY <1>6, <1>0
     DEF Creates, TypeOK, Locals, Settled, Aware, Loaded, Moves, Kept,
     Running, RowOf, Sub, NoSub
<1>7. ASSUME NEW k \in Callbacks, Stores(k)
      PROVE  Aware'
  BY <1>7, <1>0
     DEF Stores, TypeOK, Locals, Settled, Aware, Loaded, Moves, Kept,
     Running, RowOf, Sub, NoSub
<1>8. ASSUME NEW d \in Disconnects, Drops(d)
      PROVE  Aware'
  BY <1>8, <1>0 DEF Drops, TypeOK, Locals, Settled, Aware, Loaded, Moves, Kept,
     Running, RowOf, Sub, NoSub
<1>9. ASSUME NEW d \in Disconnects, Forgets(d)
      PROVE  Aware'
  BY <1>9, <1>0
     DEF Forgets, TypeOK, Locals, Settled, Aware, Loaded, Moves, Kept,
     Running, RowOf, Sub, NoSub
<1>10. ASSUME NEW n \in Names, Expires(n)
      PROVE  Aware'
  BY <1>10, <1>0
     DEF Expires, TypeOK, Locals, Settled, Aware, Loaded, Moves, Kept,
     Running, RowOf, Sub, NoSub
<1>11. CASE UNCHANGED vars
  BY <1>11, <1>0 DEF Aware, Running, vars
<1>. QED
  BY <1>1, <1>2, <1>3, <1>4, <1>5, <1>6, <1>7, <1>8, <1>9, <1>10, <1>11
     DEF Does

LEMMA UnsubscribedStep ==
    ASSUME Base, Settled, Unsubscribed, TypeOK', Does \/ UNCHANGED vars
    PROVE  Unsubscribed'
<1>0. /\ TypeOK /\ Locals /\ Settled /\ Unsubscribed /\ TypeOK'
      /\ None \notin Names
      /\ \A r \in Requests : request[r].sub \in Sub \cup {NoSub}
  BY SubscriptionsAssumption DEF Base, TypeOK, Request
<1>1. ASSUME NEW r \in Requests, Begins(r)
      PROVE  Unsubscribed'
  BY <1>1, <1>0
     DEF Begins, TypeOK, Locals, Settled, Unsubscribed, Loaded, Moves,
     Kept, RowOf, Sub, NoSub
<1>2. ASSUME NEW r \in Requests, Walks(r)
      PROVE  Unsubscribed'
  BY <1>2, <1>0
     DEF Walks, TypeOK, Locals, Settled, Unsubscribed, Loaded, Moves,
     Kept, RowOf, Sub, NoSub
<1>3. ASSUME NEW r \in Requests, Unsubscribes(r)
      PROVE  Unsubscribed'
  BY <1>3, <1>0
     DEF Unsubscribes, TypeOK, Locals, Settled, Unsubscribed, Loaded, Moves,
     Kept, RowOf, Sub, NoSub
<1>4. ASSUME NEW r \in Requests, Fails(r)
      PROVE  Unsubscribed'
  BY <1>4, <1>0
     DEF Fails, TypeOK, Locals, Settled, Unsubscribed, Loaded, Moves,
     Kept, RowOf, Sub, NoSub
<1>5. ASSUME NEW k \in Callbacks, Connects(k)
      PROVE  Unsubscribed'
  BY <1>5, <1>0
     DEF Connects, TypeOK, Locals, Settled, Unsubscribed, Loaded, Moves,
     Kept, RowOf, Sub, NoSub
<1>6. ASSUME NEW k \in Callbacks, Creates(k)
      PROVE  Unsubscribed'
  BY <1>6, <1>0
     DEF Creates, TypeOK, Locals, Settled, Unsubscribed, Loaded, Moves,
     Kept, RowOf, Sub, NoSub
<1>7. ASSUME NEW k \in Callbacks, Stores(k)
      PROVE  Unsubscribed'
  BY <1>7, <1>0
     DEF Stores, TypeOK, Locals, Settled, Unsubscribed, Loaded, Moves,
     Kept, RowOf, Sub, NoSub
<1>8. ASSUME NEW d \in Disconnects, Drops(d)
      PROVE  Unsubscribed'
  BY <1>8, <1>0
     DEF Drops, TypeOK, Locals, Settled, Unsubscribed, Loaded, Moves,
     Kept, RowOf, Sub, NoSub
<1>9. ASSUME NEW d \in Disconnects, Forgets(d)
      PROVE  Unsubscribed'
  BY <1>9, <1>0
     DEF Forgets, TypeOK, Locals, Settled, Unsubscribed, Loaded, Moves,
     Kept, RowOf, Sub, NoSub
<1>10. ASSUME NEW n \in Names, Expires(n)
      PROVE  Unsubscribed'
  BY <1>10, <1>0
     DEF Expires, TypeOK, Locals, Settled, Unsubscribed, Loaded, Moves,
     Kept, RowOf, Sub, NoSub
<1>11. CASE UNCHANGED vars
  BY <1>11, <1>0 DEF Unsubscribed, vars
<1>. QED
  BY <1>1, <1>2, <1>3, <1>4, <1>5, <1>6, <1>7, <1>8, <1>9, <1>10, <1>11
     DEF Does

LEMMA ExplainedStep ==
    ASSUME Base, Settled, Aware, Unsubscribed, LeaksExplained, TypeOK', Does \/ UNCHANGED vars
    PROVE  LeaksExplained'
<1>0. /\ TypeOK /\ Locals /\ Settled /\ Aware /\ Unsubscribed
      /\ LeaksExplained /\ TypeOK' /\ None \notin Names
      /\ Callbacks \cap Disconnects = {}
      /\ \A r \in Requests : request[r].sub \in Sub \cup {NoSub}
  BY SubscriptionsAssumption DEF Base, TypeOK, Request
<1>1. ASSUME NEW r \in Requests, Begins(r)
      PROVE  LeaksExplained'
  BY <1>1, <1>0
     DEF Begins, TypeOK, Locals, Settled, Aware, Unsubscribed, Loaded,
     LeaksExplained, Orphans, Moves, Kept, Running, Sub, NoSub
<1>2. ASSUME NEW r \in Requests, Walks(r)
      PROVE  LeaksExplained'
  BY <1>2, <1>0
     DEF Walks, TypeOK, Locals, Settled, Aware, Unsubscribed, Loaded,
     LeaksExplained, Orphans, Moves, Kept, Running, Sub, NoSub
<1>3. ASSUME NEW r \in Requests, Unsubscribes(r)
      PROVE  LeaksExplained'
  BY <1>3, <1>0
     DEF Unsubscribes, TypeOK, Locals, Settled, Aware, Unsubscribed, Loaded,
     LeaksExplained, Orphans, Moves, Kept, Running, Sub, NoSub
<1>4. ASSUME NEW r \in Requests, Fails(r)
      PROVE  LeaksExplained'
  BY <1>4, <1>0
     DEF Fails, TypeOK, Locals, Settled, Aware, Unsubscribed, Loaded,
     LeaksExplained, Orphans, Moves, Kept, Running, Sub, NoSub
<1>5. ASSUME NEW k \in Callbacks, Connects(k)
      PROVE  LeaksExplained'
  BY <1>5, <1>0
     DEF Connects, TypeOK, Locals, Settled, Aware, Unsubscribed, Loaded,
     LeaksExplained, Orphans, Moves, Kept, Running, Sub, NoSub
<1>6. ASSUME NEW k \in Callbacks, Creates(k)
      PROVE  LeaksExplained'
  BY <1>6, <1>0
     DEF Creates, TypeOK, Locals, Settled, Aware, Unsubscribed, Loaded,
     LeaksExplained, Orphans, Moves, Kept, Running, Sub, NoSub
<1>7. ASSUME NEW k \in Callbacks, Stores(k)
      PROVE  LeaksExplained'
  BY <1>7, <1>0
     DEF Stores, TypeOK, Locals, Settled, Aware, Unsubscribed, Loaded,
     LeaksExplained, Orphans, Moves, Kept, Running, Sub, NoSub
<1>8. ASSUME NEW d \in Disconnects, Drops(d)
      PROVE  LeaksExplained'
  BY <1>8, <1>0
     DEF Drops, TypeOK, Locals, Settled, Aware, Unsubscribed, Loaded,
     LeaksExplained, Orphans, Moves, Kept, Running, Sub, NoSub
<1>9. ASSUME NEW d \in Disconnects, Forgets(d)
      PROVE  LeaksExplained'
  BY <1>9, <1>0
     DEF Forgets, TypeOK, Locals, Settled, Aware, Unsubscribed, Loaded,
     LeaksExplained, Orphans, Moves, Kept, Running, Sub, NoSub
<1>10. ASSUME NEW n \in Names, Expires(n)
      PROVE  LeaksExplained'
  BY <1>10, <1>0
     DEF Expires, TypeOK, Locals, Settled, Aware, Unsubscribed, Loaded,
     LeaksExplained, Orphans, Moves, Kept, Running, Sub, NoSub
<1>11. CASE UNCHANGED vars
  BY <1>11, <1>0 DEF LeaksExplained, Orphans, vars
<1>. QED
  BY <1>1, <1>2, <1>3, <1>4, <1>5, <1>6, <1>7, <1>8, <1>9, <1>10, <1>11
     DEF Does

LEMMA InitInv ==
    ASSUME Init
    PROVE  IInv
<1>. USE SubscriptionsAssumption DEF Init, Fresh, NoSub
<1>1. Base
  BY DEF Base, TypeOK, Locals, Request, Stages, Remote, Sub
<1>2. Settled
  BY DEF Settled
<1>3. RowNotDeleted
  BY DEF RowNotDeleted
<1>4. Aware
  BY DEF Aware, Running, Loaded
<1>5. Unsubscribed
  BY DEF Unsubscribed, Loaded
<1>6. LeaksExplained
  BY DEF LeaksExplained, Orphans
<1>. QED
  BY <1>1, <1>2, <1>3, <1>4, <1>5, <1>6 DEF IInv

LEMMA StepInv ==
    ASSUME IInv, [Next]_vars
    PROVE  IInv'
<1>1. /\ Base /\ Settled /\ RowNotDeleted /\ Aware /\ Unsubscribed
      /\ LeaksExplained
  BY DEF IInv
<1>2. Does \/ UNCHANGED vars
  BY <1>1, StepDoes
<1>3. TypeOK'
  BY <1>1, <1>2, TypesStep
<1>4. Base'
  BY <1>1, <1>2, <1>3, LocalsStep DEF Base
<1>5. Settled' /\ RowNotDeleted'
  BY <1>1, <1>2, <1>3, SettledStep, DeletedStep
<1>6. Aware' /\ Unsubscribed' /\ LeaksExplained'
  BY <1>1, <1>2, <1>3, AwareStep, UnsubscribedStep, ExplainedStep
<1>. QED
  BY <1>4, <1>5, <1>6 DEF IInv

----------------------------------------------------------------------------
(* The inductive invariant: what requests have loaded, what they know of   *)
(* each other, and what they have deleted.                                 *)
THEOREM Invariance == Spec => []IInv
<1>1. Init => IInv
  BY InitInv
<1>2. IInv /\ [Next]_vars => IInv'
  BY StepInv
<1>. QED
  BY <1>1, <1>2, PTL DEF Spec

(* Every variable of callbacks, disconnects and the tables has its type,   *)
(* and the user's subscription row belongs to the user's connection.       *)
THEOREM TypeCorrect == Spec => []TypeOK
<1>1. IInv => TypeOK
  BY DEF IInv, Base
<1>. QED
  BY <1>1, Invariance, PTL

(* A subscription at Google that no row names had its creation or a        *)
(* deletion fail, or its callback ran together with another request        *)
(* (subscription_service.py:65-67), for any numbers of callbacks,          *)
(* disconnects and failures.                                               *)
THEOREM NothingElseLeaks == Spec => []LeaksExplained
<1>1. IInv => LeaksExplained
  BY DEF IInv
<1>. QED
  BY <1>1, Invariance, PTL

(* While nothing fails, a row names a subscription the program has deleted *)
(* only until the request that deleted it replaces the name or drops the   *)
(* row, for any number of callbacks and disconnects at once                *)
(* (subscription_service.py:64-95, :105-120).                              *)
THEOREM RowsNameNoDeleted == Spec => []RowNotDeleted
<1>1. IInv => RowNotDeleted
  BY DEF IInv
<1>. QED
  BY <1>1, Invariance, PTL

============================================================================
