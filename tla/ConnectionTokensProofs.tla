----------------------- MODULE ConnectionTokensProofs -----------------------
(***************************************************************************)
(* Proofs about ConnectionTokens, for any number of callers, callbacks,    *)
(* disconnects, processes and tokens.                                      *)
(***************************************************************************)
EXTENDS ConnectionTokens, TLAPS

(* A row without id is no row, also where a task remembers it; a row has  *)
(* a refresh token.                                                       *)
RowsNamed ==
    /\ row.id = None => row = NoRow
    /\ row.id # None => row.refresh_token # None
    /\ \A k \in Callbacks :
         callback[k].conn.id = None => callback[k].conn = NoRow
    /\ \A d \in Disconnects :
         delete[d].pc \in {"revoking", "deleting", "popping"}
         => delete[d].conn.id # None /\ delete[d].conn.refresh_token # None

(* Tokens that are in hand, or were just stored, are fresh. *)
HandsFresh ==
    /\ row.token <= issued
    /\ \A c \in Callers :
         /\ call[c].pc = "answered" => call[c].token \in fresh
         /\ call[c].pc = "stored" /\ row.id = call[c].conn.id
              => row.token \in fresh
    /\ \A k \in Callbacks :
         callback[k].pc \in {"granted", "selected"}
         => callback[k].token \in fresh

(* What a callback brings is new until it is done. *)
ConsentsNew ==
    \A k \in Callbacks : callback[k].pc # "done" =>
        /\ row.id # k /\ row.refresh_token # k
        /\ \A c \in Callers : call[c].conn.refresh_token # k
        /\ \A d \in Disconnects : delete[d].conn.id # k
        /\ \A p \in Processes : pops[p][k] = 0

(* The lock of a connection that exists was never dropped. *)
LockLives ==
    \A i \in Connections : row.id = i =>
        /\ \A p \in Processes : pops[p][i] = 0
        /\ \A d \in Disconnects :
             delete[d].pc = "popping" => delete[d].conn.id # i

(* A call that refreshes has the first lock the connection had. *)
LocksSound ==
    \A c \in Callers :
        /\ call[c].pc \in {"waiting"} \cup Holding
             => call[c].lock <= pops[ProcessOf[c]][call[c].conn.id]
        /\ call[c].pc \in Refreshing => call[c].lock = 0

(* A lock has one holder. *)
OneHolder ==
    \A c, d \in Callers :
        /\ c # d /\ ProcessOf[c] = ProcessOf[d]
        /\ call[c].pc \in Holding /\ call[d].pc \in Holding
        /\ call[c].conn.id = call[d].conn.id
        => call[c].lock # call[d].lock

Base == TypeOK /\ RowsNamed

Locks == ConsentsNew /\ LockLives /\ LocksSound /\ OneHolder

IInv == Base /\ HandsFresh /\ Locks /\ NoDoubleRefresh

USE TokensAssumption DEF google

LEMMA InitBase == Init => Base
  BY DEF Init, Base, TypeOK, RowsNamed, Row, NoRow, Call, NoCall, Callback,
         NoCallback, Delete, Connections, Tokens

(* What a step of a call makes of it; the others keep theirs. *)
Becomes(c, pc, conn, lock, token) ==
    /\ call' \in [Callers -> Call]
    /\ call'[c] = [pc |-> pc, conn |-> conn, lock |-> lock, token |-> token]
    /\ \A d \in Callers : d # c => call'[d] = call[d]

LEMMA GotoBecomes ==
    ASSUME TypeOK, NEW c \in Callers,
           NEW pc \in {"waiting", "locked", "calling", "answered", "rejected",
                       "stored"},
           Goto(c, pc)
    PROVE  Becomes(c, pc, call[c].conn, call[c].lock, call[c].token)
  BY DEF TypeOK, Goto, Becomes, Call

LEMMA NoRowIsRow == NoRow \in Row
  BY DEF NoRow, Row, Tokens, Connections

LEMMA RaiseBecomes ==
    ASSUME TypeOK, NEW c \in Callers, Raise(c)
    PROVE  Becomes(c, "idle", NoRow, 0, 0)
  BY NoRowIsRow DEF TypeOK, Raise, Becomes, Call, NoCall

LEMMA ReturnBecomes ==
    ASSUME TypeOK, NEW c \in Callers, NEW t \in Tokens \cup {0}, Return(c, t)
    PROVE  Becomes(c, "returned", NoRow, 0, t)
  BY NoRowIsRow DEF TypeOK, Return, Becomes, Call, NoCall

----------------------------------------------------------------------------
(* What each step does, as far as the invariant asks.  The steps are       *)
(* translated once, here; the lemmas below speak of Does only.             *)

Others == UNCHANGED <<pops, callback, delete>>

RowBecomes(id, refresh_token, token) ==
    /\ row' \in Row
    /\ row'.id = id /\ row'.refresh_token = refresh_token /\ row'.token = token

LEMMA NoRowIsNone ==
    NoRow.id = None /\ NoRow.refresh_token = None /\ NoRow.token = 0
  BY DEF NoRow

LoadDoes(c) ==
    /\ Becomes(c, "begun", row, 0, 0)
    /\ row # NoRow
    /\ Others /\ UNCHANGED <<row, google>>

AcquireDoes(c) ==
    /\ call[c].pc = "waiting"
    /\ \A d \in Callers :
         ProcessOf[d] = ProcessOf[c] /\ call[d].pc \in Holding
         /\ call[d].conn.id = call[c].conn.id
         => call[d].lock # call[c].lock
    /\ Becomes(c, "locked", call[c].conn, call[c].lock, call[c].token)
    /\ Others /\ UNCHANGED <<row, google>>

CheckDoes(c) ==
    /\ call[c].pc = "begun"
    /\ \/ Becomes(c, "idle", NoRow, 0, 0)
       \/ /\ call[c].conn.token \in fresh
          /\ Becomes(c, "returned", NoRow, 0, call[c].conn.token)
       \/ Becomes(c, "waiting", call[c].conn,
                  pops[ProcessOf[c]][call[c].conn.id], call[c].token)
    /\ Others /\ UNCHANGED <<row, google>>

RereadDoes(c) ==
    /\ call[c].pc = "locked"
    /\ \/ Becomes(c, "idle", NoRow, 0, 0)
       \/ /\ row.token \in fresh
          /\ Becomes(c, "returned", NoRow, 0, row.token)
       \/ /\ row.id = call[c].conn.id /\ row.token \notin fresh
          /\ Becomes(c, "calling", row, call[c].lock, call[c].token)
    /\ Others /\ UNCHANGED <<row, google>>

AnswerDoes(c) ==
    /\ call[c].pc = "calling"
    /\ Becomes(c, "answered", call[c].conn, call[c].lock, issued + 1)
    /\ issued' = issued + 1 /\ issued' \in Tokens
    /\ fresh' = fresh \cup {issued + 1} /\ fresh' \subseteq 1..issued'
    /\ Others /\ UNCHANGED <<row, revoked>>

RejectDoes(c) ==
    /\ call[c].pc = "calling"
    /\ Becomes(c, "rejected", call[c].conn, call[c].lock, call[c].token)
    /\ Others /\ UNCHANGED <<row, google>>

UnreachableDoes(c) ==
    /\ call[c].pc = "calling"
    /\ Becomes(c, "idle", NoRow, 0, 0)
    /\ Others /\ UNCHANGED <<row, google>>

StoreDoes(c) ==
    /\ call[c].pc = "answered"
    /\ \/ /\ row.id = call[c].conn.id
          /\ RowBecomes(row.id, row.refresh_token, call[c].token)
          /\ Becomes(c, "stored", call[c].conn, call[c].lock, call[c].token)
       \/ UNCHANGED row /\ Becomes(c, "idle", NoRow, 0, 0)
    /\ Others /\ UNCHANGED google

ReturnStoredDoes(c) ==
    /\ call[c].pc = "stored"
    /\ \/ /\ row.id = call[c].conn.id
          /\ Becomes(c, "returned", NoRow, 0, row.token)
       \/ Becomes(c, "idle", NoRow, 0, 0)
    /\ Others /\ UNCHANGED <<row, google>>

MarkRejectedDoes(c) ==
    /\ call[c].pc = "rejected"
    /\ RowBecomes(row.id, row.refresh_token, row.token)
    /\ row' = row \/ row.id = call[c].conn.id
    /\ Becomes(c, "idle", NoRow, 0, 0)
    /\ Others /\ UNCHANGED google

ExchangeDoes(k) ==
    /\ callback' \in [Callbacks -> Callback]
    /\ callback'[k].pc = "granted"
    /\ callback'[k].token = issued + 1
    /\ callback'[k].conn = callback[k].conn
    /\ \A j \in Callbacks : j # k => callback'[j] = callback[j]
    /\ callback[k].pc = "idle"
    /\ issued' = issued + 1 /\ issued' \in Tokens
    /\ fresh' = fresh \cup {issued + 1} /\ fresh' \subseteq 1..issued'
    /\ UNCHANGED <<row, pops, revoked, call, delete>>

SelectDoes(k) ==
    /\ callback' \in [Callbacks -> Callback]
    /\ callback'[k].pc = "selected"
    /\ callback'[k].token = callback[k].token
    /\ callback'[k].conn = row
    /\ \A j \in Callbacks : j # k => callback'[j] = callback[j]
    /\ callback[k].pc = "granted"
    /\ UNCHANGED <<row, pops, google, call, delete>>

(* A consent ends up in the row it found, in a row of its own, or nowhere. *)
UpsertDoes(k) ==
    /\ callback' \in [Callbacks -> Callback]
    /\ callback'[k].pc = "done"
    /\ callback'[k].conn = NoRow
    /\ \A j \in Callbacks : j # k => callback'[j] = callback[j]
    /\ callback[k].pc = "selected"
    /\ \/ row' = row
       \/ RowBecomes(k, k, callback[k].token)
       \/ /\ row.id = callback[k].conn.id /\ callback[k].conn # NoRow
          /\ RowBecomes(row.id, k, callback[k].token)
    /\ UNCHANGED <<pops, google, call, delete>>

LoadForDeleteDoes(d) ==
    /\ delete' \in [Disconnects -> Delete]
    /\ delete'[d].pc = "revoking" /\ delete'[d].conn = row
    /\ \A e \in Disconnects : e # d => delete'[e] = delete[e]
    /\ row # NoRow
    /\ UNCHANGED <<row, pops, google, call, callback>>

RevokeDoes(d) ==
    /\ delete' \in [Disconnects -> Delete]
    /\ delete'[d].pc = "deleting" /\ delete'[d].conn = delete[d].conn
    /\ \A e \in Disconnects : e # d => delete'[e] = delete[e]
    /\ delete[d].pc = "revoking"
    /\ revoked' \subseteq Connections
    /\ UNCHANGED <<row, pops, fresh, issued, call, callback>>

DeleteRowDoes(d) ==
    /\ delete' \in [Disconnects -> Delete]
    /\ delete'[d].pc = "popping" /\ delete'[d].conn = delete[d].conn
    /\ \A e \in Disconnects : e # d => delete'[e] = delete[e]
    /\ delete[d].pc = "deleting"
    /\ \/ row' = NoRow
       \/ row' = row /\ row.id # delete[d].conn.id
    /\ UNCHANGED <<pops, google, call, callback>>

PopLockDoes(d) ==
    /\ delete' \in [Disconnects -> Delete]
    /\ delete'[d].pc = "done" /\ delete'[d].conn = NoRow
    /\ \A e \in Disconnects : e # d => delete'[e] = delete[e]
    /\ delete[d].pc = "popping"
    /\ pops' \in [Processes -> [Connections -> Nat]]
    /\ \A p \in Processes, i \in Connections :
         /\ pops[p][i] <= pops'[p][i]
         /\ pops'[p][i] # pops[p][i] => i = delete[d].conn.id
    /\ UNCHANGED <<row, google, call, callback>>

ExpireDoes(t) ==
    /\ fresh' = fresh \ {t}
    /\ \A c \in Callers :
         /\ call[c].pc = "answered" => call[c].token # t
         /\ call[c].pc # "stored"
    /\ \A k \in Callbacks :
         callback[k].pc \in {"granted", "selected"} => callback[k].token # t
    /\ UNCHANGED <<row, pops, issued, revoked, call, callback, delete>>

WithdrawDoes(g) ==
    /\ revoked' \subseteq Connections
    /\ UNCHANGED <<row, pops, fresh, issued, call, callback, delete>>

Does ==
    \/ \E c \in Callers :
         \/ LoadDoes(c) \/ AcquireDoes(c) \/ CheckDoes(c) \/ RereadDoes(c)
         \/ AnswerDoes(c) \/ RejectDoes(c) \/ UnreachableDoes(c)
         \/ StoreDoes(c) \/ ReturnStoredDoes(c) \/ MarkRejectedDoes(c)
    \/ \E k \in Callbacks : ExchangeDoes(k) \/ SelectDoes(k) \/ UpsertDoes(k)
    \/ \E d \in Disconnects :
         \/ LoadForDeleteDoes(d) \/ RevokeDoes(d)
         \/ DeleteRowDoes(d) \/ PopLockDoes(d)
    \/ \E t \in Tokens : ExpireDoes(t)
    \/ \E g \in Connections : WithdrawDoes(g)

LEMMA Fields ==
    ASSUME TypeOK
    PROVE  /\ row.id \in Connections \cup {None}
           /\ row.refresh_token \in Connections \cup {None}
           /\ row.token \in Nat
           /\ \A c \in Callers :
                /\ call[c].conn \in Row
                /\ call[c].conn.id \in Connections \cup {None}
                /\ call[c].lock \in Nat
                /\ call[c].token \in Tokens \cup {0}
                /\ call[c].conn.token \in Tokens \cup {0}
           /\ \A k \in Callbacks :
                /\ callback[k].conn \in Row
                /\ callback[k].token \in Tokens \cup {0}
                /\ callback[k].conn.id \in Connections \cup {None}
           /\ \A d \in Disconnects :
                /\ delete[d].conn.id \in Connections \cup {None}
                /\ delete[d].conn.refresh_token \in Connections \cup {None}
           /\ issued \in Nat
           /\ fresh \subseteq Nat
  BY DEF TypeOK, Row, Call, Callback, Delete, Tokens

LEMMA LoadEffect ==
    ASSUME TypeOK, NEW c \in Callers, Load(c)
    PROVE  LoadDoes(c)
  BY DEF TypeOK, Load, Becomes, Call, NoCall, Others, LoadDoes

LEMMA AcquireEffect ==
    ASSUME TypeOK, NEW c \in Callers, Acquire(c)
    PROVE  AcquireDoes(c)
  BY GotoBecomes DEF Acquire, Others, AcquireDoes

LEMMA CheckEffect ==
    ASSUME TypeOK, NEW c \in Callers, Check(c)
    PROVE  CheckDoes(c)
<1> USE DEF CheckDoes
<1>1. call[c].pc = "begun" /\ Others /\ UNCHANGED <<row, google>>
  BY DEF Check, Others
<1>2. CASE Raise(c)
  BY <1>1, <1>2, RaiseBecomes
<1>3. CASE call[c].conn.token \in fresh /\ Return(c, call[c].conn.token)
  BY <1>1, <1>3, Fields, ReturnBecomes
<1>4. CASE call' = [call EXCEPT ![c].pc = "waiting",
                       ![c].lock = pops[ProcessOf[c]][call[c].conn.id]]
  <2>1. pops[ProcessOf[c]][call[c].conn.id] \in Nat
    BY <1>1, Fields DEF TypeOK
  <2> QED
    BY <1>1, <1>4, <2>1 DEF TypeOK, Becomes, Call
<1> QED
  BY <1>2, <1>3, <1>4 DEF Check

LEMMA RereadEffect ==
    ASSUME TypeOK, NEW c \in Callers, Reread(c)
    PROVE  RereadDoes(c)
<1> USE DEF RereadDoes
<1>1. call[c].pc = "locked" /\ Others /\ UNCHANGED <<row, google>>
  BY DEF Reread, Others
<1>2. CASE Raise(c)
  BY <1>1, <1>2, RaiseBecomes
<1>3. CASE row.token \in fresh /\ Return(c, row.token)
  <2>1. row.token \in Tokens \cup {0}
    BY DEF TypeOK, Row
  <2> QED
    BY <1>1, <1>3, <2>1, ReturnBecomes
<1>4. CASE /\ row.id = call[c].conn.id /\ row.token \notin fresh
           /\ call' = [call EXCEPT ![c].pc = "calling", ![c].conn = row]
  BY <1>1, <1>4 DEF TypeOK, Becomes, Call
<1> QED
  BY <1>2, <1>3, <1>4 DEF Reread

LEMMA AnswerEffect ==
    ASSUME TypeOK, NEW c \in Callers, Answer(c)
    PROVE  AnswerDoes(c)
<1> USE DEF AnswerDoes
<1>1. issued' = issued + 1 /\ issued' \in Tokens
  BY DEF Answer, Issue, TypeOK, Tokens
<1>2. fresh' = fresh \cup {issued + 1} /\ fresh' \subseteq 1..issued'
  BY <1>1 DEF Answer, Issue, TypeOK, Tokens
<1> QED
  BY <1>1, <1>2 DEF TypeOK, Answer, Issue, Becomes, Call, Others

LEMMA RejectEffect ==
    ASSUME TypeOK, NEW c \in Callers, Reject(c)
    PROVE  RejectDoes(c)
  BY GotoBecomes DEF Reject, Others, RejectDoes

LEMMA UnreachableEffect ==
    ASSUME TypeOK, NEW c \in Callers, Unreachable(c)
    PROVE  UnreachableDoes(c)
  BY RaiseBecomes DEF Unreachable, Others, UnreachableDoes

LEMMA StoreEffect ==
    ASSUME TypeOK, NEW c \in Callers, Store(c)
    PROVE  StoreDoes(c)
<1> USE DEF StoreDoes
<1>1. call[c].pc = "answered" /\ Others /\ UNCHANGED google
  BY DEF Store, Others
<1>2. CASE UNCHANGED row /\ Raise(c)
  BY <1>1, <1>2, RaiseBecomes
<1>3. CASE /\ row.id = call[c].conn.id /\ Goto(c, "stored")
           /\ row' = [row EXCEPT !.token = call[c].token,
                                 !.status = Status(call[c].conn, "active")]
  <2>1. call[c].token \in Tokens \cup {0}
    BY Fields
  <2>2. Status(call[c].conn, "active") \in {"active", "needs_reconnect"}
    BY DEF Status, TypeOK, Row
  <2>3. RowBecomes(row.id, row.refresh_token, call[c].token)
    BY <1>3, <2>1, <2>2 DEF TypeOK, Row, RowBecomes
  <2> QED
    BY <1>1, <1>3, <2>3, GotoBecomes
<1> QED
  BY <1>2, <1>3 DEF Store

LEMMA ReturnStoredEffect ==
    ASSUME TypeOK, NEW c \in Callers, ReturnStored(c)
    PROVE  ReturnStoredDoes(c)
<1> USE DEF ReturnStoredDoes
<1>1. row.token \in Tokens \cup {0}
  BY DEF TypeOK, Row
<1> QED
  BY <1>1, ReturnBecomes, RaiseBecomes DEF ReturnStored, Others

LEMMA MarkRejectedEffect ==
    ASSUME TypeOK, NEW c \in Callers, MarkRejected(c)
    PROVE  MarkRejectedDoes(c)
<1> USE DEF MarkRejectedDoes
<1>1. Status(call[c].conn, "needs_reconnect") \in {"active", "needs_reconnect"}
  BY DEF Status, TypeOK, Row
<1>2. RowBecomes(row.id, row.refresh_token, row.token)
  BY <1>1 DEF MarkRejected, TypeOK, Row, RowBecomes
<1> QED
  BY <1>2, RaiseBecomes DEF MarkRejected, Others, RowBecomes

LEMMA ExchangeEffect ==
    ASSUME TypeOK, NEW k \in Callbacks, Exchange(k)
    PROVE  ExchangeDoes(k)
<1> USE DEF ExchangeDoes
<1>1. issued' = issued + 1 /\ issued' \in Tokens
  BY DEF Exchange, Issue, TypeOK, Tokens
<1>2. fresh' = fresh \cup {issued + 1} /\ fresh' \subseteq 1..issued'
  BY <1>1 DEF Exchange, Issue, TypeOK, Tokens
<1> QED
  BY <1>1, <1>2 DEF TypeOK, Exchange, Issue, Callback

LEMMA SelectEffect ==
    ASSUME TypeOK, NEW k \in Callbacks, Select(k)
    PROVE  SelectDoes(k)
  BY DEF TypeOK, Select, Callback, SelectDoes

LEMMA UpsertEffect ==
    ASSUME TypeOK, NEW k \in Callbacks, Upsert(k)
    PROVE  UpsertDoes(k)
<1> USE DEF UpsertDoes
<1> DEFINE conn == callback[k].conn
           new == [id |-> k, refresh_token |-> k, token |-> callback[k].token,
                   status |-> "active"]
<1>1. k \in Connections /\ callback[k].token \in Tokens \cup {0}
  BY Fields DEF Connections
<1>2. CASE row.id # conn.id
  <2>1. row' = row
    BY <1>2 DEF Upsert
  <2> QED
    BY <2>1, NoRowIsRow DEF TypeOK, Upsert, Callback, NoCallback
<1>3. CASE row.id = conn.id /\ conn = NoRow
  <2>1. row' = new
    BY <1>3 DEF Upsert
  <2>2. RowBecomes(k, k, callback[k].token)
    BY <1>1, <2>1 DEF RowBecomes, Row
  <2> QED
    BY <2>2, NoRowIsRow DEF TypeOK, Upsert, Callback, NoCallback
<1>4. CASE row.id = conn.id /\ conn # NoRow
  <2>1. Status(conn, "active") \in {"active", "needs_reconnect"}
    BY DEF Status, TypeOK, Row
  <2>2. row' = [id |-> conn.id, refresh_token |-> k,
                token |-> callback[k].token, status |-> Status(conn, "active")]
    BY <1>4 DEF Upsert
  <2>3. conn.id \in Connections \cup {None}
    BY Fields
  <2>4. RowBecomes(row.id, k, callback[k].token)
    BY <1>1, <1>4, <2>1, <2>2, <2>3 DEF RowBecomes, Row
  <2> QED
    BY <1>4, <2>4, NoRowIsRow DEF TypeOK, Upsert, Callback, NoCallback
<1> QED
  BY <1>2, <1>3, <1>4

LEMMA LoadForDeleteEffect ==
    ASSUME TypeOK, NEW d \in Disconnects, LoadForDelete(d)
    PROVE  LoadForDeleteDoes(d)
  BY DEF TypeOK, LoadForDelete, Delete, LoadForDeleteDoes

LEMMA RevokeEffect ==
    ASSUME Base, NEW d \in Disconnects, Revoke(d)
    PROVE  RevokeDoes(d)
<1>1. delete[d].conn.refresh_token \in Connections
  BY Fields DEF Base, RowsNamed, Revoke
<1> QED
  BY <1>1 DEF Base, TypeOK, Revoke, Delete, RevokeDoes

LEMMA DeleteRowEffect ==
    ASSUME TypeOK, NEW d \in Disconnects, DeleteRow(d)
    PROVE  DeleteRowDoes(d)
  BY DEF TypeOK, DeleteRow, Delete, DeleteRowDoes

LEMMA PopLockEffect ==
    ASSUME Base, NEW d \in Disconnects, PopLock(d)
    PROVE  PopLockDoes(d)
<1>0. delete[d].conn.id \in Connections
  BY Fields DEF PopLock, Base, RowsNamed
<1>9. TypeOK
  BY DEF Base
<1>8. pops \in [Processes -> [Connections -> Nat]]
  BY <1>9 DEF TypeOK
<1>1. ProcessOf[d] \in Processes
  OBVIOUS
<1>2. pops' = [pops EXCEPT ![ProcessOf[d]][delete[d].conn.id] = @ + 1]
  BY DEF PopLock
<1>3. pops' \in [Processes -> [Connections -> Nat]]
  BY <1>0, <1>8, <1>1, <1>2
<1>4. \A p \in Processes, i \in Connections :
        pops'[p][i] = IF p = ProcessOf[d] /\ i = delete[d].conn.id
                        THEN pops[p][i] + 1 ELSE pops[p][i]
  BY <1>0, <1>8, <1>1, <1>2
<1>5. \A p \in Processes, i \in Connections : pops[p][i] \in Nat
  BY <1>9 DEF TypeOK
<1>6. \A p \in Processes, i \in Connections :
         /\ pops[p][i] <= pops'[p][i]
         /\ pops'[p][i] # pops[p][i] => i = delete[d].conn.id
  BY <1>4, <1>5
<1>7. /\ delete' \in [Disconnects -> Delete]
      /\ delete'[d].pc = "done" /\ delete'[d].conn = NoRow
      /\ \A e \in Disconnects : e # d => delete'[e] = delete[e]
  BY <1>9, NoRowIsRow DEF PopLock, TypeOK, Delete
<1> QED
  BY <1>3, <1>6, <1>7 DEF PopLock, PopLockDoes

LEMMA ExpireEffect ==
    ASSUME NEW t \in Tokens, Expire(t)
    PROVE  ExpireDoes(t)
  BY DEF Expire, InHand, ExpireDoes

LEMMA WithdrawEffect ==
    ASSUME TypeOK, NEW g \in Connections, Withdraw(g)
    PROVE  WithdrawDoes(g)
  BY DEF Withdraw, WithdrawDoes, TypeOK

LEMMA StepDoes == Base /\ [Next]_vars => [Does]_vars
<1> SUFFICES ASSUME Base, Next PROVE Does
  OBVIOUS
<1> TypeOK
  BY DEF Base
<1>1. ASSUME NEW c \in Callers, Load(c) PROVE Does
  BY <1>1, LoadEffect DEF Does
<1>2. ASSUME NEW c \in Callers, Acquire(c) PROVE Does
  BY <1>2, AcquireEffect DEF Does
<1>3. ASSUME NEW c \in Callers, Check(c) PROVE Does
  BY <1>3, CheckEffect DEF Does
<1>4. ASSUME NEW c \in Callers, Reread(c) PROVE Does
  BY <1>4, RereadEffect DEF Does
<1>5. ASSUME NEW c \in Callers, Answer(c) PROVE Does
  BY <1>5, AnswerEffect DEF Does
<1>6. ASSUME NEW c \in Callers, Reject(c) PROVE Does
  BY <1>6, RejectEffect DEF Does
<1>7. ASSUME NEW c \in Callers, Unreachable(c) PROVE Does
  BY <1>7, UnreachableEffect DEF Does
<1>8. ASSUME NEW c \in Callers, Store(c) PROVE Does
  BY <1>8, StoreEffect DEF Does
<1>9. ASSUME NEW c \in Callers, ReturnStored(c) PROVE Does
  BY <1>9, ReturnStoredEffect DEF Does
<1>10. ASSUME NEW c \in Callers, MarkRejected(c) PROVE Does
  BY <1>10, MarkRejectedEffect DEF Does
<1>11. ASSUME NEW k \in Callbacks, Exchange(k) PROVE Does
  BY <1>11, ExchangeEffect DEF Does
<1>12. ASSUME NEW k \in Callbacks, Select(k) PROVE Does
  BY <1>12, SelectEffect DEF Does
<1>13. ASSUME NEW k \in Callbacks, Upsert(k) PROVE Does
  BY <1>13, UpsertEffect DEF Does
<1>14. ASSUME NEW d \in Disconnects, LoadForDelete(d) PROVE Does
  BY <1>14, LoadForDeleteEffect DEF Does
<1>15. ASSUME NEW d \in Disconnects, Revoke(d) PROVE Does
  BY <1>15, RevokeEffect DEF Does
<1>16. ASSUME NEW d \in Disconnects, DeleteRow(d) PROVE Does
  BY <1>16, DeleteRowEffect DEF Does
<1>17. ASSUME NEW d \in Disconnects, PopLock(d) PROVE Does
  BY <1>17, PopLockEffect DEF Does
<1>18. ASSUME NEW t \in Tokens, Expire(t) PROVE Does
  BY <1>18, ExpireEffect DEF Does
<1>19. ASSUME NEW g \in Connections, Withdraw(g) PROVE Does
  BY <1>19, WithdrawEffect DEF Does
<1> QED
  BY <1>1, <1>2, <1>3, <1>4, <1>5, <1>6, <1>7, <1>8, <1>9, <1>10, <1>11, <1>12,
     <1>13, <1>14, <1>15, <1>16, <1>17, <1>18, <1>19
     DEF Next, GetValidAccessToken, UpsertConnection, DeleteConnection

----------------------------------------------------------------------------
(* Types. *)

LEMMA TypeOKStep == TypeOK /\ RowsNamed /\ [Does]_vars => TypeOK'
<1> SUFFICES ASSUME TypeOK, RowsNamed, [Does]_vars PROVE TypeOK'
  OBVIOUS
<1> USE DEF RowsNamed
<1> USE DEF TypeOK, Becomes, RowBecomes, Others
<1>1. ASSUME NEW c \in Callers, LoadDoes(c) PROVE TypeOK'
  BY <1>1 DEF LoadDoes
<1>2. ASSUME NEW c \in Callers, AcquireDoes(c) PROVE TypeOK'
  BY <1>2 DEF AcquireDoes
<1>3. ASSUME NEW c \in Callers, CheckDoes(c) PROVE TypeOK'
  BY <1>3 DEF CheckDoes
<1>4. ASSUME NEW c \in Callers, RereadDoes(c) PROVE TypeOK'
  <2>0. call[c].pc = "locked" /\ Others /\ UNCHANGED <<row, google>>
    BY <1>4 DEF RereadDoes
  <2>1. CASE Becomes(c, "idle", NoRow, 0, 0)
    BY <2>0, <2>1
  <2>2. CASE Becomes(c, "returned", NoRow, 0, row.token)
    BY <2>0, <2>2
  <2>3. CASE /\ row.id = call[c].conn.id
             /\ Becomes(c, "calling", row, call[c].lock, call[c].token)
    <3>1. Becomes(c, "calling", row, call[c].lock, call[c].token)
          /\ row.id # None
      BY <2>0, <2>3
    <3> QED
      BY <2>0, <3>1
  <2> QED
    BY <1>4, <2>1, <2>2, <2>3 DEF RereadDoes
<1>5. ASSUME NEW c \in Callers, AnswerDoes(c) PROVE TypeOK'
  BY <1>5 DEF AnswerDoes
<1>6. ASSUME NEW c \in Callers, RejectDoes(c) PROVE TypeOK'
  BY <1>6 DEF RejectDoes
<1>7. ASSUME NEW c \in Callers, UnreachableDoes(c) PROVE TypeOK'
  BY <1>7 DEF UnreachableDoes
<1>8. ASSUME NEW c \in Callers, StoreDoes(c) PROVE TypeOK'
  <2>0. call[c].pc = "answered" /\ Others /\ UNCHANGED <<google>>
    BY <1>8 DEF StoreDoes
  <2>1. CASE /\ row.id = call[c].conn.id
             /\ RowBecomes(row.id, row.refresh_token, call[c].token)
             /\ Becomes(c, "stored", call[c].conn, call[c].lock, call[c].token)
    BY <2>0, <2>1
  <2>2. CASE UNCHANGED row /\ Becomes(c, "idle", NoRow, 0, 0)
    BY <2>0, <2>2
  <2> QED
    BY <1>8, <2>1, <2>2 DEF StoreDoes
<1>9. ASSUME NEW c \in Callers, ReturnStoredDoes(c) PROVE TypeOK'
  <2>0. call[c].pc = "stored" /\ Others /\ UNCHANGED <<row, google>>
    BY <1>9 DEF ReturnStoredDoes
  <2>1. CASE /\ row.id = call[c].conn.id
             /\ Becomes(c, "returned", NoRow, 0, row.token)
    BY <2>0, <2>1
  <2>2. CASE Becomes(c, "idle", NoRow, 0, 0)
    BY <2>0, <2>2
  <2> QED
    BY <1>9, <2>1, <2>2 DEF ReturnStoredDoes
<1>10. ASSUME NEW c \in Callers, MarkRejectedDoes(c) PROVE TypeOK'
  BY <1>10 DEF MarkRejectedDoes
<1>11. ASSUME NEW k \in Callbacks, ExchangeDoes(k) PROVE TypeOK'
  BY <1>11 DEF ExchangeDoes
<1>12. ASSUME NEW k \in Callbacks, SelectDoes(k) PROVE TypeOK'
  BY <1>12 DEF SelectDoes
<1>13. ASSUME NEW k \in Callbacks, UpsertDoes(k) PROVE TypeOK'
  BY <1>13 DEF UpsertDoes
<1>14. ASSUME NEW d \in Disconnects, LoadForDeleteDoes(d) PROVE TypeOK'
  BY <1>14 DEF LoadForDeleteDoes
<1>15. ASSUME NEW d \in Disconnects, RevokeDoes(d) PROVE TypeOK'
  BY <1>15 DEF RevokeDoes
<1>16. ASSUME NEW d \in Disconnects, DeleteRowDoes(d) PROVE TypeOK'
  BY <1>16, NoRowIsRow DEF DeleteRowDoes
<1>17. ASSUME NEW d \in Disconnects, PopLockDoes(d) PROVE TypeOK'
  BY <1>17 DEF PopLockDoes
<1>18. ASSUME NEW t \in Tokens, ExpireDoes(t) PROVE TypeOK'
  BY <1>18 DEF ExpireDoes
<1>19. ASSUME NEW g \in Connections, WithdrawDoes(g) PROVE TypeOK'
  BY <1>19 DEF WithdrawDoes
<1>20. CASE UNCHANGED vars
  BY <1>20 DEF vars
<1> QED
  BY <1>1, <1>2, <1>3, <1>4, <1>5, <1>6, <1>7, <1>8, <1>9, <1>10, <1>11, <1>12,
     <1>13, <1>14, <1>15, <1>16, <1>17, <1>18, <1>19, <1>20 DEF Does

LEMMA RowsNamedStep == TypeOK /\ RowsNamed /\ [Does]_vars => RowsNamed'
<1> SUFFICES ASSUME TypeOK, RowsNamed, [Does]_vars PROVE RowsNamed'
  OBVIOUS
<1> USE DEF RowsNamed, Becomes, RowBecomes, Others, Connections, TypeOK
<1>1. ASSUME NEW c \in Callers, LoadDoes(c) PROVE RowsNamed'
  BY <1>1 DEF LoadDoes
<1>2. ASSUME NEW c \in Callers, AcquireDoes(c) PROVE RowsNamed'
  BY <1>2 DEF AcquireDoes
<1>3. ASSUME NEW c \in Callers, CheckDoes(c) PROVE RowsNamed'
  BY <1>3 DEF CheckDoes
<1>4. ASSUME NEW c \in Callers, RereadDoes(c) PROVE RowsNamed'
  BY <1>4 DEF RereadDoes
<1>5. ASSUME NEW c \in Callers, AnswerDoes(c) PROVE RowsNamed'
  BY <1>5 DEF AnswerDoes
<1>6. ASSUME NEW c \in Callers, RejectDoes(c) PROVE RowsNamed'
  BY <1>6 DEF RejectDoes
<1>7. ASSUME NEW c \in Callers, UnreachableDoes(c) PROVE RowsNamed'
  BY <1>7 DEF UnreachableDoes
<1>8. ASSUME NEW c \in Callers, StoreDoes(c) PROVE RowsNamed'
  BY <1>8 DEF StoreDoes
<1>9. ASSUME NEW c \in Callers, ReturnStoredDoes(c) PROVE RowsNamed'
  BY <1>9 DEF ReturnStoredDoes
<1>10. ASSUME NEW c \in Callers, MarkRejectedDoes(c) PROVE RowsNamed'
  BY <1>10 DEF MarkRejectedDoes
<1>11. ASSUME NEW k \in Callbacks, ExchangeDoes(k) PROVE RowsNamed'
  BY <1>11 DEF ExchangeDoes
<1>12. ASSUME NEW k \in Callbacks, SelectDoes(k) PROVE RowsNamed'
  BY <1>12 DEF SelectDoes
<1>13. ASSUME NEW k \in Callbacks, UpsertDoes(k) PROVE RowsNamed'
  BY <1>13 DEF UpsertDoes
<1>14. ASSUME NEW d \in Disconnects, LoadForDeleteDoes(d) PROVE RowsNamed'
  BY <1>14 DEF LoadForDeleteDoes
<1>15. ASSUME NEW d \in Disconnects, RevokeDoes(d) PROVE RowsNamed'
  BY <1>15 DEF RevokeDoes
<1>16. ASSUME NEW d \in Disconnects, DeleteRowDoes(d) PROVE RowsNamed'
  BY <1>16, NoRowIsNone DEF DeleteRowDoes
<1>17. ASSUME NEW d \in Disconnects, PopLockDoes(d) PROVE RowsNamed'
  BY <1>17 DEF PopLockDoes
<1>18. ASSUME NEW t \in Tokens, ExpireDoes(t) PROVE RowsNamed'
  BY <1>18 DEF ExpireDoes
<1>19. ASSUME NEW g \in Connections, WithdrawDoes(g) PROVE RowsNamed'
  BY <1>19 DEF WithdrawDoes
<1>20. CASE UNCHANGED vars
  BY <1>20 DEF vars
<1> QED
  BY <1>1, <1>2, <1>3, <1>4, <1>5, <1>6, <1>7, <1>8, <1>9, <1>10, <1>11, <1>12,
     <1>13, <1>14, <1>15, <1>16, <1>17, <1>18, <1>19, <1>20 DEF Does

----------------------------------------------------------------------------
(* Fresh tokens. *)

LEMMA HandsFreshStep == TypeOK /\ HandsFresh /\ [Does]_vars => HandsFresh'
<1> SUFFICES ASSUME TypeOK, HandsFresh, [Does]_vars PROVE HandsFresh'
  OBVIOUS
<1> /\ issued \in Nat /\ row.token \in Nat
    /\ \A t \in fresh : t \in Nat /\ t <= issued
    /\ \A c \in Callers : call[c].pc = "stored" => call[c].conn.id # None
  BY Fields DEF TypeOK
<1> USE DEF HandsFresh, Becomes, RowBecomes, Others
<1>1. ASSUME NEW c \in Callers, LoadDoes(c) PROVE HandsFresh'
  BY <1>1 DEF LoadDoes
<1>2. ASSUME NEW c \in Callers, AcquireDoes(c) PROVE HandsFresh'
  BY <1>2 DEF AcquireDoes
<1>3. ASSUME NEW c \in Callers, CheckDoes(c) PROVE HandsFresh'
  <2>0. call[c].pc = "begun" /\ Others /\ UNCHANGED <<row, google>>
    BY <1>3 DEF CheckDoes
  <2>1. CASE Becomes(c, "idle", NoRow, 0, 0)
    BY <2>0, <2>1
  <2>2. CASE /\ call[c].conn.token \in fresh
             /\ Becomes(c, "returned", NoRow, 0, call[c].conn.token)
    BY <2>0, <2>2
  <2>3. CASE Becomes(c, "waiting", call[c].conn,
                  pops[ProcessOf[c]][call[c].conn.id], call[c].token)
    BY <2>0, <2>3
  <2> QED
    BY <1>3, <2>1, <2>2, <2>3 DEF CheckDoes
<1>4. ASSUME NEW c \in Callers, RereadDoes(c) PROVE HandsFresh'
  <2>0. call[c].pc = "locked" /\ Others /\ UNCHANGED <<row, google>>
    BY <1>4 DEF RereadDoes
  <2>1. CASE Becomes(c, "idle", NoRow, 0, 0)
    BY <2>0, <2>1
  <2>2. CASE /\ row.token \in fresh
             /\ Becomes(c, "returned", NoRow, 0, row.token)
    BY <2>0, <2>2
  <2>3. CASE /\ row.id = call[c].conn.id /\ row.token \notin fresh
             /\ Becomes(c, "calling", row, call[c].lock, call[c].token)
    BY <2>0, <2>3
  <2> QED
    BY <1>4, <2>1, <2>2, <2>3 DEF RereadDoes
<1>5. ASSUME NEW c \in Callers, AnswerDoes(c) PROVE HandsFresh'
  BY <1>5 DEF AnswerDoes
<1>6. ASSUME NEW c \in Callers, RejectDoes(c) PROVE HandsFresh'
  BY <1>6 DEF RejectDoes
<1>7. ASSUME NEW c \in Callers, UnreachableDoes(c) PROVE HandsFresh'
  BY <1>7 DEF UnreachableDoes
<1>8. ASSUME NEW c \in Callers, StoreDoes(c) PROVE HandsFresh'
  <2>0. call[c].pc = "answered" /\ Others /\ UNCHANGED <<google>>
    BY <1>8 DEF StoreDoes
  <2>1. CASE /\ row.id = call[c].conn.id
             /\ RowBecomes(row.id, row.refresh_token, call[c].token)
             /\ Becomes(c, "stored", call[c].conn, call[c].lock, call[c].token)
    BY <2>0, <2>1
  <2>2. CASE UNCHANGED row /\ Becomes(c, "idle", NoRow, 0, 0)
    BY <2>0, <2>2
  <2> QED
    BY <1>8, <2>1, <2>2 DEF StoreDoes
<1>9. ASSUME NEW c \in Callers, ReturnStoredDoes(c) PROVE HandsFresh'
  <2>0. call[c].pc = "stored" /\ Others /\ UNCHANGED <<row, google>>
    BY <1>9 DEF ReturnStoredDoes
  <2>1. CASE /\ row.id = call[c].conn.id
             /\ Becomes(c, "returned", NoRow, 0, row.token)
    BY <2>0, <2>1
  <2>2. CASE Becomes(c, "idle", NoRow, 0, 0)
    BY <2>0, <2>2
  <2> QED
    BY <1>9, <2>1, <2>2 DEF ReturnStoredDoes
<1>10. ASSUME NEW c \in Callers, MarkRejectedDoes(c) PROVE HandsFresh'
  BY <1>10 DEF MarkRejectedDoes
<1>11. ASSUME NEW k \in Callbacks, ExchangeDoes(k) PROVE HandsFresh'
  BY <1>11 DEF ExchangeDoes
<1>12. ASSUME NEW k \in Callbacks, SelectDoes(k) PROVE HandsFresh'
  BY <1>12 DEF SelectDoes
<1>13. ASSUME NEW k \in Callbacks, UpsertDoes(k) PROVE HandsFresh'
  BY <1>13 DEF UpsertDoes
<1>14. ASSUME NEW d \in Disconnects, LoadForDeleteDoes(d) PROVE HandsFresh'
  BY <1>14 DEF LoadForDeleteDoes
<1>15. ASSUME NEW d \in Disconnects, RevokeDoes(d) PROVE HandsFresh'
  BY <1>15 DEF RevokeDoes
<1>16. ASSUME NEW d \in Disconnects, DeleteRowDoes(d) PROVE HandsFresh'
  <2>1. CASE row' = NoRow
    <3>1. row'.id = None /\ row'.token = 0
      BY <2>1, NoRowIsNone
    <3>2. UNCHANGED <<google, call, callback>>
      BY <1>16 DEF DeleteRowDoes
    <3>3. row'.token <= issued'
      BY <3>1, <3>2
    <3>4. \A e \in Callers :
             call[e].pc = "stored" => row'.id # call[e].conn.id
      BY <3>1
    <3> QED
      BY <3>2, <3>3, <3>4
  <2>2. CASE row' = row
    BY <1>16, <2>2 DEF DeleteRowDoes
  <2> QED
    BY <1>16, <2>1, <2>2 DEF DeleteRowDoes
<1>17. ASSUME NEW d \in Disconnects, PopLockDoes(d) PROVE HandsFresh'
  BY <1>17 DEF PopLockDoes
<1>18. ASSUME NEW t \in Tokens, ExpireDoes(t) PROVE HandsFresh'
  BY <1>18 DEF ExpireDoes
<1>19. ASSUME NEW g \in Connections, WithdrawDoes(g) PROVE HandsFresh'
  BY <1>19 DEF WithdrawDoes
<1>20. CASE UNCHANGED vars
  BY <1>20 DEF vars
<1> QED
  BY <1>1, <1>2, <1>3, <1>4, <1>5, <1>6, <1>7, <1>8, <1>9, <1>10, <1>11, <1>12,
     <1>13, <1>14, <1>15, <1>16, <1>17, <1>18, <1>19, <1>20 DEF Does

----------------------------------------------------------------------------
(* Locks. *)

LEMMA ConsentsNewStep == TypeOK /\ ConsentsNew /\ [Does]_vars => ConsentsNew'
<1> SUFFICES ASSUME TypeOK, ConsentsNew, [Does]_vars PROVE ConsentsNew'
  OBVIOUS
<1> USE DEF ConsentsNew, Becomes, RowBecomes, Others, Connections
<1>1. ASSUME NEW c \in Callers, LoadDoes(c) PROVE ConsentsNew'
  BY <1>1 DEF LoadDoes
<1>2. ASSUME NEW c \in Callers, AcquireDoes(c) PROVE ConsentsNew'
  BY <1>2 DEF AcquireDoes
<1>3. ASSUME NEW c \in Callers, CheckDoes(c) PROVE ConsentsNew'
  <2>0. call[c].pc = "begun" /\ Others /\ UNCHANGED <<row, google>>
    BY <1>3 DEF CheckDoes
  <2>1. CASE Becomes(c, "idle", NoRow, 0, 0)
    BY <2>0, <2>1, NoRowIsNone
  <2>2. CASE /\ call[c].conn.token \in fresh
             /\ Becomes(c, "returned", NoRow, 0, call[c].conn.token)
    BY <2>0, <2>2, NoRowIsNone
  <2>3. CASE Becomes(c, "waiting", call[c].conn,
                  pops[ProcessOf[c]][call[c].conn.id], call[c].token)
    BY <2>0, <2>3, NoRowIsNone
  <2> QED
    BY <1>3, <2>1, <2>2, <2>3 DEF CheckDoes
<1>4. ASSUME NEW c \in Callers, RereadDoes(c) PROVE ConsentsNew'
  <2>0. call[c].pc = "locked" /\ Others /\ UNCHANGED <<row, google>>
    BY <1>4 DEF RereadDoes
  <2>1. CASE Becomes(c, "idle", NoRow, 0, 0)
    BY <2>0, <2>1, NoRowIsNone
  <2>2. CASE /\ row.token \in fresh
             /\ Becomes(c, "returned", NoRow, 0, row.token)
    BY <2>0, <2>2, NoRowIsNone
  <2>3. CASE /\ row.id = call[c].conn.id /\ row.token \notin fresh
             /\ Becomes(c, "calling", row, call[c].lock, call[c].token)
    BY <2>0, <2>3, NoRowIsNone
  <2> QED
    BY <1>4, <2>1, <2>2, <2>3 DEF RereadDoes
<1>5. ASSUME NEW c \in Callers, AnswerDoes(c) PROVE ConsentsNew'
  BY <1>5 DEF AnswerDoes
<1>6. ASSUME NEW c \in Callers, RejectDoes(c) PROVE ConsentsNew'
  BY <1>6 DEF RejectDoes
<1>7. ASSUME NEW c \in Callers, UnreachableDoes(c) PROVE ConsentsNew'
  BY <1>7, NoRowIsNone DEF UnreachableDoes
<1>8. ASSUME NEW c \in Callers, StoreDoes(c) PROVE ConsentsNew'
  <2>0. call[c].pc = "answered" /\ Others /\ UNCHANGED <<google>>
    BY <1>8 DEF StoreDoes
  <2>1. CASE /\ row.id = call[c].conn.id
             /\ RowBecomes(row.id, row.refresh_token, call[c].token)
             /\ Becomes(c, "stored", call[c].conn, call[c].lock, call[c].token)
    BY <2>0, <2>1, NoRowIsNone
  <2>2. CASE UNCHANGED row /\ Becomes(c, "idle", NoRow, 0, 0)
    BY <2>0, <2>2, NoRowIsNone
  <2> QED
    BY <1>8, <2>1, <2>2 DEF StoreDoes
<1>9. ASSUME NEW c \in Callers, ReturnStoredDoes(c) PROVE ConsentsNew'
  <2>0. call[c].pc = "stored" /\ Others /\ UNCHANGED <<row, google>>
    BY <1>9 DEF ReturnStoredDoes
  <2>1. CASE /\ row.id = call[c].conn.id
             /\ Becomes(c, "returned", NoRow, 0, row.token)
    BY <2>0, <2>1, NoRowIsNone
  <2>2. CASE Becomes(c, "idle", NoRow, 0, 0)
    BY <2>0, <2>2, NoRowIsNone
  <2> QED
    BY <1>9, <2>1, <2>2 DEF ReturnStoredDoes
<1>10. ASSUME NEW c \in Callers, MarkRejectedDoes(c) PROVE ConsentsNew'
  BY <1>10, NoRowIsNone DEF MarkRejectedDoes
<1>11. ASSUME NEW k \in Callbacks, ExchangeDoes(k) PROVE ConsentsNew'
  BY <1>11 DEF ExchangeDoes
<1>12. ASSUME NEW k \in Callbacks, SelectDoes(k) PROVE ConsentsNew'
  BY <1>12 DEF SelectDoes
<1>13. ASSUME NEW k \in Callbacks, UpsertDoes(k) PROVE ConsentsNew'
  BY <1>13 DEF UpsertDoes
<1>14. ASSUME NEW d \in Disconnects, LoadForDeleteDoes(d) PROVE ConsentsNew'
  BY <1>14 DEF LoadForDeleteDoes
<1>15. ASSUME NEW d \in Disconnects, RevokeDoes(d) PROVE ConsentsNew'
  BY <1>15 DEF RevokeDoes
<1>16. ASSUME NEW d \in Disconnects, DeleteRowDoes(d) PROVE ConsentsNew'
  BY <1>16, NoRowIsNone DEF DeleteRowDoes
<1>17. ASSUME NEW d \in Disconnects, PopLockDoes(d) PROVE ConsentsNew'
  <2>1. \A k \in Callbacks, p \in Processes :
           callback[k].pc # "done" => pops'[p][k] = 0
    BY <1>17 DEF PopLockDoes
  <2>2. \A k \in Callbacks, e \in Disconnects :
           callback[k].pc # "done" => delete'[e].conn.id # k
    BY <1>17, NoRowIsNone DEF PopLockDoes
  <2>3. UNCHANGED <<row, call, callback>>
    BY <1>17 DEF PopLockDoes
  <2> QED
    BY <2>1, <2>2, <2>3
<1>18. ASSUME NEW t \in Tokens, ExpireDoes(t) PROVE ConsentsNew'
  BY <1>18 DEF ExpireDoes
<1>19. ASSUME NEW g \in Connections, WithdrawDoes(g) PROVE ConsentsNew'
  BY <1>19 DEF WithdrawDoes
<1>20. CASE UNCHANGED vars
  BY <1>20 DEF vars
<1> QED
  BY <1>1, <1>2, <1>3, <1>4, <1>5, <1>6, <1>7, <1>8, <1>9, <1>10, <1>11, <1>12,
     <1>13, <1>14, <1>15, <1>16, <1>17, <1>18, <1>19, <1>20 DEF Does

LEMMA LockLivesStep ==
    TypeOK /\ ConsentsNew /\ LockLives /\ [Does]_vars
    => LockLives'
<1> SUFFICES ASSUME TypeOK, ConsentsNew, LockLives, [Does]_vars
    PROVE  LockLives'
  OBVIOUS
<1> USE DEF LockLives, ConsentsNew, Becomes, RowBecomes, Others, Connections
<1>1. ASSUME NEW c \in Callers, LoadDoes(c) PROVE LockLives'
  BY <1>1 DEF LoadDoes
<1>2. ASSUME NEW c \in Callers, AcquireDoes(c) PROVE LockLives'
  BY <1>2 DEF AcquireDoes
<1>3. ASSUME NEW c \in Callers, CheckDoes(c) PROVE LockLives'
  BY <1>3 DEF CheckDoes
<1>4. ASSUME NEW c \in Callers, RereadDoes(c) PROVE LockLives'
  BY <1>4 DEF RereadDoes
<1>5. ASSUME NEW c \in Callers, AnswerDoes(c) PROVE LockLives'
  BY <1>5 DEF AnswerDoes
<1>6. ASSUME NEW c \in Callers, RejectDoes(c) PROVE LockLives'
  BY <1>6 DEF RejectDoes
<1>7. ASSUME NEW c \in Callers, UnreachableDoes(c) PROVE LockLives'
  BY <1>7 DEF UnreachableDoes
<1>8. ASSUME NEW c \in Callers, StoreDoes(c) PROVE LockLives'
  <2>0. call[c].pc = "answered" /\ Others /\ UNCHANGED <<google>>
    BY <1>8 DEF StoreDoes
  <2>1. CASE /\ row.id = call[c].conn.id
             /\ RowBecomes(row.id, row.refresh_token, call[c].token)
             /\ Becomes(c, "stored", call[c].conn, call[c].lock, call[c].token)
    BY <2>0, <2>1
  <2>2. CASE UNCHANGED row /\ Becomes(c, "idle", NoRow, 0, 0)
    BY <2>0, <2>2
  <2> QED
    BY <1>8, <2>1, <2>2 DEF StoreDoes
<1>9. ASSUME NEW c \in Callers, ReturnStoredDoes(c) PROVE LockLives'
  BY <1>9 DEF ReturnStoredDoes
<1>10. ASSUME NEW c \in Callers, MarkRejectedDoes(c) PROVE LockLives'
  BY <1>10 DEF MarkRejectedDoes
<1>11. ASSUME NEW k \in Callbacks, ExchangeDoes(k) PROVE LockLives'
  BY <1>11 DEF ExchangeDoes
<1>12. ASSUME NEW k \in Callbacks, SelectDoes(k) PROVE LockLives'
  BY <1>12 DEF SelectDoes
<1>13. ASSUME NEW k \in Callbacks, UpsertDoes(k) PROVE LockLives'
  BY <1>13 DEF UpsertDoes
<1>14. ASSUME NEW d \in Disconnects, LoadForDeleteDoes(d) PROVE LockLives'
  BY <1>14 DEF LoadForDeleteDoes
<1>15. ASSUME NEW d \in Disconnects, RevokeDoes(d) PROVE LockLives'
  BY <1>15 DEF RevokeDoes
<1>16. ASSUME NEW d \in Disconnects, DeleteRowDoes(d) PROVE LockLives'
  BY <1>16, NoRowIsNone DEF DeleteRowDoes
<1>17. ASSUME NEW d \in Disconnects, PopLockDoes(d) PROVE LockLives'
  <2>1. \A i \in Connections, p \in Processes : row.id = i => pops'[p][i] = 0
    BY <1>17 DEF PopLockDoes
  <2>2. \A e \in Disconnects :
           delete'[e].pc = "popping" => delete'[e] = delete[e]
    BY <1>17 DEF PopLockDoes
  <2>3. UNCHANGED row
    BY <1>17 DEF PopLockDoes
  <2> QED
    BY <2>1, <2>2, <2>3
<1>18. ASSUME NEW t \in Tokens, ExpireDoes(t) PROVE LockLives'
  BY <1>18 DEF ExpireDoes
<1>19. ASSUME NEW g \in Connections, WithdrawDoes(g) PROVE LockLives'
  BY <1>19 DEF WithdrawDoes
<1>20. CASE UNCHANGED vars
  BY <1>20 DEF vars
<1> QED
  BY <1>1, <1>2, <1>3, <1>4, <1>5, <1>6, <1>7, <1>8, <1>9, <1>10, <1>11, <1>12,
     <1>13, <1>14, <1>15, <1>16, <1>17, <1>18, <1>19, <1>20 DEF Does

LEMMA LocksSoundStep ==
    TypeOK /\ LockLives /\ LocksSound /\ [Does]_vars
    => LocksSound'
<1> SUFFICES ASSUME TypeOK, LockLives, LocksSound, [Does]_vars
    PROVE  LocksSound'
  OBVIOUS
<1> /\ \A c \in Callers :
       /\ ProcessOf[c] \in Processes
       /\ call[c].lock \in Nat
       /\ call[c].pc \notin {"idle", "returned"}
            => call[c].conn.id \in Connections
    /\ \A p \in Processes, i \in Connections : pops[p][i] \in Nat
  BY Fields DEF TypeOK
<1> USE DEF LocksSound, LockLives, Becomes, RowBecomes, Others, Holding,
            Refreshing
<1>1. ASSUME NEW c \in Callers, LoadDoes(c) PROVE LocksSound'
  BY <1>1 DEF LoadDoes
<1>2. ASSUME NEW c \in Callers, AcquireDoes(c) PROVE LocksSound'
  BY <1>2 DEF AcquireDoes
<1>3. ASSUME NEW c \in Callers, CheckDoes(c) PROVE LocksSound'
  <2>0. call[c].pc = "begun" /\ Others /\ UNCHANGED <<row, google>>
    BY <1>3 DEF CheckDoes
  <2>1. CASE Becomes(c, "idle", NoRow, 0, 0)
    BY <2>0, <2>1
  <2>2. CASE /\ call[c].conn.token \in fresh
             /\ Becomes(c, "returned", NoRow, 0, call[c].conn.token)
    BY <2>0, <2>2
  <2>3. CASE Becomes(c, "waiting", call[c].conn,
                  pops[ProcessOf[c]][call[c].conn.id], call[c].token)
    BY <2>0, <2>3
  <2> QED
    BY <1>3, <2>1, <2>2, <2>3 DEF CheckDoes
<1>4. ASSUME NEW c \in Callers, RereadDoes(c) PROVE LocksSound'
  <2>0. call[c].pc = "locked" /\ Others /\ UNCHANGED <<row, google>>
    BY <1>4 DEF RereadDoes
  <2>1. CASE Becomes(c, "idle", NoRow, 0, 0)
    BY <2>0, <2>1
  <2>2. CASE /\ row.token \in fresh
             /\ Becomes(c, "returned", NoRow, 0, row.token)
    BY <2>0, <2>2
  <2>3. CASE /\ row.id = call[c].conn.id /\ row.token \notin fresh
             /\ Becomes(c, "calling", row, call[c].lock, call[c].token)
    BY <2>0, <2>3
  <2> QED
    BY <1>4, <2>1, <2>2, <2>3 DEF RereadDoes
<1>5. ASSUME NEW c \in Callers, AnswerDoes(c) PROVE LocksSound'
  BY <1>5 DEF AnswerDoes
<1>6. ASSUME NEW c \in Callers, RejectDoes(c) PROVE LocksSound'
  BY <1>6 DEF RejectDoes
<1>7. ASSUME NEW c \in Callers, UnreachableDoes(c) PROVE LocksSound'
  BY <1>7 DEF UnreachableDoes
<1>8. ASSUME NEW c \in Callers, StoreDoes(c) PROVE LocksSound'
  <2>0. call[c].pc = "answered" /\ Others /\ UNCHANGED <<google>>
    BY <1>8 DEF StoreDoes
  <2>1. CASE /\ row.id = call[c].conn.id
             /\ RowBecomes(row.id, row.refresh_token, call[c].token)
             /\ Becomes(c, "stored", call[c].conn, call[c].lock, call[c].token)
    BY <2>0, <2>1
  <2>2. CASE UNCHANGED row /\ Becomes(c, "idle", NoRow, 0, 0)
    BY <2>0, <2>2
  <2> QED
    BY <1>8, <2>1, <2>2 DEF StoreDoes
<1>9. ASSUME NEW c \in Callers, ReturnStoredDoes(c) PROVE LocksSound'
  <2>0. call[c].pc = "stored" /\ Others /\ UNCHANGED <<row, google>>
    BY <1>9 DEF ReturnStoredDoes
  <2>1. CASE /\ row.id = call[c].conn.id
             /\ Becomes(c, "returned", NoRow, 0, row.token)
    BY <2>0, <2>1
  <2>2. CASE Becomes(c, "idle", NoRow, 0, 0)
    BY <2>0, <2>2
  <2> QED
    BY <1>9, <2>1, <2>2 DEF ReturnStoredDoes
<1>10. ASSUME NEW c \in Callers, MarkRejectedDoes(c) PROVE LocksSound'
  BY <1>10 DEF MarkRejectedDoes
<1>11. ASSUME NEW k \in Callbacks, ExchangeDoes(k) PROVE LocksSound'
  BY <1>11 DEF ExchangeDoes
<1>12. ASSUME NEW k \in Callbacks, SelectDoes(k) PROVE LocksSound'
  BY <1>12 DEF SelectDoes
<1>13. ASSUME NEW k \in Callbacks, UpsertDoes(k) PROVE LocksSound'
  BY <1>13 DEF UpsertDoes
<1>14. ASSUME NEW d \in Disconnects, LoadForDeleteDoes(d) PROVE LocksSound'
  BY <1>14 DEF LoadForDeleteDoes
<1>15. ASSUME NEW d \in Disconnects, RevokeDoes(d) PROVE LocksSound'
  BY <1>15 DEF RevokeDoes
<1>16. ASSUME NEW d \in Disconnects, DeleteRowDoes(d) PROVE LocksSound'
  BY <1>16 DEF DeleteRowDoes
<1>17. ASSUME NEW d \in Disconnects, PopLockDoes(d) PROVE LocksSound'
  <2>1. \A p \in Processes, i \in Connections :
           pops'[p][i] \in Nat /\ pops[p][i] <= pops'[p][i]
    BY <1>17 DEF PopLockDoes
  <2>2. UNCHANGED call
    BY <1>17 DEF PopLockDoes
  <2> QED
    BY <2>1, <2>2
<1>18. ASSUME NEW t \in Tokens, ExpireDoes(t) PROVE LocksSound'
  BY <1>18 DEF ExpireDoes
<1>19. ASSUME NEW g \in Connections, WithdrawDoes(g) PROVE LocksSound'
  BY <1>19 DEF WithdrawDoes
<1>20. CASE UNCHANGED vars
  BY <1>20 DEF vars
<1> QED
  BY <1>1, <1>2, <1>3, <1>4, <1>5, <1>6, <1>7, <1>8, <1>9, <1>10, <1>11, <1>12,
     <1>13, <1>14, <1>15, <1>16, <1>17, <1>18, <1>19, <1>20 DEF Does

LEMMA OneHolderStep == TypeOK /\ OneHolder /\ [Does]_vars => OneHolder'
<1> SUFFICES ASSUME TypeOK, OneHolder, [Does]_vars PROVE OneHolder'
  OBVIOUS
<1> USE DEF OneHolder, Becomes, RowBecomes, Others, Holding
<1>1. ASSUME NEW c \in Callers, LoadDoes(c) PROVE OneHolder'
  BY <1>1 DEF LoadDoes
<1>2. ASSUME NEW c \in Callers, AcquireDoes(c) PROVE OneHolder'
  BY <1>2 DEF AcquireDoes
<1>3. ASSUME NEW c \in Callers, CheckDoes(c) PROVE OneHolder'
  <2>0. call[c].pc = "begun" /\ Others /\ UNCHANGED <<row, google>>
    BY <1>3 DEF CheckDoes
  <2>1. CASE Becomes(c, "idle", NoRow, 0, 0)
    BY <2>0, <2>1
  <2>2. CASE /\ call[c].conn.token \in fresh
             /\ Becomes(c, "returned", NoRow, 0, call[c].conn.token)
    BY <2>0, <2>2
  <2>3. CASE Becomes(c, "waiting", call[c].conn,
                  pops[ProcessOf[c]][call[c].conn.id], call[c].token)
    BY <2>0, <2>3
  <2> QED
    BY <1>3, <2>1, <2>2, <2>3 DEF CheckDoes
<1>4. ASSUME NEW c \in Callers, RereadDoes(c) PROVE OneHolder'
  <2>0. call[c].pc = "locked" /\ Others /\ UNCHANGED <<row, google>>
    BY <1>4 DEF RereadDoes
  <2>1. CASE Becomes(c, "idle", NoRow, 0, 0)
    BY <2>0, <2>1
  <2>2. CASE /\ row.token \in fresh
             /\ Becomes(c, "returned", NoRow, 0, row.token)
    BY <2>0, <2>2
  <2>3. CASE /\ row.id = call[c].conn.id /\ row.token \notin fresh
             /\ Becomes(c, "calling", row, call[c].lock, call[c].token)
    BY <2>0, <2>3
  <2> QED
    BY <1>4, <2>1, <2>2, <2>3 DEF RereadDoes
<1>5. ASSUME NEW c \in Callers, AnswerDoes(c) PROVE OneHolder'
  BY <1>5 DEF AnswerDoes
<1>6. ASSUME NEW c \in Callers, RejectDoes(c) PROVE OneHolder'
  BY <1>6 DEF RejectDoes
<1>7. ASSUME NEW c \in Callers, UnreachableDoes(c) PROVE OneHolder'
  BY <1>7 DEF UnreachableDoes
<1>8. ASSUME NEW c \in Callers, StoreDoes(c) PROVE OneHolder'
  <2>0. call[c].pc = "answered" /\ Others /\ UNCHANGED <<google>>
    BY <1>8 DEF StoreDoes
  <2>1. CASE /\ row.id = call[c].conn.id
             /\ RowBecomes(row.id, row.refresh_token, call[c].token)
             /\ Becomes(c, "stored", call[c].conn, call[c].lock, call[c].token)
    BY <2>0, <2>1
  <2>2. CASE UNCHANGED row /\ Becomes(c, "idle", NoRow, 0, 0)
    BY <2>0, <2>2
  <2> QED
    BY <1>8, <2>1, <2>2 DEF StoreDoes
<1>9. ASSUME NEW c \in Callers, ReturnStoredDoes(c) PROVE OneHolder'
  <2>0. call[c].pc = "stored" /\ Others /\ UNCHANGED <<row, google>>
    BY <1>9 DEF ReturnStoredDoes
  <2>1. CASE /\ row.id = call[c].conn.id
             /\ Becomes(c, "returned", NoRow, 0, row.token)
    BY <2>0, <2>1
  <2>2. CASE Becomes(c, "idle", NoRow, 0, 0)
    BY <2>0, <2>2
  <2> QED
    BY <1>9, <2>1, <2>2 DEF ReturnStoredDoes
<1>10. ASSUME NEW c \in Callers, MarkRejectedDoes(c) PROVE OneHolder'
  BY <1>10 DEF MarkRejectedDoes
<1>11. ASSUME NEW k \in Callbacks, ExchangeDoes(k) PROVE OneHolder'
  BY <1>11 DEF ExchangeDoes
<1>12. ASSUME NEW k \in Callbacks, SelectDoes(k) PROVE OneHolder'
  BY <1>12 DEF SelectDoes
<1>13. ASSUME NEW k \in Callbacks, UpsertDoes(k) PROVE OneHolder'
  BY <1>13 DEF UpsertDoes
<1>14. ASSUME NEW d \in Disconnects, LoadForDeleteDoes(d) PROVE OneHolder'
  BY <1>14 DEF LoadForDeleteDoes
<1>15. ASSUME NEW d \in Disconnects, RevokeDoes(d) PROVE OneHolder'
  BY <1>15 DEF RevokeDoes
<1>16. ASSUME NEW d \in Disconnects, DeleteRowDoes(d) PROVE OneHolder'
  BY <1>16 DEF DeleteRowDoes
<1>17. ASSUME NEW d \in Disconnects, PopLockDoes(d) PROVE OneHolder'
  BY <1>17 DEF PopLockDoes
<1>18. ASSUME NEW t \in Tokens, ExpireDoes(t) PROVE OneHolder'
  BY <1>18 DEF ExpireDoes
<1>19. ASSUME NEW g \in Connections, WithdrawDoes(g) PROVE OneHolder'
  BY <1>19 DEF WithdrawDoes
<1>20. CASE UNCHANGED vars
  BY <1>20 DEF vars
<1> QED
  BY <1>1, <1>2, <1>3, <1>4, <1>5, <1>6, <1>7, <1>8, <1>9, <1>10, <1>11, <1>12,
     <1>13, <1>14, <1>15, <1>16, <1>17, <1>18, <1>19, <1>20 DEF Does

----------------------------------------------------------------------------
(* One refresh. *)

LEMMA NoDoubleRefreshStep ==
    TypeOK /\ HandsFresh /\ Locks /\ NoDoubleRefresh /\ [Does]_vars
    => NoDoubleRefresh'
<1> SUFFICES ASSUME TypeOK, HandsFresh, Locks, NoDoubleRefresh, [Does]_vars
    PROVE  NoDoubleRefresh'
  OBVIOUS
<1> /\ issued \in Nat /\ row.token \in Nat
    /\ \A c \in Callers :
         call[c].pc \notin {"idle", "returned"} => call[c].conn.id # None
  BY Fields DEF TypeOK
<1> ConsentsNew /\ LocksSound /\ OneHolder
  BY DEF Locks
<1> USE DEF NoDoubleRefresh, HandsFresh, ConsentsNew, LocksSound, OneHolder,
           Becomes, RowBecomes, Others, Holding, Refreshing
<1>1. ASSUME NEW c \in Callers, LoadDoes(c) PROVE NoDoubleRefresh'
  BY <1>1 DEF LoadDoes
<1>2. ASSUME NEW c \in Callers, AcquireDoes(c) PROVE NoDoubleRefresh'
  BY <1>2 DEF AcquireDoes
<1>3. ASSUME NEW c \in Callers, CheckDoes(c) PROVE NoDoubleRefresh'
  <2>0. call[c].pc = "begun" /\ Others /\ UNCHANGED <<row, google>>
    BY <1>3 DEF CheckDoes
  <2>1. CASE Becomes(c, "idle", NoRow, 0, 0)
    BY <2>0, <2>1
  <2>2. CASE /\ call[c].conn.token \in fresh
             /\ Becomes(c, "returned", NoRow, 0, call[c].conn.token)
    BY <2>0, <2>2
  <2>3. CASE Becomes(c, "waiting", call[c].conn,
                  pops[ProcessOf[c]][call[c].conn.id], call[c].token)
    BY <2>0, <2>3
  <2> QED
    BY <1>3, <2>1, <2>2, <2>3 DEF CheckDoes
<1>4. ASSUME NEW c \in Callers, RereadDoes(c) PROVE NoDoubleRefresh'
  <2>0. call[c].pc = "locked" /\ Others /\ UNCHANGED <<row, google>>
    BY <1>4 DEF RereadDoes
  <2>1. CASE Becomes(c, "idle", NoRow, 0, 0)
    BY <2>0, <2>1
  <2>2. CASE /\ row.token \in fresh
             /\ Becomes(c, "returned", NoRow, 0, row.token)
    BY <2>0, <2>2
  <2>3. CASE /\ row.id = call[c].conn.id /\ row.token \notin fresh
             /\ Becomes(c, "calling", row, call[c].lock, call[c].token)
    BY <2>0, <2>3
  <2> QED
    BY <1>4, <2>1, <2>2, <2>3 DEF RereadDoes
<1>5. ASSUME NEW c \in Callers, AnswerDoes(c) PROVE NoDoubleRefresh'
  BY <1>5 DEF AnswerDoes
<1>6. ASSUME NEW c \in Callers, RejectDoes(c) PROVE NoDoubleRefresh'
  BY <1>6 DEF RejectDoes
<1>7. ASSUME NEW c \in Callers, UnreachableDoes(c) PROVE NoDoubleRefresh'
  BY <1>7 DEF UnreachableDoes
<1>8. ASSUME NEW c \in Callers, StoreDoes(c) PROVE NoDoubleRefresh'
  <2>0. call[c].pc = "answered" /\ Others /\ UNCHANGED <<google>>
    BY <1>8 DEF StoreDoes
  <2>1. CASE /\ row.id = call[c].conn.id
             /\ RowBecomes(row.id, row.refresh_token, call[c].token)
             /\ Becomes(c, "stored", call[c].conn, call[c].lock, call[c].token)
    <3>1. ASSUME NEW e \in Callers, ProcessOf[c] = ProcessOf[e],
                 call'[e].pc \in Refreshing, row'.id = call'[e].conn.id
          PROVE  FALSE
      <4>1. e # c /\ call'[e] = call[e]
        BY <2>1, <3>1
      <4>2. call[e].lock = 0 /\ call[c].lock = 0
        BY <2>0, <3>1, <4>1
      <4>3. row'.id = row.id
        BY <2>1
      <4>4. call[e].conn.id = call[c].conn.id
        BY <2>1, <3>1, <4>1, <4>3
      <4> QED
        BY <2>0, <3>1, <4>1, <4>2, <4>4
    <3> QED
      BY <3>1
  <2>2. CASE UNCHANGED row /\ Becomes(c, "idle", NoRow, 0, 0)
    BY <2>0, <2>2
  <2> QED
    BY <1>8, <2>1, <2>2 DEF StoreDoes
<1>9. ASSUME NEW c \in Callers, ReturnStoredDoes(c) PROVE NoDoubleRefresh'
  <2>0. call[c].pc = "stored" /\ Others /\ UNCHANGED <<row, google>>
    BY <1>9 DEF ReturnStoredDoes
  <2>1. CASE /\ row.id = call[c].conn.id
             /\ Becomes(c, "returned", NoRow, 0, row.token)
    BY <2>0, <2>1
  <2>2. CASE Becomes(c, "idle", NoRow, 0, 0)
    BY <2>0, <2>2
  <2> QED
    BY <1>9, <2>1, <2>2 DEF ReturnStoredDoes
<1>10. ASSUME NEW c \in Callers, MarkRejectedDoes(c) PROVE NoDoubleRefresh'
  BY <1>10 DEF MarkRejectedDoes
<1>11. ASSUME NEW k \in Callbacks, ExchangeDoes(k) PROVE NoDoubleRefresh'
  BY <1>11 DEF ExchangeDoes
<1>12. ASSUME NEW k \in Callbacks, SelectDoes(k) PROVE NoDoubleRefresh'
  BY <1>12 DEF SelectDoes
<1>13. ASSUME NEW k \in Callbacks, UpsertDoes(k) PROVE NoDoubleRefresh'
  BY <1>13 DEF UpsertDoes
<1>14. ASSUME NEW d \in Disconnects, LoadForDeleteDoes(d) PROVE NoDoubleRefresh'
  BY <1>14 DEF LoadForDeleteDoes
<1>15. ASSUME NEW d \in Disconnects, RevokeDoes(d) PROVE NoDoubleRefresh'
  BY <1>15 DEF RevokeDoes
<1>16. ASSUME NEW d \in Disconnects, DeleteRowDoes(d) PROVE NoDoubleRefresh'
  <2>1. CASE row' = NoRow
    BY <1>16, <2>1, NoRowIsNone DEF DeleteRowDoes
  <2>2. CASE row' = row
    BY <1>16, <2>2 DEF DeleteRowDoes
  <2> QED
    BY <1>16, <2>1, <2>2 DEF DeleteRowDoes
<1>17. ASSUME NEW d \in Disconnects, PopLockDoes(d) PROVE NoDoubleRefresh'
  BY <1>17 DEF PopLockDoes
<1>18. ASSUME NEW t \in Tokens, ExpireDoes(t) PROVE NoDoubleRefresh'
  BY <1>18 DEF ExpireDoes
<1>19. ASSUME NEW g \in Connections, WithdrawDoes(g) PROVE NoDoubleRefresh'
  BY <1>19 DEF WithdrawDoes
<1>20. CASE UNCHANGED vars
  BY <1>20 DEF vars
<1> QED
  BY <1>1, <1>2, <1>3, <1>4, <1>5, <1>6, <1>7, <1>8, <1>9, <1>10, <1>11, <1>12,
     <1>13, <1>14, <1>15, <1>16, <1>17, <1>18, <1>19, <1>20 DEF Does

----------------------------------------------------------------------------
(* What a call returns. *)

LEMMA AnswerFresh ==
    ASSUME TypeOK, HandsFresh, [Does]_vars, NEW e \in Callers,
           call'[e].pc = "returned", call[e].pc # "returned"
    PROVE  call'[e].token \in fresh
<1> USE DEF Becomes, Others
<1>1. ASSUME NEW c \in Callers,
             LoadDoes(c) \/ AcquireDoes(c) \/ AnswerDoes(c) \/ RejectDoes(c)
             \/ UnreachableDoes(c) \/ StoreDoes(c) \/ MarkRejectedDoes(c)
      PROVE  FALSE
  BY <1>1 DEF LoadDoes, AcquireDoes, AnswerDoes, RejectDoes, UnreachableDoes,
              StoreDoes, MarkRejectedDoes
<1>2. ASSUME NEW c \in Callers, CheckDoes(c) PROVE call'[e].token \in fresh
  BY <1>2 DEF CheckDoes
<1>3. ASSUME NEW c \in Callers, RereadDoes(c) PROVE call'[e].token \in fresh
  BY <1>3 DEF RereadDoes
<1>4. ASSUME NEW c \in Callers, ReturnStoredDoes(c)
      PROVE  call'[e].token \in fresh
  BY <1>4 DEF ReturnStoredDoes, HandsFresh
<1>5. ASSUME NEW k \in Callbacks,
             ExchangeDoes(k) \/ SelectDoes(k) \/ UpsertDoes(k)
      PROVE  FALSE
  BY <1>5 DEF ExchangeDoes, SelectDoes, UpsertDoes
<1>6. ASSUME NEW d \in Disconnects,
             LoadForDeleteDoes(d) \/ RevokeDoes(d) \/ DeleteRowDoes(d)
             \/ PopLockDoes(d)
      PROVE  FALSE
  BY <1>6 DEF LoadForDeleteDoes, RevokeDoes, DeleteRowDoes, PopLockDoes
<1>7. ASSUME NEW t \in Tokens, ExpireDoes(t) PROVE FALSE
  BY <1>7 DEF ExpireDoes
<1>8. ASSUME NEW g \in Connections, WithdrawDoes(g) PROVE FALSE
  BY <1>8 DEF WithdrawDoes
<1>9. CASE UNCHANGED vars
  BY <1>9 DEF vars
<1> QED
  BY <1>1, <1>2, <1>3, <1>4, <1>5, <1>6, <1>7, <1>8, <1>9 DEF Does

----------------------------------------------------------------------------
(* The inductive invariant and what follows from it. *)

LEMMA InitInvariant == Init => IInv
<1> SUFFICES ASSUME Init PROVE IInv
  OBVIOUS
<1>1. Base
  BY InitBase
<1>2. HandsFresh
  BY DEF Init, HandsFresh, NoCall, NoCallback
<1>3. ConsentsNew
  BY DEF Init, ConsentsNew, NoCall, NoRow, Connections
<1>4. LockLives /\ LocksSound /\ OneHolder
  BY DEF Init, LockLives, LocksSound, OneHolder, Holding, Refreshing, NoCall
<1>5. NoDoubleRefresh
  BY DEF Init, NoDoubleRefresh, Refreshing, NoCall
<1> QED
  BY <1>1, <1>2, <1>3, <1>4, <1>5 DEF IInv, Locks

LEMMA InvariantStep == IInv /\ [Next]_vars => IInv'
<1> SUFFICES ASSUME IInv, [Next]_vars PROVE IInv'
  OBVIOUS
<1>1. [Does]_vars
  BY StepDoes DEF IInv
<1>2. TypeOK /\ RowsNamed /\ HandsFresh /\ NoDoubleRefresh
  BY DEF IInv, Base
<1>3. ConsentsNew /\ LockLives /\ LocksSound /\ OneHolder
  BY DEF IInv, Locks
<1>4. Base'
  BY <1>1, <1>2, TypeOKStep, RowsNamedStep DEF Base
<1>5. HandsFresh'
  BY <1>1, <1>2, HandsFreshStep
<1>6. Locks'
  BY <1>1, <1>2, <1>3, ConsentsNewStep, LockLivesStep, LocksSoundStep,
     OneHolderStep DEF Locks
<1>7. NoDoubleRefresh'
  BY <1>1, <1>2, NoDoubleRefreshStep DEF IInv
<1> QED
  BY <1>4, <1>5, <1>6, <1>7 DEF IInv

(* In every reachable state of get_valid_access_token, callbacks and       *)
(* disconnects the inductive invariant holds.                              *)
THEOREM Invariance == Spec => []IInv
  BY InitInvariant, InvariantStep, PTL DEF Spec

(* Every variable has its type. *)
THEOREM TypeCorrect == Spec => []TypeOK
<1>1. IInv => TypeOK
  BY DEF IInv, Base
<1> QED
  BY <1>1, Invariance, PTL

(* No two calls of one process refresh a connection's token at once, even  *)
(* though disconnects drop its lock: a dropped lock is one of a connection *)
(* that is gone, and whoever gets a new lock finds no row.                 *)
THEOREM OneRefreshPerProcess == Spec => []SingleFlight
<1>1. IInv => SingleFlight
  <2> SUFFICES ASSUME IInv PROVE SingleFlight
    OBVIOUS
  <2> LocksSound /\ OneHolder
    BY DEF IInv, Locks
  <2> QED
    BY DEF SingleFlight, Collide, LocksSound, OneHolder, Holding, Refreshing
<1> QED
  BY <1>1, Invariance, PTL

(* Where all calls are in one process, none refreshes while the row has a  *)
(* fresh token of the same consent.                                        *)
THEOREM WaitersReuseToken == Spec => []NoDoubleRefresh
<1>1. IInv => NoDoubleRefresh
  BY DEF IInv
<1> QED
  BY <1>1, Invariance, PTL

(* What get_valid_access_token returns is fresh, in any number of          *)
(* processes and with any consents and disconnects in between.             *)
THEOREM ReturnsFreshToken == Spec => FreshAnswer
<1> DEFINE A == \A c \in Callers :
                   call'[c].pc = "returned" /\ call[c].pc # "returned"
                   => call'[c].token \in fresh
<1>1. IInv /\ [Next]_vars => [A]_vars
  <2> SUFFICES ASSUME IInv, [Next]_vars PROVE A
    OBVIOUS
  <2>1. Base /\ TypeOK /\ HandsFresh
    BY DEF IInv, Base
  <2>2. [Does]_vars
    BY <2>1, StepDoes
  <2> QED
    BY <2>1, <2>2, AnswerFresh
<1>2. Spec => [][A]_vars
  BY <1>1, Invariance, PTL DEF Spec
<1> QED
  BY <1>2 DEF FreshAnswer

=============================================================================
