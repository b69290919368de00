-------------------------- MODULE ConnectionTokens --------------------------
(***************************************************************************)
(* The Google connection of one user and its access token                  *)
(* (app/services/connection_service.py): get_valid_access_token with its   *)
(* lock per connection, called by routes of the API and by the worker; the *)
(* OAuth callback that stores a new consent; the route that disconnects    *)
(* (app/api/routes/connections.py).                                        *)
(*                                                                         *)
(* A step ends at an await.  A session keeps a row as it was loaded, and   *)
(* an UPDATE writes the columns whose values differ from the loaded ones.  *)
(***************************************************************************)
EXTENDS Naturals, FiniteSets

CONSTANTS
    Callers,      \* tasks that call get_valid_access_token
    Callbacks,    \* OAuth callbacks
    Disconnects,  \* DELETE requests
    Processes,    \* operating-system processes: the API, the worker
    ProcessOf,    \* the process each caller and each disconnect runs in
    First,        \* the connection there is at the start
    None,         \* Python's None
    OtherErrors,  \* Google may answer 4xx to a refresh token it accepts
    MaxTokens     \* bound: access tokens Google issues

ASSUME TokensAssumption ==
    /\ None # First /\ {None, First} \cap Callbacks = {}
    /\ ProcessOf \in [Callers \cup Disconnects -> Processes]
    /\ OtherErrors \in BOOLEAN
    /\ MaxTokens \in Nat \ {0}

VARIABLES
    row,      \* oauth_connections: the user's row, or NoRow
    pops,     \* per process, how often _locks lost the connection's lock
    fresh,    \* access tokens that are not about to expire
    issued,   \* how many access tokens Google has issued
    revoked,  \* refresh tokens Google no longer accepts
    call,     \* control state and locals of the callers
    callback, \* ... of the callbacks
    delete    \* ... of the disconnects

vars == <<row, pops, fresh, issued, revoked, call, callback, delete>>

google == <<fresh, issued, revoked>>

----------------------------------------------------------------------------
(* A callback stores at most one row and brings one refresh token: it      *)
(* stands for the row's uuid and for the token.                            *)
Connections == {First} \cup Callbacks

Tokens == 1..MaxTokens

(* access_token_cache and access_token_expiry are one token, which is      *)
(* fresh or not; 0 is None. *)
Row == [id : Connections \cup {None}, refresh_token : Connections \cup {None},
        token : Tokens \cup {0}, status : {"active", "needs_reconnect"}]

NoRow == [id |-> None, refresh_token |-> None, token |-> 0,
          status |-> "active"]

(* A call: its loaded row, the lock object it got from _lock_for (how      *)
(* often the connection's entry had been dropped by then), and the token   *)
(* in its hand.                                                            *)
Call == [pc : {"idle", "begun", "waiting", "locked", "calling", "answered",
               "rejected", "stored", "returned"},
         conn : Row, lock : Nat, token : Tokens \cup {0}]

NoCall == [pc |-> "idle", conn |-> NoRow, lock |-> 0, token |-> 0]

(* Between the acquisition of the lock and the end of the with block. *)
Holding == {"locked", "calling", "answered", "rejected", "stored"}

(* Between the request to Google's token endpoint and what is made of it. *)
Refreshing == {"calling", "answered", "rejected"}

Callback == [pc : {"idle", "granted", "selected", "done"},
             token : Tokens \cup {0}, conn : Row]

NoCallback == [pc |-> "idle", token |-> 0, conn |-> NoRow]

Delete == [pc : {"idle", "revoking", "deleting", "popping", "done"}, conn : Row]


Goto(c, pc) == call' = [call EXCEPT ![c].pc = pc]

Return(c, t) ==
    call' = [call EXCEPT ![c] = [NoCall EXCEPT !.pc = "returned", !.token = t]]

(* Mutant of Raise: the lock is not released. *)
RaiseKeepsLock(c) ==
    call' = [call EXCEPT ![c] = IF @.pc \in Holding
                                  THEN [@ EXCEPT !.pc = "stored"] ELSE NoCall]

(* An exception ends the call, and the with block releases the lock. *)
Raise(c) == call' = [call EXCEPT ![c] = NoCall]

(* The status column an UPDATE leaves behind that assigned "to" to an      *)
(* object loaded as conn.                                                  *)
Status(conn, to) == IF conn.status = to THEN row.status ELSE to

(* Google issues an access token. *)
Issue ==
    /\ issued < MaxTokens
    /\ issued' = issued + 1
    /\ fresh' = fresh \cup {issued + 1}
    /\ UNCHANGED revoked

----------------------------------------------------------------------------
(* get_valid_access_token *)

(* Mutant of Load: nobody asks whether there is a connection. *)
LoadAnything(c) ==
    /\ call[c].pc \in {"idle", "returned"}
    /\ call' = [call EXCEPT ![c] = [NoCall EXCEPT !.pc = "begun", !.conn = row]]
    /\ UNCHANGED <<row, pops, google, callback, delete>>

(* The caller loads the connection; without one it does not get here. *)
Load(c) ==
    /\ call[c].pc \in {"idle", "returned"}
    /\ row # NoRow
    /\ call' = [call EXCEPT ![c] = [NoCall EXCEPT !.pc = "begun", !.conn = row]]
    /\ UNCHANGED <<row, pops, google, callback, delete>>

(* Mutant of Check: the cached token is returned without a look at its     *)
(* expiry.                                                                 *)
CheckNoExpiry(c) ==
    LET conn == call[c].conn
    IN /\ call[c].pc = "begun"
       /\ \/ conn.status = "needs_reconnect" /\ Raise(c)
          \/ /\ conn.status = "active" /\ conn.token # 0
             /\ Return(c, conn.token)
          \/ /\ conn.status = "active" /\ conn.token = 0
             /\ Goto(c, "waiting")
       /\ UNCHANGED <<row, pops, google, callback, delete>>

Check(c) ==
    LET conn == call[c].conn
    IN /\ call[c].pc = "begun"
       /\ \/ conn.status = "needs_reconnect" /\ Raise(c)
          \/ /\ conn.status = "active" /\ conn.token \in fresh
             /\ Return(c, conn.token)
          \/ /\ conn.status = "active" /\ conn.token \notin fresh
             /\ call' = [call EXCEPT ![c].pc = "waiting",
                                     ![c].lock = pops[ProcessOf[c]][conn.id]]
       /\ UNCHANGED <<row, pops, google, callback, delete>>

(* The lock object is free: no caller of this process holds it. *)
Acquire(c) ==
    /\ call[c].pc = "waiting"
    /\ \A d \in Callers :
         /\ ProcessOf[d] = ProcessOf[c]
         /\ call[d].pc \in Holding
         /\ call[d].conn.id = call[c].conn.id
         => call[d].lock # call[c].lock
    /\ Goto(c, "locked")
    /\ UNCHANGED <<row, pops, google, callback, delete>>

(* Mutant of Reread: whoever waited for the lock calls Google, too. *)
RereadNothing(c) ==
    /\ call[c].pc = "locked"
    /\ \/ row.id # call[c].conn.id /\ Raise(c)
       \/ row.id = call[c].conn.id /\ Goto(c, "calling")
    /\ UNCHANGED <<row, pops, google, callback, delete>>

(* session.refresh raises when the row is gone; a token that is fresh now  *)
(* is returned; otherwise Google is asked.  The status is not looked at.   *)
Reread(c) ==
    /\ call[c].pc = "locked"
    /\ \/ row.id # call[c].conn.id /\ Raise(c)
       \/ /\ row.id = call[c].conn.id /\ row.token \in fresh
          /\ Return(c, row.token)
       \/ /\ row.id = call[c].conn.id /\ row.token \notin fresh
          /\ call' = [call EXCEPT ![c].pc = "calling", ![c].conn = row]
    /\ UNCHANGED <<row, pops, google, callback, delete>>

(* Google's answer to the refresh: a token, *)
Answer(c) ==
    /\ call[c].pc = "calling"
    /\ call[c].conn.refresh_token \notin revoked
    /\ Issue
    /\ call' = [call EXCEPT ![c].pc = "answered", ![c].token = issued + 1]
    /\ UNCHANGED <<row, pops, callback, delete>>

(* a status of 400 to 499, *)
Reject(c) ==
    /\ call[c].pc = "calling"
    /\ call[c].conn.refresh_token \in revoked \/ OtherErrors
    /\ Goto(c, "rejected")
    /\ UNCHANGED <<row, pops, google, callback, delete>>

(* or another status, or none. *)
Unreachable(c) ==
    /\ call[c].pc = "calling"
    /\ Raise(c)
    /\ UNCHANGED <<row, pops, google, callback, delete>>

(* Commit of the new token, or StaleDataError when the row is gone. *)
Store(c) ==
    LET conn == call[c].conn
    IN /\ call[c].pc = "answered"
       /\ \/ /\ row.id = conn.id
             /\ row' = [row EXCEPT !.token = call[c].token,
                                   !.status = Status(conn, "active")]
             /\ Goto(c, "stored")
          \/ row.id # conn.id /\ Raise(c) /\ UNCHANGED row
       /\ UNCHANGED <<pops, google, callback, delete>>

(* session.refresh again, and the token that is there now. *)
ReturnStored(c) ==
    /\ call[c].pc = "stored"
    /\ \/ row.id = call[c].conn.id /\ Return(c, row.token)
       \/ row.id # call[c].conn.id /\ Raise(c)
    /\ UNCHANGED <<row, pops, google, callback, delete>>

(* Commit of needs_reconnect; either way the call raises. *)
MarkRejected(c) ==
    LET conn == call[c].conn
    IN /\ call[c].pc = "rejected"
       /\ row' = IF row.id = conn.id
                   THEN [row EXCEPT !.status = Status(conn, "needs_reconnect")]
                   ELSE row
       /\ Raise(c)
       /\ UNCHANGED <<pops, google, callback, delete>>

----------------------------------------------------------------------------
(* callback, as far as upsert_connection.  A failed exchange or userinfo   *)
(* request changes nothing here and is left out.                           *)

(* exchange_code: Google grants a refresh token and an access token; an    *)
(* answer without a refresh token is refused.                              *)
Exchange(k) ==
    /\ callback[k].pc = "idle"
    /\ Issue
    /\ callback' = [callback EXCEPT ![k].pc = "granted",
                                    ![k].token = issued + 1]
    /\ UNCHANGED <<row, pops, call, delete>>

(* get_connection *)
Select(k) ==
    /\ callback[k].pc = "granted"
    /\ callback' = [callback EXCEPT ![k].pc = "selected", ![k].conn = row]
    /\ UNCHANGED <<row, pops, google, call, delete>>

(* Commit.  The INSERT of a second row of the user raises IntegrityError,  *)
(* the UPDATE of a row that is gone StaleDataError.                        *)
Upsert(k) ==
    LET conn == callback[k].conn
        new == [id |-> k, refresh_token |-> k, token |-> callback[k].token,
                status |-> "active"]
    IN /\ callback[k].pc = "selected"
       /\ row' = IF row.id # conn.id THEN row
                  ELSE IF conn = NoRow THEN new
                  ELSE [new EXCEPT !.id = conn.id,
                                   !.status = Status(conn, "active")]
       /\ callback' = [callback EXCEPT ![k] = [NoCallback EXCEPT !.pc = "done"]]
       /\ UNCHANGED <<pops, google, call, delete>>

----------------------------------------------------------------------------
(* delete_connection, in the disconnect route. *)

(* The row as delete_for_connection leaves it; what that asks for a token  *)
(* is one of the callers.                                                  *)
LoadForDelete(d) ==
    /\ delete[d].pc = "idle"
    /\ row # NoRow
    /\ delete' = [delete EXCEPT ![d].pc = "revoking", ![d].conn = row]
    /\ UNCHANGED <<row, pops, google, call, callback>>

(* revoke is best effort. *)
Revoke(d) ==
    /\ delete[d].pc = "revoking"
    /\ revoked' \in {revoked, revoked \cup {delete[d].conn.refresh_token}}
    /\ delete' = [delete EXCEPT ![d].pc = "deleting"]
    /\ UNCHANGED <<row, pops, fresh, issued, call, callback>>

(* Mutant of DeleteRow: the lock is dropped before the row is gone. *)
PopBeforeDelete(d) ==
    /\ delete[d].pc = "deleting"
    /\ pops' = [pops EXCEPT ![ProcessOf[d]][delete[d].conn.id] = @ + 1]
    /\ delete' = [delete EXCEPT ![d].pc = "popping"]
    /\ UNCHANGED <<row, google, call, callback>>

(* Commit of the DELETE, which may find no row. *)
DeleteRow(d) ==
    /\ delete[d].pc = "deleting"
    /\ row' = IF row.id = delete[d].conn.id THEN NoRow ELSE row
    /\ delete' = [delete EXCEPT ![d].pc = "popping"]
    /\ UNCHANGED <<pops, google, call, callback>>

(* _locks.pop: callers that hold or wait for the lock object keep it. *)
PopLock(d) ==
    /\ delete[d].pc = "popping"
    /\ pops' = [pops EXCEPT ![ProcessOf[d]][delete[d].conn.id] = @ + 1]
    /\ delete' = [delete EXCEPT ![d] = [pc |-> "done", conn |-> NoRow]]
    /\ UNCHANGED <<row, google, call, callback>>

----------------------------------------------------------------------------
(* Time and Google.  A token lives an hour and a call lasts seconds (every *)
(* client has a timeout): a token does not expire before the task that got *)
(* it has stored it.  The expiry of a token that is nowhere in the program  *)
(* makes no difference and is left out.                                    *)
InHand(t) ==
    \/ \E c \in Callers : call[c].pc = "answered" /\ call[c].token = t
    \/ \E k \in Callbacks : callback[k].pc \in {"granted", "selected"}
                            /\ callback[k].token = t

Expire(t) ==
    /\ t \in fresh
    /\ ~InHand(t)
    /\ \A c \in Callers : call[c].pc # "stored"
    /\ t = row.token \/ \E c \in Callers : call[c].conn.token = t
    /\ fresh' = fresh \ {t}
    /\ UNCHANGED <<row, pops, issued, revoked, call, callback, delete>>

(* The user withdraws the consent, or the refresh token expires. *)
Withdraw(g) ==
    /\ g \notin revoked
    /\ g = First \/ (g \in Callbacks /\ callback[g].pc # "idle")
    /\ revoked' = revoked \cup {g}
    /\ UNCHANGED <<row, pops, fresh, issued, call, callback, delete>>

----------------------------------------------------------------------------
Init ==
    /\ row = [id |-> First, refresh_token |-> First, token |-> 1,
              status |-> "active"]
    /\ pops = [p \in Processes |-> [i \in Connections |-> 0]]
    /\ fresh = {1} /\ issued = 1 /\ revoked = {}
    /\ call = [c \in Callers |-> NoCall]
    /\ callback = [k \in Callbacks |-> NoCallback]
    /\ delete = [d \in Disconnects |-> [pc |-> "idle", conn |-> NoRow]]

GetValidAccessToken(c) ==
    \/ Check(c) \/ Reread(c)
    \/ Answer(c) \/ Reject(c) \/ Unreachable(c)
    \/ Store(c) \/ ReturnStored(c) \/ MarkRejected(c)

UpsertConnection(k) == Exchange(k) \/ Select(k) \/ Upsert(k)

DeleteConnection(d) ==
    LoadForDelete(d) \/ Revoke(d) \/ DeleteRow(d) \/ PopLock(d)

Next ==
    \/ \E c \in Callers : Load(c) \/ Acquire(c) \/ GetValidAccessToken(c)
    \/ \E k \in Callbacks : UpsertConnection(k)
    \/ \E d \in Disconnects : DeleteConnection(d)
    \/ \E t \in Tokens : Expire(t)
    \/ \E g \in Connections : Withdraw(g)

Spec == Init /\ [][Next]_vars

(* Fairness.  A call that runs goes on running, and asyncio.Lock wakes its *)
(* waiters in turn.                                                        *)
FairSpec ==
    /\ Spec
    /\ \A c \in Callers :
         WF_vars(GetValidAccessToken(c)) /\ SF_vars(Acquire(c))

----------------------------------------------------------------------------
(* Properties. *)

(* Every variable has its type, and a call has a connection. *)
TypeOK ==
    /\ row \in Row
    /\ pops \in [Processes -> [Connections -> Nat]]
    /\ issued \in Tokens
    /\ fresh \subseteq 1..issued
    /\ revoked \subseteq Connections
    /\ call \in [Callers -> Call]
    /\ \A c \in Callers :
         call[c].pc \notin {"idle", "returned"} => call[c].conn.id # None
    /\ callback \in [Callbacks -> Callback]
    /\ delete \in [Disconnects -> Delete]

(* Both have asked Google to refresh the token of one connection. *)
Collide(c, d) ==
    /\ call[c].pc \in Refreshing /\ call[d].pc \in Refreshing
    /\ call[c].conn.id = call[d].conn.id

(* Within a process one call at a time refreshes a connection's token,     *)
(* although a disconnect drops the connection's lock while calls hold it   *)
(* and wait for it, and a later call makes a new one.                      *)
SingleFlight ==
    \A c, d \in Callers :
        c # d /\ ProcessOf[c] = ProcessOf[d] => ~Collide(c, d)

(* In a single process a call that waited for the lock uses the token the  *)
(* holder fetched: nobody refreshes while a fresh token is in the row,     *)
(* unless a consent came in between.                                       *)
NoDoubleRefresh ==
    \A c \in Callers :
        /\ \A d \in Callers : ProcessOf[d] = ProcessOf[c]
        /\ call[c].pc \in Refreshing
        /\ row.id = call[c].conn.id
        /\ row.refresh_token = call[c].conn.refresh_token
        => row.token \notin fresh

(* A token is fresh when a call returns it, whichever process or callback *)
(* wrote the row last, and whatever expired while the call waited.         *)
FreshAnswer ==
    [][\A c \in Callers :
          call'[c].pc = "returned" /\ call[c].pc # "returned"
          => call'[c].token \in fresh]_vars

(* Whoever waits for a lock gets an answer. *)
CallEnds ==
    \A c \in Callers :
        call[c].pc = "waiting" ~> call[c].pc \in {"returned", "idle"}

(* What LIVE_SETUP says of needs_reconnect: the refresh token was revoked  *)
(* or has expired.                                                         *)
NeedsReconnectMeansRevoked ==
    row.status = "needs_reconnect" => row.refresh_token \in revoked

============================================================================
