--------------------------- MODULE EventIngestion ---------------------------
(***************************************************************************)
(* The webhook that receives Google Workspace events over Pub/Sub push     *)
(* (app/api/routes/webhooks.py) and the service that turns one event into  *)
(* a durable conference row and one enqueue (app/services/event_service.py)*)
(*                                                                         *)
(* Pub/Sub delivers at least once and in any order.  Every delivery is an  *)
(* HTTP request served by a handler of its own; handlers interleave at     *)
(* every await on the database.  A step of a handler is one statement, or  *)
(* one commit, of its own session under READ COMMITTED: a commit that      *)
(* breaks a unique or a foreign-key constraint raises IntegrityError, an   *)
(* UPDATE of a row that is gone raises StaleDataError.                     *)
(***************************************************************************)
EXTENDS Naturals, FiniteSets

CONSTANTS
    Handlers,          \* concurrent requests the API serves
    Messages,          \* Pub/Sub message ids
    Conferences,       \* conference record names
    Transcripts,       \* transcript resource names
    Connections,       \* ids of oauth_connections rows
    Subscriptions,     \* Workspace Events subscription names
    None,              \* Python's None
    Malformed,         \* the messages parse_push raises for
    Untyped,           \* those of them for which it is no EventParseError
    EventConference,   \* MeetEvent.conference_record_name of each message
    EventTranscript,   \* MeetEvent.transcript_resource_name of each message
    EventSubscription, \* MeetEvent.subscription_name of each message
    FirstSubscription, \* the subscription each connection starts with
    NextSubscription,  \* the one a later consent replaces it by
    Volatile,          \* connections whose user disconnects, consents again
                       \* or deletes a meeting
    MaxAborts          \* bound: requests that raise or die half-way

ASSUME IngestionAssumption ==
    /\ None \notin Messages \cup Conferences \cup Transcripts
                   \cup Connections \cup Subscriptions
    /\ Malformed \subseteq Messages /\ Untyped \subseteq Malformed
    /\ EventConference \in [Messages -> Conferences \cup {None}]
    /\ EventTranscript \in [Messages -> Transcripts \cup {None}]
    /\ EventSubscription \in [Messages -> Subscriptions \cup {None}]
    /\ FirstSubscription \in [Connections -> Subscriptions \cup {None}]
    /\ NextSubscription \in [Connections -> Subscriptions \cup {None}]
    /\ Volatile \subseteq Connections
    /\ MaxAborts \in Nat

VARIABLES
    unacked,      \* messages Pub/Sub still redelivers
    req,          \* control state and locals of every handler
    ledger,       \* processed_events: message ids
    connections,  \* oauth_connections: ids
    subscription, \* event_subscriptions: the row's name for each connection
    conferences,  \* conferences: rows
    enqueued,     \* enqueue_notes_pipeline calls: <<message, conference id>>
    aborts        \* requests that raised or died half-way so far

vars == <<unacked, req, ledger, connections, subscription, conferences,
          enqueued, aborts>>

database == <<ledger, connections, subscription, conferences>>
cloud    == <<connections, subscription>>

----------------------------------------------------------------------------
(* The rows of conferences.  A message passes the ledger once and inserts  *)
(* at most one row, so it stands for the uuid of the row it inserts.       *)

Conference == [id : Messages, name : Conferences, conn : Connections,
               transcript : Transcripts \cup {None}]

RowsNamed(c) == {r \in conferences : r.name = c}
RowsWithId(i) == {r \in conferences : r.id = i}

SetTranscript(i, t) ==
    {IF r.id = i THEN [r EXCEPT !.transcript = t] ELSE r : r \in conferences}

(* A handler: where it is, its event, the oauth_connection_id of the       *)
(* subscription it looked up, and the conference object of its session:    *)
(* id (None: not yet inserted) and the transcript it was loaded with.      *)

Stages == {"idle", "received", "record", "lookup", "load", "save", "reload",
           "reapply", "refresh", "enqueue"}

Request == [pc : Stages, msg : Messages \cup {None},
            conn : Connections \cup {None}, id : Messages \cup {None},
            transcript : Transcripts \cup {None}]

Idle == [pc |-> "idle", msg |-> None, conn |-> None, id |-> None,
         transcript |-> None]

Msg(h) == req[h].msg

(* The handler moves on to its next await. *)
Goto(h, stage) == req' = [req EXCEPT ![h].pc = stage]

(* The handler's session now holds the row r. *)
GotoWithRow(h, stage, r) ==
    req' = [req EXCEPT ![h] = [pc |-> stage, msg |-> @.msg, conn |-> @.conn,
                               id |-> r.id, transcript |-> r.transcript]]

(* The handler returns.  200 acknowledges the message, but the answer may  *)
(* come too late or get lost: then Pub/Sub delivers the message again.     *)
Reply200(h) ==
    /\ req' = [req EXCEPT ![h] = Idle]
    /\ unacked' \in {unacked, unacked \ {Msg(h)}}

(* Mutant of Reply500: the exception is swallowed and acknowledged. *)
SwallowException(h) == Reply200(h)

(* 500 is a NACK: the message stays with Pub/Sub. *)
Reply500(h) ==
    /\ req' = [req EXCEPT ![h] = Idle]
    /\ UNCHANGED unacked

----------------------------------------------------------------------------
Init ==
    /\ unacked = Messages
    /\ req = [h \in Handlers |-> Idle]
    /\ ledger = {}
    /\ connections = Connections
    /\ subscription = FirstSubscription
    /\ conferences = {}
    /\ enqueued = {}
    /\ aborts = 0

(* A push request with a valid OIDC token whose body parses.  The same     *)
(* message may be in the hands of several handlers at once.                *)
Deliver(h, m) ==
    /\ req[h].pc = "idle"
    /\ m \in unacked \ Malformed
    /\ req' = [req EXCEPT ![h] = [Idle EXCEPT !.pc = "received", !.msg = m]]
    /\ UNCHANGED <<unacked, database, enqueued, aborts>>

(* A body parse_push rejects is acknowledged and changes nothing else.     *)
(* The errors it does not raise itself are not caught: the answer to a     *)
(* message in Untyped is a 500, every time Pub/Sub delivers it, and        *)
(* nothing changes.                                                        *)
AckPoison(m) ==
    /\ m \in unacked \cap (Malformed \ Untyped)
    /\ unacked' = unacked \ {m}
    /\ UNCHANGED <<req, database, enqueued, aborts>>

(* _already_processed *)
CheckLedger(h) ==
    /\ req[h].pc = "received"
    /\ IF Msg(h) \in ledger
         THEN Reply200(h)
         ELSE Goto(h, "record") /\ UNCHANGED unacked
    /\ UNCHANGED <<database, enqueued, aborts>>

(* Mutant of RecordMessage: the ledger is only checked, as if it had no     *)
(* unique constraint.                                                      *)
RecordUnchecked(h) ==
    /\ req[h].pc = "record"
    /\ ledger' = ledger \cup {Msg(h)}
    /\ Goto(h, "lookup")
    /\ UNCHANGED <<unacked, cloud, conferences, enqueued, aborts>>

(* INSERT and commit of the ledger row.  IntegrityError: a concurrent      *)
(* duplicate committed since the check.                                    *)
RecordMessage(h) ==
    /\ req[h].pc = "record"
    /\ IF Msg(h) \in ledger
         THEN Reply200(h) /\ UNCHANGED ledger
         ELSE /\ ledger' = ledger \cup {Msg(h)}
              /\ Goto(h, "lookup")
              /\ UNCHANGED unacked
    /\ UNCHANGED <<cloud, conferences, enqueued, aborts>>

(* Mutant of LookupSubscription: the conference name is not checked. *)
LookupAnyName(h) ==
    LET owners == {k \in connections :
                     subscription[k] = EventSubscription[Msg(h)]}
    IN /\ req[h].pc = "lookup"
       /\ \/ owners = {} /\ Reply200(h)
          \/ /\ \E k \in owners :
                  req' = [req EXCEPT ![h].pc = "load", ![h].conn = k]
             /\ UNCHANGED unacked
       /\ UNCHANGED <<database, enqueued, aborts>>

(* The event is ignored unless it names a conference and a subscription    *)
(* that some local row still carries.                                      *)
LookupSubscription(h) ==
    LET s == EventSubscription[Msg(h)]
        owners == {k \in connections : subscription[k] = s}
    IN /\ req[h].pc = "lookup"
       /\ \/ /\ EventConference[Msg(h)] = None \/ s = None \/ owners = {}
             /\ Reply200(h)
          \/ /\ EventConference[Msg(h)] # None /\ s # None
             /\ \E k \in owners :
                  req' = [req EXCEPT ![h].pc = "load", ![h].conn = k]
             /\ UNCHANGED unacked
       /\ UNCHANGED <<database, enqueued, aborts>>

(* SELECT the conference by its record name. *)
LoadConference(h) ==
    LET rows == RowsNamed(EventConference[Msg(h)])
    IN /\ req[h].pc = "load"
       /\ \/ /\ rows = {}
             /\ Goto(h, "save")
          \/ \E r \in rows : GotoWithRow(h, "save", r)
       /\ UNCHANGED <<unacked, database, enqueued, aborts>>

(* Mutant of InsertConference: no constraint stops the INSERT. *)
InsertUnchecked(h) ==
    LET m == Msg(h)
    IN /\ req[h].pc = "save" /\ req[h].id = None
       /\ conferences' = conferences \cup
            {[id |-> m, name |-> EventConference[m], conn |-> req[h].conn,
              transcript |-> EventTranscript[m]]}
       /\ req' = [req EXCEPT ![h].pc = "refresh", ![h].id = m]
       /\ UNCHANGED <<unacked, ledger, cloud, enqueued, aborts>>

(* Commit of a new conference.  IntegrityError: the name is taken by now,  *)
(* or the connection is gone.                                              *)
InsertConference(h) ==
    LET m == Msg(h)
        new == [id |-> m, name |-> EventConference[m], conn |-> req[h].conn,
                transcript |-> EventTranscript[m]]
    IN /\ req[h].pc = "save" /\ req[h].id = None
       /\ IF RowsNamed(new.name) # {} \/ new.conn \notin connections
            THEN /\ Goto(h, "reload")
                 /\ UNCHANGED conferences
            ELSE /\ conferences' = conferences \cup {new}
                 /\ req' = [req EXCEPT ![h].pc = "refresh", ![h].id = m]
       /\ UNCHANGED <<unacked, ledger, cloud, enqueued, aborts>>

(* Mutant of UpdateConference: an event without a transcript erases it. *)
UpdateAlways(h) ==
    /\ req[h].pc = "save" /\ req[h].id # None
    /\ conferences' = SetTranscript(req[h].id, EventTranscript[Msg(h)])
    /\ Goto(h, "refresh")
    /\ UNCHANGED <<unacked, ledger, cloud, enqueued, aborts>>

(* Commit of a conference that was loaded.  An event without a transcript, *)
(* or with the one the object was loaded with, writes nothing; otherwise   *)
(* the UPDATE finds the row by id, or raises when it is gone.              *)
UpdateConference(h) ==
    LET t == EventTranscript[Msg(h)]
    IN /\ req[h].pc = "save" /\ req[h].id # None
       /\ \/ /\ t \in {None, req[h].transcript}
             /\ Goto(h, "refresh")
             /\ UNCHANGED <<unacked, conferences>>
          \/ /\ t \notin {None, req[h].transcript}
             /\ RowsWithId(req[h].id) # {}
             /\ conferences' = SetTranscript(req[h].id, t)
             /\ Goto(h, "refresh")
             /\ UNCHANGED unacked
          \/ /\ t \notin {None, req[h].transcript}
             /\ RowsWithId(req[h].id) = {}
             /\ Reply500(h)
             /\ UNCHANGED conferences
       /\ UNCHANGED <<ledger, cloud, enqueued, aborts>>

(* Mutants of ReloadConference: the transcript is not applied again; the    *)
(* loser of the race drops the event.                                      *)
ReloadOnly(h) ==
    /\ req[h].pc = "reload"
    /\ \E r \in RowsNamed(EventConference[Msg(h)]) :
          GotoWithRow(h, "refresh", r)
    /\ UNCHANGED <<unacked, database, enqueued, aborts>>

ReloadDrops(h) ==
    /\ req[h].pc = "reload"
    /\ Reply200(h)
    /\ UNCHANGED <<database, enqueued, aborts>>

(* After the rollback the winner's row is selected.  The discarded         *)
(* transcript is applied again if that row has none.                       *)
ReloadConference(h) ==
    LET m == Msg(h)
        rows == RowsNamed(EventConference[m])
    IN /\ req[h].pc = "reload"
       /\ \/ /\ rows = {}
             /\ Reply200(h)
          \/ /\ \E r \in rows :
                  \/ /\ EventTranscript[m] # None /\ r.transcript = None
                     /\ GotoWithRow(h, "reapply", r)
                  \/ /\ EventTranscript[m] = None \/ r.transcript # None
                     /\ GotoWithRow(h, "refresh", r)
             /\ UNCHANGED unacked
       /\ UNCHANGED <<database, enqueued, aborts>>

ReapplyTranscript(h) ==
    /\ req[h].pc = "reapply"
    /\ IF RowsWithId(req[h].id) = {}
         THEN Reply500(h) /\ UNCHANGED conferences
         ELSE /\ conferences' = SetTranscript(req[h].id,
                                              EventTranscript[Msg(h)])
              /\ Goto(h, "refresh")
              /\ UNCHANGED unacked
    /\ UNCHANGED <<ledger, cloud, enqueued, aborts>>

(* session.refresh(conf) raises when the row is gone. *)
RefreshConference(h) ==
    /\ req[h].pc = "refresh"
    /\ IF RowsWithId(req[h].id) = {}
         THEN Reply500(h)
         ELSE Goto(h, "enqueue") /\ UNCHANGED unacked
    /\ UNCHANGED <<database, enqueued, aborts>>

Enqueue(h) ==
    /\ req[h].pc = "enqueue"
    /\ enqueued' = enqueued \cup {<<Msg(h), req[h].id>>}
    /\ Reply200(h)
    /\ UNCHANGED <<database, aborts>>

(* A statement, a commit or the enqueue raises (database or Redis down),   *)
(* or the process dies: what was not committed is rolled back, and the     *)
(* request ends in a 500 or in no answer.                                  *)
Abort(h) ==
    /\ aborts < MaxAborts
    /\ req[h].pc # "idle"
    /\ aborts' = aborts + 1
    /\ Reply500(h)
    /\ UNCHANGED <<database, enqueued>>

----------------------------------------------------------------------------
(* What the rest of the program does to the rows this component reads.     *)

(* A later consent: create_for_connection puts a new name in the row. *)
Resubscribe(k) ==
    /\ k \in connections \cap Volatile
    /\ NextSubscription[k] # None
    /\ subscription[k] # NextSubscription[k]
    /\ subscription' = [subscription EXCEPT ![k] = NextSubscription[k]]
    /\ UNCHANGED <<unacked, req, ledger, connections, conferences, enqueued,
                   aborts>>

(* The disconnect route first removes the subscription row ... *)
Unsubscribe(k) ==
    /\ k \in connections \cap Volatile
    /\ subscription[k] # None
    /\ subscription' = [subscription EXCEPT ![k] = None]
    /\ UNCHANGED <<unacked, req, ledger, connections, conferences, enqueued,
                   aborts>>

(* ... then the connection, and by ON DELETE CASCADE its conferences. *)
DeleteConnection(k) ==
    /\ k \in connections \cap Volatile
    /\ connections' = connections \ {k}
    /\ subscription' = [subscription EXCEPT ![k] = None]
    /\ conferences' = {r \in conferences : r.conn # k}
    /\ UNCHANGED <<unacked, req, ledger, enqueued, aborts>>

(* Deleting a meeting cascades to the conferences mapped to it, of which a *)
(* meeting that recurs has several; only the pipeline maps a conference,   *)
(* so it was enqueued before.                                              *)
DeleteMeeting(rows) ==
    /\ rows \subseteq conferences
    /\ \A r \in rows :
         r.conn \in Volatile /\ \E m \in Messages : <<m, r.id>> \in enqueued
    /\ conferences' = conferences \ rows
    /\ UNCHANGED <<unacked, req, ledger, cloud, enqueued, aborts>>

----------------------------------------------------------------------------
(* A handler up to its enqueue. *)
Serve(h) ==
    \/ CheckLedger(h)
    \/ RecordMessage(h)
    \/ LookupSubscription(h)
    \/ LoadConference(h)
    \/ InsertConference(h)
    \/ UpdateConference(h)
    \/ ReloadConference(h)
    \/ ReapplyTranscript(h)
    \/ RefreshConference(h)

HandlerStep(h) == Serve(h) \/ Enqueue(h)

Next ==
    \/ \E h \in Handlers : HandlerStep(h) \/ Abort(h)
    \/ \E h \in Handlers, m \in Messages : Deliver(h, m)
    \/ \E m \in Messages : AckPoison(m)
    \/ \E k \in Connections :
          Resubscribe(k) \/ Unsubscribe(k) \/ DeleteConnection(k)
    \/ \E rows \in SUBSET conferences : DeleteMeeting(rows)

Spec == Init /\ [][Next]_vars

(* Fairness.  A request that runs goes on running.  Pub/Sub redelivers a   *)
(* message until it is acknowledged, and the API never refuses a request   *)
(* for good: Handlers only bounds how many run at once, so a message is    *)
(* served infinitely often as long as it is redelivered.                   *)
Fairness ==
    /\ \A h \in Handlers : WF_vars(HandlerStep(h))
    /\ \A m \in Messages : SF_vars(\E h \in Handlers : Deliver(h, m))

FairSpec == Spec /\ Fairness

----------------------------------------------------------------------------
(* Properties. *)

(* Every variable has its type: above all, no conference without a name or *)
(* an owner is ever stored (handle_event's early returns).                 *)
TypeOK ==
    /\ unacked \subseteq Messages
    /\ req \in [Handlers -> Request]
    /\ ledger \subseteq Messages
    /\ connections \subseteq Connections
    /\ subscription \in [Connections -> Subscriptions \cup {None}]
    /\ conferences \subseteq Conference
    /\ enqueued \subseteq Messages \X Messages
    /\ aborts \in 0..MaxAborts

(* A handler the ledger let through. *)
Admitted(h) == req[h].pc \notin {"idle", "received", "record"}

(* However often a message is delivered, and to however many handlers at   *)
(* once, the ledger lets it through once: the handler it let through is    *)
(* alone with its message, which was never enqueued for before, also not   *)
(* by a request that was cut short.                                        *)
AtMostOnce ==
    \A h \in Handlers : Admitted(h) =>
        /\ Msg(h) \in ledger
        /\ \A i \in Messages : <<Msg(h), i>> \notin enqueued
        /\ \A g \in Handlers \ {h} : Admitted(g) => Msg(g) # Msg(h)

(* Pub/Sub is never told to forget a well-formed message that the database *)
(* does not know: whatever raises or dies before the ledger commit leaves  *)
(* the message to be delivered again (webhooks.py's 500, 200 after a       *)
(* return only).                                                           *)
AckedIsRecorded == Messages \ Malformed \subseteq unacked \cup ledger

(* Concurrent handlers that each found no conference still leave one row   *)
(* per conference, whose id is its own, and no row survives or follows the *)
(* deletion of its connection.                                             *)
RowsSound ==
    /\ \A r, q \in conferences :
         (r.name = q.name \/ r.id = q.id) => r = q
    /\ \A r \in conferences : r.conn \in connections

(* When the pipeline is told of a conference, the row it is told of is     *)
(* that of the event's conference, and if the event announced a transcript *)
(* the row has one: the transcript that the losing INSERT of a race threw  *)
(* away included.                                                          *)
EnqueuedSound ==
    \A m \in Messages : \A r \in conferences :
        <<m, r.id>> \in enqueued =>
            /\ r.name = EventConference[m]
            /\ EventTranscript[m] # None => r.transcript # None

(* Events are delivered in any order: one that announces no transcript     *)
(* never takes away the transcript an earlier one announced.               *)
TranscriptKept ==
    [][\A r \in conferences, q \in conferences' :
          r.id = q.id /\ r.transcript # None => q.transcript # None]_vars

(* An event that names a conference, under a subscription whose user       *)
(* neither disconnects nor consents again nor deletes a meeting.           *)
Expected(m) ==
    /\ m \notin Malformed
    /\ EventConference[m] # None
    /\ EventSubscription[m] # None
    /\ \E k \in Connections \ Volatile :
          FirstSubscription[k] = EventSubscription[m]

Handled(m) == \E i \in Messages : <<m, i>> \in enqueued

(* As long as no request raises or dies half-way, every event that names a *)
(* conference is enqueued for, races between handlers included.            *)
EventHandled ==
    \A m \in Messages : Expected(m) /\ MaxAborts = 0 => <>Handled(m)

(* What the comment "NACK (500) so Pub/Sub retries with backoff" says of a *)
(* request that raises: once Pub/Sub stops delivering an event and no      *)
(* handler has it, it was handled.                                         *)
RetriedUntilHandled ==
    \A m \in Messages :
        /\ Expected(m)
        /\ m \notin unacked
        /\ \A h \in Handlers : Msg(h) # m
        => Handled(m)

============================================================================
