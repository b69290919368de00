------------------------------ MODULE Meetings ------------------------------
(***************************************************************************)
(* The meetings of one user: rows in meetings, events in the user's Google *)
(* calendars and the settings of their Meet spaces                         *)
(* (app/services/meeting_service.py, app/api/routes/meetings.py).          *)
(*                                                                         *)
(* A step ends at an await.  Google's event exists before the row does and *)
(* is deleted before it: a request that fails or dies leaves the two       *)
(* apart, and so does a meeting that is deleted while its Google account   *)
(* is not the connected one.                                               *)
(***************************************************************************)
EXTENDS Naturals, FiniteSets

CONSTANTS
    Creates,    \* POST requests
    Deletes,    \* DELETE requests
    Accounts,   \* Google accounts of the user, each with a calendar
    None,       \* Python's None
    MaxFailed   \* bound: requests that fail or die

ASSUME MeetingsAssumption ==
    /\ None \notin Creates \cup Accounts /\ Creates \cap Deletes = {}
    /\ MaxFailed \in Nat

VARIABLES
    account,    \* the account in the user's row of oauth_connections, or None
    meetings,   \* the user's rows in meetings
    events,     \* what became of the calendar event of each POST request
    recording,  \* events whose Meet space transcribes automatically
    create,     \* control state and locals of POST requests
    delete,     \* ... of DELETE requests
    failed      \* requests a step of which failed, or that died

vars == <<account, meetings, events, recording, create, delete, failed>>

----------------------------------------------------------------------------
(* A POST request creates at most one event and one row and stands for     *)
(* their ids.  Of a row the model keeps whether notes are enabled and      *)
(* whether meet_space_name is set.                                         *)
Meeting == [id : Creates, notes : BOOLEAN, space : BOOLEAN]

Rows(m) == {r \in meetings : r.id = m}

(* A calendar event: the account in whose calendar it is. *)
Event == [account : Accounts \cup {None}, state : {"none", "live", "deleted"}]

(* A POST request: the account, then notes_enabled and space_name as the   *)
(* code goes on.                                                           *)
Create == [pc : {"idle", "creating", "finding", "enabling", "storing", "done"},
           account : Accounts \cup {None}, notes : BOOLEAN, space : BOOLEAN]

NewCreate == [pc |-> "idle", account |-> None, notes |-> FALSE, space |-> FALSE]

(* A DELETE request: the meeting and the account it has loaded. *)
Delete == [pc : {"idle", "loaded", "deleting", "dropping", "done"},
           meeting : Creates \cup {None}, account : Accounts \cup {None}]

NewDelete == [pc |-> "idle", meeting |-> None, account |-> None]

EndCreate(c) == create' = [create EXCEPT ![c] = [NewCreate EXCEPT !.pc = "done"]]

EndDelete(d) == delete' = [delete EXCEPT ![d].pc = "done"]

Fault(r) == failed' = failed \cup {r} /\ Cardinality(failed') <= MaxFailed

----------------------------------------------------------------------------
(* create_meeting *)

(* Mutant of Begin: notes_enabled has no default and stays undecided. *)
BeginNull(c, notes) ==
    /\ create[c].pc = "idle"
    /\ IF account # None
         THEN create' = [create EXCEPT ![c] = [pc |-> "creating",
                           account |-> account, notes |-> None, space |-> FALSE]]
         ELSE EndCreate(c)
    /\ UNCHANGED <<account, meetings, events, recording, delete, failed>>

(* The connection; without one the answer is 409.  The access token is     *)
(* ConnectionTokens' business.                                             *)
Begin(c, notes) ==
    /\ create[c].pc = "idle"
    /\ IF account # None
         THEN create' = [create EXCEPT ![c] = [pc |-> "creating",
                           account |-> account, notes |-> notes, space |-> FALSE]]
         ELSE EndCreate(c)
    /\ UNCHANGED <<account, meetings, events, recording, delete, failed>>

Schedule(c) ==
    events' = [events EXCEPT ![c] = [account |-> create[c].account,
                                     state |-> "live"]]

(* create_event: the answer has a Meet link or not.  Without one, or when  *)
(* notes are not wanted, the meeting is stored without notes.              *)
CreateEvent(c, link) ==
    /\ create[c].pc = "creating"
    /\ Schedule(c)
    /\ create' = IF create[c].notes /\ link
                   THEN [create EXCEPT ![c].pc = "finding"]
                   ELSE [create EXCEPT ![c].pc = "storing", ![c].notes = FALSE]
    /\ UNCHANGED <<account, meetings, recording, delete, failed>>

(* The event is created and the answer gets lost: 502. *)
CreateUnanswered(c) ==
    /\ create[c].pc = "creating" /\ Fault(c)
    /\ Schedule(c)
    /\ EndCreate(c)
    /\ UNCHANGED <<account, meetings, recording, delete>>

(* get_space_name *)
FindSpace(c) ==
    /\ create[c].pc = "finding"
    /\ create' = [create EXCEPT ![c].pc = "enabling", ![c].space = TRUE]
    /\ UNCHANGED <<account, meetings, events, recording, delete, failed>>

(* enable_auto_transcript *)
EnableTranscript(c) ==
    /\ create[c].pc = "enabling"
    /\ recording' = recording \cup {c}
    /\ create' = [create EXCEPT ![c].pc = "storing"]
    /\ UNCHANGED <<account, meetings, events, delete, failed>>

(* An answer to enable_auto_transcript may get lost. *)
EnableOrNot(c) ==
    \/ UNCHANGED recording
    \/ create[c].pc = "enabling" /\ recording' = recording \cup {c}

(* Mutant of DowngradeNotes: the space is forgotten, the flag is not. *)
DowngradeSpace(c) ==
    /\ create[c].pc \in {"finding", "enabling"}
    /\ EnableOrNot(c)
    /\ create' = [create EXCEPT ![c].pc = "storing", ![c].space = FALSE]
    /\ UNCHANGED <<account, meetings, events, delete, failed>>

(* Either call fails with httpx.HTTPError: a meeting without notes. *)
DowngradeNotes(c) ==
    /\ create[c].pc \in {"finding", "enabling"}
    /\ EnableOrNot(c)
    /\ create' = [create EXCEPT ![c].pc = "storing", ![c].notes = FALSE,
                                ![c].space = FALSE]
    /\ UNCHANGED <<account, meetings, events, delete, failed>>

(* Commit of the row. *)
Store(c) ==
    /\ create[c].pc = "storing"
    /\ meetings' = meetings \cup {[id |-> c, notes |-> create[c].notes,
                                   space |-> create[c].space]}
    /\ EndCreate(c)
    /\ UNCHANGED <<account, events, recording, delete, failed>>

----------------------------------------------------------------------------
(* delete_meeting *)

(* get_meeting: 404 when there is no such row. *)
Load(d, m) ==
    /\ delete[d].pc = "idle"
    /\ IF Rows(m) = {}
         THEN EndDelete(d)
         ELSE delete' = [delete EXCEPT ![d].pc = "loaded", ![d].meeting = m]
    /\ UNCHANGED <<account, meetings, events, recording, create, failed>>

(* Mutant of GetConnection: the event is never deleted. *)
IgnoreConnection(d) ==
    /\ delete[d].pc = "loaded"
    /\ delete' = [delete EXCEPT ![d].account = account, ![d].pc = "dropping"]
    /\ UNCHANGED <<account, meetings, events, recording, create, failed>>

(* get_connection: without one the event stays in the calendar. *)
GetConnection(d) ==
    /\ delete[d].pc = "loaded"
    /\ delete' = [delete EXCEPT
                    ![d].account = account,
                    ![d].pc = IF account # None THEN "deleting" ELSE "dropping"]
    /\ UNCHANGED <<account, meetings, events, recording, create, failed>>

(* Mutant of DeleteEvent: the row is kept when the event is gone. *)
DeleteEventOnly(d) ==
    LET m == delete[d].meeting
    IN /\ delete[d].pc = "deleting"
       /\ events' = IF delete[d].account = events[m].account
                      THEN [events EXCEPT ![m].state = "deleted"] ELSE events
       /\ EndDelete(d)
       /\ UNCHANGED <<account, meetings, recording, create, failed>>

(* delete_event from the primary calendar of the account.  404 and 410 are *)
(* as good as 200, also when they mean that the event is in the calendar   *)
(* of another account.                                                     *)
DeleteEvent(d) ==
    LET m == delete[d].meeting
    IN /\ delete[d].pc = "deleting"
       /\ events' = IF delete[d].account = events[m].account
                      THEN [events EXCEPT ![m].state = "deleted"] ELSE events
       /\ delete' = [delete EXCEPT ![d].pc = "dropping"]
       /\ UNCHANGED <<account, meetings, recording, create, failed>>

(* The access token or the deletion fails: logged, no more. *)
KeepEvent(d) ==
    /\ delete[d].pc = "deleting" /\ Fault(d)
    /\ delete' = [delete EXCEPT ![d].pc = "dropping"]
    /\ UNCHANGED <<account, meetings, events, recording, create>>

(* Commit; a DELETE may find no row. *)
DropRow(d) ==
    /\ delete[d].pc = "dropping"
    /\ meetings' = meetings \ Rows(delete[d].meeting)
    /\ EndDelete(d)
    /\ UNCHANGED <<account, events, recording, create, failed>>

----------------------------------------------------------------------------
(* A call raises, a commit fails, or the process dies. *)
AbortCreate(c) ==
    /\ create[c].pc \notin {"idle", "done"} /\ Fault(c)
    /\ EndCreate(c)
    /\ UNCHANGED <<account, meetings, events, recording, delete>>

AbortDelete(d) ==
    /\ delete[d].pc \notin {"idle", "done"} /\ Fault(d)
    /\ EndDelete(d)
    /\ UNCHANGED <<account, meetings, events, recording, create>>

(* A callback connects an account, maybe another one; a disconnect removes *)
(* the connection.                                                         *)
Reconnect(a) ==
    /\ a # account /\ account' = a
    /\ UNCHANGED <<meetings, events, recording, create, delete, failed>>

Init ==
    /\ account = None
    /\ meetings = {} /\ recording = {} /\ failed = {}
    /\ events = [c \in Creates |-> [account |-> None, state |-> "none"]]
    /\ create = [c \in Creates |-> NewCreate]
    /\ delete = [d \in Deletes |-> NewDelete]

CreateMeeting(c) ==
    \/ \E notes \in BOOLEAN : Begin(c, notes)
    \/ \E link \in BOOLEAN : CreateEvent(c, link)
    \/ CreateUnanswered(c)
    \/ FindSpace(c) \/ EnableTranscript(c) \/ DowngradeNotes(c)
    \/ Store(c)

DeleteMeeting(d) ==
    \/ \E m \in Creates : Load(d, m)
    \/ GetConnection(d) \/ DeleteEvent(d) \/ KeepEvent(d) \/ DropRow(d)

Next ==
    \/ \E c \in Creates : CreateMeeting(c) \/ AbortCreate(c)
    \/ \E d \in Deletes : DeleteMeeting(d) \/ AbortDelete(d)
    \/ \E a \in Accounts \cup {None} : Reconnect(a)

Spec == Init /\ [][Next]_vars

----------------------------------------------------------------------------
(* Properties. *)

(* Every variable has its type. *)
TypeOK ==
    /\ account \in Accounts \cup {None}
    /\ meetings \subseteq Meeting
    /\ events \in [Creates -> Event]
    /\ recording \subseteq Creates
    /\ create \in [Creates -> Create]
    /\ delete \in [Deletes -> Delete]
    /\ failed \subseteq Creates \cup Deletes

(* A row that says notes are enabled belongs to an event whose space does  *)
(* transcribe, and just these rows carry the space name by which the       *)
(* pipeline finds the meeting of a conference - whichever of the calls to  *)
(* Google failed, before or after it had its effect.                       *)
NotesBacked ==
    \A r \in meetings : r.notes = r.space /\ (r.notes => r.id \in recording)

(* Events in the user's calendars that no row leads to any more. *)
Strays ==
    {m \in Creates : /\ events[m].state = "live" /\ Rows(m) = {}
                     /\ create[m].pc = "done"}

(* An event gets out of the API's reach only if the request that created   *)
(* it failed, or a request that deleted its row failed or went to another  *)
(* account than the event's, or none - however creations, deletions and    *)
(* reconnects interleave.                                                  *)
StraysExplained ==
    \A m \in Strays :
        \/ m \in failed
        \/ \E d \in Deletes :
             /\ delete[d].meeting = m /\ delete[d].pc = "done"
             /\ d \in failed \/ delete[d].account # events[m].account

(* The event of a row is in a calendar, unless a request that found the    *)
(* row is about to drop it, or failed.                                     *)
EventsLive ==
    \A r \in meetings :
        \/ events[r.id].state = "live"
        \/ \E d \in Deletes :
             /\ delete[d].meeting = r.id
             /\ delete[d].pc = "dropping" \/ d \in failed

(* A request that found a row and did not fail leaves none. *)
RowsGone ==
    \A d \in Deletes :
        /\ delete[d].pc = "done" /\ delete[d].meeting # None
        /\ d \notin failed
        => Rows(delete[d].meeting) = {}

(* What a row lists is in a calendar: a row outlives its event only under  *)
(* a DELETE that is not over or failed, and the next DELETE that does not  *)
(* fail drops it, though the event is gone and others race it.             *)
RowsHaveEvents == EventsLive /\ RowsGone

============================================================================
