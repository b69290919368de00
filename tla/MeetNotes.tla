------------------------------ MODULE MeetNotes ------------------------------
(***************************************************************************)
(* The way from a Google Workspace event to stored notes: the webhook      *)
(* (EventIngestion) and the notes pipeline (NotesPipeline) over the same   *)
(* conferences table, joined by the job queue (app/queue.py, app/main.py)  *)
(* and by the deletions a user makes (app/api/routes/connections.py,       *)
(* app/services/meeting_service.py).                                       *)
(***************************************************************************)
EXTENDS NotesPipeline

CONSTANTS
    Handlers, Conferences, Connections, Subscriptions, Malformed, Untyped,
    EventConference, EventTranscript, EventSubscription,
    FirstSubscription, NextSubscription, Volatile, MaxAborts,
    RedisConfigured    \* REDIS_URL is set and Redis answered at startup

(* What the webhook assumes; and an event's conference takes place in a    *)
(* meeting only if the user whose subscription it comes under may delete   *)
(* meetings.                                                               *)
ASSUME MeetNotesAssumption ==
    /\ None \notin Conferences \cup Connections \cup Subscriptions
    /\ EventConference \in [Ids -> Conferences \cup {None}]
    /\ EventTranscript \in [Ids -> Transcripts \cup {None}]
    /\ EventSubscription \in [Ids -> Subscriptions \cup {None}]
    /\ FirstSubscription \in [Connections -> Subscriptions \cup {None}]
    /\ NextSubscription \in [Connections -> Subscriptions \cup {None}]
    /\ MaxAborts \in Nat
    /\ RedisConfigured \in BOOLEAN
    /\ \A i \in Ids, k \in Connections :
         /\ MeetingAt[i] # None /\ EventSubscription[i] # None
         /\ EventSubscription[i] \in {FirstSubscription[k],
                                      NextSubscription[k]}
         => k \in Volatile

VARIABLES unacked, req, ledger, connections, subscription, enqueued, aborts

(* A row's id is the message whose handler inserted it. *)
Ingestion == INSTANCE EventIngestion WITH Messages <- Ids

ingestionOnly == <<unacked, req, ledger, connections, subscription, enqueued,
                   aborts>>
pipelineOnly  == <<progress, transcripts, notes, meetings, jobs, proc, wakes,
                   faults>>

systemVars == <<ingestionOnly, conferences, pipelineOnly>>

SystemInit == Ingestion!Init /\ InitPipeline

----------------------------------------------------------------------------
(* Mutant of Enqueue: the job is queued before the row is committed. *)
EnqueueEarly(h) ==
    \/ /\ req[h].pc = "save" /\ req[h].id = None
       /\ EnqueueJob(req[h].msg)
       /\ UNCHANGED <<ingestionOnly, conferences, progress, transcripts, notes,
                      meetings, proc, wakes, faults>>
    \/ /\ Ingestion!Enqueue(h)
       /\ UNCHANGED pipelineOnly

(* The handler's call of the queue.  With Redis it is arq's; without, the  *)
(* lifespan installed NullJobQueue, which drops it.                        *)
Enqueue(h) ==
    /\ Ingestion!Enqueue(h)
    /\ IF RedisConfigured
         THEN EnqueueJob(req[h].id)
         ELSE UNCHANGED jobs
    /\ UNCHANGED <<progress, transcripts, notes, meetings, proc, wakes, faults>>

(* Mutant of Disconnect: the conferences stay behind. *)
DisconnectLeavesConferences(k) ==
    /\ k \in connections \cap Volatile
    /\ connections' = connections \ {k}
    /\ subscription' = [subscription EXCEPT ![k] = None]
    /\ UNCHANGED <<unacked, req, ledger, enqueued, aborts, conferences,
                   pipelineOnly>>

(* The deletion of a connection cascades through its conferences to their  *)
(* transcripts and notes.                                                  *)
Disconnect(k) ==
    /\ Ingestion!DeleteConnection(k)
    /\ Cascade({r.id : r \in {q \in conferences : q.conn = k}})
    /\ UNCHANGED <<progress, meetings, jobs, proc, wakes, faults>>

RemoveMeeting(m) ==
    /\ DeleteMeeting(m)
    /\ UNCHANGED ingestionOnly

----------------------------------------------------------------------------
Webhook ==
    /\ \/ \E h \in Handlers : Ingestion!Serve(h) \/ Ingestion!Abort(h)
       \/ \E h \in Handlers, m \in Ids : Ingestion!Deliver(h, m)
       \/ \E m \in Ids : Ingestion!AckPoison(m)
       \/ \E k \in Connections :
             Ingestion!Resubscribe(k) \/ Ingestion!Unsubscribe(k)
    /\ UNCHANGED pipelineOnly

SystemNext ==
    \/ Webhook
    \/ \E h \in Handlers : Enqueue(h)
    \/ PipelineStep /\ UNCHANGED ingestionOnly
    \/ \E k \in Connections : Disconnect(k)
    \/ \E m \in Meetings : RemoveMeeting(m)

SystemSpec == SystemInit /\ [][SystemNext]_systemVars

(* Fairness, as in the two components. *)
SystemFairness ==
    /\ \A h \in Handlers :
         WF_systemVars(\/ Ingestion!Serve(h) /\ UNCHANGED pipelineOnly
                       \/ Enqueue(h))
    /\ \A m \in Ids :
         SF_systemVars(\E h \in Handlers :
                          Ingestion!Deliver(h, m) /\ UNCHANGED pipelineOnly)
    /\ \A w \in Workers :
         WF_systemVars(RunPipeline(w) /\ UNCHANGED ingestionOnly)
    /\ \A i \in Ids :
         /\ SF_systemVars(\E w \in Workers :
                             StartJob(w, i) /\ UNCHANGED ingestionOnly)
         /\ WF_systemVars(ExpireResult(i) /\ UNCHANGED ingestionOnly)
    /\ \A q \in Requests :
         WF_systemVars(GenerateNotes(q) /\ UNCHANGED ingestionOnly)

FairSystem == SystemSpec /\ SystemFairness

----------------------------------------------------------------------------
(* Properties. *)

(* Whatever the pipeline and the users' deletions do, the webhook runs in  *)
(* the environment EventIngestion assumes: what is proved of that module   *)
(* holds of the whole.                                                     *)
ImplementsIngestion == Ingestion!Spec

(* A worker that finds no row for its job finds it deleted, by a           *)
(* disconnect or with its meeting, never not yet committed: the job is     *)
(* queued after the row's commit, however the handlers of one conference   *)
(* race to insert it.                                                      *)
JobsAreOfCommittedRows ==
    \A i \in Ids :
        jobs[i].status # "absent" =>
            \/ Live(i)
            \/ MeetingAt[i] \in Meetings \ meetings
            \/ \E k \in Connections \ connections :
                  EventSubscription[i] \in {FirstSubscription[k],
                                           NextSubscription[k]}

(* A handler may still insert a row, whose id its message stands for; and  *)
(* an id is used up when there is, or was, or will never be a row of it.   *)
MayInsert(h) ==
    \/ req[h].pc \in {"lookup", "load"}
    \/ req[h].pc = "save" /\ req[h].id = None

Used(i) ==
    /\ i \in ledger
    /\ \A h \in Handlers : req[h].msg = i => ~MayInsert(h)

(* What can be read of a conference from before its first event on: while  *)
(* there is no row yet, and while the row has no transcript, the routes    *)
(* answer 404.                                                             *)
Readable ==
    [i \in Ids |-> IF Live(i) \/ Used(i) THEN Artifact[i] ELSE "nothing"]

SystemLifecycle == INSTANCE NotesLifecycle WITH artifact <- Readable,
                                                complete <- Complete

(* What the pipeline alone promises the reader holds of the whole: from    *)
(* the event to the deletion a conference only moves forward.  No handler  *)
(* brings back an id that was deleted, or inserts one the pipeline already *)
(* works on, however late its commit comes.                                *)
ImplementsSystemLifecycle == SystemLifecycle!Spec

(* As long as no request is cut short, every event that names a conference *)
(* is enqueued for, whichever of the handlers that race for the row wins   *)
(* and while the worker writes to it.                                      *)
EventHandled == Ingestion!EventHandled

(* A "transcript ready" event of a user who stays leads to the notes of    *)
(* its conference, without anybody's help.                                 *)
NotesFollowTranscript ==
    \A m \in Ids :
        Ingestion!Expected(m) /\ EventTranscript[m] # None =>
            <>(\E r \in conferences :
                  /\ r.name = EventConference[m]
                  /\ progress[r.id].state = "notes_generated")

==============================================================================
