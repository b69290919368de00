--------------------------- MODULE MeetNotesProofs ---------------------------
(* Theorems about MeetNotes, for all values of its constants: any numbers  *)
(* of handlers, messages, users, workers, requests and meetings.           *)
EXTENDS MeetNotes, NotesPipelineProofs

(* Message m is of a subscription that connection k has or had. *)
Owns(k, m) ==
    /\ k \in Connections
    /\ EventSubscription[m] # None
    /\ EventSubscription[m] \in {FirstSubscription[k], NextSubscription[k]}

(* A subscription row has no other name than its connection's, and the     *)
(* connection a handler works for, and the one below a conference, is the  *)
(* one whose subscription the event came under.                            *)
Owned ==
    /\ \A k \in Connections :
         subscription[k] \in {FirstSubscription[k], NextSubscription[k], None}
    /\ \A h \in Handlers :
         /\ req[h].pc # "idle" => req[h].msg \in Ids
         /\ req[h].pc \in {"load", "save", "reload", "reapply", "refresh",
                           "enqueue"}
              => /\ EventConference[req[h].msg] # None
                 /\ Owns(req[h].conn, req[h].msg)
         /\ req[h].pc = "reapply" => EventTranscript[req[h].msg] # None
         /\ req[h].pc \in {"reapply", "refresh", "enqueue"} => req[h].id # None
    /\ \A r \in conferences : Owns(r.conn, r.id)

Webhooks == Ingestion!TypeOK /\ Owned

LEMMA WebhookConstants ==
    /\ None \notin Ids /\ None \notin Transcripts /\ None \notin Conferences
    /\ None \notin Connections /\ None \notin Subscriptions
    /\ EventConference \in [Ids -> Conferences \cup {None}]
    /\ EventTranscript \in [Ids -> Transcripts \cup {None}]
    /\ EventSubscription \in [Ids -> Subscriptions \cup {None}]
    /\ FirstSubscription \in [Connections -> Subscriptions \cup {None}]
    /\ NextSubscription \in [Connections -> Subscriptions \cup {None}]
    /\ MaxAborts \in Nat
  BY MeetNotesAssumption, PipelineAssumption

LEMMA WebhooksInit == Ingestion!Init => Webhooks
<1>. SUFFICES ASSUME Ingestion!Init PROVE Webhooks
  OBVIOUS
<1>. USE WebhookConstants DEF Ingestion!Init, Ingestion!Idle
<1>1. Ingestion!TypeOK
  BY DEF Ingestion!TypeOK, Ingestion!Request, Ingestion!Stages,
         Ingestion!Conference
<1>2. Owned
  BY DEF Owned
<1>. QED
  BY <1>1, <1>2 DEF Webhooks

(* An UPDATE of the transcript leaves a row's id, name and owner.          *)
LEMMA SetKeepsRows ==
    ASSUME conferences \subseteq Ingestion!Conference,
           NEW i, NEW t \in Transcripts
    PROVE  /\ Ingestion!SetTranscript(i, t) \subseteq Ingestion!Conference
           /\ \A q \in Ingestion!SetTranscript(i, t) : \E r \in conferences :
                r.id = q.id /\ r.conn = q.conn
           /\ \A r \in conferences : \E q \in Ingestion!SetTranscript(i, t) :
                r.id = q.id
<1>1. ASSUME NEW r \in conferences
      PROVE  LET q == IF r.id = i THEN [r EXCEPT !.transcript = t] ELSE r
             IN q \in Ingestion!Conference /\ q.id = r.id /\ q.conn = r.conn
  BY DEF Ingestion!Conference
<1>. QED
  BY <1>1 DEF Ingestion!SetTranscript

(* A handler that has saved its transcript, or has nothing to save. *)
LEMMA MovesToRefresh ==
    ASSUME Webhooks, NEW h \in Handlers, req[h].pc \in {"save", "reapply"},
           req[h].id # None, Ingestion!Goto(h, "refresh"),
           \/ UNCHANGED conferences
           \/ /\ EventTranscript[req[h].msg] \in Transcripts
              /\ conferences' = Ingestion!SetTranscript(req[h].id,
                                        EventTranscript[req[h].msg]),
           UNCHANGED <<unacked, ledger, connections, subscription, enqueued,
                       aborts>>
    PROVE  Webhooks'
<1>1. /\ req' \in [Handlers -> Ingestion!Request]
      /\ req'[h] = [req[h] EXCEPT !.pc = "refresh"]
      /\ \A g \in Handlers \ {h} : req'[g] = req[g]
  BY DEF Webhooks, Ingestion!TypeOK, Ingestion!Goto, Ingestion!Request,
         Ingestion!Stages
<1>2. /\ req'[h].pc = "refresh" /\ req'[h].msg = req[h].msg
      /\ req'[h].conn = req[h].conn /\ req'[h].id = req[h].id
  BY <1>1 DEF Webhooks, Ingestion!TypeOK, Ingestion!Request
<1>3. /\ conferences' \subseteq Ingestion!Conference
      /\ \A q \in conferences' : \E r \in conferences :
           r.id = q.id /\ r.conn = q.conn
  BY SetKeepsRows DEF Webhooks, Ingestion!TypeOK
<1>4. Ingestion!TypeOK'
  BY <1>1, <1>3 DEF Webhooks, Ingestion!TypeOK
<1>5. \A r \in conferences' : Owns(r.conn, r.id)
  BY <1>3 DEF Webhooks, Owned
<1>6. EventConference[req[h].msg] # None /\ Owns(req[h].conn, req[h].msg)
  BY DEF Webhooks, Owned
<1>7. req[h].msg \in Ids
  BY DEF Webhooks, Owned
<1>8. Owned'
  <2>. DEFINE Fine(p) ==
         /\ p.pc # "idle" => p.msg \in Ids
         /\ p.pc \in {"load", "save", "reload", "reapply", "refresh",
                      "enqueue"}
              => EventConference[p.msg] # None /\ Owns(p.conn, p.msg)
         /\ p.pc = "reapply" => EventTranscript[p.msg] # None
         /\ p.pc \in {"reapply", "refresh", "enqueue"} => p.id # None
  <2>1. \A g \in Handlers : Fine(req[g])
    BY DEF Webhooks, Owned
  <2>2. Fine(req'[h])
    BY <1>2, <1>6, <1>7
  <2>3. \A g \in Handlers : Fine(req'[g])
    BY <1>1, <2>1, <2>2
  <2>4. \A k \in Connections :
          subscription'[k] \in {FirstSubscription[k], NextSubscription[k], None}
    BY DEF Webhooks, Owned
  <2>. QED
    BY <1>5, <2>3, <2>4 DEF Owned
<1>. QED
  BY <1>4, <1>8 DEF Webhooks

(* The steps of the webhook's side keep it. *)
LEMMA WebhooksStep == Webhooks /\ [Ingestion!Next]_Ingestion!vars => Webhooks'
<1>. SUFFICES ASSUME Webhooks, [Ingestion!Next]_Ingestion!vars PROVE Webhooks'
  OBVIOUS
<1>. USE WebhookConstants
     DEF Webhooks, Ingestion!TypeOK, Owned, Owns, Ingestion!Msg,
         Ingestion!Request, Ingestion!Stages, Ingestion!Conference,
         Ingestion!Idle, Ingestion!Goto, Ingestion!Reply200,
         Ingestion!Reply500, Ingestion!database, Ingestion!cloud
<1>1. ASSUME NEW h \in Handlers, NEW m \in Ids, Ingestion!Deliver(h, m)
      PROVE  Webhooks'
  BY <1>1 DEF Ingestion!Deliver
<1>2. ASSUME NEW m \in Ids, Ingestion!AckPoison(m) PROVE Webhooks'
  BY <1>2 DEF Ingestion!AckPoison
<1>3. ASSUME NEW h \in Handlers, Ingestion!CheckLedger(h) PROVE Webhooks'
  <2>1. CASE Ingestion!Reply200(h)
    BY <1>3, <2>1 DEF Ingestion!CheckLedger
  <2>2. CASE Ingestion!Goto(h, "record") /\ UNCHANGED unacked
    BY <1>3, <2>2 DEF Ingestion!CheckLedger
  <2>. QED
    BY <1>3, <2>1, <2>2 DEF Ingestion!CheckLedger
<1>4. ASSUME NEW h \in Handlers, Ingestion!RecordMessage(h) PROVE Webhooks'
  BY <1>4 DEF Ingestion!RecordMessage
<1>5. ASSUME NEW h \in Handlers, Ingestion!LookupSubscription(h)
      PROVE  Webhooks'
  BY <1>5 DEF Ingestion!LookupSubscription
<1>6. ASSUME NEW h \in Handlers, Ingestion!LoadConference(h) PROVE Webhooks'
  <2>1. CASE Ingestion!Goto(h, "save")
    BY <1>6, <2>1 DEF Ingestion!LoadConference
  <2>2. ASSUME NEW r \in conferences, Ingestion!GotoWithRow(h, "save", r)
        PROVE  Webhooks'
    BY <1>6, <2>2 DEF Ingestion!LoadConference, Ingestion!GotoWithRow
  <2>. QED
    BY <1>6, <2>1, <2>2 DEF Ingestion!LoadConference, Ingestion!RowsNamed
<1>7. ASSUME NEW h \in Handlers, Ingestion!InsertConference(h) PROVE Webhooks'
  BY <1>7 DEF Ingestion!InsertConference, Ingestion!RowsNamed
<1>8. ASSUME NEW h \in Handlers, Ingestion!UpdateConference(h) PROVE Webhooks'
  <2>1. CASE Ingestion!Reply500(h) /\ UNCHANGED conferences
    BY <1>8, <2>1 DEF Ingestion!UpdateConference
  <2>2. CASE /\ Ingestion!Goto(h, "refresh") /\ UNCHANGED unacked
             /\ \/ UNCHANGED conferences
                \/ /\ EventTranscript[req[h].msg] \in Transcripts
                   /\ conferences' = Ingestion!SetTranscript(req[h].id,
                                             EventTranscript[req[h].msg])
    BY <1>8, <2>2, MovesToRefresh DEF Ingestion!UpdateConference
  <2>. QED
    BY <1>8, <2>1, <2>2 DEF Ingestion!UpdateConference
<1>9. ASSUME NEW h \in Handlers, Ingestion!ReloadConference(h) PROVE Webhooks'
  BY <1>9 DEF Ingestion!ReloadConference, Ingestion!RowsNamed,
              Ingestion!GotoWithRow
<1>10. ASSUME NEW h \in Handlers, Ingestion!ReapplyTranscript(h)
       PROVE  Webhooks'
  <2>1. CASE Ingestion!Reply500(h) /\ UNCHANGED conferences
    BY <1>10, <2>1 DEF Ingestion!ReapplyTranscript
  <2>2. CASE /\ Ingestion!Goto(h, "refresh") /\ UNCHANGED unacked
             /\ \/ UNCHANGED conferences
                \/ /\ EventTranscript[req[h].msg] \in Transcripts
                   /\ conferences' = Ingestion!SetTranscript(req[h].id,
                                             EventTranscript[req[h].msg])
    BY <1>10, <2>2, MovesToRefresh DEF Ingestion!ReapplyTranscript
  <2>. QED
    BY <1>10, <2>1, <2>2 DEF Ingestion!ReapplyTranscript
<1>11. ASSUME NEW h \in Handlers, Ingestion!RefreshConference(h)
       PROVE  Webhooks'
  <2>1. CASE Ingestion!Reply500(h)
    BY <1>11, <2>1 DEF Ingestion!RefreshConference
  <2>2. CASE Ingestion!Goto(h, "enqueue") /\ UNCHANGED unacked
    BY <1>11, <2>2 DEF Ingestion!RefreshConference
  <2>. QED
    BY <1>11, <2>1, <2>2 DEF Ingestion!RefreshConference
<1>12. ASSUME NEW h \in Handlers, Ingestion!Enqueue(h) PROVE Webhooks'
  BY <1>12 DEF Ingestion!Enqueue
<1>13. ASSUME NEW h \in Handlers, Ingestion!Abort(h) PROVE Webhooks'
  BY <1>13 DEF Ingestion!Abort
<1>14. ASSUME NEW k \in Connections,
              \/ Ingestion!Resubscribe(k) \/ Ingestion!Unsubscribe(k)
              \/ Ingestion!DeleteConnection(k)
       PROVE  Webhooks'
  BY <1>14 DEF Ingestion!Resubscribe, Ingestion!Unsubscribe,
               Ingestion!DeleteConnection
<1>15. ASSUME NEW rows \in SUBSET conferences, Ingestion!DeleteMeeting(rows)
       PROVE  Webhooks'
  BY <1>15 DEF Ingestion!DeleteMeeting
<1>16. ASSUME UNCHANGED Ingestion!vars PROVE Webhooks'
  BY <1>16 DEF Ingestion!vars
<1>. QED
  BY <1>1, <1>2, <1>3, <1>4, <1>5, <1>6, <1>7, <1>8, <1>9, <1>10, <1>11,
     <1>12, <1>13, <1>14, <1>15, <1>16
     DEF Ingestion!Next, Ingestion!HandlerStep, Ingestion!Serve

----------------------------------------------------------------------------
(* Row i is there, or a user took it away. *)
Explained(i) ==
    \/ Live(i)
    \/ MeetingAt[i] \in Meetings \ meetings
    \/ \E k \in Connections \ connections :
          EventSubscription[i] \in {FirstSubscription[k], NextSubscription[k]}

(* Row i was enqueued for, after its commit. *)
Filed(i) ==
    /\ i \in Ids
    /\ \E m \in Ids : <<m, i>> \in enqueued
    /\ Explained(i)

(* What a process may have mapped of meetings. *)
Mapped(m, i) == m \in {None, MeetingAt[i]}

(* Whatever the pipeline knows of a row it has from an enqueue, and that   *)
(* from a handler that saw the row.                                        *)
Queued ==
    /\ \A h \in Handlers : req[h].pc = "enqueue" =>
         req[h].id \in Ids /\ Explained(req[h].id)
    /\ \A i \in Ids : jobs[i].status # "absent" => Filed(i)
    /\ \A w \in Workers : proc[w].pc # "idle" =>
         Filed(proc[w].id) /\ Mapped(proc[w].meeting, proc[w].id)
    /\ \A i \in Ids :
         /\ progress[i].meeting # None => Filed(i)
         /\ Mapped(progress[i].meeting, i)

JobType ==
    [status : {"absent", "queued", "running", "kept"}, tries : Nat]

Types ==
    /\ progress \in [Ids -> Progress]
    /\ transcripts \in [Ids -> Transcripts \cup {None}]
    /\ meetings \subseteq Meetings
    /\ jobs \in [Ids -> JobType]
    /\ proc \in [Procs -> Process]

Links == Webhooks /\ Types /\ Queued

----------------------------------------------------------------------------
(* The steps of the pipeline, as what they do to jobs, to the processes'   *)
(* ids and to the mapping of meetings.                                     *)

(* A step of process p, which only touches the job and the row it is for.  *)
Runs(p) ==
    LET i == proc[p].id
        working == p \in Workers /\ proc[p].pc # "idle"
    IN /\ UNCHANGED <<conferences, meetings>>
       /\ \A q \in Procs \ {p} : proc'[q] = proc[q]
       /\ p \in Workers /\ proc'[p].pc # "idle" =>
            /\ working
            /\ proc'[p].id = i
            /\ proc'[p].meeting = proc[p].meeting \/ Mapped(proc'[p].meeting, i)
       /\ \A j \in Ids :
            /\ jobs'[j] = jobs[j] \/ (working /\ j = i)
            /\ \/ progress'[j].meeting = progress[j].meeting
               \/ working /\ j = i /\ progress'[j].meeting = proc[p].meeting

(* A worker takes a queued job. *)
Takes(w, i) ==
    /\ UNCHANGED <<conferences, meetings, progress>>
    /\ \A q \in Procs \ {w} : proc'[q] = proc[q]
    /\ jobs[i].status # "absent"
    /\ \A j \in Ids \ {i} : jobs'[j] = jobs[j]
    /\ proc'[w].id = i /\ proc'[w].meeting = None

(* Results are forgotten. *)
Forgets ==
    /\ UNCHANGED <<conferences, meetings, progress, proc>>
    /\ \A j \in Ids : jobs'[j] = jobs[j] \/ jobs'[j].status = "absent"

Moves ==
    \/ \E p \in Procs : Runs(p)
    \/ \E w \in Workers, i \in Ids : Takes(w, i)
    \/ Forgets

(* What stands for a process after a step. *)
LEMMA ProcessUpdate ==
    ASSUME Types, NEW p \in Procs, NEW r \in Process,
           proc' = [proc EXCEPT ![p] = r]
    PROVE  /\ proc' \in [Procs -> Process]
           /\ proc'[p] = r
           /\ \A q \in Procs \ {p} : proc'[q] = proc[q]
  BY DEF Types

(* A process that goes on, stops or raises keeps its id and what it mapped.*)
LEMMA ProcMoves ==
    ASSUME Types, NEW p \in Procs,
           \/ \E pc \in PCs : Goto(p, pc)
           \/ proc' = [proc EXCEPT ![p] = Idle]
           \/ Raise(p)
    PROVE  /\ proc' \in [Procs -> Process]
           /\ \A q \in Procs \ {p} : proc'[q] = proc[q]
           /\ proc'[p].pc # "idle" =>
                proc'[p].id = proc[p].id /\ proc'[p].meeting = proc[p].meeting
<1>1. proc[p] \in Process
  BY DEF Types
<1>2. ASSUME NEW pc \in PCs, proc' = [proc EXCEPT ![p].pc = pc]
      PROVE  /\ proc' \in [Procs -> Process]
             /\ \A q \in Procs \ {p} : proc'[q] = proc[q]
             /\ proc'[p].id = proc[p].id /\ proc'[p].meeting = proc[p].meeting
  <2>. DEFINE r == [proc[p] EXCEPT !.pc = pc]
  <2>1. /\ r \in Process
        /\ r.id = proc[p].id /\ r.meeting = proc[p].meeting
    BY <1>1 DEF Process
  <2>2. proc' = [proc EXCEPT ![p] = r]
    BY <1>2
  <2>. HIDE DEF r
  <2>. QED
    BY <2>1, <2>2, ProcessUpdate
<1>3. CASE proc' = [proc EXCEPT ![p] = Idle]
  BY <1>3, IdleType, ProcessUpdate DEF Idle
<1>4. "failing" \in PCs
  BY DEF PCs
<1>5. Raise(p) => \/ proc' = [proc EXCEPT ![p].pc = "failing"]
                  \/ proc' = [proc EXCEPT ![p] = Idle]
  BY DEF Raise
<1>. QED
  BY <1>2, <1>3, <1>4, <1>5 DEF Goto

(* A job that ends or is to be run again. *)
LEMMA JobMoves ==
    ASSUME Types, NEW i \in Ids,
           \/ EndJob(i) \/ RetryJob(i)
    PROVE  /\ jobs' \in [Ids -> JobType]
           /\ \A j \in Ids \ {i} : jobs'[j] = jobs[j]
<1>1. jobs[i] \in JobType
  BY DEF Types
<1>2. CASE EndJob(i)
  BY <1>1, <1>2 DEF Types, JobType, EndJob, NoJob
<1>3. CASE jobs' = [jobs EXCEPT ![i].status = "queued"]
  BY <1>1, <1>3 DEF Types, JobType
<1>. QED
  BY <1>2, <1>3 DEF RetryJob

(* Each step of the pipeline moves like that, and keeps the types.         *)
LEMMA StepMoves ==
    ASSUME Links, PipelineStep
    PROVE  Types' /\ Moves
<1>. USE DEF database, redis
<1>1. /\ Types /\ Workers \subseteq Procs
      /\ Requests \subseteq Procs
      /\ \A w \in Workers : proc[w].pc # "idle" => proc[w].id \in Ids
  BY DEF Links, Queued, Filed, Procs
<1>2. \A r \in conferences : r.transcript \in Transcripts \cup {None}
  BY DEF Links, Webhooks, Ingestion!TypeOK, Ingestion!Conference
<1>3. ASSUME NEW p \in Procs,
             \/ \E pc \in PCs : Goto(p, pc)
             \/ proc' = [proc EXCEPT ![p] = Idle]
             \/ Raise(p),
             p \in Workers => proc[p].pc # "idle",
             UNCHANGED <<conferences, meetings, progress, transcripts, jobs>>
      PROVE  Types' /\ Runs(p)
  BY <1>1, <1>3, ProcMoves DEF Types, Runs
<1>4. ASSUME NEW w \in Workers, proc[w].pc # "idle",
             proc' = [proc EXCEPT ![w] = Idle],
             UNCHANGED <<conferences, meetings, progress, transcripts>>,
             \/ EndJob(proc[w].id) \/ RetryJob(proc[w].id)
      PROVE  Types' /\ Runs(w)
  <2>1. w \in Procs /\ proc[w].id \in Ids
    BY <1>1, <1>4
  <2>2. /\ jobs' \in [Ids -> JobType]
        /\ \A j \in Ids \ {proc[w].id} : jobs'[j] = jobs[j]
    BY <1>1, <1>4, <2>1, JobMoves
  <2>3. /\ proc' \in [Procs -> Process]
        /\ \A q \in Procs \ {w} : proc'[q] = proc[q]
        /\ proc'[w].pc = "idle"
    BY <1>1, <1>4, <2>1, IdleType, ProcessUpdate DEF Idle
  <2>. QED
    BY <1>1, <1>4, <2>2, <2>3 DEF Types, Runs
<1>5. ASSUME NEW w \in Workers, NEW r \in Process,
             proc[w].pc # "idle", proc' = [proc EXCEPT ![w] = r],
             r.id = proc[w].id,
             r.meeting = proc[w].meeting \/ Mapped(r.meeting, r.id),
             UNCHANGED <<conferences, meetings, progress, transcripts, jobs>>
      PROVE  Types' /\ Runs(w)
  BY <1>1, <1>5, ProcessUpdate DEF Types, Runs
<1>6. ASSUME NEW i \in Ids, ExpireResult(i)
      PROVE  Types' /\ Moves
  <2>1. jobs' \in [Ids -> JobType]
    BY <1>1, <1>6 DEF Types, JobType, ExpireResult, NoJob
  <2>. QED
    BY <1>1, <1>6, <2>1
       DEF Types, ExpireResult, NoJob, Forgets, Moves
<1>7. ASSUME NEW w \in Workers, NEW i \in Ids, StartJob(w, i)
      PROVE  Types' /\ Moves
  <2>. DEFINE r == [Idle EXCEPT !.pc = "load", !.id = i]
  <2>1. r \in Process /\ r.id = i /\ r.meeting = None
    BY DEF Idle, Process, PCs
  <2>2. proc' = [proc EXCEPT ![w] = r]
    BY <1>7 DEF StartJob
  <2>3. /\ jobs' \in [Ids -> JobType]
        /\ \A j \in Ids \ {i} : jobs'[j] = jobs[j]
        /\ jobs[i].status = "queued"
    BY <1>1, <1>7 DEF Types, JobType, StartJob
  <2>. HIDE DEF r
  <2>4. /\ proc' \in [Procs -> Process]
        /\ proc'[w] = r
        /\ \A q \in Procs \ {w} : proc'[q] = proc[q]
    BY <1>1, <2>1, <2>2, ProcessUpdate
  <2>5. UNCHANGED <<conferences, meetings, progress, transcripts>>
    BY <1>7 DEF StartJob
  <2>6. Takes(w, i)
    BY <2>1, <2>3, <2>4, <2>5 DEF Takes
  <2>. QED
    BY <1>1, <2>3, <2>4, <2>5, <2>6 DEF Types, Moves
<1>8. ASSUME NEW w \in Workers, LoadConference(w)
      PROVE  Types' /\ Runs(w)
  <2>1. CASE /\ EndJob(proc[w].id)
             /\ proc' = [proc EXCEPT ![w] = Idle]
    BY <1>4, <1>8, <2>1 DEF LoadConference
  <2>2. ASSUME NEW c \in conferences, NEW pc \in {"generate", "fetch"},
               proc' = [proc EXCEPT ![w].pc = pc, ![w].name = c.transcript],
               UNCHANGED jobs
        PROVE  Types' /\ Runs(w)
    <3>. DEFINE r == [proc[w] EXCEPT !.pc = pc, !.name = c.transcript]
    <3>1. proc[w] \in Process
      BY <1>1 DEF Types
    <3>2. /\ r \in Process /\ r.id = proc[w].id
          /\ r.meeting = proc[w].meeting
      BY <1>2, <3>1 DEF Process, PCs
    <3>3. proc' = [proc EXCEPT ![w] = r]
      BY <2>2
    <3>. HIDE DEF r
    <3>. QED
      BY <1>5, <1>8, <2>2, <3>2, <3>3 DEF LoadConference
  <2>. QED
    BY <1>8, <2>1, <2>2 DEF LoadConference
<1>9. ASSUME NEW w \in Workers, FetchTranscript(w)
      PROVE  Types' /\ Runs(w)
  BY <1>1, <1>3, <1>9 DEF FetchTranscript, PCs
<1>10. ASSUME NEW w \in Workers, MapMeeting(w)
       PROVE  Types' /\ Runs(w)
  <2>. DEFINE i == proc[w].id
              m == IF /\ progress[i].meeting = None /\ Live(i)
                      /\ MeetingAt[i] \in meetings
                     THEN MeetingAt[i] ELSE None
              r == [proc[w] EXCEPT !.pc = "save", !.meeting = m]
  <2>1. proc[w] \in Process /\ m \in Meetings \cup {None}
    BY <1>1 DEF Types
  <2>2. Mapped(m, i)
    BY DEF Mapped
  <2>3. proc' = [proc EXCEPT ![w].pc = "save", ![w].meeting = m]
    BY <1>10 DEF MapMeeting
  <2>. HIDE DEF m
  <2>4. r \in Process /\ r.id = i /\ r.meeting = m
    BY <2>1 DEF Process, PCs
  <2>5. proc' = [proc EXCEPT ![w] = r]
    BY <2>3
  <2>. HIDE DEF r
  <2>. QED
    BY <1>5, <1>10, <2>2, <2>4, <2>5 DEF MapMeeting
<1>11. ASSUME NEW w \in Workers, SaveTranscript(w)
       PROVE  Types' /\ Runs(w)
  <2>. DEFINE i == proc[w].id
              m == proc[w].meeting
  <2>1. /\ proc[w] \in Process /\ proc[w].pc # "idle"
        /\ i \in Ids /\ m \in Meetings \cup {None}
        /\ proc[w].name \in Transcripts \cup {None}
    BY <1>1, <1>11 DEF Types, SaveTranscript, Process
  <2>2. CASE Raise(w) /\ UNCHANGED <<transcripts, progress>>
    BY <1>1, <1>3, <1>11, <2>1, <2>2 DEF SaveTranscript
  <2>3. CASE /\ transcripts' = [transcripts EXCEPT ![i] = proc[w].name]
             /\ \/ UNCHANGED progress
                \/ progress' = [progress EXCEPT ![i].meeting = m]
             /\ Goto(w, "advance")
    <3>1. transcripts' \in [Ids -> Transcripts \cup {None}]
      BY <1>1, <2>1, <2>3 DEF Types
    <3>2. /\ progress' \in [Ids -> Progress]
          /\ \A j \in Ids :
               \/ progress'[j].meeting = progress[j].meeting
               \/ j = i /\ progress'[j].meeting = m
      BY <1>1, <2>1, <2>3 DEF Types, Progress
    <3>3. UNCHANGED <<conferences, meetings, jobs>>
      BY <1>11 DEF SaveTranscript
    <3>4. "advance" \in PCs
      BY DEF PCs
    <3>5. /\ proc' \in [Procs -> Process]
          /\ \A q \in Procs \ {w} : proc'[q] = proc[q]
          /\ proc'[w].pc # "idle" =>
               proc'[w].id = proc[w].id /\ proc'[w].meeting = proc[w].meeting
      BY <1>1, <2>3, <3>4, ProcMoves
    <3>. QED
      BY <1>1, <2>1, <3>1, <3>2, <3>3, <3>5 DEF Types, Runs
  <2>. QED
    BY <1>11, <2>2, <2>3 DEF SaveTranscript
<1>12. ASSUME NEW w \in Workers, proc[w].pc # "idle",
              NEW state \in States, NEW attempts \in Nat,
              \/ UNCHANGED progress
              \/ progress' = [progress EXCEPT ![proc[w].id].state = state]
              \/ progress' =
                   [progress EXCEPT ![proc[w].id].state = state,
                                    ![proc[w].id].attempts = attempts],
              UNCHANGED <<conferences, meetings, transcripts>>,
              proc' \in [Procs -> Process],
              \A q \in Procs \ {w} : proc'[q] = proc[q],
              proc'[w].pc # "idle" =>
                proc'[w].id = proc[w].id /\ proc'[w].meeting = proc[w].meeting,
              jobs' \in [Ids -> JobType],
              \A j \in Ids \ {proc[w].id} : jobs'[j] = jobs[j]
       PROVE  Types' /\ Runs(w)
  <2>1. /\ progress' \in [Ids -> Progress]
        /\ \A j \in Ids : progress'[j].meeting = progress[j].meeting
    <3>. DEFINE i == proc[w].id
    <3>1. /\ progress \in [Ids -> Progress]
          /\ i \in Ids /\ progress[i] \in Progress
      BY <1>1, <1>12 DEF Types
    <3>2. ASSUME NEW r \in Progress, r.meeting = progress[i].meeting,
                 progress' = [progress EXCEPT ![i] = r]
          PROVE  /\ progress' \in [Ids -> Progress]
                 /\ \A j \in Ids : progress'[j].meeting = progress[j].meeting
      BY <3>1, <3>2
    <3>3. CASE UNCHANGED progress
      BY <3>1, <3>3
    <3>4. CASE progress' = [progress EXCEPT ![i].state = state]
      <4>. DEFINE r == [progress[i] EXCEPT !.state = state]
      <4>1. r \in Progress /\ r.meeting = progress[i].meeting
        BY <3>1 DEF Progress
      <4>2. progress' = [progress EXCEPT ![i] = r]
        BY <3>4
      <4>. HIDE DEF r
      <4>. QED
        BY <3>2, <4>1, <4>2
    <3>5. CASE progress' = [progress EXCEPT ![i].state = state,
                                            ![i].attempts = attempts]
      <4>. DEFINE r == [progress[i] EXCEPT !.state = state,
                                           !.attempts = attempts]
      <4>1. r \in Progress /\ r.meeting = progress[i].meeting
        BY <3>1 DEF Progress
      <4>2. progress' = [progress EXCEPT ![i] = r]
        BY <3>5
      <4>. HIDE DEF r
      <4>. QED
        BY <3>2, <4>1, <4>2
    <3>. QED
      BY <1>12, <3>3, <3>4, <3>5
  <2>. QED
    BY <1>1, <1>12, <2>1 DEF Types, Runs
<1>13. ASSUME NEW w \in Workers, AdvanceState(w)
       PROVE  Types' /\ Runs(w)
  <2>1. /\ proc[w].pc # "idle" /\ 0 \in Nat
        /\ UNCHANGED <<conferences, meetings, transcripts, jobs>>
    BY <1>13 DEF AdvanceState
  <2>2. \/ \E pc \in PCs : Goto(w, pc)
        \/ Raise(w)
    BY <1>13 DEF AdvanceState, PCs
  <2>3. /\ proc' \in [Procs -> Process]
        /\ \A q \in Procs \ {w} : proc'[q] = proc[q]
        /\ proc'[w].pc # "idle" =>
             proc'[w].id = proc[w].id /\ proc'[w].meeting = proc[w].meeting
    BY <1>1, <2>2, ProcMoves
  <2>4. \/ UNCHANGED progress
        \/ progress' = [progress EXCEPT ![proc[w].id].state =
                          "transcript_fetched"]
    BY <1>13 DEF AdvanceState
  <2>5. /\ jobs' \in [Ids -> JobType]
        /\ \A j \in Ids \ {proc[w].id} : jobs'[j] = jobs[j]
        /\ "transcript_fetched" \in States
    BY <1>1, <2>1 DEF Types, States
  <2>. QED
    BY <1>12, <2>1, <2>3, <2>4, <2>5
<1>14. ASSUME NEW w \in Workers, CompleteState(w)
       PROVE  Types' /\ Runs(w)
  <2>1. /\ proc[w].pc # "idle" /\ 0 \in Nat
        /\ UNCHANGED <<conferences, meetings, transcripts>>
    BY <1>14 DEF CompleteState
  <2>2. \/ proc' = [proc EXCEPT ![w] = Idle]
        \/ Raise(w)
    BY <1>14 DEF CompleteState
  <2>3. /\ proc' \in [Procs -> Process]
        /\ \A q \in Procs \ {w} : proc'[q] = proc[q]
        /\ proc'[w].pc # "idle" =>
             proc'[w].id = proc[w].id /\ proc'[w].meeting = proc[w].meeting
    BY <1>1, <2>2, ProcMoves
  <2>4. \/ UNCHANGED progress
        \/ progress' = [progress EXCEPT ![proc[w].id].state =
                          "notes_generated"]
    BY <1>14 DEF CompleteState
  <2>5. UNCHANGED jobs \/ EndJob(proc[w].id)
    BY <1>14 DEF CompleteState
  <2>6. /\ jobs' \in [Ids -> JobType]
        /\ \A j \in Ids \ {proc[w].id} : jobs'[j] = jobs[j]
        /\ "notes_generated" \in States
    BY <1>1, <2>1, <2>5, JobMoves DEF Types, States
  <2>. QED
    BY <1>12, <2>1, <2>3, <2>4, <2>6
<1>15. ASSUME NEW w \in Workers, RecordFailure(w)
       PROVE  Types' /\ Runs(w)
  <2>. DEFINE n == progress[proc[w].id].attempts + 1
  <2>1. /\ proc[w].pc # "idle"
        /\ UNCHANGED <<conferences, meetings, transcripts>>
    BY <1>15 DEF RecordFailure
  <2>2. /\ proc' \in [Procs -> Process]
        /\ \A q \in Procs \ {w} : proc'[q] = proc[q]
        /\ proc'[w].pc # "idle" =>
             proc'[w].id = proc[w].id /\ proc'[w].meeting = proc[w].meeting
    BY <1>1, <1>15, ProcMoves DEF RecordFailure
  <2>3. /\ jobs' \in [Ids -> JobType]
        /\ \A j \in Ids \ {proc[w].id} : jobs'[j] = jobs[j]
    BY <1>1, <1>15, <2>1, JobMoves DEF RecordFailure
  <2>4. n \in Nat /\ "failed" \in States
    BY <1>1, <2>1 DEF Types, Progress, States
  <2>5. \/ UNCHANGED progress
        \/ progress' = [progress EXCEPT ![proc[w].id].state = "failed",
                                        ![proc[w].id].attempts = n]
    BY <1>15 DEF RecordFailure
  <2>. HIDE DEF n
  <2>. QED
    BY <1>12, <2>1, <2>2, <2>3, <2>4, <2>5
<1>16. ASSUME NEW w \in Workers, ReadTranscript(w)
       PROVE  Types' /\ Runs(w)
  <2>1. /\ proc[w].pc # "idle" /\ proc[w] \in Process
        /\ UNCHANGED <<conferences, meetings, progress, transcripts, jobs>>
    BY <1>1, <1>16 DEF ReadTranscript, Types
  <2>2. CASE Raise(w)
    BY <1>1, <1>3, <2>1, <2>2
  <2>. DEFINE text == transcripts[proc[w].id]
              r == [proc[w] EXCEPT !.pc = "summarize", !.text = text]
  <2>3. CASE proc' = [proc EXCEPT ![w].pc = "summarize", ![w].text = text]
    <3>1. text \in Transcripts \cup {None}
      BY <1>1, <2>1 DEF Types
    <3>2. proc' = [proc EXCEPT ![w] = r]
      BY <2>3
    <3>. HIDE DEF text
    <3>3. /\ r \in Process /\ r.id = proc[w].id
          /\ r.meeting = proc[w].meeting
      BY <2>1, <3>1 DEF Process, PCs
    <3>. HIDE DEF r
    <3>. QED
      BY <1>5, <2>1, <3>2, <3>3
  <2>. QED
    BY <1>16, <2>2, <2>3 DEF ReadTranscript
<1>17. ASSUME NEW p \in Procs, GenerateNotes(p)
       PROVE  Types' /\ Runs(p)
  <2>1. /\ proc[p].pc # "idle" /\ proc[p] \in Process
        /\ UNCHANGED <<conferences, meetings, progress, transcripts, jobs>>
    BY <1>1, <1>17 DEF Types, GenerateNotes, Summarize,
                       SelectNotes, WriteNotes
  <2>2. CASE Summarize(p)
    BY <1>3, <2>1, <2>2 DEF Summarize, PCs
  <2>3. CASE SelectNotes(p)
    <3>. DEFINE new == notes[proc[p].id] = None
                r == [proc[p] EXCEPT !.pc = "write", !.new = new]
    <3>1. proc' = [proc EXCEPT ![p] = r]
      BY <2>3 DEF SelectNotes
    <3>2. new \in BOOLEAN
      OBVIOUS
    <3>. HIDE DEF new
    <3>3. /\ r \in Process /\ r.id = proc[p].id
          /\ r.meeting = proc[p].meeting
      BY <2>1, <3>2 DEF Process, PCs
    <3>. HIDE DEF r
    <3>4. /\ proc' \in [Procs -> Process]
          /\ proc'[p] = r
          /\ \A q \in Procs \ {p} : proc'[q] = proc[q]
      BY <1>1, <3>1, <3>3, ProcessUpdate
    <3>. QED
      BY <1>1, <2>1, <3>3, <3>4 DEF Types, Runs
  <2>4. CASE WriteNotes(p)
    <3>1. \/ proc' = [proc EXCEPT ![p].pc = "complete"]
          \/ proc' = [proc EXCEPT ![p] = Idle]
          \/ Raise(p)
      BY <2>4 DEF WriteNotes
    <3>. QED
      BY <1>3, <2>1, <3>1 DEF Goto, PCs
  <2>. QED
    BY <1>17, <2>2, <2>3, <2>4 DEF GenerateNotes
<1>18. ASSUME NEW q \in Requests, NEW i \in Ids,
              Regenerate(q, i)
       PROVE  Types' /\ Runs(q)
  <2>. DEFINE r == [Idle EXCEPT !.pc = "summarize", !.id = i,
                                         !.text = transcripts[i]]
  <2>1. r \in Process
    BY <1>1 DEF Types, Idle, Process, PCs
  <2>2. proc' = [proc EXCEPT ![q] = r]
    BY <1>18 DEF Regenerate
  <2>. HIDE DEF r
  <2>3. /\ proc' \in [Procs -> Process]
        /\ \A s \in Procs \ {q} : proc'[s] = proc[s]
    BY <1>1, <2>1, <2>2, ProcessUpdate
  <2>4. UNCHANGED <<conferences, meetings, progress, transcripts, jobs>>
    BY <1>18 DEF Regenerate
  <2>5. q \notin Workers
    BY MeetNotesAssumption, PipelineAssumption
  <2>. QED
    BY <1>1, <2>3, <2>4, <2>5 DEF Types, Runs
<1>19. ASSUME Faults
       PROVE  Types' /\ \E p \in Procs : Runs(p)
  <2>1. ASSUME NEW p \in Procs, CallRaises(p)
        PROVE  Types' /\ Runs(p)
    BY <1>3, <2>1 DEF CallRaises
  <2>2. ASSUME NEW w \in Workers,
               \/ UncaughtRaise(w) \/ WorkerCrashes(w)
               \/ JobTimesOut(w)
        PROVE  Types' /\ Runs(w)
    BY <1>4, <2>2 DEF UncaughtRaise, WorkerCrashes,
                      JobTimesOut
  <2>. QED
    BY <1>1, <1>19, <2>1, <2>2 DEF Faults
<1>20. ASSUME NEW w \in Workers, RunPipeline(w)
       PROVE  Types' /\ Runs(w)
  BY <1>1, <1>8, <1>9, <1>10, <1>11, <1>13, <1>14, <1>15, <1>16, <1>17, <1>20
     DEF RunPipeline
<1>. QED
  BY <1>1, <1>6, <1>7, <1>17, <1>18, <1>19, <1>20
     DEF PipelineStep, Moves

----------------------------------------------------------------------------
(* What was explained and filed stays so, if no row goes unexplained.      *)
LEMMA FiledStays ==
    ASSUME enqueued \subseteq enqueued', meetings' \subseteq meetings,
           connections' \subseteq connections,
           \A i \in Ids : Live(i) => Explained(i)',
           NEW i \in Ids
    PROVE  /\ Explained(i) => Explained(i)'
           /\ Filed(i) => Filed(i)'
  BY DEF Filed, Explained

(* The webhook takes no row away, and a handler about to enqueue has just  *)
(* seen its row.                                                           *)
HandlersDo ==
    /\ UNCHANGED connections
    /\ enqueued \subseteq enqueued'
    /\ \A r \in conferences : \E q \in conferences' : q.id = r.id
    /\ \A h \in Handlers : req'[h].pc = "enqueue" =>
         \/ req'[h] = req[h]
         \/ /\ req'[h].id \in Ids
            /\ \E r \in conferences' : r.id = req'[h].id

LEMMA HandlersStep ==
    ASSUME Links,
           Webhook \/ \E h \in Handlers : Ingestion!Enqueue(h)
    PROVE  HandlersDo
<1>. USE DEF Ingestion!Msg, Ingestion!Goto, Ingestion!Idle,
             Ingestion!Reply200, Ingestion!Reply500, Ingestion!database,
             Ingestion!cloud
<1>1. /\ req \in [Handlers -> Ingestion!Request]
      /\ conferences \subseteq Ingestion!Conference
      /\ \A h \in Handlers : req[h].pc # "idle" => req[h].msg \in Ids
      /\ EventTranscript \in [Ids -> Transcripts \cup {None}]
  BY WebhookConstants DEF Links, Webhooks, Ingestion!TypeOK, Owned
<1>3. ASSUME NEW h \in Handlers, NEW m \in Ids, Ingestion!Deliver(h, m)
      PROVE  HandlersDo
  BY <1>1, <1>3 DEF HandlersDo, Ingestion!Deliver, Ingestion!Request
<1>4. ASSUME NEW h \in Handlers, Ingestion!CheckLedger(h) PROVE HandlersDo
  BY <1>1, <1>4 DEF HandlersDo, Ingestion!CheckLedger, Ingestion!Request
<1>5. ASSUME NEW h \in Handlers, Ingestion!RecordMessage(h) PROVE HandlersDo
  BY <1>1, <1>5 DEF HandlersDo, Ingestion!RecordMessage, Ingestion!Request
<1>6. ASSUME NEW h \in Handlers, Ingestion!LookupSubscription(h)
      PROVE  HandlersDo
  BY <1>1, <1>6 DEF HandlersDo, Ingestion!LookupSubscription, Ingestion!Request
<1>7. ASSUME NEW h \in Handlers, Ingestion!LoadConference(h) PROVE HandlersDo
  BY <1>1, <1>7 DEF HandlersDo, Ingestion!LoadConference,
                    Ingestion!GotoWithRow, Ingestion!Request
<1>8. ASSUME NEW h \in Handlers, Ingestion!InsertConference(h)
      PROVE  HandlersDo
  BY <1>1, <1>8 DEF HandlersDo, Ingestion!InsertConference, Ingestion!Request
<1>9. ASSUME NEW h \in Handlers, Ingestion!UpdateConference(h)
      PROVE  HandlersDo
  <2>1. \A r \in conferences : \E q \in conferences' : q.id = r.id
    BY <1>1, <1>9, SetKeepsRows DEF Ingestion!UpdateConference
  <2>. QED
    BY <1>1, <1>9, <2>1
       DEF HandlersDo, Ingestion!UpdateConference, Ingestion!Request
<1>10. ASSUME NEW h \in Handlers, Ingestion!ReloadConference(h)
       PROVE  HandlersDo
  BY <1>1, <1>10 DEF HandlersDo, Ingestion!ReloadConference,
                     Ingestion!GotoWithRow, Ingestion!Request
<1>11. ASSUME NEW h \in Handlers, Ingestion!ReapplyTranscript(h)
       PROVE  HandlersDo
  <2>1. EventTranscript[req[h].msg] \in Transcripts
    BY <1>1, <1>11, MeetNotesAssumption, PipelineAssumption
       DEF Links, Webhooks, Owned, Ingestion!ReapplyTranscript
  <2>2. \A r \in conferences : \E q \in conferences' : q.id = r.id
    BY <1>1, <1>11, <2>1, SetKeepsRows DEF Ingestion!ReapplyTranscript
  <2>. QED
    BY <1>1, <1>11, <2>2
       DEF HandlersDo, Ingestion!ReapplyTranscript, Ingestion!Request
<1>12. ASSUME NEW h \in Handlers, Ingestion!RefreshConference(h)
       PROVE  HandlersDo
  BY <1>1, <1>12 DEF HandlersDo, Ingestion!RefreshConference,
                     Ingestion!RowsWithId, Ingestion!Request,
                     Ingestion!Conference
<1>13. ASSUME NEW h \in Handlers, Ingestion!Enqueue(h) \/ Ingestion!Abort(h)
       PROVE  HandlersDo
  BY <1>1, <1>13 DEF HandlersDo, Ingestion!Enqueue, Ingestion!Abort,
                     Ingestion!Request
<1>14. ASSUME UNCHANGED <<req, connections, conferences, enqueued>>
       PROVE  HandlersDo
  BY <1>14 DEF HandlersDo
<1>. QED
  BY <1>3, <1>4, <1>5, <1>6, <1>7, <1>8, <1>9, <1>10, <1>11, <1>12, <1>13, <1>14
     DEF Webhook, Ingestion!Serve, Ingestion!AckPoison, Ingestion!Resubscribe,
         Ingestion!Unsubscribe

----------------------------------------------------------------------------
LEMMA InitLinks == SystemInit => Links
<1>. SUFFICES ASSUME SystemInit PROVE Links
  OBVIOUS
<1>1. Webhooks
  BY WebhooksInit DEF SystemInit
<1>2. Types
  BY IdleType DEF SystemInit, InitPipeline, Types, JobType, NoJob,
                  NewProgress, Progress, States
<1>3. Queued
  BY DEF SystemInit, InitPipeline, Queued, Mapped, Ingestion!Init,
         Ingestion!Idle, Idle, NoJob, NewProgress,
         Procs
<1>. QED
  BY <1>1, <1>2, <1>3 DEF Links

(* The rows that go with a meeting: enqueued, in that meeting, and of a    *)
(* user who deletes meetings.                                              *)
LEMMA MeetingsRows ==
    ASSUME Links, NEW m \in Meetings, DeleteMeeting(m)
    PROVE  /\ conferences' \subseteq conferences
           /\ \A r \in conferences \ conferences' :
                /\ MeetingAt[r.id] = m
                /\ Filed(r.id)
                /\ r.conn \in Volatile
<1>1. conferences' = {r \in conferences :
                        r.id \notin {i \in Ids : progress[i].meeting = m}}
  BY DEF DeleteMeeting, Cascade
<1>2. m # None
  BY MeetNotesAssumption, PipelineAssumption
<1>3. ASSUME NEW r \in conferences \ conferences'
      PROVE  MeetingAt[r.id] = m /\ Filed(r.id) /\ r.conn \in Volatile
  <2>1. r.id \in Ids /\ progress[r.id].meeting = m
    BY <1>1, <1>3
  <2>2. Filed(r.id) /\ MeetingAt[r.id] = m
    BY <1>2, <2>1 DEF Links, Queued, Mapped
  <2>3. Owns(r.conn, r.id)
    BY <1>3 DEF Links, Webhooks, Owned
  <2>. QED
    BY <1>2, <2>1, <2>2, <2>3, MeetNotesAssumption, PipelineAssumption DEF Owns
<1>. QED
  BY <1>1, <1>3

(* Every step of the whole is one of the webhook's side, or none. *)
LEMMA IngestionStep ==
    ASSUME Links, [SystemNext]_systemVars
    PROVE  [Ingestion!Next]_Ingestion!vars
<1>1. CASE Webhook
  BY <1>1 DEF Webhook, Ingestion!Next, Ingestion!HandlerStep
<1>2. ASSUME NEW h \in Handlers, Enqueue(h)
      PROVE  [Ingestion!Next]_Ingestion!vars
  BY <1>2 DEF Enqueue, Ingestion!Next, Ingestion!HandlerStep
<1>3. CASE PipelineStep /\ UNCHANGED ingestionOnly
  <2>1. UNCHANGED conferences
    BY <1>3, StepMoves DEF Moves, Runs, Takes, Forgets
  <2>. QED
    BY <1>3, <2>1 DEF ingestionOnly, Ingestion!vars
<1>4. ASSUME NEW k \in Connections, Disconnect(k)
      PROVE  [Ingestion!Next]_Ingestion!vars
  BY <1>4 DEF Disconnect, Ingestion!Next
<1>5. ASSUME NEW m \in Meetings, RemoveMeeting(m)
      PROVE  [Ingestion!Next]_Ingestion!vars
  <2>. DEFINE rows == conferences \ conferences'
  <2>1. /\ rows \in SUBSET conferences
        /\ conferences' = conferences \ rows
        /\ \A r \in rows : r.conn \in Volatile /\ Filed(r.id)
    BY <1>5, MeetingsRows DEF RemoveMeeting
  <2>2. UNCHANGED ingestionOnly
    BY <1>5 DEF RemoveMeeting
  <2>. HIDE DEF rows
  <2>3. Ingestion!DeleteMeeting(rows)
    BY <2>1, <2>2 DEF Ingestion!DeleteMeeting, Filed, ingestionOnly,
                      Ingestion!cloud
  <2>. QED
    BY <2>1, <2>3 DEF Ingestion!Next
<1>6. CASE UNCHANGED systemVars
  BY <1>6 DEF systemVars, ingestionOnly, Ingestion!vars
<1>. QED
  BY <1>1, <1>2, <1>3, <1>4, <1>5, <1>6 DEF SystemNext

(* What is known of rows stays so in a step that changes nothing the       *)
(* pipeline knows them by and lets no row go unexplained.                  *)
LEMMA QueuedStays ==
    ASSUME Links, enqueued \subseteq enqueued', meetings' \subseteq meetings,
           connections' \subseteq connections,
           \A i \in Ids : Live(i) => Explained(i)',
           \A h \in Handlers : req'[h].pc = "enqueue" =>
             \/ req'[h] = req[h]
             \/ \E i \in Ids : i = req'[h].id /\ Explained(i)',
           \A i \in Ids : jobs'[i] = jobs[i] \/ Filed(i)',
           UNCHANGED <<progress, proc>>
    PROVE  Queued'
<1>1. \A i \in Ids : /\ Explained(i) => Explained(i)'
                     /\ Filed(i) => Filed(i)'
  BY FiledStays
<1>2. ASSUME NEW h \in Handlers, req'[h].pc = "enqueue"
      PROVE  \E i \in Ids : i = req'[h].id /\ Explained(i)'
  BY <1>1, <1>2 DEF Links, Queued
<1>3. ASSUME NEW i \in Ids, jobs'[i].status # "absent"
      PROVE  Filed(i)'
  BY <1>1, <1>3 DEF Links, Queued
<1>4. ASSUME NEW w \in Workers, proc[w].pc # "idle"
      PROVE  \E i \in Ids :
               i = proc[w].id /\ Filed(i)' /\ Mapped(proc[w].meeting, i)
  BY <1>1, <1>4 DEF Links, Queued, Filed
<1>5. ASSUME NEW i \in Ids
      PROVE  /\ progress[i].meeting # None => Filed(i)'
             /\ Mapped(progress[i].meeting, i)
  BY <1>1, <1>5 DEF Links, Queued
<1>. HIDE DEF Explained, Filed
<1>. QED
  BY <1>2, <1>3, <1>4, <1>5 DEF Queued, Mapped

(* The pipeline learns of no row but those enqueued for. *)
LEMMA QueuedMoves ==
    ASSUME Links, Moves, UNCHANGED ingestionOnly
    PROVE  Queued'
<1>1. UNCHANGED <<req, enqueued, connections, conferences, meetings>>
  BY DEF Moves, Runs, Takes, Forgets, ingestionOnly
<1>2. \A i \in Ids : /\ Explained(i) => Explained(i)'
                     /\ Filed(i) => Filed(i)'
  BY <1>1 DEF Explained, Filed, Live
<1>3. \A h \in Handlers : req'[h].pc = "enqueue" =>
        \E i \in Ids : i = req'[h].id /\ Explained(i)
  BY <1>1 DEF Links, Queued
<1>4. \A i \in Ids :
        /\ jobs'[i].status # "absent" => Filed(i)
        /\ progress'[i].meeting # None => Filed(i)
        /\ Mapped(progress'[i].meeting, i)
  <2>1. ASSUME NEW p \in Procs, Runs(p)
        PROVE  \A i \in Ids :
                 /\ jobs'[i].status # "absent" => Filed(i)
                 /\ progress'[i].meeting # None => Filed(i)
                 /\ Mapped(progress'[i].meeting, i)
    BY <2>1 DEF Runs, Links, Queued
  <2>2. ASSUME NEW w \in Workers, NEW i \in Ids, Takes(w, i)
        PROVE  \A j \in Ids :
                 /\ jobs'[j].status # "absent" => Filed(j)
                 /\ progress'[j].meeting # None => Filed(j)
                 /\ Mapped(progress'[j].meeting, j)
    BY <2>2 DEF Takes, Links, Queued
  <2>3. CASE Forgets
    BY <2>3 DEF Forgets, Links, Queued
  <2>. QED
    BY <2>1, <2>2, <2>3 DEF Moves
<1>5. \A w \in Workers : proc'[w].pc # "idle" =>
        \E i \in Ids :
          i = proc'[w].id /\ Filed(i) /\ Mapped(proc'[w].meeting, i)
  <2>0. \A w \in Workers : proc[w].pc # "idle" =>
          \E i \in Ids :
            i = proc[w].id /\ Filed(i) /\ Mapped(proc[w].meeting, i)
    BY DEF Links, Queued, Filed
  <2>1. ASSUME NEW p \in Procs, Runs(p), NEW w \in Workers,
               proc'[w].pc # "idle"
        PROVE  \E i \in Ids :
                 i = proc'[w].id /\ Filed(i) /\ Mapped(proc'[w].meeting, i)
    <3>1. CASE w = p
      BY <2>0, <2>1, <3>1 DEF Runs
    <3>2. CASE w # p
      BY <2>0, <2>1, <3>2 DEF Runs, Procs
    <3>. QED
      BY <3>1, <3>2
  <2>2. ASSUME NEW v \in Workers, NEW i \in Ids, Takes(v, i),
               NEW w \in Workers, proc'[w].pc # "idle"
        PROVE  \E j \in Ids :
                 j = proc'[w].id /\ Filed(j) /\ Mapped(proc'[w].meeting, j)
    <3>1. CASE w = v
      BY <2>2, <3>1 DEF Takes, Links, Queued, Mapped
    <3>2. CASE w # v
      BY <2>0, <2>2, <3>2 DEF Takes, Procs
    <3>. QED
      BY <3>1, <3>2
  <2>3. CASE Forgets
    BY <2>0, <2>3 DEF Forgets
  <2>. QED
    BY <2>1, <2>2, <2>3 DEF Moves
<1>6. \A h \in Handlers : req'[h].pc = "enqueue" =>
        \E i \in Ids : i = req'[h].id /\ Explained(i)'
  BY <1>2, <1>3
<1>7. \A w \in Workers : proc'[w].pc # "idle" =>
        \E i \in Ids :
          i = proc'[w].id /\ Filed(i)' /\ Mapped(proc'[w].meeting, i)
  BY <1>2, <1>5
<1>8. \A i \in Ids :
        /\ jobs'[i].status # "absent" => Filed(i)'
        /\ progress'[i].meeting # None => Filed(i)'
        /\ Mapped(progress'[i].meeting, i)
  BY <1>2, <1>4
<1>9. \A h \in Handlers : (req[h].pc = "enqueue" =>
        req[h].id \in Ids /\ Explained(req[h].id))'
  BY <1>6
<1>10. \A i \in Ids : (jobs[i].status # "absent" => Filed(i))'
  BY <1>8
<1>11. \A w \in Workers : (proc[w].pc # "idle" =>
         Filed(proc[w].id) /\ Mapped(proc[w].meeting, proc[w].id))'
  BY <1>7 DEF Mapped
<1>12. \A i \in Ids :
         (/\ progress[i].meeting # None => Filed(i)
          /\ Mapped(progress[i].meeting, i))'
  BY <1>8 DEF Mapped
<1>. QED
  BY <1>9, <1>10, <1>11, <1>12 DEF Queued

(* What a deletion cascades to is text. *)
LEMMA CascadeTypes ==
    ASSUME Types, NEW gone, Cascade(gone)
    PROVE  transcripts' \in [Ids -> Transcripts \cup {None}]
  BY DEF Types, Cascade

LEMMA LinksStep == Links /\ [SystemNext]_systemVars => Links'
<1>. SUFFICES ASSUME Links, [SystemNext]_systemVars PROVE Links'
  OBVIOUS
<1>1. Webhooks'
  BY IngestionStep, WebhooksStep DEF Links
<1>2. ASSUME Webhook PROVE Types' /\ Queued'
  <2>1. UNCHANGED pipelineOnly
    BY <1>2 DEF Webhook
  <2>2. HandlersDo
    BY <1>2, HandlersStep
  <2>3. \A i \in Ids : Live(i) => Explained(i)'
    BY <2>2 DEF HandlersDo, Live, Explained
  <2>4. \A h \in Handlers : req'[h].pc = "enqueue" =>
          \/ req'[h] = req[h]
          \/ \E i \in Ids : i = req'[h].id /\ Explained(i)'
    BY <2>2 DEF HandlersDo, Explained, Live
  <2>5. Queued'
    BY <2>1, <2>2, <2>3, <2>4, QueuedStays DEF HandlersDo, pipelineOnly
  <2>. QED
    BY <2>1, <2>5 DEF Links, Types, pipelineOnly
<1>3. ASSUME NEW h \in Handlers, Enqueue(h) PROVE Types' /\ Queued'
  <2>1. /\ UNCHANGED <<progress, transcripts, notes, meetings, proc>>
        /\ UNCHANGED <<conferences, connections>>
        /\ req[h].pc = "enqueue"
        /\ enqueued' = enqueued \cup {<<req[h].msg, req[h].id>>}
    BY <1>3 DEF Enqueue, Ingestion!Enqueue, Ingestion!database, Ingestion!Msg
  <2>2. HandlersDo
    BY <1>3, HandlersStep DEF Enqueue
  <2>3. \A i : Explained(i)' <=> Explained(i)
    BY <2>1 DEF Explained, Live
  <2>4. /\ req[h].msg \in Ids
        /\ req[h].id \in Ids /\ Explained(req[h].id)
    BY <2>1 DEF Links, Webhooks, Owned, Queued
  <2>5. /\ jobs' \in [Ids -> JobType]
        /\ \A i \in Ids : jobs'[i] = jobs[i] \/ i = req[h].id
    BY <1>3, <2>4 DEF Enqueue, EnqueueJob, Links, Types, JobType
  <2>6. \A i \in Ids : i = req[h].id => Filed(i)'
    BY <2>1, <2>3, <2>4 DEF Filed
  <2>7. \A i \in Ids : Live(i) => Explained(i)'
    BY <2>3 DEF Explained
  <2>8. \A g \in Handlers : req'[g].pc = "enqueue" =>
          \/ req'[g] = req[g]
          \/ \E i \in Ids : i = req'[g].id /\ Explained(i)'
    BY <2>2 DEF HandlersDo, Explained, Live
  <2>9. Queued'
    BY <2>1, <2>2, <2>5, <2>6, <2>7, <2>8, QueuedStays DEF HandlersDo
  <2>. QED
    BY <2>1, <2>5, <2>9 DEF Links, Types
<1>4. ASSUME PipelineStep /\ UNCHANGED ingestionOnly
      PROVE  Types' /\ Queued'
  BY <1>4, StepMoves, QueuedMoves
<1>5. ASSUME NEW k \in Connections, Disconnect(k) PROVE Types' /\ Queued'
  <2>1. /\ UNCHANGED <<req, enqueued, progress, meetings, jobs, proc>>
        /\ connections' = connections \ {k}
        /\ conferences' = {r \in conferences : r.conn # k}
    BY <1>5 DEF Disconnect, Ingestion!DeleteConnection
  <2>2. transcripts' \in [Ids -> Transcripts \cup {None}]
    BY <1>5, CascadeTypes DEF Disconnect, Links
  <2>3. ASSUME NEW i \in Ids, Live(i) PROVE Explained(i)'
    <3>1. PICK r \in conferences : r.id = i
      BY <2>3 DEF Live
    <3>2. CASE r.conn # k
      BY <2>1, <3>1, <3>2 DEF Explained, Live
    <3>3. CASE r.conn = k
      <4>1. Owns(k, i)
        BY <3>1, <3>3 DEF Links, Webhooks, Owned
      <4>. QED
        BY <2>1, <4>1 DEF Owns, Explained
    <3>. QED
      BY <3>2, <3>3
  <2>4. Queued'
    BY <2>1, <2>3, QueuedStays
  <2>. QED
    BY <2>1, <2>2, <2>4 DEF Links, Types
<1>6. ASSUME NEW m \in Meetings, RemoveMeeting(m) PROVE Types' /\ Queued'
  <2>1. /\ UNCHANGED <<req, enqueued, connections, progress, jobs, proc>>
        /\ meetings' = meetings \ {m}
    BY <1>6 DEF RemoveMeeting, ingestionOnly, DeleteMeeting,
                redis
  <2>2. transcripts' \in [Ids -> Transcripts \cup {None}]
    BY <1>6, CascadeTypes DEF RemoveMeeting, DeleteMeeting, Links
  <2>3. ASSUME NEW i \in Ids, Live(i) PROVE Explained(i)'
    <3>1. PICK r \in conferences : r.id = i
      BY <2>3 DEF Live
    <3>2. CASE r \in conferences'
      BY <3>1, <3>2 DEF Explained, Live
    <3>3. CASE r \notin conferences'
      <4>1. MeetingAt[i] = m
        BY <1>6, <3>1, <3>3, MeetingsRows DEF RemoveMeeting
      <4>. QED
        BY <2>1, <4>1 DEF Explained
    <3>. QED
      BY <3>2, <3>3
  <2>4. Queued'
    BY <2>1, <2>3, QueuedStays
  <2>. QED
    BY <2>1, <2>2, <2>4 DEF Links, Types
<1>7. ASSUME UNCHANGED systemVars PROVE Types' /\ Queued'
  <2>1. UNCHANGED <<req, enqueued, connections, conferences, progress,
                    transcripts, meetings, jobs, proc>>
    BY <1>7 DEF systemVars, ingestionOnly, pipelineOnly
  <2>2. \A i \in Ids : Live(i) => Explained(i)'
    BY <2>1 DEF Explained, Live
  <2>3. Queued'
    BY <2>1, <2>2, QueuedStays
  <2>. QED
    BY <2>1, <2>3 DEF Links, Types
<1>. QED
  BY <1>1, <1>2, <1>3, <1>4, <1>5, <1>6, <1>7 DEF Links, SystemNext

----------------------------------------------------------------------------
(* The inductive invariant: a handler works for the connection its event   *)
(* came under; a job, a run and a mapping are of a row that was enqueued;  *)
(* and a row that was enqueued is there or was deleted by its user.        *)
THEOREM LinksInvariance == SystemSpec => []Links
<1>1. SystemInit => Links
  BY InitLinks
<1>2. Links /\ [SystemNext]_systemVars => Links'
  BY LinksStep
<1>. QED
  BY <1>1, <1>2, PTL DEF SystemSpec

(* A worker that finds no row for its job finds it deleted by its user     *)
(* (event_service.py enqueues after the commit, and nothing but            *)
(* delete_connection and delete_meeting removes a row).                    *)
THEOREM CommittedRows == SystemSpec => []JobsAreOfCommittedRows
<1>1. Links => JobsAreOfCommittedRows
  BY DEF Links, Queued, Filed, Explained, JobsAreOfCommittedRows
<1>. QED
  BY LinksInvariance, <1>1, PTL

(* With the pipeline and the users at work beside it the webhook makes     *)
(* only steps of EventIngestion: the rows that vanish with a meeting are   *)
(* rows a handler enqueued, of a user who deletes.                         *)
THEOREM RefinesIngestion == SystemSpec => ImplementsIngestion
<1>1. SystemInit => Ingestion!Init
  BY DEF SystemInit
<1>2. Links /\ [SystemNext]_systemVars => [Ingestion!Next]_Ingestion!vars
  BY IngestionStep
<1>. QED
  BY LinksInvariance, <1>1, <1>2, PTL
     DEF SystemSpec, ImplementsIngestion, Ingestion!Spec

----------------------------------------------------------------------------
(* What the pipeline alone guarantees it also guarantees in the whole,     *)
(* where rows appear while it runs: an id no handler may insert any more   *)
(* is used up, and so is every id the pipeline ever heard of.              *)

(* A message is in the hands of one handler that may insert its row, and   *)
(* the ledger knows it.                                                    *)
Sole ==
    \A h \in Handlers : MayInsert(h) =>
        /\ req[h].msg \in ledger
        /\ \A g \in Handlers \ {h} : MayInsert(g) => req[g].msg # req[h].msg

(* The webhook, or the pipeline, has to do with row i. *)
Received(i) ==
    \/ Live(i)
    \/ \E h \in Handlers : req[h].id = i
    \/ \E m \in Ids : <<m, i>> \in enqueued

Begun(i) ==
    \/ \E p \in Procs : proc[p].id = i
    \/ progress[i].state # "pending"

Uses == Sole /\ \A i \in Ids : Received(i) \/ Begun(i) => Used(i)

SystemInv == Links /\ Uses /\ IInv

(* What a handler that is not about to insert a row does to all this ...   *)
Carries(h) ==
    /\ \A g \in Handlers \ {h} : req'[g] = req[g]
    /\ MayInsert(h)' => MayInsert(h) /\ req'[h].msg = req[h].msg
    /\ \A i \in Ids : req'[h].id = i => req[h].id = i \/ Live(i)
    /\ UNCHANGED ledger
    /\ \A i \in Ids : Live(i)' => Live(i)
    /\ \A m, i \in Ids :
         <<m, i>> \in enqueued' => <<m, i>> \in enqueued \/ req[h].id = i

(* ... one that gets past the ledger ... *)
Passes(h) ==
    /\ \A g \in Handlers \ {h} : req'[g] = req[g]
    /\ req[h].msg \notin ledger
    /\ ledger' = ledger \cup {req[h].msg}
    /\ req'[h].msg = req[h].msg /\ req'[h].id = req[h].id
    /\ UNCHANGED <<conferences, enqueued>>

(* ... and one that does insert. *)
Inserts(h) ==
    /\ \A g \in Handlers \ {h} : req'[g] = req[g]
    /\ MayInsert(h) /\ ~MayInsert(h)'
    /\ req'[h].msg = req[h].msg /\ req'[h].id = req[h].msg
    /\ \A i \in Ids : Live(i)' => Live(i) \/ i = req[h].msg
    /\ UNCHANGED <<ledger, enqueued>>

(* No handler moves. *)
Rests ==
    /\ UNCHANGED <<req, ledger, enqueued>>
    /\ \A i \in Ids : Live(i)' => Live(i)

LEMMA HandlingStep ==
    ASSUME Webhooks, [Ingestion!Next]_Ingestion!vars
    PROVE  \/ \E h \in Handlers : Carries(h) \/ Passes(h) \/ Inserts(h)
           \/ Rests
<1>. USE DEF Ingestion!Msg, Ingestion!Goto, Ingestion!Idle,
             Ingestion!Reply200, Ingestion!Reply500, Ingestion!database,
             Ingestion!cloud
<1>1. /\ req \in [Handlers -> Ingestion!Request]
      /\ conferences \subseteq Ingestion!Conference
      /\ None \notin Ids
      /\ EventTranscript \in [Ids -> Transcripts \cup {None}]
      /\ \A h \in Handlers : req[h].pc # "idle" => req[h].msg \in Ids
      /\ \A h \in Handlers : req[h].pc = "reapply" =>
           EventTranscript[req[h].msg] # None
  BY MeetNotesAssumption, PipelineAssumption
     DEF Webhooks, Ingestion!TypeOK, Owned
<1>2. UNCHANGED conferences => \A i \in Ids : Live(i)' => Live(i)
  BY DEF Live
<1>3. ASSUME NEW h \in Handlers, NEW m \in Ids, Ingestion!Deliver(h, m)
      PROVE  Carries(h)
  BY <1>1, <1>2, <1>3 DEF Carries, MayInsert, Ingestion!Deliver,
                          Ingestion!Request
<1>4. ASSUME NEW h \in Handlers, Ingestion!CheckLedger(h) PROVE Carries(h)
  BY <1>1, <1>2, <1>4 DEF Carries, MayInsert, Ingestion!CheckLedger,
                          Ingestion!Request
<1>5. ASSUME NEW h \in Handlers, Ingestion!RecordMessage(h)
      PROVE  Carries(h) \/ Passes(h)
  <2>1. CASE req[h].msg \in ledger
    BY <1>1, <1>2, <1>5, <2>1 DEF Carries, MayInsert, Ingestion!RecordMessage,
                                  Ingestion!Request
  <2>2. CASE req[h].msg \notin ledger
    BY <1>1, <1>5, <2>2 DEF Passes, Ingestion!RecordMessage, Ingestion!Request
  <2>. QED
    BY <2>1, <2>2
<1>6. ASSUME NEW h \in Handlers, Ingestion!LookupSubscription(h)
      PROVE  Carries(h)
  BY <1>1, <1>2, <1>6 DEF Carries, MayInsert, Ingestion!LookupSubscription,
                          Ingestion!Request
<1>7. ASSUME NEW h \in Handlers, Ingestion!LoadConference(h) PROVE Carries(h)
  <2>1. CASE Ingestion!Goto(h, "save")
    BY <1>1, <1>2, <1>7, <2>1 DEF Carries, MayInsert,
                                  Ingestion!LoadConference, Ingestion!Request
  <2>2. ASSUME NEW r \in conferences, Ingestion!GotoWithRow(h, "save", r)
        PROVE  Carries(h)
    BY <1>1, <1>2, <1>7, <2>2
       DEF Carries, MayInsert, Live, Ingestion!LoadConference,
           Ingestion!GotoWithRow, Ingestion!Request
  <2>. QED
    BY <1>7, <2>1, <2>2 DEF Ingestion!LoadConference, Ingestion!RowsNamed
<1>8. ASSUME NEW h \in Handlers, Ingestion!InsertConference(h)
      PROVE  Carries(h) \/ Inserts(h)
  <2>1. CASE Ingestion!Goto(h, "reload") /\ UNCHANGED conferences
    BY <1>1, <1>2, <1>8, <2>1 DEF Carries, MayInsert,
                                  Ingestion!InsertConference, Ingestion!Request
  <2>2. CASE req' = [req EXCEPT ![h].pc = "refresh", ![h].id = req[h].msg]
    <3>1. \A i \in Ids : Live(i)' => Live(i) \/ i = req[h].msg
      BY <1>8 DEF Ingestion!InsertConference, Live
    <3>. QED
      BY <1>1, <1>8, <2>2, <3>1 DEF Inserts, MayInsert,
                                Ingestion!InsertConference, Ingestion!Request
  <2>. QED
    BY <1>8, <2>1, <2>2 DEF Ingestion!InsertConference
<1>9. ASSUME NEW h \in Handlers, req[h].pc \in {"save", "reapply"},
             req[h].id # None,
             \/ Ingestion!Reply500(h) /\ UNCHANGED conferences
             \/ Ingestion!Goto(h, "refresh") /\ UNCHANGED conferences
             \/ /\ Ingestion!Goto(h, "refresh")
                /\ EventTranscript[req[h].msg] \in Transcripts
                /\ conferences' = Ingestion!SetTranscript(req[h].id,
                                          EventTranscript[req[h].msg]),
             UNCHANGED <<ledger, enqueued>>
      PROVE  Carries(h)
  <2>1. \A i \in Ids : Live(i)' => Live(i)
    BY <1>1, <1>9, SetKeepsRows DEF Live
  <2>. QED
    BY <1>1, <1>9, <2>1 DEF Carries, MayInsert, Ingestion!Request
<1>10. ASSUME NEW h \in Handlers, Ingestion!UpdateConference(h)
       PROVE  Carries(h)
  BY <1>1, <1>9, <1>10 DEF Ingestion!UpdateConference
<1>11. ASSUME NEW h \in Handlers, Ingestion!ReloadConference(h)
       PROVE  Carries(h)
  <2>1. CASE Ingestion!Reply200(h)
    BY <1>1, <1>2, <1>11, <2>1 DEF Carries, MayInsert,
                                   Ingestion!ReloadConference, Ingestion!Request
  <2>2. ASSUME NEW r \in conferences, NEW pc \in {"reapply", "refresh"},
               Ingestion!GotoWithRow(h, pc, r)
        PROVE  Carries(h)
    BY <1>1, <1>2, <1>11, <2>2
       DEF Carries, MayInsert, Live, Ingestion!ReloadConference,
           Ingestion!GotoWithRow, Ingestion!Request
  <2>. QED
    BY <1>11, <2>1, <2>2 DEF Ingestion!ReloadConference, Ingestion!RowsNamed
<1>12. ASSUME NEW h \in Handlers, Ingestion!ReapplyTranscript(h)
       PROVE  Carries(h)
  <2>1. req[h].id # None /\ EventTranscript[req[h].msg] \in Transcripts
    BY <1>1, <1>12 DEF Webhooks, Owned, Ingestion!ReapplyTranscript
  <2>. QED
    BY <1>9, <1>12, <2>1 DEF Ingestion!ReapplyTranscript
<1>13. ASSUME NEW h \in Handlers, Ingestion!RefreshConference(h)
       PROVE  Carries(h)
  BY <1>1, <1>2, <1>13 DEF Carries, MayInsert, Ingestion!RefreshConference,
                           Ingestion!Request
<1>14. ASSUME NEW h \in Handlers, Ingestion!Enqueue(h) PROVE Carries(h)
  BY <1>1, <1>2, <1>14 DEF Carries, MayInsert, Ingestion!Enqueue,
                           Ingestion!Request
<1>15. ASSUME NEW h \in Handlers, Ingestion!Abort(h) PROVE Carries(h)
  BY <1>1, <1>2, <1>15 DEF Carries, MayInsert, Ingestion!Abort,
                           Ingestion!Request
<1>16. ASSUME NEW m \in Ids, Ingestion!AckPoison(m) PROVE Rests
  BY <1>2, <1>16 DEF Rests, Ingestion!AckPoison
<1>17. ASSUME NEW k \in Connections,
              \/ Ingestion!Resubscribe(k) \/ Ingestion!Unsubscribe(k)
              \/ Ingestion!DeleteConnection(k)
       PROVE  Rests
  BY <1>17 DEF Rests, Live, Ingestion!Resubscribe, Ingestion!Unsubscribe,
               Ingestion!DeleteConnection
<1>18. ASSUME NEW rows \in SUBSET conferences, Ingestion!DeleteMeeting(rows)
       PROVE  Rests
  BY <1>18 DEF Rests, Live, Ingestion!DeleteMeeting
<1>19. ASSUME UNCHANGED Ingestion!vars PROVE Rests
  BY <1>2, <1>19 DEF Rests, Ingestion!vars
<1>. QED
  BY <1>3, <1>4, <1>5, <1>6, <1>7, <1>8, <1>10, <1>11, <1>12, <1>13, <1>14,
     <1>15, <1>16, <1>17, <1>18, <1>19
     DEF Ingestion!Next, Ingestion!HandlerStep, Ingestion!Serve

(* An id stays used up, the webhook knows of no other rows, and a row that *)
(* appears is not of such an id.                                           *)
LEMMA UsedStep ==
    ASSUME Webhooks, Uses, [Ingestion!Next]_Ingestion!vars
    PROVE  /\ Sole'
           /\ \A i \in Ids :
                /\ Used(i) => Used(i)'
                /\ Received(i)' => Used(i)'
                /\ Live(i)' => Live(i) \/ ~Used(i)
<1>1. /\ \A i \in Ids : Received(i) => Used(i)
      /\ \A h \in Handlers : MayInsert(h) => req[h].msg \in ledger
      /\ \A h \in Handlers : \A g \in Handlers \ {h} :
           MayInsert(h) /\ MayInsert(g) => req[g].msg # req[h].msg
  BY DEF Uses, Sole
<1>2. ASSUME NEW h \in Handlers, \A g \in Handlers \ {h} : req'[g] = req[g]
      PROVE  \A g \in Handlers \ {h} : /\ MayInsert(g)' <=> MayInsert(g)
                                       /\ req'[g].msg = req[g].msg
                                       /\ req'[g].id = req[g].id
  BY <1>2 DEF MayInsert
<1>3. ASSUME \/ \E h \in Handlers : Carries(h)
             \/ Rests
      PROVE  /\ Sole'
             /\ \A i \in Ids : /\ Used(i) => Used(i)'
                               /\ Received(i)' => Received(i)
                               /\ Live(i)' => Live(i)
  <2>1. /\ UNCHANGED ledger
        /\ \A g \in Handlers : MayInsert(g)' =>
             MayInsert(g) /\ req'[g].msg = req[g].msg
        /\ \A i \in Ids : Live(i)' => Live(i)
    BY <1>2, <1>3 DEF Carries, Rests, MayInsert
  <2>2. Sole'
    BY <1>1, <2>1 DEF Sole
  <2>3. \A i \in Ids : Used(i) => Used(i)'
    BY <2>1 DEF Used
  <2>4. \A i \in Ids : Received(i)' => Received(i)
    BY <1>2, <1>3 DEF Carries, Rests, Received
  <2>. QED
    BY <2>1, <2>2, <2>3, <2>4
<1>4. ASSUME NEW h \in Handlers, Passes(h)
      PROVE  /\ Sole'
             /\ \A i \in Ids : /\ Used(i) => Used(i)'
                               /\ Received(i)' => Received(i)
                               /\ Live(i)' => Live(i)
  <2>1. Sole'
    BY <1>1, <1>2, <1>4 DEF Passes, Sole
  <2>2. \A i \in Ids : Used(i) => Used(i)'
    BY <1>2, <1>4 DEF Passes, Used
  <2>3. \A i \in Ids : Received(i)' => Received(i)
    BY <1>2, <1>4 DEF Passes, Received, Live
  <2>. QED
    BY <1>4, <2>1, <2>2, <2>3 DEF Passes, Live
<1>5. ASSUME NEW h \in Handlers, Inserts(h)
      PROVE  /\ Sole'
             /\ \A i \in Ids :
                  /\ Used(i) => Used(i)'
                  /\ Received(i)' => Received(i) \/ i = req[h].msg
                  /\ Live(i)' => Live(i) \/ ~Used(i)
             /\ \A i \in Ids : i = req[h].msg => Used(i)'
  <2>1. Sole'
    BY <1>1, <1>2, <1>5 DEF Inserts, Sole
  <2>2. \A i \in Ids : Used(i) => Used(i)'
    BY <1>2, <1>5 DEF Inserts, Used
  <2>3. \A i \in Ids : Received(i)' => Received(i) \/ i = req[h].msg
    BY <1>2, <1>5 DEF Inserts, Received
  <2>4. \A i \in Ids : Live(i)' => Live(i) \/ ~Used(i)
    BY <1>5 DEF Inserts, Used
  <2>5. \A i \in Ids : i = req[h].msg => Used(i)'
    BY <1>1, <1>2, <1>5 DEF Inserts, Used
  <2>. QED
    BY <2>1, <2>2, <2>3, <2>4, <2>5
<1>. QED
  BY <1>1, <1>3, <1>4, <1>5, HandlingStep

(* What the whole does to the pipeline's state is what the pipeline or its *)
(* environment does, but for the rows the webhook adds.                    *)
LEMMA SystemDoes ==
    ASSUME SystemInv, SystemNext
    PROVE  Webhook \/ Does
<1>. USE Constants
<1>1. Sound /\ TypeOK /\ Links
  BY DEF SystemInv, IInv, Sound
<1>2. ASSUME NEW h \in Handlers, Enqueue(h) PROVE Does
  <2>1. UNCHANGED <<database, proc>>
    BY <1>2 DEF Enqueue, Ingestion!Enqueue, Ingestion!database, database
  <2>2. jobs \in [Ids -> Job] /\ 0 < MaxTries
    BY <1>1 DEF TypeOK
  <2>3. \A i \in Ids :
          \/ jobs'[i] = jobs[i]
          \/ /\ jobs[i].status # "running" /\ jobs'[i].status # "running"
             /\ jobs'[i].status = "queued" => jobs'[i].tries < MaxTries
    BY <1>2, <2>2 DEF Enqueue, EnqueueJob, Job
  <2>. QED
    BY <2>1, <2>3 DEF Requeues, Does
<1>3. ASSUME PipelineStep \/ \E m \in Meetings : DeleteMeeting(m) PROVE Does
  <2>1. Does \/ UNCHANGED vars
    BY <1>1, <1>3, StepDoes DEF Next, Environment
  <2>2. UNCHANGED vars => Requeues
    BY DEF vars, database, Requeues
  <2>. QED
    BY <2>1, <2>2 DEF Does
<1>4. ASSUME NEW k \in Connections, Disconnect(k) PROVE Does
  <2>. DEFINE gone == {r.id : r \in {q \in conferences : q.conn = k}}
  <2>1. gone \in SUBSET Ids
    BY <1>1 DEF TypeOK
  <2>. HIDE DEF gone
  <2>2. Deletes(gone)
    BY <1>4 DEF Disconnect, Deletes, gone
  <2>. QED
    BY <2>1, <2>2 DEF Does
<1>. QED
  BY <1>2, <1>3, <1>4 DEF SystemNext, RemoveMeeting

(* All variables of the pipeline keep their types. *)
LEMMA SystemTypes ==
    ASSUME SystemInv, SystemNext
    PROVE  TypeOK'
<1>. USE Constants
<1>1. Sound /\ TypeOK /\ Links
  BY DEF SystemInv, IInv, Sound
<1>2. \A r \in conferences' :
        r.id \in Ids /\ r.transcript \in Transcripts \cup {None}
  BY <1>1, LinksStep
     DEF Links, Webhooks, Ingestion!TypeOK, Ingestion!Conference
<1>3. CASE Webhook
  BY <1>1, <1>2, <1>3 DEF TypeOK, Webhook, pipelineOnly
<1>4. ASSUME NEW h \in Handlers, Enqueue(h) PROVE TypeOK'
  <2>1. jobs' \in [Ids -> Job]
    BY <1>1, <1>4 DEF TypeOK, Enqueue, EnqueueJob, Job
  <2>2. UNCHANGED <<progress, transcripts, notes, meetings, proc, wakes,
                    faults>>
    BY <1>4 DEF Enqueue
  <2>. QED
    BY <1>1, <1>2, <2>1, <2>2 DEF TypeOK
<1>5. ASSUME PipelineStep \/ \E m \in Meetings : DeleteMeeting(m)
      PROVE  TypeOK'
  BY <1>1, <1>5, StepDoes DEF Next, Environment
<1>6. ASSUME NEW k \in Connections, Disconnect(k) PROVE TypeOK'
  <2>1. UNCHANGED <<progress, meetings, jobs, proc, wakes, faults>>
    BY <1>6 DEF Disconnect
  <2>2. /\ transcripts' \in [Ids -> Transcripts \cup {None}]
        /\ notes' \in [Ids -> Transcripts \cup {None}]
    BY <1>1, <1>6 DEF TypeOK, Disconnect, Cascade
  <2>. QED
    BY <1>1, <1>2, <2>1, <2>2 DEF TypeOK
<1>. QED
  BY <1>3, <1>4, <1>5, <1>6 DEF SystemNext, RemoveMeeting

(* The pipeline takes up no row but one that is there or was enqueued.     *)
LEMMA BegunStep ==
    ASSUME SystemInv, Does
    PROVE  \A i \in Ids : Begun(i)' => Used(i)
<1>. USE Constants
<1>1. /\ Locals /\ NoOrphans
      /\ \A i \in Ids : Begun(i) \/ Live(i) => Used(i)
      /\ \A i \in Ids : jobs[i].status # "absent" => Used(i)
  BY DEF SystemInv, IInv, Uses, Received, Links, Queued, Filed
<1>2. ASSUME NEW p \in Procs, \A q \in Procs \ {p} : proc'[q] = proc[q],
             \A j \in Ids : \/ progress'[j].state = progress[j].state
                            \/ proc[p].id = j,
             \A i \in Ids : proc'[p].id = i => proc[p].id = i \/ Used(i)
      PROVE  \A i \in Ids : Begun(i)' => Used(i)
  BY <1>1, <1>2 DEF Begun
<1>3. ASSUME NEW p \in Procs, Walks(p)
      PROVE  \A i \in Ids : Begun(i)' => Used(i)
  <2>1. UNCHANGED progress /\ \A q \in Procs \ {p} : proc'[q] = proc[q]
    BY <1>3 DEF Walks, Gives, Stops, Stays, Turns, database
  <2>2. \/ proc'[p].id \in {proc[p].id, None}
        \/ \E i \in Ids : proc'[p].id = i /\ transcripts[i] # None
    BY <1>3 DEF Walks, Gives, Stops, Stays, Turns
  <2>3. \A i \in Ids : proc'[p].id = i => proc[p].id = i \/ Used(i)
    BY <1>1, <2>2 DEF NoOrphans
  <2>. QED
    BY <1>2, <2>1, <2>3
<1>4. ASSUME NEW p \in Procs, Writes(p)
      PROVE  \A i \in Ids : Begun(i)' => Used(i)
  BY <1>2, <1>4 DEF Writes, Stops, Stays, Turns
<1>5. ASSUME NEW w \in Workers, NEW i \in Ids, Starts(w, i)
      PROVE  \A j \in Ids : Begun(j)' => Used(j)
  BY <1>1, <1>2, <1>5 DEF Starts, Turns, database
<1>6. ASSUME NEW w \in Workers,
             Ends(w) \/ Saves(w) \/ Advances(w) \/ Completes(w) \/ Fails(w)
      PROVE  \A i \in Ids : Begun(i)' => Used(i)
  <2>1. /\ \A q \in Procs \ {w} : proc'[q] = proc[q]
        /\ proc'[w].id \in {proc[w].id, None}
    BY <1>6 DEF Ends, Saves, Advances, Completes, Fails, Stops, Stays, Turns
  <2>2. \A j \in Ids : \/ progress'[j].state = progress[j].state
                       \/ proc[w].id = j
    BY <1>6 DEF Ends, Saves, Advances, Completes, Fails, Marks, database
  <2>. QED
    BY <1>2, <2>1, <2>2
<1>7. CASE UNCHANGED <<progress, proc>>
  BY <1>1, <1>7 DEF Begun
<1>. QED
  BY <1>3, <1>4, <1>5, <1>6, <1>7
     DEF Does, Requeues, Announces, Deletes, database

(* Rows that appear disturb nothing: no process, no job and no state that  *)
(* the pipeline wrote is of their ids.                                     *)
LEMMA RowsAppear ==
    ASSUME SystemInv, Webhook, TypeOK'
    PROVE  IInv'
<1>1. /\ UNCHANGED <<progress, transcripts, notes, jobs, proc>>
      /\ [Ingestion!Next]_Ingestion!vars
  BY DEF Webhook, pipelineOnly, Ingestion!Next, Ingestion!HandlerStep
<1>2. /\ Webhooks /\ Uses /\ IInv
      /\ \A i \in Ids : Begun(i) => Used(i)
  BY DEF SystemInv, Links, Uses
<1>3. \A i \in Ids : /\ Live(i)' => Live(i) \/ ~Begun(i)
                     /\ Live(i) => Live(i)'
  <2>1. \A i \in Ids : Live(i)' => Live(i) \/ ~Used(i)
    BY <1>1, <1>2, UsedStep
  <2>2. \A i \in Ids : Live(i) => Live(i)'
    BY HandlersStep DEF SystemInv, HandlersDo, Live
  <2>. QED
    BY <1>2, <2>1, <2>2
<1>4. Held' /\ OneRunPerConference' /\ Locals' /\ Unfinished'
  BY <1>1, <1>2 DEF IInv, Held, OneRunPerConference, Locals, Unfinished
<1>5. Backed'
  <2>1. \A p \in Procs : proc[p].pc # "idle" => proc[p].id \in Ids
    BY <1>2 DEF IInv, Locals
  <2>2. ASSUME NEW p \in Procs, Live(proc[p].id)', proc[p].pc # "idle"
        PROVE  Live(proc[p].id)
    <3>1. PICK i \in Ids : i = proc[p].id
      BY <2>1, <2>2
    <3>2. Begun(i) /\ Live(i)'
      BY <1>1, <2>2, <3>1 DEF Begun
    <3>. QED
      BY <1>3, <3>1, <3>2
  <2>. QED
    BY <1>1, <1>2, <2>2 DEF IInv, Backed
<1>6. StateIsBacked'
  BY <1>1, <1>2, <1>3 DEF IInv, StateIsBacked, Begun
<1>7. NoOrphans'
  BY <1>1, <1>2, <1>3 DEF IInv, NoOrphans
<1>. QED
  BY <1>4, <1>5, <1>6, <1>7 DEF IInv

LEMMA SystemInvInit == SystemInit => SystemInv
<1>. SUFFICES ASSUME SystemInit PROVE SystemInv
  OBVIOUS
<1>. USE Constants
<1>1. /\ progress = [i \in Ids |-> NewProgress]
      /\ transcripts = [i \in Ids |-> None] /\ notes = [i \in Ids |-> None]
      /\ meetings = Meetings /\ jobs = [i \in Ids |-> NoJob]
      /\ proc = [p \in Procs |-> Idle] /\ wakes = 0 /\ faults = 0
      /\ conferences = {} /\ ledger = {} /\ enqueued = {}
      /\ req = [h \in Handlers |-> Ingestion!Idle]
  BY DEF SystemInit, InitPipeline, Ingestion!Init
<1>2. /\ NewProgress \in Progress /\ NoJob \in Job /\ NoJob.status = "absent"
      /\ Idle.pc = "idle" /\ Idle.id = None /\ NewProgress.state = "pending"
      /\ Ingestion!Idle.pc = "idle" /\ Ingestion!Idle.id = None
  BY DEF NewProgress, Progress, States, NoJob, Job, Idle, Ingestion!Idle
<1>3. Uses
  BY <1>1, <1>2 DEF Uses, Sole, Received, Begun, MayInsert, Live
<1>4. TypeOK
  BY <1>1, <1>2, IdleType, PipelineAssumption DEF TypeOK
<1>5. Held /\ OneRunPerConference /\ Locals /\ Unfinished
  BY <1>1, <1>2 DEF Held, OneRunPerConference, Locals, Unfinished
<1>6. Backed /\ StateIsBacked /\ NoOrphans
  BY <1>1, <1>2 DEF Backed, StateIsBacked, NoOrphans, Live
<1>. QED
  BY <1>3, <1>4, <1>5, <1>6, InitLinks DEF SystemInv, IInv

LEMMA SystemInvStep == SystemInv /\ [SystemNext]_systemVars => SystemInv'
<1>. SUFFICES ASSUME SystemInv, [SystemNext]_systemVars PROVE SystemInv'
  OBVIOUS
<1>1. Links /\ Webhooks /\ Uses /\ IInv
  BY DEF SystemInv, Links
<1>2. Links'
  BY <1>1, LinksStep
<1>3. CASE UNCHANGED systemVars
  <2>1. /\ UNCHANGED vars /\ UNCHANGED <<req, ledger, enqueued>>
        /\ UNCHANGED <<conferences, proc, progress>>
    BY <1>3 DEF systemVars, ingestionOnly, pipelineOnly, vars
  <2>2. IInv'
    BY <1>1, <2>1, InvStep
  <2>3. Uses'
    BY <1>1, <2>1 DEF Uses, Sole, Received, Begun, Used, MayInsert, Live
  <2>. QED
    BY <1>2, <2>2, <2>3 DEF SystemInv
<1>4. CASE SystemNext
  <2>1. /\ Sole'
        /\ \A i \in Ids : (Used(i) => Used(i)') /\ (Received(i)' => Used(i)')
    BY <1>1, IngestionStep, UsedStep
  <2>2. \A i \in Ids : Begun(i)' => Used(i)
    <3>1. CASE Webhook
      BY <1>1, <3>1 DEF Webhook, pipelineOnly, Begun, Uses
    <3>. QED
      BY <1>4, <3>1, SystemDoes, BegunStep
  <2>3. Uses'
    BY <2>1, <2>2 DEF Uses
  <2>4. IInv'
    BY <1>1, <1>4, SystemDoes, SystemTypes, RowsAppear, DoesKeeps
  <2>. QED
    BY <1>2, <2>3, <2>4 DEF SystemInv
<1>. QED
  BY <1>3, <1>4

(* The inductive invariant of the whole: that of the pipeline, what links  *)
(* the pipeline to the webhook, and that whatever either heard of can not  *)
(* be inserted any more.                                                   *)
THEOREM SystemInvariance == SystemSpec => []SystemInv
  BY SystemInvInit, SystemInvStep, PTL DEF SystemSpec

(* However many handlers enqueue for it, no two workers run the pipeline   *)
(* of one conference (app/worker.py's _job_id).                            *)
THEOREM SystemOneRun == SystemSpec => []OneRunPerConference
<1>1. SystemInv => OneRunPerConference
  BY DEF SystemInv, IInv
<1>. QED
  BY SystemInvariance, <1>1, PTL

(* From the event on, what pipeline_state says is backed by rows.          *)
THEOREM SystemStateBacked == SystemSpec => []StateIsBacked
<1>1. SystemInv => StateIsBacked
  BY DEF SystemInv, IInv
<1>. QED
  BY SystemInvariance, <1>1, PTL

(* A disconnect or a deleted meeting leaves no transcript and no notes,    *)
(* whatever handlers and workers are at work.                              *)
THEOREM SystemNoOrphans == SystemSpec => []NoOrphans
<1>1. SystemInv => NoOrphans
  BY DEF SystemInv, IInv
<1>. QED
  BY SystemInvariance, <1>1, PTL

(* A complete conference has the notes of the transcript that is stored,   *)
(* where no regenerate request runs, however the transcripts' events race  *)
(* for the row and with the run (event_service.py, pipeline.py).           *)
THEOREM SystemNotesCurrent ==
    ASSUME Requests = {}
    PROVE  SystemSpec => []NotesMatchTranscript
<1>1. SystemInit => Current /\ NotesMatchTranscript
  BY DEF SystemInit, Ingestion!Init, InitPipeline, Current,
         NotesMatchTranscript, Live
<1>2. ASSUME SystemInv, Current, NotesMatchTranscript,
             [SystemNext]_systemVars
      PROVE  Current' /\ NotesMatchTranscript'
  <2>1. CASE UNCHANGED systemVars
    BY <1>2, <2>1 DEF systemVars, pipelineOnly, Current, NotesMatchTranscript,
                      Live
  <2>2. CASE Webhook
    <3>1. UNCHANGED <<progress, transcripts, notes, proc>>
      BY <2>2 DEF Webhook, pipelineOnly
    <3>2. \A i \in Ids : Live(i)' => Live(i) \/ ~Begun(i)
      BY <1>2, IngestionStep, UsedStep DEF SystemInv, Links, Uses
    <3>3. NotesMatchTranscript'
      BY <1>2, <3>1, <3>2 DEF NotesMatchTranscript, Begun
    <3>4. ASSUME NEW w \in Workers, Live(proc[w].id)', proc[w].pc # "idle"
          PROVE  Live(proc[w].id)
      <4>1. proc[w].id \in Ids /\ w \in Procs
        BY <1>2, <3>4, Constants DEF SystemInv, IInv, Locals
      <4>2. PICK i \in Ids : i = proc[w].id
        BY <4>1
      <4>3. Begun(i) /\ Live(i)'
        BY <3>1, <3>4, <4>1, <4>2 DEF Begun
      <4>. QED
        BY <3>2, <4>2, <4>3
    <3>5. Current'
      BY <1>2, <3>1, <3>4 DEF Current
    <3>. QED
      BY <3>3, <3>5
  <2>3. CASE SystemNext /\ ~Webhook
    BY <1>2, <2>3, SystemDoes, MatchStep DEF SystemInv
  <2>. QED
    BY <1>2, <2>1, <2>2, <2>3
<1>. QED
  BY <1>1, <1>2, SystemInvariance, PTL DEF SystemSpec

----------------------------------------------------------------------------
(* The refinement: what a step of the whole is to the reader.              *)

Reads(i) == IF Used(i) THEN Seen(i) ELSE "nothing"

LEMMA ReadableIsReads ==
    /\ Uses => Readable = [i \in Ids |-> Reads(i)]
    /\ Uses' => Readable' = [i \in Ids |-> Reads(i)']
<1>1. Uses => \A i \in Ids : Readable[i] = Reads(i)
  BY ArtifactIsSeen DEF Readable, Reads, Uses, Received
<1>2. Uses' => \A i \in Ids : Readable'[i] = Reads(i)'
  BY ArtifactIsSeen DEF Readable, Reads, Uses, Received
<1>3. /\ Readable = [i \in Ids |-> Readable[i]]
      /\ Readable' = [i \in Ids |-> Readable'[i]]
  BY DEF Readable
<1>. QED
  BY <1>1, <1>2, <1>3

(* Where no id is used up, the reader sees what the pipeline's reader sees.*)
LEMMA PipelineReads ==
    ASSUME Uses, Uses', \A i \in Ids : Used(i)' <=> Used(i),
           Lifecycle!Next \/ UNCHANGED <<Artifact, Complete>>
    PROVE  SystemLifecycle!Next \/ UNCHANGED <<Readable, Complete>>
<1>1. /\ Readable = [i \in Ids |-> Reads(i)]
      /\ Readable' = [i \in Ids |-> Reads(i)']
      /\ \A i \in Ids : Reads(i) = IF Used(i) THEN Artifact[i] ELSE "nothing"
      /\ \A i \in Ids : Reads(i)' = IF Used(i) THEN Artifact'[i] ELSE "nothing"
  BY ReadableIsReads, ArtifactIsSeen DEF Reads
<1>2. \A i \in Ids : ~Used(i) => Artifact[i] = "gone" /\ Complete[i] = FALSE
  BY ArtifactIsSeen DEF Uses, Received, Seen, Complete
<1>3. Artifact \in [Ids -> {"gone", "nothing", "transcript", "notes"}]
  BY ArtifactIsSeen DEF Seen
<1>4. CASE UNCHANGED <<Artifact, Complete>>
  BY <1>1, <1>4
<1>5. ASSUME NEW i \in Ids, Lifecycle!StoreTranscript(i)
      PROVE  SystemLifecycle!Next
  <2>1. Used(i)
    BY <1>2, <1>5 DEF Lifecycle!StoreTranscript
  <2>2. SystemLifecycle!StoreTranscript(i)
    BY <1>1, <1>3, <1>5, <2>1
       DEF Lifecycle!StoreTranscript, SystemLifecycle!StoreTranscript
  <2>. QED
    BY <2>2 DEF SystemLifecycle!Next
<1>6. ASSUME NEW i \in Ids, Lifecycle!StoreNotes(i)
      PROVE  SystemLifecycle!Next
  <2>1. Used(i)
    BY <1>2, <1>6 DEF Lifecycle!StoreNotes
  <2>2. SystemLifecycle!StoreNotes(i)
    BY <1>1, <1>3, <1>6, <2>1
       DEF Lifecycle!StoreNotes, SystemLifecycle!StoreNotes
  <2>. QED
    BY <2>2 DEF SystemLifecycle!Next
<1>7. ASSUME NEW i \in Ids, Lifecycle!Finish(i)
      PROVE  SystemLifecycle!Next
  <2>1. Used(i)
    BY <1>2, <1>7 DEF Lifecycle!Finish
  <2>2. SystemLifecycle!Finish(i)
    BY <1>1, <1>7, <2>1 DEF Lifecycle!Finish, SystemLifecycle!Finish
  <2>. QED
    BY <2>2 DEF SystemLifecycle!Next
<1>8. ASSUME NEW gone \in SUBSET Ids, Lifecycle!Delete(gone)
      PROVE  SystemLifecycle!Next
  <2>. DEFINE known == {i \in gone : Used(i)}
  <2>1. Readable' = [i \in Ids |-> IF i \in known THEN "gone" ELSE Readable[i]]
    BY <1>1, <1>8 DEF Lifecycle!Delete
  <2>2. Complete' = [i \in Ids |-> Complete[i] /\ i \notin known]
    BY <1>2, <1>8 DEF Lifecycle!Delete, Complete
  <2>3. known \in SUBSET Ids
    OBVIOUS
  <2>. HIDE DEF known
  <2>. QED
    BY <2>1, <2>2, <2>3 DEF SystemLifecycle!Delete, SystemLifecycle!Next
<1>. QED
  BY <1>4, <1>5, <1>6, <1>7, <1>8 DEF Lifecycle!Next

(* A step of the webhook shows the reader nothing, but that an id is used  *)
(* up of which there will be no row.                                       *)
LEMMA WebhookReads ==
    ASSUME SystemInv, SystemInv', Webhook \/ \E h \in Handlers : Enqueue(h)
    PROVE  SystemLifecycle!Next
<1>. DEFINE gone == {i \in Ids : Used(i)' /\ ~Used(i) /\ ~Live(i)'}
<1>1. Links /\ Webhooks /\ Uses /\ Uses' /\ IInv
  BY DEF SystemInv, Links
<1>2. UNCHANGED <<progress, transcripts, notes>>
  BY DEF Webhook, Enqueue, pipelineOnly
<1>3. HandlersDo
  BY <1>1, HandlersStep DEF Enqueue
<1>4. [Ingestion!Next]_Ingestion!vars
  BY DEF Webhook, Enqueue, Ingestion!Next, Ingestion!HandlerStep
<1>5. \A i \in Ids : /\ Live(i) => Live(i)' /\ Used(i)
                     /\ Used(i) => Used(i)'
                     /\ Live(i)' => Live(i) \/ ~Used(i)
                     /\ Begun(i) => Used(i)
  BY <1>1, <1>3, <1>4, UsedStep DEF HandlersDo, Live, Uses, Received
<1>6. \A i \in Ids : ~Live(i) => transcripts[i] = None
  BY <1>1 DEF IInv, NoOrphans
<1>7. \A i \in Ids : Reads(i)' = IF i \in gone THEN "gone" ELSE Reads(i)
  BY <1>2, <1>5, <1>6 DEF Reads, Seen
<1>8. \A i \in Ids : (Live(i) /\ progress[i].state = "notes_generated")'
         = ((Live(i) /\ progress[i].state = "notes_generated") /\ i \notin gone)
  BY <1>2, <1>5 DEF Begun
<1>. HIDE DEF gone
<1>9. Readable' = [i \in Ids |-> IF i \in gone THEN "gone" ELSE Readable[i]]
  BY <1>1, <1>7, ReadableIsReads
<1>10. Complete' = [i \in Ids |-> Complete[i] /\ i \notin gone]
  BY <1>8 DEF Complete
<1>11. gone \in SUBSET Ids
  BY DEF gone
<1>. QED
  BY <1>9, <1>10, <1>11 DEF SystemLifecycle!Delete, SystemLifecycle!Next

(* From the event to the deletion, a conference only moves forward for its *)
(* reader: no handler, however late it commits, brings back what a user    *)
(* deleted or adds a row to what the pipeline already works on.            *)
THEOREM RefinesLifecycle == SystemSpec => ImplementsSystemLifecycle
<1>1. SystemInit => SystemLifecycle!Init
  <2>. SUFFICES ASSUME SystemInit PROVE SystemLifecycle!Init
    OBVIOUS
  <2>1. Uses /\ ledger = {} /\ conferences = {}
    BY SystemInvInit DEF SystemInv, SystemInit, Ingestion!Init
  <2>2. \A i \in Ids : Reads(i) = "nothing" /\ ~Live(i)
    BY <2>1 DEF Reads, Used, Live
  <2>. QED
    BY <2>1, <2>2, ReadableIsReads DEF SystemLifecycle!Init, Complete
<1>2. ASSUME SystemInv, SystemInv', [SystemNext]_systemVars
      PROVE  SystemLifecycle!Next \/ UNCHANGED <<Readable, Complete>>
  <2>1. IInv /\ Uses /\ Uses'
    BY <1>2 DEF SystemInv
  <2>2. ASSUME Does \/ UNCHANGED vars, UNCHANGED <<req, ledger>>
        PROVE  SystemLifecycle!Next \/ UNCHANGED <<Readable, Complete>>
    <3>1. \A i \in Ids : Used(i)' <=> Used(i)
      BY <2>2 DEF Used, MayInsert
    <3>. QED
      BY <2>1, <2>2, <3>1, StepRefines, PipelineReads
  <2>3. CASE Webhook \/ \E h \in Handlers : Enqueue(h)
    BY <1>2, <2>3, WebhookReads
  <2>4. CASE /\ ~Webhook
             /\ \/ PipelineStep /\ UNCHANGED ingestionOnly
                \/ \E k \in Connections : Disconnect(k)
                \/ \E m \in Meetings : RemoveMeeting(m)
    <3>1. UNCHANGED <<req, ledger>>
      BY <2>4 DEF ingestionOnly, Disconnect, Ingestion!DeleteConnection,
                  RemoveMeeting
    <3>2. Does
      BY <1>2, <2>4, SystemDoes DEF SystemNext
    <3>. QED
      BY <2>2, <3>1, <3>2
  <2>5. CASE UNCHANGED systemVars
    BY <2>2, <2>5 DEF systemVars, ingestionOnly, pipelineOnly, vars
  <2>. QED
    BY <1>2, <2>3, <2>4, <2>5 DEF SystemNext
<1>. QED
  BY <1>1, <1>2, SystemInvariance, PTL
     DEF SystemSpec, ImplementsSystemLifecycle, SystemLifecycle!Spec

============================================================================
