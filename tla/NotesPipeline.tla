--------------------------- MODULE NotesPipeline ---------------------------
(***************************************************************************)
(* From a conference row to stored notes: the arq queue and its workers    *)
(* (app/worker.py), run_pipeline with its two stages (app/services/        *)
(* pipeline.py, transcript_service.py, notes_service.py), the regenerate   *)
(* route (app/api/routes/notes.py), and the deletions that cascade to the  *)
(* rows they work on.                                                      *)
(*                                                                         *)
(* A step is one statement or one commit of a session, or one call to      *)
(* Google or Gemini.  A transcript's text, and the notes made of it, are   *)
(* represented by the transcript resource they come from.                  *)
(***************************************************************************)
EXTENDS Naturals, FiniteSets

CONSTANTS
    Workers,     \* arq jobs that can run at once
    Requests,    \* regenerate requests the API serves at once
    Ids,         \* ids of conferences rows
    Transcripts, \* transcript resource names
    Meetings,    \* ids of meetings rows
    None,        \* Python's None
    MeetingAt,   \* the owner's meeting with the conference's space, or None
    KeepResult,  \* arq keeps a finished job's key for a while
    MaxTries,    \* WorkerSettings.max_tries
    FaultKinds,  \* what may go wrong: "raise", "crash", "timeout"
    MaxFaults,   \* bound: how often it does
    MaxWakes     \* bound: enqueue calls

ASSUME PipelineAssumption ==
    /\ None \notin Ids \cup Transcripts \cup Meetings
    /\ Workers \cap Requests = {}
    /\ MeetingAt \in [Ids -> Meetings \cup {None}]
    /\ KeepResult \in BOOLEAN
    /\ MaxTries \in Nat \ {0}
    /\ FaultKinds \subseteq {"raise", "crash", "timeout"}
    /\ MaxFaults \in Nat /\ MaxWakes \in Nat

VARIABLES
    conferences, \* conferences: rows, as far as the webhook writes them
    progress,    \* conferences: the columns the pipeline writes
    transcripts, \* transcripts: the text stored for each conference, or None
    notes,       \* notes: the text they were made of, or None
    meetings,    \* meetings: ids
    jobs,        \* Redis: the arq job of each conference
    proc,        \* control state and locals of workers and requests
    wakes,       \* enqueue calls so far
    faults       \* faults so far

vars == <<conferences, progress, transcripts, notes, meetings, jobs, proc,
          wakes, faults>>

Procs == Workers \cup Requests

Live(i) == \E r \in conferences : r.id = i

----------------------------------------------------------------------------
(* last_error is set together with "failed" and cleared together with the  *)
(* other two, so the state stands for both columns.                        *)
States == {"pending", "transcript_fetched", "notes_generated", "failed"}

Progress == [state : States, attempts : Nat, meeting : Meetings \cup {None}]

NewProgress == [state |-> "pending", attempts |-> 0, meeting |-> None]

(* _reached: "failed" is below every other state. *)
Reached(state, target) ==
    LET order == [pending |-> 0, transcript_fetched |-> 1,
                  notes_generated |-> 2]
    IN state # "failed" /\ order[state] >= order[target]

(* The arq job "notes:<id>".  "kept": only its result is left. *)
Job == [status : {"absent", "queued", "running", "kept"}, tries : 0..MaxTries]

NoJob == [status |-> "absent", tries |-> 0]

(* A process: where it is, its conference, the transcript_resource_name    *)
(* it loaded, the meeting it mapped, the text it works on, and whether it  *)
(* found no notes to overwrite.                                            *)
PCs == {"idle", "load", "fetch", "map", "save", "advance", "generate",
        "summarize", "select", "write", "complete", "failing"}

Process == [pc : PCs, id : Ids \cup {None},
            name : Transcripts \cup {None}, meeting : Meetings \cup {None},
            text : Transcripts \cup {None}, new : BOOLEAN]

Idle == [pc |-> "idle", id |-> None, name |-> None, meeting |-> None,
         text |-> None, new |-> FALSE]

Goto(p, pc) == proc' = [proc EXCEPT ![p].pc = pc]

(* An exception: run_pipeline catches it, a request ends in a 500. *)
Raise(p) ==
    proc' = [proc EXCEPT ![p] = IF p \in Workers THEN [@ EXCEPT !.pc = "failing"]
                                                 ELSE Idle]

database == <<conferences, progress, transcripts, notes, meetings>>
redis    == <<jobs, wakes>>

----------------------------------------------------------------------------
(* arq, as app/worker.py uses it. *)

(* Mutant of EnqueueJob: no _job_id, so every call queues a job. *)
EnqueueWithoutId(i) ==
    jobs' = [jobs EXCEPT ![i] = [status |-> "queued", tries |-> 0]]

(* enqueue_job with _job_id: nothing happens while Redis has the job's key. *)
EnqueueJob(i) ==
    jobs' = IF jobs[i].status = "absent"
              THEN [jobs EXCEPT ![i] = [status |-> "queued", tries |-> 0]]
              ELSE jobs

(* The job's coroutine returned or raised (arq runs a job again for an      *)
(* arq.Retry, which worker.py never raises), or the job is given up.       *)
EndJob(i) ==
    jobs' = [jobs EXCEPT ![i] = IF KeepResult
                                  THEN [status |-> "kept", tries |-> 0]
                                  ELSE NoJob]

(* Mutant of RetryJob: the limit of tries is forgotten. *)
RetryForever(i) == jobs' = [jobs EXCEPT ![i].status = "queued"]

(* The worker died under the job: it is to be run again, unless its tries  *)
(* are used up.                                                            *)
RetryJob(i) ==
    IF jobs[i].tries < MaxTries
      THEN jobs' = [jobs EXCEPT ![i].status = "queued"]
      ELSE EndJob(i)

ExpireResult(i) ==
    /\ jobs[i].status = "kept"
    /\ jobs' = [jobs EXCEPT ![i] = NoJob]
    /\ UNCHANGED <<database, proc, wakes, faults>>

StartJob(w, i) ==
    /\ proc[w].pc = "idle"
    /\ jobs[i].status = "queued"
    /\ jobs' = [jobs EXCEPT ![i] = [status |-> "running", tries |-> @.tries + 1]]
    /\ proc' = [proc EXCEPT ![w] = [Idle EXCEPT !.pc = "load", !.id = i]]
    /\ UNCHANGED <<database, wakes, faults>>

----------------------------------------------------------------------------
(* run_pipeline *)

(* Mutants of LoadConference: a complete conference is run again; a run     *)
(* that finds the transcript stored takes the conference for complete.     *)
LoadAnyway(w) ==
    /\ proc[w].pc = "load"
    /\ \E r \in conferences :
         /\ r.id = proc[w].id
         /\ proc' = [proc EXCEPT ![w].pc = "fetch", ![w].name = r.transcript]
    /\ UNCHANGED <<database, jobs, wakes, faults>>

LoadStopsEarly(w) ==
    LET i == proc[w].id
        done == ~Live(i) \/ Reached(progress[i].state, "transcript_fetched")
    IN /\ proc[w].pc = "load"
       /\ \/ done /\ EndJob(i) /\ proc' = [proc EXCEPT ![w] = Idle]
          \/ /\ ~done
             /\ \E r \in conferences :
                  /\ r.id = i
                  /\ proc' = [proc EXCEPT ![w].pc = "fetch",
                                         ![w].name = r.transcript]
             /\ UNCHANGED jobs
       /\ UNCHANGED <<database, wakes, faults>>

(* The job ends at once when the conference is gone or complete. *)
LoadConference(w) ==
    LET i == proc[w].id
    IN /\ proc[w].pc = "load"
       /\ \/ /\ ~Live(i) \/ Reached(progress[i].state, "notes_generated")
             /\ EndJob(i)
             /\ proc' = [proc EXCEPT ![w] = Idle]
          \/ /\ ~Reached(progress[i].state, "notes_generated")
             /\ \E r \in conferences :
                  /\ r.id = i
                  /\ proc' = [proc EXCEPT
                                ![w].pc = IF Reached(progress[i].state,
                                                     "transcript_fetched")
                                            THEN "generate" ELSE "fetch",
                                ![w].name = r.transcript]
             /\ UNCHANGED jobs
       /\ UNCHANGED <<database, wakes, faults>>

(* fetch_transcript: no transcript resource in the row that was loaded, or *)
(* no connection any more (its deletion took the conference with it).      *)
FetchTranscript(w) ==
    /\ proc[w].pc = "fetch"
    /\ IF proc[w].name = None \/ ~Live(proc[w].id)
         THEN Raise(w)
         ELSE Goto(w, "map")
    /\ UNCHANGED <<database, redis, faults>>

(* _map_meeting, after get_conference_record: in the session only. *)
MapMeeting(w) ==
    LET i == proc[w].id
        m == IF progress[i].meeting = None /\ Live(i) /\ MeetingAt[i] \in meetings
               THEN MeetingAt[i] ELSE None
    IN /\ proc[w].pc = "map"
       /\ proc' = [proc EXCEPT ![w].pc = "save", ![w].meeting = m]
       /\ UNCHANGED <<database, redis, faults>>

(* After the entries were listed, one commit: the mapped meeting and the   *)
(* transcript row.  It raises when the conference or the meeting is gone.  *)
SaveTranscript(w) ==
    LET i == proc[w].id
        m == proc[w].meeting
    IN /\ proc[w].pc = "save"
       /\ IF Live(i) /\ m \in meetings \cup {None}
            THEN /\ transcripts' = [transcripts EXCEPT ![i] = proc[w].name]
                 /\ progress' = IF m = None THEN progress
                                  ELSE [progress EXCEPT ![i].meeting = m]
                 /\ Goto(w, "advance")
            ELSE Raise(w) /\ UNCHANGED <<transcripts, progress>>
       /\ UNCHANGED <<conferences, notes, meetings, redis, faults>>

(* Mutant of AdvanceState: the second stage is marked done with the first. *)
AdvanceTwice(w) ==
    /\ proc[w].pc = "advance"
    /\ progress' = [progress EXCEPT ![proc[w].id].state = "notes_generated"]
    /\ Goto(w, "generate")
    /\ UNCHANGED <<conferences, transcripts, notes, meetings, redis, faults>>

AdvanceState(w) ==
    LET i == proc[w].id
    IN /\ proc[w].pc = "advance"
       /\ IF Live(i)
            THEN /\ progress' = [progress EXCEPT ![i].state =
                                   "transcript_fetched"]
                 /\ Goto(w, "generate")
            ELSE Raise(w) /\ UNCHANGED progress
       /\ UNCHANGED <<conferences, transcripts, notes, meetings, redis, faults>>

CompleteState(w) ==
    LET i == proc[w].id
    IN /\ proc[w].pc = "complete"
       /\ IF Live(i)
            THEN /\ progress' = [progress EXCEPT ![i].state = "notes_generated"]
                 /\ proc' = [proc EXCEPT ![w] = Idle]
                 /\ EndJob(i)
            ELSE Raise(w) /\ UNCHANGED <<progress, jobs>>
       /\ UNCHANGED <<conferences, transcripts, notes, meetings, wakes, faults>>

(* Mutant of RecordFailure: the job never reaches an end. *)
FailSilently(w) ==
    /\ proc[w].pc = "failing"
    /\ proc' = [proc EXCEPT ![w] = Idle]
    /\ UNCHANGED <<database, redis, faults>>

(* The except branch: on a fresh transaction the failure is recorded, if   *)
(* there still is a row; then the exception reaches arq, and the job ends. *)
RecordFailure(w) ==
    LET i == proc[w].id
    IN /\ proc[w].pc = "failing"
       /\ progress' = IF Live(i)
                        THEN [progress EXCEPT ![i].state = "failed",
                                              ![i].attempts = @ + 1]
                        ELSE progress
       /\ proc' = [proc EXCEPT ![w] = Idle]
       /\ EndJob(i)
       /\ UNCHANGED <<conferences, transcripts, notes, meetings, wakes, faults>>

----------------------------------------------------------------------------
(* generate_notes, in a worker or in a regenerate request. *)

ReadTranscript(w) ==
    LET text == transcripts[proc[w].id]
    IN /\ proc[w].pc = "generate"
       /\ IF text = None
            THEN Raise(w)
            ELSE proc' = [proc EXCEPT ![w].pc = "summarize", ![w].text = text]
       /\ UNCHANGED <<database, redis, faults>>

(* The answer of Gemini, which may take minutes. *)
Summarize(p) ==
    /\ proc[p].pc = "summarize"
    /\ Goto(p, "select")
    /\ UNCHANGED <<database, redis, faults>>

SelectNotes(p) ==
    /\ proc[p].pc = "select"
    /\ proc' = [proc EXCEPT ![p].pc = "write",
                            ![p].new = notes[proc[p].id] = None]
    /\ UNCHANGED <<database, redis, faults>>

(* Mutant of WriteNotes: no foreign key ties the notes to a conference. *)
WriteAnyway(p) ==
    /\ proc[p].pc = "write"
    /\ notes' = [notes EXCEPT ![proc[p].id] = proc[p].text]
    /\ proc' = [proc EXCEPT ![p] = IF p \in Workers
                       THEN [@ EXCEPT !.pc = "complete"] ELSE Idle]
    /\ UNCHANGED <<conferences, progress, transcripts, meetings, redis, faults>>

(* INSERT or UPDATE and commit.  It raises when the conference is gone or  *)
(* another process inserted notes since they were looked for.              *)
WriteNotes(p) ==
    LET i == proc[p].id
    IN /\ proc[p].pc = "write"
       /\ IF Live(i) /\ (proc[p].new => notes[i] = None)
            THEN /\ notes' = [notes EXCEPT ![i] = proc[p].text]
                 /\ proc' = [proc EXCEPT ![p] = IF p \in Workers
                                THEN [@ EXCEPT !.pc = "complete"] ELSE Idle]
            ELSE Raise(p) /\ UNCHANGED notes
       /\ UNCHANGED <<conferences, progress, transcripts, meetings, redis, faults>>

(* notes:regenerate: 404 without a conference, 409 without a stored        *)
(* transcript.  generate_notes finds the transcript in the session again,  *)
(* with the text it had.                                                   *)
Regenerate(q, i) ==
    /\ proc[q].pc = "idle"
    /\ Live(i) /\ transcripts[i] # None
    /\ proc' = [proc EXCEPT ![q] = [Idle EXCEPT !.pc = "summarize", !.id = i,
                                                !.text = transcripts[i]]]
    /\ UNCHANGED <<database, redis, faults>>

----------------------------------------------------------------------------
(* What goes wrong, MaxFaults times. *)

Fault(kind) == kind \in FaultKinds /\ faults < MaxFaults /\ faults' = faults + 1

(* A call to Google or Gemini, the refresh of the token, or a statement    *)
(* raises.                                                                 *)
CallRaises(p) ==
    /\ proc[p].pc \notin {"idle", "load", "failing"}
    /\ Fault("raise")
    /\ Raise(p)
    /\ UNCHANGED <<database, redis>>

(* So may the first SELECT of run_pipeline, which no try covers, or the     *)
(* commit that records a failure: arq sees the exception, the row does not.*)
UncaughtRaise(w) ==
    /\ proc[w].pc \in {"load", "failing"}
    /\ Fault("raise")
    /\ proc' = [proc EXCEPT ![w] = Idle]
    /\ EndJob(proc[w].id)
    /\ UNCHANGED <<database, wakes>>

(* The worker's process dies: arq runs its job again later. *)
WorkerCrashes(w) ==
    /\ proc[w].pc # "idle"
    /\ Fault("crash")
    /\ proc' = [proc EXCEPT ![w] = Idle]
    /\ RetryJob(proc[w].id)
    /\ UNCHANGED <<database, wakes>>

(* arq's job timeout cancels the coroutine.  CancelledError is no          *)
(* Exception, so the except branch of run_pipeline does not run; for arq   *)
(* the job has failed.                                                     *)
JobTimesOut(w) ==
    /\ proc[w].pc # "idle"
    /\ Fault("timeout")
    /\ proc' = [proc EXCEPT ![w] = Idle]
    /\ EndJob(proc[w].id)
    /\ UNCHANGED <<database, wakes>>

----------------------------------------------------------------------------
(* What the rest of the program does to these rows. *)

(* handle_event stores a transcript name in a row. *)
Announce(i, t) ==
    /\ \E r \in conferences :
         /\ r.id = i
         /\ conferences' = (conferences \ {r}) \cup {[r EXCEPT !.transcript = t]}
    /\ UNCHANGED <<progress, transcripts, notes, meetings, jobs, proc, wakes,
                   faults>>

(* ... and enqueues the conference. *)
Wake(i) ==
    /\ wakes < MaxWakes
    /\ wakes' = wakes + 1
    /\ EnqueueJob(i)
    /\ UNCHANGED <<database, proc, faults>>

(* ON DELETE CASCADE from conferences to transcripts and notes. *)
Cascade(gone) ==
    /\ conferences' = {r \in conferences : r.id \notin gone}
    /\ transcripts' = [i \in Ids |-> IF i \in gone THEN None ELSE transcripts[i]]
    /\ notes' = [i \in Ids |-> IF i \in gone THEN None ELSE notes[i]]

(* delete_meeting, and with it the conferences mapped to the meeting. *)
DeleteMeeting(m) ==
    /\ m \in meetings
    /\ meetings' = meetings \ {m}
    /\ Cascade({i \in Ids : progress[i].meeting = m})
    /\ UNCHANGED <<progress, redis, proc, faults>>

(* delete_connection, and with it its conferences. *)
DeleteConnection(i) ==
    /\ Live(i)
    /\ Cascade({i})
    /\ UNCHANGED <<progress, meetings, redis, proc, faults>>

----------------------------------------------------------------------------
InitPipeline ==
    /\ progress = [i \in Ids |-> NewProgress]
    /\ transcripts = [i \in Ids |-> None]
    /\ notes = [i \in Ids |-> None]
    /\ meetings = Meetings
    /\ jobs = [i \in Ids |-> NoJob]
    /\ proc = [p \in Procs |-> Idle]
    /\ wakes = 0
    /\ faults = 0

Init ==
    /\ conferences = [id : Ids, transcript : {None}]
    /\ InitPipeline

GenerateNotes(p) ==
    Summarize(p) \/ SelectNotes(p) \/ WriteNotes(p)

RunPipeline(w) ==
    \/ LoadConference(w)
    \/ FetchTranscript(w)
    \/ MapMeeting(w)
    \/ SaveTranscript(w)
    \/ AdvanceState(w)
    \/ CompleteState(w)
    \/ RecordFailure(w)
    \/ ReadTranscript(w)
    \/ GenerateNotes(w)

Faults ==
    \/ \E p \in Procs : CallRaises(p)
    \/ \E w \in Workers : UncaughtRaise(w) \/ WorkerCrashes(w) \/ JobTimesOut(w)

PipelineStep ==
    \/ \E i \in Ids : ExpireResult(i)
    \/ \E w \in Workers, i \in Ids : StartJob(w, i)
    \/ \E w \in Workers : RunPipeline(w)
    \/ \E q \in Requests, i \in Ids : Regenerate(q, i)
    \/ \E q \in Requests : GenerateNotes(q)
    \/ Faults

Environment ==
    \/ \E i \in Ids, t \in Transcripts : Announce(i, t)
    \/ \E i \in Ids : Wake(i) \/ DeleteConnection(i)
    \/ \E m \in Meetings : DeleteMeeting(m)

Next == PipelineStep \/ Environment

Spec == Init /\ [][Next]_vars

(* Fairness.  A worker polls Redis and runs what it finds; a job that runs *)
(* goes on running, since every client it calls has a timeout; a result    *)
(* that is kept expires; a request that runs goes on running.              *)
Fairness ==
    /\ \A w \in Workers : WF_vars(RunPipeline(w))
    /\ \A i \in Ids : SF_vars(\E w \in Workers : StartJob(w, i))
    /\ \A i \in Ids : WF_vars(ExpireResult(i))
    /\ \A q \in Requests : WF_vars(GenerateNotes(q))

FairSpec == Spec /\ Fairness

----------------------------------------------------------------------------
(* Properties. *)

(* Every variable has its type. *)
TypeOK ==
    /\ \A r \in conferences :
         r.id \in Ids /\ r.transcript \in Transcripts \cup {None}
    /\ progress \in [Ids -> Progress]
    /\ transcripts \in [Ids -> Transcripts \cup {None}]
    /\ notes \in [Ids -> Transcripts \cup {None}]
    /\ meetings \subseteq Meetings
    /\ jobs \in [Ids -> Job]
    /\ proc \in [Procs -> Process]
    /\ wakes \in 0..MaxWakes /\ faults \in 0..MaxFaults

(* The state a conference shows is backed by rows: "transcript_fetched"    *)
(* and "notes_generated" are committed after what they announce, and       *)
(* nothing but a deletion takes it away again, whatever crashes, times     *)
(* out or runs again from the top.                                         *)
StateIsBacked ==
    \A i \in Ids : Live(i) =>
        /\ progress[i].state = "transcript_fetched" => transcripts[i] # None
        /\ progress[i].state = "notes_generated" =>
             transcripts[i] # None /\ notes[i] # None

(* A worker or a request that outlives the conference it works for leaves  *)
(* no transcript and no notes behind, and notes always have the transcript *)
(* they can be made of again.                                              *)
NoOrphans ==
    \A i \in Ids :
        /\ transcripts[i] # None => Live(i)
        /\ notes[i] # None => Live(i) /\ transcripts[i] # None

(* No two workers run the pipeline of one conference: everything in        *)
(* run_pipeline that reads a row and writes it later relies on it.  It     *)
(* rests on _job_id alone.                                                 *)
OneRunPerConference ==
    \A v, w \in Workers :
        v # w /\ proc[v].pc # "idle" => proc[v].id # proc[w].id

(* When only the pipeline writes notes, a complete conference has the      *)
(* notes of the transcript that is stored, also when a later transcript    *)
(* was fetched by a run that took over from a failed one.                  *)
NotesMatchTranscript ==
    \A i \in Ids : Live(i) /\ progress[i].state = "notes_generated" =>
        notes[i] = transcripts[i]

(* What a user sees of a conference (NotesLifecycle), and what the         *)
(* pipeline's rows show of it.                                             *)
Artifact == [i \in Ids |->
    CASE ~Live(i)                                         -> "gone"
      [] Live(i) /\ transcripts[i] = None                 -> "nothing"
      [] Live(i) /\ transcripts[i] # None /\ notes[i] = None -> "transcript"
      [] OTHER                                            -> "notes"]

Complete == [i \in Ids |-> Live(i) /\ progress[i].state = "notes_generated"]

Lifecycle == INSTANCE NotesLifecycle WITH artifact <- Artifact,
                                          complete <- Complete

(* The pipeline implements that life cycle: step by step, with reruns,     *)
(* races and faults, a conference only moves forward.                      *)
ImplementsLifecycle == Lifecycle!Spec

(* Every job is done with some day, even if it fails. *)
JobEnds ==
    \A i \in Ids :
        jobs[i].status = "queued" ~> jobs[i].status \in {"kept", "absent"}

HasTranscript(i) == \E r \in conferences : r.id = i /\ r.transcript # None

(* Where nothing goes wrong any more a job delivers: one that waits with   *)
(* the transcript announced brings the notes, in whatever state the        *)
(* crashes before have left the conference.  Only two things make its run  *)
(* raise, and so end the job for good: a request that inserts the notes    *)
(* first, and a meeting that is deleted before the run has mapped it.      *)
ReadyJobDelivers ==
    \A i \in Ids, f \in 0..MaxFaults :
        jobs[i].status = "queued" /\ HasTranscript(i) /\ faults = f
        ~> \/ ~Live(i) \/ faults > f
           \/ progress[i].state = "notes_generated"
           \/ /\ progress[i].state = "failed"
              /\ notes[i] # None \/ MeetingAt[i] \in Meetings \ meetings

(* What the design says of a failed conference, that it is resumable       *)
(* through the regenerate route: once the route has made its notes, it     *)
(* does not stay failed for good.                                          *)
ResumedByRegenerate ==
    \A i \in Ids :
        (progress[i].state = "failed" /\ notes[i] # None)
        ~> ~Live(i) \/ progress[i].state # "failed"

============================================================================
