------------------------ MODULE NotesPipelineProofs -------------------------
(* Theorems about NotesPipeline, for all values of its constants: any      *)
(* numbers of workers, requests, conferences, transcripts and faults.      *)
EXTENDS NotesPipeline, TLAPS

(* A worker's job is marked as running, and it is no other worker's; a job *)
(* that is queued has a try left.                                          *)
Held ==
    /\ \A w \in Workers : proc[w].pc # "idle" =>
         proc[w].id \in Ids /\ jobs[proc[w].id].status = "running"
    /\ \A i \in Ids : jobs[i].status = "queued" => jobs[i].tries < MaxTries

(* What a process has in hand at each stage. *)
Locals ==
    \A p \in Procs :
        /\ p \in Requests =>
             proc[p].pc \in {"idle", "summarize", "select", "write"}
        /\ proc[p].pc # "idle" => proc[p].id \in Ids
        /\ proc[p].pc = "idle" => proc[p].id = None
        /\ proc[p].pc \in {"map", "save"} => proc[p].name # None
        /\ proc[p].pc \in {"summarize", "select", "write"} =>
             proc[p].text # None

(* A process past the transcript's commit has a transcript below its       *)
(* conference, as long as that exists, and past the notes' commit notes.   *)
Backed ==
    \A p \in Procs : Live(proc[p].id) =>
        /\ proc[p].pc \in {"advance", "generate", "summarize", "select",
                           "write", "complete"}
             => transcripts[proc[p].id] # None
        /\ proc[p].pc = "complete" => notes[proc[p].id] # None

(* The conference of a run that has begun is not complete. *)
Unfinished ==
    \A w \in Workers : proc[w].pc \notin {"idle", "load"} =>
        progress[proc[w].id].state # "notes_generated"

IInv == /\ TypeOK /\ Held /\ OneRunPerConference /\ Locals
        /\ Backed /\ StateIsBacked /\ NoOrphans /\ Unfinished

----------------------------------------------------------------------------
(* The steps, as what they do to the state. *)

(* Process p is now at pc, with these locals; the others stay. *)
Turns(p, pc, id, name, text) ==
    /\ \A q \in Procs \ {p} : proc'[q] = proc[q]
    /\ proc'[p].pc = pc /\ proc'[p].id = id
    /\ proc'[p].name = name /\ proc'[p].text = text

Stops(p) == Turns(p, "idle", None, None, None)

Gives(p) ==
    \/ p \in Workers /\ Turns(p, "failing", proc[p].id, proc[p].name, proc[p].text)
    \/ p \in Requests /\ Stops(p)

Stays(p, pc) == Turns(p, pc, proc[p].id, proc[p].name, proc[p].text)

(* Only the job of i changes, and it is not running any more. *)
Releases(i) ==
    /\ \A j \in Ids \ {i} : jobs'[j] = jobs[j]
    /\ jobs'[i].status # "running"
    /\ jobs'[i].status = "queued" => jobs'[i].tries < MaxTries

(* A process goes on, and nothing else changes. *)
Walks(p) ==
    LET q == proc[p]
    IN /\ UNCHANGED <<database, jobs>>
       /\ \/ /\ p \in Workers /\ q.pc = "load"
             /\ progress[q.id].state # "notes_generated"
             /\ \/ \E name \in Transcripts \cup {None} :
                      Turns(p, "fetch", q.id, name, q.text)
                \/ /\ progress[q.id].state = "transcript_fetched"
                   /\ \E name \in Transcripts \cup {None} :
                         Turns(p, "generate", q.id, name, q.text)
          \/ q.pc = "fetch" /\ q.name # None /\ Stays(p, "map")
          \/ q.pc = "map" /\ Stays(p, "save")
          \/ /\ q.pc = "generate" /\ transcripts[q.id] # None
             /\ Turns(p, "summarize", q.id, q.name, transcripts[q.id])
          \/ q.pc = "summarize" /\ Stays(p, "select")
          \/ q.pc = "select" /\ Stays(p, "write")
          \/ q.pc \notin {"idle", "load", "failing"} /\ Gives(p)
          \/ /\ p \in Requests
             /\ \E i \in Ids : /\ transcripts[i] # None
                               /\ Turns(p, "summarize", i, None, transcripts[i])

Starts(w, i) ==
    /\ UNCHANGED database
    /\ proc[w].pc = "idle" /\ jobs[i].status = "queued"
    /\ \A j \in Ids \ {i} : jobs'[j] = jobs[j]
    /\ jobs'[i].status = "running"
    /\ Turns(w, "load", i, None, None)

(* Its run ends, and nothing but the job changes. *)
Ends(w) ==
    /\ UNCHANGED database
    /\ proc[w].pc # "idle" /\ Stops(w) /\ Releases(proc[w].id)

Saves(w) ==
    LET i == proc[w].id
    IN /\ proc[w].pc = "save" /\ Live(i) /\ Stays(w, "advance")
       /\ transcripts' = [transcripts EXCEPT ![i] = proc[w].name]
       /\ \A j \in Ids : progress'[j].state = progress[j].state
       /\ UNCHANGED <<conferences, notes, jobs>>

(* The state of the conference is set, as the next stage or at the end. *)
Marks(w, state) ==
    LET i == proc[w].id
    IN /\ \A j \in Ids \ {i} : progress'[j] = progress[j]
       /\ progress'[i].state = state
       /\ UNCHANGED <<conferences, transcripts, notes>>

Advances(w) ==
    /\ proc[w].pc = "advance" /\ Live(proc[w].id)
    /\ Marks(w, "transcript_fetched") /\ UNCHANGED jobs
    /\ Stays(w, "generate")

Completes(w) ==
    /\ proc[w].pc = "complete" /\ Live(proc[w].id)
    /\ Marks(w, "notes_generated") /\ Stops(w) /\ Releases(proc[w].id)

Fails(w) ==
    /\ proc[w].pc = "failing" /\ Live(proc[w].id)
    /\ Marks(w, "failed") /\ Stops(w) /\ Releases(proc[w].id)

Writes(p) ==
    LET i == proc[p].id
    IN /\ proc[p].pc = "write" /\ Live(i)
       /\ notes' = [notes EXCEPT ![i] = proc[p].text]
       /\ UNCHANGED <<conferences, progress, transcripts, jobs>>
       /\ \/ p \in Workers /\ Stays(p, "complete")
          \/ p \in Requests /\ Stops(p)

(* A job that is not running is queued, or forgotten. *)
Requeues ==
    /\ UNCHANGED <<database, proc>>
    /\ \A i \in Ids :
         \/ jobs'[i] = jobs[i]
         \/ /\ jobs[i].status # "running" /\ jobs'[i].status # "running"
            /\ jobs'[i].status = "queued" => jobs'[i].tries < MaxTries

Announces ==
    /\ UNCHANGED <<progress, transcripts, notes, jobs, proc>>
    /\ \A i : Live(i)' <=> Live(i)

Deletes(gone) ==
    /\ UNCHANGED <<progress, jobs, proc>>
    /\ Cascade(gone)

Does ==
    \/ \E p \in Procs : Walks(p) \/ Writes(p)
    \/ \E w \in Workers, i \in Ids : Starts(w, i)
    \/ \E w \in Workers :
          Ends(w) \/ Saves(w) \/ Advances(w) \/ Completes(w) \/ Fails(w)
    \/ Requeues \/ Announces
    \/ \E gone \in SUBSET Ids : Deletes(gone)

----------------------------------------------------------------------------
(* Types, and that the steps do that. *)

LEMMA Constants ==
    /\ None \notin Ids /\ None \notin Transcripts /\ None \notin Meetings
    /\ Workers \subseteq Procs /\ Requests \subseteq Procs
    /\ \A p \in Procs : p \in Workers <=> p \notin Requests
    /\ MaxTries \in Nat \ {0}
  BY PipelineAssumption DEF Procs

LEMMA IdleType == Idle \in Process
  BY DEF Idle, Process, PCs

(* What stands for a process after a step is a process. *)
LEMMA ProcUpdate ==
    ASSUME proc \in [Procs -> Process], NEW p \in Procs, NEW r \in Process,
           proc' = [proc EXCEPT ![p] = r]
    PROVE  /\ proc' \in [Procs -> Process]
           /\ proc'[p] = r /\ \A q \in Procs \ {p} : proc'[q] = proc[q]
  OBVIOUS

LEMMA RaiseDoes ==
    ASSUME TypeOK, NEW p \in Procs, Raise(p)
    PROVE  proc' \in [Procs -> Process] /\ Gives(p)
<1>1. proc \in [Procs -> Process] /\ proc[p] \in Process
  BY DEF TypeOK
<1>2. CASE p \in Workers
  <2> DEFINE r == [proc[p] EXCEPT !.pc = "failing"]
  <2>1. /\ r \in Process /\ r.pc = "failing" /\ r.id = proc[p].id
        /\ r.name = proc[p].name /\ r.text = proc[p].text
    BY <1>1 DEF Process, PCs
  <2>2. proc' = [proc EXCEPT ![p] = r]
    BY <1>2 DEF Raise
  <2>. HIDE DEF r
  <2>3. /\ proc' \in [Procs -> Process]
        /\ proc'[p] = r /\ \A q \in Procs \ {p} : proc'[q] = proc[q]
    BY <1>1, <2>1, <2>2, ProcUpdate
  <2>. QED
    BY <1>2, <2>1, <2>3 DEF Gives, Turns
<1>3. CASE p \notin Workers
  <2>1. proc' = [proc EXCEPT ![p] = Idle]
    BY <1>3 DEF Raise
  <2>2. /\ proc' \in [Procs -> Process]
        /\ proc'[p] = Idle /\ \A q \in Procs \ {p} : proc'[q] = proc[q]
    BY <1>1, <2>1, IdleType, ProcUpdate
  <2>. QED
    BY <1>3, <2>2, Constants DEF Gives, Turns, Stops, Idle
<1>. QED
  BY <1>2, <1>3

LEMMA GotoDoes ==
    ASSUME TypeOK, NEW p \in Procs, NEW pc \in PCs, Goto(p, pc)
    PROVE  proc' \in [Procs -> Process] /\ Stays(p, pc)
<1>. DEFINE r == [proc[p] EXCEPT !.pc = pc]
<1>1. proc \in [Procs -> Process] /\ proc[p] \in Process
  BY DEF TypeOK
<1>2. /\ r \in Process /\ r.pc = pc /\ r.id = proc[p].id
      /\ r.name = proc[p].name /\ r.text = proc[p].text
  BY <1>1 DEF Process
<1>3. proc' = [proc EXCEPT ![p] = r]
  BY <1>1 DEF Goto
<1>. HIDE DEF r
<1>4. /\ proc' \in [Procs -> Process]
      /\ proc'[p] = r /\ \A q \in Procs \ {p} : proc'[q] = proc[q]
  BY <1>1, <1>2, <1>3, ProcUpdate
<1>. QED
  BY <1>2, <1>4 DEF Stays, Turns

LEMMA IdleDoes ==
    ASSUME TypeOK, NEW p \in Procs, proc' = [proc EXCEPT ![p] = Idle]
    PROVE  proc' \in [Procs -> Process] /\ Stops(p)
<1>1. /\ proc' \in [Procs -> Process]
      /\ proc'[p] = Idle /\ \A q \in Procs \ {p} : proc'[q] = proc[q]
  BY IdleType, ProcUpdate DEF TypeOK
<1>. QED
  BY <1>1 DEF Stops, Turns, Idle

(* A job that ends or is to be run again. *)
LEMMA JobDoes ==
    ASSUME TypeOK, NEW i \in Ids, EndJob(i) \/ RetryJob(i)
    PROVE  jobs' \in [Ids -> Job] /\ Releases(i)
<1>1. jobs \in [Ids -> Job] /\ jobs[i] \in Job
  BY DEF TypeOK
<1>2. MaxTries \in Nat
  BY Constants
<1>3. CASE EndJob(i)
  BY <1>1, <1>2, <1>3 DEF EndJob, NoJob, Job, Releases
<1>4. CASE RetryJob(i) /\ ~EndJob(i)
  <2>1. jobs[i].tries < MaxTries /\ jobs' = [jobs EXCEPT ![i].status = "queued"]
    BY <1>4 DEF RetryJob
  <2>. QED
    BY <1>1, <1>2, <2>1 DEF Job, Releases
<1>. QED
  BY <1>3, <1>4

Sound == TypeOK /\ Held /\ Locals

(* The steps before the transcript is stored. *)
LEMMA FetchDoes ==
    ASSUME Sound, NEW w \in Workers, FetchTranscript(w) \/ MapMeeting(w)
    PROVE  TypeOK' /\ Does
<1>. USE Constants
<1>1. TypeOK /\ w \in Procs /\ proc[w].id \in Ids \cup {None}
  BY DEF Sound, TypeOK, Process
<1>2. proc' \in [Procs -> Process] /\ Walks(w)
  <2>1. CASE FetchTranscript(w)
    <3>1. Raise(w) \/ (proc[w].name # None /\ Goto(w, "map"))
      BY <2>1 DEF FetchTranscript
    <3>2. proc[w].pc = "fetch" /\ UNCHANGED <<database, jobs>>
      BY <2>1 DEF FetchTranscript, redis
    <3>3. CASE Raise(w)
      BY <1>1, <3>2, <3>3, RaiseDoes DEF Walks
    <3>4. CASE proc[w].name # None /\ Goto(w, "map")
      BY <1>1, <3>2, <3>4, GotoDoes DEF Walks, PCs
    <3>. QED
      BY <3>1, <3>3, <3>4
  <2>2. CASE MapMeeting(w)
    <3>1. PICK m \in Meetings \cup {None} :
               proc' = [proc EXCEPT ![w].pc = "save", ![w].meeting = m]
      <4>1. PipelineAssumption /\ (proc[w].id \in Ids => MeetingAt[proc[w].id]
                                     \in Meetings \cup {None})
        BY PipelineAssumption
      <4>. QED
        BY <1>1, <2>2, <4>1 DEF MapMeeting, TypeOK
    <3> DEFINE r == [proc[w] EXCEPT !.pc = "save", !.meeting = m]
    <3>2. proc[w] \in Process /\ proc \in [Procs -> Process]
      BY <1>1 DEF TypeOK
    <3>3. /\ r \in Process /\ r.pc = "save" /\ r.id = proc[w].id
          /\ r.name = proc[w].name /\ r.text = proc[w].text
      BY <3>2 DEF Process, PCs
    <3>4. proc' = [proc EXCEPT ![w] = r]
      BY <1>1, <3>1, <3>2
    <3>. HIDE DEF r
    <3>5. proc' \in [Procs -> Process] /\ Stays(w, "save")
      BY <1>1, <3>2, <3>3, <3>4, ProcUpdate DEF Stays, Turns
    <3>. QED
      BY <2>2, <3>5 DEF MapMeeting, Walks, redis
  <2>. QED
    BY <2>1, <2>2
<1>3. UNCHANGED <<database, redis, faults>>
  BY DEF FetchTranscript, MapMeeting
<1>4. TypeOK'
  BY <1>1, <1>2, <1>3 DEF TypeOK, database, redis
<1>. QED
  BY <1>1, <1>2, <1>4 DEF Does

LEMMA SaveDoes ==
    ASSUME Sound, NEW w \in Workers, SaveTranscript(w)
    PROVE  TypeOK' /\ Does
<1>. DEFINE i == proc[w].id
<1>. USE Constants
<1>1. /\ TypeOK /\ w \in Procs /\ proc[w] \in Process /\ i \in Ids
      /\ proc[w].pc = "save"
  BY DEF Sound, TypeOK, Held, SaveTranscript
<1>2. CASE Raise(w) /\ UNCHANGED <<transcripts, progress>>
  <2>1. UNCHANGED <<database, redis, faults>>
    BY <1>2 DEF SaveTranscript, database
  <2>2. proc' \in [Procs -> Process] /\ Gives(w)
    BY <1>1, <1>2, RaiseDoes
  <2>. QED
    BY <1>1, <2>1, <2>2 DEF TypeOK, Does, Walks, database, redis
<1>3. CASE /\ Live(i) /\ proc[w].meeting \in meetings \cup {None}
           /\ transcripts' = [transcripts EXCEPT ![i] = proc[w].name]
           /\ progress' = IF proc[w].meeting = None THEN progress
                     ELSE [progress EXCEPT ![i].meeting = proc[w].meeting]
           /\ Goto(w, "advance")
  <2>1. proc' \in [Procs -> Process] /\ Stays(w, "advance")
    BY <1>1, <1>3, GotoDoes DEF PCs
  <2>2. UNCHANGED <<conferences, notes, meetings, redis, faults>>
    BY DEF SaveTranscript
  <2>3. /\ progress \in [Ids -> Progress] /\ proc[w].meeting \in Meetings \cup {None}
        /\ proc[w].name \in Transcripts \cup {None}
        /\ transcripts \in [Ids -> Transcripts \cup {None}]
    BY <1>1 DEF TypeOK, Process
  <2>4. /\ progress' \in [Ids -> Progress]
        /\ \A j \in Ids : progress'[j].state = progress[j].state
    BY <1>1, <1>3, <2>3 DEF Progress
  <2>5. transcripts' \in [Ids -> Transcripts \cup {None}]
    BY <1>3, <2>3
  <2>6. TypeOK'
    BY <1>1, <2>1, <2>2, <2>4, <2>5 DEF TypeOK, redis
  <2>7. Saves(w)
    BY <1>1, <1>3, <2>1, <2>2, <2>4 DEF Saves, redis
  <2>. QED
    BY <2>6, <2>7 DEF Does
<1>. QED
  BY <1>2, <1>3 DEF SaveTranscript

(* The steps that set the state of the conference. *)
LEMMA MarkDoes ==
    ASSUME TypeOK, NEW w \in Workers, proc[w].id \in Ids,
           NEW s \in States, NEW n \in Nat,
           progress' = [progress EXCEPT ![proc[w].id].state = s,
                                        ![proc[w].id].attempts = n],
           UNCHANGED <<conferences, transcripts, notes>>
    PROVE  progress' \in [Ids -> Progress] /\ Marks(w, s)
<1>1. progress \in [Ids -> Progress] /\ progress[proc[w].id] \in Progress
  BY DEF TypeOK
<1>. DEFINE r == [progress[proc[w].id] EXCEPT !.state = s, !.attempts = n]
<1>2. r \in Progress /\ r.state = s
  BY <1>1 DEF Progress
<1>3. progress' = [progress EXCEPT ![proc[w].id] = r]
  BY <1>1
<1>. HIDE DEF r
<1>4. progress' \in [Ids -> Progress]
  BY <1>1, <1>2, <1>3
<1>5. progress'[proc[w].id] = r
  BY <1>1, <1>3
<1>6. \A j \in Ids \ {proc[w].id} : progress'[j] = progress[j]
  BY <1>1, <1>3
<1>. QED
  BY <1>2, <1>4, <1>5, <1>6 DEF Marks

LEMMA AdvanceDoes ==
    ASSUME Sound, NEW w \in Workers, AdvanceState(w) \/ CompleteState(w)
    PROVE  TypeOK' /\ Does
<1>. DEFINE i == proc[w].id
<1>. USE Constants
<1>1. /\ TypeOK /\ w \in Procs /\ proc[w] \in Process /\ i \in Ids
      /\ proc[w].pc \in {"advance", "complete"}
      /\ progress \in [Ids -> Progress] /\ progress[i] \in Progress
  BY DEF Sound, TypeOK, Held, AdvanceState, CompleteState
<1>2. CASE Raise(w) /\ UNCHANGED <<progress, jobs>>
  <2>1. UNCHANGED <<database, redis, faults>>
    BY <1>2 DEF AdvanceState, CompleteState, database, redis
  <2>2. proc' \in [Procs -> Process] /\ Gives(w)
    BY <1>1, <1>2, RaiseDoes
  <2>. QED
    BY <1>1, <2>1, <2>2 DEF TypeOK, Does, Walks, database, redis
<1>3. UNCHANGED <<conferences, transcripts, notes, meetings, wakes, faults>>
  BY DEF AdvanceState, CompleteState, redis
<1>4. ASSUME NEW s \in States,
             progress' = [progress EXCEPT ![i].state = s]
      PROVE  progress' \in [Ids -> Progress] /\ Marks(w, s)
  <2>1. progress[i].attempts \in Nat
    BY <1>1 DEF Progress
  <2>2. progress' = [progress EXCEPT ![i].state = s,
                                     ![i].attempts = progress[i].attempts]
    BY <1>1, <1>4 DEF Progress
  <2>. QED
    BY <1>1, <1>3, <2>1, <2>2, MarkDoes
<1>5. CASE /\ AdvanceState(w) /\ Live(i) /\ UNCHANGED jobs
           /\ progress' = [progress EXCEPT ![i].state = "transcript_fetched"]
           /\ Goto(w, "generate")
  <2>1. proc' \in [Procs -> Process] /\ Stays(w, "generate")
    BY <1>1, <1>5, GotoDoes DEF PCs
  <2>2. progress' \in [Ids -> Progress] /\ Marks(w, "transcript_fetched")
    BY <1>4, <1>5 DEF States
  <2>3. TypeOK'
    BY <1>1, <1>3, <1>5, <2>1, <2>2 DEF TypeOK
  <2>4. Advances(w)
    BY <1>5, <2>1, <2>2 DEF Advances, AdvanceState
  <2>. QED
    BY <2>3, <2>4 DEF Does
<1>6. CASE /\ CompleteState(w) /\ Live(i)
           /\ progress' = [progress EXCEPT ![i].state = "notes_generated"]
           /\ proc' = [proc EXCEPT ![w] = Idle]
           /\ EndJob(i)
  <2>1. proc' \in [Procs -> Process] /\ Stops(w)
    BY <1>1, <1>6, IdleDoes
  <2>2. progress' \in [Ids -> Progress] /\ Marks(w, "notes_generated")
    BY <1>4, <1>6 DEF States
  <2>3. jobs' \in [Ids -> Job] /\ Releases(i)
    BY <1>1, <1>6, JobDoes
  <2>4. TypeOK'
    BY <1>1, <1>3, <2>1, <2>2, <2>3 DEF TypeOK
  <2>5. Completes(w)
    BY <1>6, <2>1, <2>2, <2>3 DEF Completes, CompleteState
  <2>. QED
    BY <2>4, <2>5 DEF Does
<1>. QED
  BY <1>2, <1>5, <1>6 DEF AdvanceState, CompleteState, redis

LEMMA FailureDoes ==
    ASSUME Sound, NEW w \in Workers, RecordFailure(w)
    PROVE  TypeOK' /\ Does
<1>. DEFINE i == proc[w].id
<1>. USE Constants
<1>1. /\ TypeOK /\ w \in Procs /\ proc[w] \in Process /\ i \in Ids
      /\ proc[w].pc = "failing"
      /\ progress \in [Ids -> Progress] /\ progress[i] \in Progress
  BY DEF Sound, TypeOK, Held, RecordFailure
<1>2. /\ UNCHANGED <<conferences, transcripts, notes, meetings, wakes, faults>>
      /\ proc' = [proc EXCEPT ![w] = Idle] /\ EndJob(i)
      /\ progress' = IF Live(i)
                       THEN [progress EXCEPT ![i].state = "failed",
                                             ![i].attempts = @ + 1]
                       ELSE progress
  BY DEF RecordFailure
<1>3. proc' \in [Procs -> Process] /\ Stops(w)
  BY <1>1, <1>2, IdleDoes
<1>4. jobs' \in [Ids -> Job] /\ Releases(i)
  BY <1>1, <1>2, JobDoes
<1>5. CASE Live(i)
  <2>1. progress[i].attempts + 1 \in Nat
    BY <1>1 DEF Progress
  <2>2. progress' = [progress EXCEPT ![i].state = "failed",
                                 ![i].attempts = progress[i].attempts + 1]
    BY <1>1, <1>2, <1>5 DEF Progress
  <2>3. progress' \in [Ids -> Progress] /\ Marks(w, "failed")
    BY <1>1, <1>2, <2>1, <2>2, MarkDoes DEF States
  <2>4. TypeOK'
    BY <1>1, <1>2, <1>3, <1>4, <2>3 DEF TypeOK
  <2>. QED
    BY <1>1, <1>3, <1>4, <1>5, <2>3, <2>4 DEF Fails, Does
<1>6. CASE ~Live(i)
  <2>1. progress' = progress
    BY <1>2, <1>6
  <2>2. TypeOK'
    BY <1>1, <1>2, <1>3, <1>4, <2>1 DEF TypeOK
  <2>. QED
    BY <1>1, <1>2, <1>3, <1>4, <2>1, <2>2 DEF Ends, Does, database
<1>. QED
  BY <1>5, <1>6

(* run_pipeline's first statement: the job goes on, or ends at once. *)
LEMMA LoadDoes ==
    ASSUME Sound, NEW w \in Workers, LoadConference(w)
    PROVE  TypeOK' /\ Does
<1>. DEFINE i == proc[w].id
<1>. USE Constants
<1>1. /\ TypeOK /\ w \in Procs /\ proc[w] \in Process /\ i \in Ids
      /\ proc[w].pc = "load" /\ proc \in [Procs -> Process]
      /\ progress \in [Ids -> Progress] /\ progress[i] \in Progress
  BY DEF Sound, TypeOK, Held, LoadConference
<1>2. UNCHANGED <<database, wakes, faults>>
  BY DEF LoadConference
<1>3. CASE EndJob(i) /\ proc' = [proc EXCEPT ![w] = Idle]
  <2>1. proc' \in [Procs -> Process] /\ Stops(w)
    BY <1>1, <1>3, IdleDoes
  <2>2. jobs' \in [Ids -> Job] /\ Releases(i)
    BY <1>1, <1>3, JobDoes
  <2>3. TypeOK'
    BY <1>1, <1>2, <2>1, <2>2 DEF TypeOK, database
  <2>. QED
    BY <1>1, <1>2, <2>1, <2>2, <2>3 DEF Ends, Does
<1>4. CASE /\ UNCHANGED jobs
           /\ ~Reached(progress[i].state, "notes_generated")
           /\ \E r \in conferences :
                /\ r.id = i
                /\ proc' = [proc EXCEPT
                              ![w].pc = IF Reached(progress[i].state,
                                                   "transcript_fetched")
                                          THEN "generate" ELSE "fetch",
                              ![w].name = r.transcript]
  <2>1. PICK name \in Transcripts \cup {None} :
          proc' = [proc EXCEPT ![w].pc = IF Reached(progress[i].state,
                                                    "transcript_fetched")
                                           THEN "generate" ELSE "fetch",
                               ![w].name = name]
    BY <1>1, <1>4 DEF TypeOK
  <2>2. progress[i].state \in States
    BY <1>1 DEF Progress
  <2>3. progress[i].state # "notes_generated"
    BY <1>4 DEF Reached
  <2>4. ASSUME Reached(progress[i].state, "transcript_fetched")
        PROVE  progress[i].state = "transcript_fetched"
    BY <2>2, <2>3, <2>4 DEF Reached, States
  <2>5. PICK pc \in {"generate", "fetch"} :
          /\ proc' = [proc EXCEPT ![w].pc = pc, ![w].name = name]
          /\ pc = "generate" => progress[i].state = "transcript_fetched"
    BY <2>1, <2>4
  <2> DEFINE r == [proc[w] EXCEPT !.pc = pc, !.name = name]
  <2>6. /\ r \in Process /\ r.pc = pc /\ r.id = i
        /\ r.name = name /\ r.text = proc[w].text
    BY <1>1 DEF Process, PCs
  <2>7. proc' = [proc EXCEPT ![w] = r]
    BY <1>1, <2>5
  <2>. HIDE DEF r
  <2>8. proc' \in [Procs -> Process] /\ Turns(w, pc, i, name, proc[w].text)
    BY <1>1, <2>6, <2>7, ProcUpdate DEF Turns
  <2>9. UNCHANGED <<database, jobs>>
    BY <1>2, <1>4
  <2>10. \/ \E n \in Transcripts \cup {None} :
               Turns(w, "fetch", i, n, proc[w].text)
         \/ /\ progress[i].state = "transcript_fetched"
            /\ \E n \in Transcripts \cup {None} :
                  Turns(w, "generate", i, n, proc[w].text)
    BY <2>5, <2>8
  <2>11. Walks(w)
    BY <1>1, <2>3, <2>9, <2>10 DEF Walks
  <2>12. TypeOK'
    BY <1>1, <1>2, <2>8, <2>9 DEF TypeOK, database
  <2>. QED
    BY <1>1, <2>11, <2>12 DEF Does
<1>. QED
  BY <1>3, <1>4 DEF LoadConference

(* generate_notes. *)
LEMMA ReadDoes ==
    ASSUME Sound, NEW w \in Workers, ReadTranscript(w)
    PROVE  TypeOK' /\ Does
<1>. DEFINE i == proc[w].id
<1>. USE Constants
<1>1. /\ TypeOK /\ w \in Procs /\ proc[w] \in Process /\ i \in Ids
      /\ proc[w].pc = "generate" /\ proc \in [Procs -> Process]
      /\ transcripts[i] \in Transcripts \cup {None}
  BY DEF Sound, TypeOK, Held, ReadTranscript
<1>2. UNCHANGED <<database, jobs, wakes, faults>>
  BY DEF ReadTranscript, redis
<1>3. CASE Raise(w)
  <2>1. proc' \in [Procs -> Process] /\ Gives(w)
    BY <1>1, <1>3, RaiseDoes
  <2>2. Walks(w)
    BY <1>1, <1>2, <2>1 DEF Walks
  <2>. QED
    BY <1>1, <1>2, <2>1, <2>2 DEF TypeOK, Does, database
<1>4. CASE /\ transcripts[i] # None
           /\ proc' = [proc EXCEPT ![w].pc = "summarize",
                                   ![w].text = transcripts[i]]
  <2> DEFINE r == [proc[w] EXCEPT !.pc = "summarize", !.text = transcripts[i]]
  <2>1. /\ r \in Process /\ r.pc = "summarize" /\ r.id = i
        /\ r.name = proc[w].name /\ r.text = transcripts[i]
    BY <1>1 DEF Process, PCs
  <2>2. proc' = [proc EXCEPT ![w] = r]
    BY <1>1, <1>4
  <2>. HIDE DEF r
  <2>3. /\ proc' \in [Procs -> Process]
        /\ Turns(w, "summarize", i, proc[w].name, transcripts[i])
    BY <1>1, <2>1, <2>2, ProcUpdate DEF Turns
  <2>4. Walks(w)
    BY <1>1, <1>2, <1>4, <2>3 DEF Walks
  <2>. QED
    BY <1>1, <1>2, <2>3, <2>4 DEF TypeOK, Does, database
<1>. QED
  BY <1>3, <1>4 DEF ReadTranscript

LEMMA GenerateDoes ==
    ASSUME Sound, NEW p \in Procs, Summarize(p) \/ SelectNotes(p)
    PROVE  TypeOK' /\ Does
<1>. USE Constants
<1>1. TypeOK /\ proc[p] \in Process /\ proc \in [Procs -> Process]
  BY DEF Sound, TypeOK
<1>2. UNCHANGED <<database, jobs, wakes, faults>>
  BY DEF Summarize, SelectNotes, redis
<1>3. CASE Summarize(p)
  <2>1. proc[p].pc = "summarize" /\ Goto(p, "select")
    BY <1>3 DEF Summarize
  <2>2. proc' \in [Procs -> Process] /\ Stays(p, "select")
    BY <1>1, <2>1, GotoDoes DEF PCs
  <2>3. Walks(p)
    BY <1>2, <2>1, <2>2 DEF Walks
  <2>. QED
    BY <1>1, <1>2, <2>2, <2>3 DEF TypeOK, Does, database
<1>4. CASE SelectNotes(p)
  <2> DEFINE new == notes[proc[p].id] = None
             r   == [proc[p] EXCEPT !.pc = "write", !.new = new]
  <2>1. new \in BOOLEAN
    OBVIOUS
  <2>2. proc[p].pc = "select" /\ proc' = [proc EXCEPT ![p] = r]
    BY <1>1, <1>4 DEF SelectNotes
  <2>. HIDE DEF new
  <2>3. /\ r \in Process /\ r.pc = "write" /\ r.id = proc[p].id
        /\ r.name = proc[p].name /\ r.text = proc[p].text
    BY <1>1, <2>1 DEF Process, PCs
  <2>. HIDE DEF r
  <2>4. proc' \in [Procs -> Process] /\ Stays(p, "write")
    BY <1>1, <2>2, <2>3, ProcUpdate DEF Stays, Turns
  <2>5. Walks(p)
    BY <1>2, <2>2, <2>4 DEF Walks
  <2>. QED
    BY <1>1, <1>2, <2>4, <2>5 DEF TypeOK, Does, database
<1>. QED
  BY <1>3, <1>4

LEMMA WriteDoes ==
    ASSUME Sound, NEW p \in Procs, WriteNotes(p)
    PROVE  TypeOK' /\ Does
<1>. DEFINE i == proc[p].id
<1>. USE Constants
<1>1. /\ TypeOK /\ proc[p] \in Process /\ proc \in [Procs -> Process]
      /\ proc[p].pc = "write" /\ i \in Ids
  BY DEF Sound, TypeOK, Locals, WriteNotes
<1>2. UNCHANGED <<conferences, progress, transcripts, meetings, jobs, wakes,
                  faults>>
  BY DEF WriteNotes, redis
<1>3. CASE Raise(p) /\ UNCHANGED notes
  <2>1. proc' \in [Procs -> Process] /\ Gives(p)
    BY <1>1, <1>3, RaiseDoes
  <2>2. Walks(p)
    BY <1>1, <1>2, <1>3, <2>1 DEF Walks, database
  <2>. QED
    BY <1>1, <1>2, <1>3, <2>1, <2>2 DEF TypeOK, Does
<1>4. CASE /\ Live(i) /\ notes' = [notes EXCEPT ![i] = proc[p].text]
           /\ proc' = [proc EXCEPT ![p] = IF p \in Workers
                          THEN [@ EXCEPT !.pc = "complete"] ELSE Idle]
  <2>1. notes' \in [Ids -> Transcripts \cup {None}]
    BY <1>1, <1>4 DEF TypeOK, Process
  <2>2. ASSUME p \in Workers
        PROVE  proc' \in [Procs -> Process] /\ Stays(p, "complete")
    <3>1. Goto(p, "complete")
      BY <1>1, <1>4, <2>2 DEF Goto
    <3>. QED
      BY <1>1, <3>1, GotoDoes DEF PCs
  <2>3. ASSUME p \notin Workers
        PROVE  p \in Requests /\ proc' \in [Procs -> Process] /\ Stops(p)
    BY <1>1, <1>4, <2>3, IdleDoes
  <2>4. TypeOK'
    BY <1>1, <1>2, <2>1, <2>2, <2>3 DEF TypeOK
  <2>5. Writes(p)
    BY <1>1, <1>2, <1>4, <2>2, <2>3 DEF Writes
  <2>. QED
    BY <2>4, <2>5 DEF Does
<1>. QED
  BY <1>3, <1>4 DEF WriteNotes

LEMMA RegenerateDoes ==
    ASSUME Sound, NEW q \in Requests, NEW i \in Ids, Regenerate(q, i)
    PROVE  TypeOK' /\ Does
<1>. USE Constants
<1>. DEFINE r == [Idle EXCEPT !.pc = "summarize", !.id = i,
                              !.text = transcripts[i]]
<1>1. /\ TypeOK /\ q \in Procs /\ proc \in [Procs -> Process]
      /\ transcripts[i] \in Transcripts \cup {None}
  BY DEF Sound, TypeOK
<1>2. /\ UNCHANGED <<database, jobs, wakes, faults>>
      /\ transcripts[i] # None /\ proc' = [proc EXCEPT ![q] = r]
  BY DEF Regenerate, redis
<1>3. /\ r \in Process /\ r.pc = "summarize" /\ r.id = i
      /\ r.name = None /\ r.text = transcripts[i]
  BY <1>1 DEF Idle, Process, PCs
<1>. HIDE DEF r
<1>4. /\ proc' \in [Procs -> Process]
      /\ Turns(q, "summarize", i, None, transcripts[i])
  BY <1>1, <1>2, <1>3, ProcUpdate DEF Turns
<1>5. Walks(q)
  BY <1>2, <1>4 DEF Walks
<1>. QED
  BY <1>1, <1>2, <1>4, <1>5 DEF TypeOK, Does, database

(* arq, and what goes wrong. *)
LEMMA StartDoes ==
    ASSUME Sound, NEW w \in Workers, NEW i \in Ids, StartJob(w, i)
    PROVE  TypeOK' /\ Does
<1>. USE Constants
<1>. DEFINE r == [Idle EXCEPT !.pc = "load", !.id = i]
            k == [status |-> "running", tries |-> jobs[i].tries + 1]
<1>1. /\ TypeOK /\ w \in Procs /\ proc \in [Procs -> Process]
      /\ jobs \in [Ids -> Job] /\ jobs[i] \in Job /\ jobs[i].tries < MaxTries
  BY DEF Sound, TypeOK, Held, StartJob
<1>2. /\ UNCHANGED <<database, wakes, faults>>
      /\ proc[w].pc = "idle" /\ jobs[i].status = "queued"
      /\ jobs' = [jobs EXCEPT ![i] = k] /\ proc' = [proc EXCEPT ![w] = r]
  BY <1>1 DEF StartJob
<1>3. r \in Process /\ r.pc = "load" /\ r.id = i /\ r.name = None /\ r.text = None
  BY DEF Idle, Process, PCs
<1>4. k \in Job /\ k.status = "running"
  BY <1>1 DEF Job
<1>. HIDE DEF r, k
<1>5. proc' \in [Procs -> Process] /\ Turns(w, "load", i, None, None)
  BY <1>1, <1>2, <1>3, ProcUpdate DEF Turns
<1>6. /\ jobs' \in [Ids -> Job] /\ jobs'[i] = k
      /\ \A j \in Ids \ {i} : jobs'[j] = jobs[j]
  BY <1>1, <1>2, <1>4
<1>7. Starts(w, i)
  BY <1>2, <1>4, <1>5, <1>6 DEF Starts
<1>. QED
  BY <1>1, <1>2, <1>5, <1>6, <1>7 DEF TypeOK, Does, database

LEMMA RequeueDoes ==
    ASSUME Sound, NEW i \in Ids, ExpireResult(i) \/ Wake(i)
    PROVE  TypeOK' /\ Does
<1>1. TypeOK /\ jobs \in [Ids -> Job] /\ MaxTries \in Nat \ {0}
  BY Constants DEF Sound, TypeOK
<1>2. UNCHANGED <<database, proc, faults>>
  BY DEF ExpireResult, Wake
<1>3. wakes' \in 0..MaxWakes
  BY <1>1, PipelineAssumption DEF ExpireResult, Wake, TypeOK
<1>4. \/ UNCHANGED jobs
      \/ \E k \in Job : /\ jobs[i].status # "running" /\ k.status # "running"
                        /\ k.status = "queued" => k.tries < MaxTries
                        /\ jobs' = [jobs EXCEPT ![i] = k]
  <2>1. CASE ExpireResult(i)
    <3>1. NoJob \in Job /\ NoJob.status = "absent"
      BY <1>1 DEF NoJob, Job
    <3>. QED
      BY <2>1, <3>1 DEF ExpireResult
  <2>2. CASE Wake(i)
    <3> DEFINE k == [status |-> "queued", tries |-> 0]
    <3>1. k \in Job /\ k.status = "queued" /\ k.tries < MaxTries
      BY <1>1 DEF Job
    <3>. QED
      BY <2>2, <3>1 DEF Wake, EnqueueJob
  <2>. QED
    BY <2>1, <2>2
<1>5. jobs' \in [Ids -> Job]
  BY <1>1, <1>4
<1>6. Requeues
  BY <1>1, <1>2, <1>4 DEF Requeues
<1>. QED
  BY <1>1, <1>2, <1>3, <1>5, <1>6 DEF TypeOK, Does, database

LEMMA FaultType ==
    ASSUME TypeOK, NEW kind, Fault(kind)
    PROVE  faults' \in 0..MaxFaults
  BY PipelineAssumption DEF TypeOK, Fault

LEMMA CallDoes ==
    ASSUME Sound, NEW p \in Procs, CallRaises(p)
    PROVE  TypeOK' /\ Does
<1>1. /\ TypeOK /\ UNCHANGED <<database, jobs, wakes>>
      /\ proc[p].pc \notin {"idle", "load", "failing"}
      /\ Raise(p) /\ faults' \in 0..MaxFaults
  BY FaultType DEF Sound, CallRaises, redis
<1>2. proc' \in [Procs -> Process] /\ Gives(p)
  BY <1>1, RaiseDoes
<1>3. Walks(p)
  BY <1>1, <1>2 DEF Walks
<1>. QED
  BY <1>1, <1>2, <1>3 DEF TypeOK, Does, database

LEMMA BreakDoes ==
    ASSUME Sound, NEW w \in Workers,
           UncaughtRaise(w) \/ WorkerCrashes(w) \/ JobTimesOut(w)
    PROVE  TypeOK' /\ Does
<1>. USE Constants
<1>1. /\ TypeOK /\ UNCHANGED <<database, wakes>> /\ faults' \in 0..MaxFaults
      /\ w \in Procs /\ proc[w].pc # "idle" /\ proc[w].id \in Ids
      /\ proc' = [proc EXCEPT ![w] = Idle]
  BY FaultType DEF Sound, Held, UncaughtRaise, WorkerCrashes, JobTimesOut
<1>2. EndJob(proc[w].id) \/ RetryJob(proc[w].id)
  BY DEF UncaughtRaise, WorkerCrashes, JobTimesOut
<1>3. proc' \in [Procs -> Process] /\ Stops(w)
  BY <1>1, IdleDoes
<1>4. jobs' \in [Ids -> Job] /\ Releases(proc[w].id)
  BY <1>1, <1>2, JobDoes
<1>. QED
  BY <1>1, <1>3, <1>4 DEF TypeOK, Ends, Does, database

(* What the rest of the program does. *)
LEMMA AnnounceDoes ==
    ASSUME Sound, NEW i \in Ids, NEW t \in Transcripts, Announce(i, t)
    PROVE  TypeOK' /\ Does
<1>1. TypeOK /\ UNCHANGED <<progress, transcripts, notes, meetings, jobs, proc,
                            wakes, faults>>
  BY DEF Sound, Announce
<1>2. PICK r \in conferences :
        /\ r.id = i
        /\ conferences' = (conferences \ {r}) \cup {[r EXCEPT !.transcript = t]}
  BY DEF Announce
<1>. DEFINE s == [r EXCEPT !.transcript = t]
<1>3. s.id = r.id /\ (s.transcript \in Transcripts \cup {None}
                        \/ s.transcript = r.transcript)
  OBVIOUS
<1>. HIDE DEF s
<1>4. conferences' = (conferences \ {r}) \cup {s}
  BY <1>2 DEF s
<1>5. (\A c \in conferences : c.id \in Ids
                            /\ c.transcript \in Transcripts \cup {None})'
  BY <1>1, <1>2, <1>3, <1>4 DEF TypeOK
<1>6. \A j : Live(j)' <=> Live(j)
  BY <1>2, <1>3, <1>4 DEF Live
<1>. QED
  BY <1>1, <1>5, <1>6 DEF TypeOK, Does, Announces

LEMMA DeleteDoes ==
    ASSUME Sound, (\E m \in Meetings : DeleteMeeting(m))
                    \/ (\E i \in Ids : DeleteConnection(i))
    PROVE  TypeOK' /\ Does
<1>1. PICK gone \in SUBSET Ids : Cascade(gone) /\ meetings' \subseteq meetings
  <2>1. ASSUME NEW m \in Meetings, DeleteMeeting(m)
        PROVE  \E gone \in SUBSET Ids : Cascade(gone) /\ meetings' \subseteq meetings
    <3> DEFINE gone == {i \in Ids : progress[i].meeting = m}
    <3>1. gone \in SUBSET Ids
      OBVIOUS
    <3>2. Cascade(gone) /\ meetings' \subseteq meetings
      BY <2>1 DEF DeleteMeeting
    <3>. QED
      BY <3>1, <3>2
  <2>2. ASSUME NEW i \in Ids, DeleteConnection(i)
        PROVE  \E gone \in SUBSET Ids : Cascade(gone) /\ meetings' \subseteq meetings
    <3>1. {i} \in SUBSET Ids /\ Cascade({i}) /\ meetings' \subseteq meetings
      BY <2>2 DEF DeleteConnection
    <3>. QED
      BY <3>1
  <2>. QED
    BY <2>1, <2>2
<1>2. TypeOK /\ UNCHANGED <<progress, jobs, wakes, proc, faults>>
  BY DEF Sound, DeleteMeeting, DeleteConnection, redis
<1>3. /\ transcripts' \in [Ids -> Transcripts \cup {None}]
      /\ notes' \in [Ids -> Transcripts \cup {None}]
      /\ conferences' \subseteq conferences
  BY <1>1, <1>2 DEF Cascade, TypeOK
<1>4. Deletes(gone)
  BY <1>1, <1>2 DEF Deletes
<1>. QED
  BY <1>1, <1>2, <1>3, <1>4 DEF TypeOK, Does

LEMMA StepDoes ==
    ASSUME Sound, [Next]_vars
    PROVE  TypeOK' /\ (Does \/ UNCHANGED vars)
<1>1. CASE UNCHANGED vars
  BY <1>1 DEF Sound, TypeOK, vars
<1>2. CASE Environment
  BY <1>2, AnnounceDoes, RequeueDoes, DeleteDoes DEF Environment
<1>3. CASE PipelineStep
  <2>1. ASSUME NEW i \in Ids, ExpireResult(i)
        PROVE  TypeOK' /\ Does
    BY <2>1, RequeueDoes
  <2>2. ASSUME NEW w \in Workers, NEW i \in Ids, StartJob(w, i)
        PROVE  TypeOK' /\ Does
    BY <2>2, StartDoes
  <2>3. ASSUME NEW w \in Workers, RunPipeline(w)
        PROVE  TypeOK' /\ Does
    BY <2>3, Constants, LoadDoes, FetchDoes, SaveDoes, AdvanceDoes,
       FailureDoes, ReadDoes, GenerateDoes, WriteDoes
       DEF RunPipeline, GenerateNotes
  <2>4. ASSUME NEW q \in Requests, NEW i \in Ids, Regenerate(q, i)
        PROVE  TypeOK' /\ Does
    BY <2>4, RegenerateDoes
  <2>5. ASSUME NEW q \in Requests, GenerateNotes(q)
        PROVE  TypeOK' /\ Does
    BY <2>5, Constants, GenerateDoes, WriteDoes DEF GenerateNotes
  <2>6. ASSUME Faults
        PROVE  TypeOK' /\ Does
    BY <2>6, CallDoes, BreakDoes DEF Faults
  <2>. QED
    BY <1>3, <2>1, <2>2, <2>3, <2>4, <2>5, <2>6 DEF PipelineStep
<1>. QED
  BY <1>1, <1>2, <1>3 DEF Next

----------------------------------------------------------------------------
(* Each part of the invariant is kept. *)

(* The runs of the workers: one ends, one begins, or all go on. *)
LEMMA RunsOfStep ==
    ASSUME Sound, Does
    PROVE  \/ /\ \A w \in Workers :
                   /\ proc'[w].id = proc[w].id
                   /\ proc'[w].pc = "idle" <=> proc[w].pc = "idle"
              /\ UNCHANGED jobs \/ Requeues
           \/ \E w \in Workers :
                 proc[w].pc # "idle" /\ Stops(w) /\ Releases(proc[w].id)
           \/ \E w \in Workers, i \in Ids : Starts(w, i)
<1>. DEFINE Go == \A w \in Workers :
                    /\ proc'[w].id = proc[w].id
                    /\ proc'[w].pc = "idle" <=> proc[w].pc = "idle"
<1>. USE Constants
<1>1. ASSUME NEW p \in Procs, Walks(p) PROVE Go /\ UNCHANGED jobs
  <2>1. UNCHANGED jobs /\ \A q \in Procs \ {p} : proc'[q] = proc[q]
    BY <1>1 DEF Walks, Gives, Stops, Stays, Turns
  <2>2. p \in Workers => /\ proc'[p].id = proc[p].id
                         /\ proc'[p].pc # "idle" /\ proc[p].pc # "idle"
    BY <1>1 DEF Walks, Gives, Stops, Stays, Turns
  <2>. QED
    BY <2>1, <2>2
<1>2. ASSUME NEW p \in Procs, Writes(p) PROVE Go /\ UNCHANGED jobs
  <2>1. UNCHANGED jobs /\ \A q \in Procs \ {p} : proc'[q] = proc[q]
    BY <1>2 DEF Writes, Stops, Stays, Turns
  <2>2. p \in Workers => /\ proc'[p].id = proc[p].id
                         /\ proc'[p].pc # "idle" /\ proc[p].pc # "idle"
    BY <1>2 DEF Writes, Stops, Stays, Turns
  <2>. QED
    BY <2>1, <2>2
<1>3. ASSUME NEW w \in Workers, Saves(w) \/ Advances(w)
      PROVE  Go /\ UNCHANGED jobs
  BY <1>3 DEF Saves, Advances, Stays, Turns
<1>4. ASSUME NEW w \in Workers, Ends(w) \/ Completes(w) \/ Fails(w)
      PROVE  proc[w].pc # "idle" /\ Stops(w) /\ Releases(proc[w].id)
  BY <1>4 DEF Ends, Completes, Fails
<1>5. Requeues \/ Announces \/ (\E gone \in SUBSET Ids : Deletes(gone))
        => Go /\ (UNCHANGED jobs \/ Requeues)
  BY DEF Requeues, Announces, Deletes
<1>. HIDE DEF Go
<1>. QED
  BY <1>1, <1>2, <1>3, <1>4, <1>5 DEF Does, Go

LEMMA HeldStep ==
    ASSUME Sound, OneRunPerConference, Does
    PROVE  Held' /\ OneRunPerConference'
<1>. USE Constants
<1>1. /\ \A w \in Workers : proc[w].pc # "idle" =>
           proc[w].id \in Ids /\ jobs[proc[w].id].status = "running"
      /\ \A i \in Ids : jobs[i].status = "queued" => jobs[i].tries < MaxTries
      /\ \A w \in Workers : proc[w].pc = "idle" => proc[w].id = None
      /\ \A v, w \in Workers :
           v # w /\ proc[v].pc # "idle" => proc[v].id # proc[w].id
  BY DEF Sound, Held, Locals, OneRunPerConference
<1>2. CASE /\ \A w \in Workers :
                   /\ proc'[w].id = proc[w].id
                   /\ proc'[w].pc = "idle" <=> proc[w].pc = "idle"
           /\ UNCHANGED jobs \/ Requeues
  BY <1>1, <1>2 DEF Held, OneRunPerConference, Requeues
<1>3. ASSUME NEW w \in Workers,
             proc[w].pc # "idle", Stops(w), Releases(proc[w].id)
      PROVE  Held' /\ OneRunPerConference'
  <2>1. /\ \A v \in Workers \ {w} : proc'[v] = proc[v]
        /\ proc'[w].pc = "idle" /\ proc'[w].id = None
    BY <1>3 DEF Stops, Turns
  <2>2. /\ \A j \in Ids \ {proc[w].id} : jobs'[j] = jobs[j]
        /\ jobs'[proc[w].id].status = "queued"
             => jobs'[proc[w].id].tries < MaxTries
    BY <1>3 DEF Releases
  <2>3. Held'
    BY <1>1, <1>3, <2>1, <2>2 DEF Held
  <2>. QED
    BY <1>1, <2>1, <2>3 DEF OneRunPerConference
<1>4. ASSUME NEW w \in Workers, NEW i \in Ids, Starts(w, i)
      PROVE  Held' /\ OneRunPerConference'
  <2>1. /\ \A v \in Workers \ {w} : proc'[v] = proc[v]
        /\ proc'[w].pc = "load" /\ proc'[w].id = i
    BY <1>4 DEF Starts, Turns
  <2>2. /\ \A j \in Ids \ {i} : jobs'[j] = jobs[j]
        /\ jobs'[i].status = "running" /\ jobs[i].status = "queued"
    BY <1>4 DEF Starts
  <2>3. \A v \in Workers \ {w} : proc[v].id # i
    BY <1>1, <2>2
  <2>4. Held'
    BY <1>1, <2>1, <2>2, <2>3 DEF Held
  <2>. QED
    BY <1>1, <2>1, <2>3, <2>4 DEF OneRunPerConference
<1>. QED
  BY <1>2, <1>3, <1>4, RunsOfStep

LEMMA LocalsStep ==
    ASSUME Sound, Does
    PROVE  Locals'
<1>. USE Constants
<1>. DEFINE Fine(p) ==
              /\ p \in Requests =>
                   proc[p].pc \in {"idle", "summarize", "select", "write"}
              /\ proc[p].pc # "idle" => proc[p].id \in Ids
              /\ proc[p].pc = "idle" => proc[p].id = None
              /\ proc[p].pc \in {"map", "save"} => proc[p].name # None
              /\ proc[p].pc \in {"summarize", "select", "write"} =>
                   proc[p].text # None
<1>1. \A p \in Procs : Fine(p)
  BY DEF Sound, Locals
<1>2. ASSUME NEW p \in Procs, \A q \in Procs \ {p} : proc'[q] = proc[q],
             Fine(p)'
      PROVE  Locals'
  BY <1>1, <1>2 DEF Locals
<1>3. ASSUME NEW p \in Procs, Stops(p)
      PROVE  Locals'
  BY <1>2, <1>3 DEF Stops, Turns
<1>4. ASSUME NEW p \in Procs, Gives(p), proc[p].pc # "idle"
      PROVE  Locals'
  <2>1. CASE p \in Workers /\ Turns(p, "failing", proc[p].id, proc[p].name,
                                    proc[p].text)
    BY <1>1, <1>2, <1>4, <2>1 DEF Turns
  <2>. QED
    BY <1>3, <1>4, <2>1 DEF Gives
<1>5. ASSUME NEW p \in Procs, Walks(p)
      PROVE  Locals'
  <2>1. CASE Gives(p) /\ proc[p].pc # "idle"
    BY <1>4, <2>1
  <2>2. CASE ~Gives(p)
    <3>1. (\A q \in Procs \ {p} : proc'[q] = proc[q]) /\ Fine(p)'
      BY <1>1, <1>5, <2>2 DEF Walks, Stays, Turns
    <3>. QED
      BY <1>2, <3>1
  <2>3. CASE Gives(p) /\ proc[p].pc = "idle"
    <3>1. (\A q \in Procs \ {p} : proc'[q] = proc[q]) /\ Fine(p)'
      BY <1>1, <1>5, <2>3 DEF Walks, Stays, Turns
    <3>. QED
      BY <1>2, <3>1
  <2>. QED
    BY <2>1, <2>2, <2>3
<1>6. ASSUME NEW p \in Procs, Writes(p)
      PROVE  Locals'
  <2>1. CASE p \in Workers /\ Stays(p, "complete")
    BY <1>1, <1>2, <1>6, <2>1 DEF Writes, Stays, Turns
  <2>. QED
    BY <1>3, <1>6, <2>1 DEF Writes
<1>7. ASSUME NEW w \in Workers, NEW i \in Ids, Starts(w, i)
      PROVE  Locals'
  BY <1>2, <1>7 DEF Starts, Turns
<1>8. ASSUME NEW w \in Workers, Saves(w) \/ Advances(w)
      PROVE  Locals'
  BY <1>1, <1>2, <1>8 DEF Saves, Advances, Stays, Turns
<1>9. ASSUME NEW w \in Workers, Ends(w) \/ Completes(w) \/ Fails(w)
      PROVE  Locals'
  BY <1>3, <1>9 DEF Ends, Completes, Fails
<1>10. CASE UNCHANGED proc
  BY <1>1, <1>10 DEF Locals
<1>. HIDE DEF Fine
<1>. QED
  BY <1>5, <1>6, <1>7, <1>8, <1>9, <1>10
     DEF Does, Requeues, Announces, Deletes

(* The stages that come after a commit have what it stored. *)
LEMMA BackedStep ==
    ASSUME Sound, Backed, StateIsBacked, Does
    PROVE  Backed'
<1>. USE Constants
<1>. DEFINE Late == {"advance", "generate", "summarize", "select", "write",
                     "complete"}
            Fine(p) == Live(proc[p].id) =>
              /\ proc[p].pc \in Late => transcripts[proc[p].id] # None
              /\ proc[p].pc = "complete" => notes[proc[p].id] # None
<1>1. /\ TypeOK /\ \A p \in Procs : Fine(p)
      /\ \A p \in Procs : proc[p].pc # "idle" => proc[p].id \in Ids
      /\ \A p \in Procs : proc[p].pc = "save" => proc[p].name # None
      /\ \A p \in Procs : proc[p].pc = "write" => proc[p].text # None
  BY DEF Sound, Backed, Locals
<1>2. ASSUME NEW p \in Procs, \A q \in Procs \ {p} : proc'[q] = proc[q],
             UNCHANGED <<conferences, transcripts, notes>>, Fine(p)'
      PROVE  Backed'
  BY <1>1, <1>2 DEF Backed, Live
<1>3. ASSUME NEW p \in Procs, Stops(p),
             UNCHANGED <<conferences, transcripts, notes>>
      PROVE  Backed'
  <2>1. Fine(p)' /\ \A q \in Procs \ {p} : proc'[q] = proc[q]
    BY <1>3 DEF Stops, Turns
  <2>. QED
    BY <1>2, <1>3, <2>1
<1>4. ASSUME NEW p \in Procs, Walks(p)
      PROVE  Backed'
  <2>1. UNCHANGED <<conferences, transcripts, notes>>
    BY <1>4 DEF Walks, database
  <2>2. \A q \in Procs \ {p} : proc'[q] = proc[q]
    BY <1>4 DEF Walks, Gives, Stops, Stays, Turns
  <2>3. CASE \/ proc'[p].pc \in {"idle", "failing", "fetch", "map", "save"}
             \/ proc'[p].id = proc[p].id /\ proc[p].pc \in Late
                  /\ proc'[p].pc \in Late \ {"complete"}
    <3>1. Fine(p)'
      BY <1>1, <2>1, <2>3 DEF Live
    <3>. QED
      BY <1>2, <2>1, <2>2, <3>1
  <2>4. CASE /\ proc'[p].pc = "generate" /\ proc'[p].id = proc[p].id
             /\ progress[proc[p].id].state = "transcript_fetched"
             /\ proc[p].id \in Ids
    <3>1. Live(proc[p].id) => transcripts[proc[p].id] # None
      BY <2>4 DEF StateIsBacked
    <3>2. Fine(p)'
      BY <2>1, <2>4, <3>1 DEF Live
    <3>. QED
      BY <1>2, <2>1, <2>2, <3>2
  <2>5. CASE proc'[p].pc = "summarize" /\ transcripts[proc'[p].id] # None
    <3>1. Fine(p)'
      BY <2>1, <2>5
    <3>. QED
      BY <1>2, <2>1, <2>2, <3>1
  <2>6. proc[p].pc = "load" => proc[p].id \in Ids
    BY <1>1
  <2>. HIDE DEF Fine
  <2>. QED
    BY <1>4, <2>3, <2>4, <2>5, <2>6 DEF Walks, Gives, Stops, Stays, Turns
<1>5. ASSUME NEW p \in Procs, Writes(p)
      PROVE  Backed'
  <2> DEFINE i == proc[p].id
  <2>1. /\ i \in Ids /\ notes' = [notes EXCEPT ![i] = proc[p].text]
        /\ notes \in [Ids -> Transcripts \cup {None}] /\ proc[p].text # None
        /\ UNCHANGED <<conferences, transcripts>> /\ Live(i)
        /\ transcripts[i] # None
    BY <1>1, <1>5 DEF Writes, TypeOK
  <2>2. \A q \in Procs \ {p} : proc'[q] = proc[q]
    BY <1>5 DEF Writes, Stops, Stays, Turns
  <2>3. proc'[p].pc = "idle" \/ proc'[p].id = i
    BY <1>5 DEF Writes, Stops, Stays, Turns
  <2>4. \A j \in Ids : notes[j] # None => notes'[j] # None
    BY <2>1
  <2>5. \A q \in Procs \ {p} : Fine(q)'
    BY <1>1, <2>1, <2>2, <2>4 DEF Live
  <2>6. Fine(p)'
    BY <2>1, <2>3
  <2>. QED
    BY <2>5, <2>6 DEF Backed
<1>6. ASSUME NEW w \in Workers, NEW i \in Ids, Starts(w, i)
      PROVE  Backed'
  <2>1. /\ UNCHANGED <<conferences, transcripts, notes>> /\ Fine(w)'
        /\ \A q \in Procs \ {w} : proc'[q] = proc[q]
    BY <1>6 DEF Starts, Turns, database
  <2>. QED
    BY <1>2, <2>1
<1>7. ASSUME NEW w \in Workers, Saves(w)
      PROVE  Backed'
  <2> DEFINE i == proc[w].id
  <2>1. /\ i \in Ids /\ transcripts' = [transcripts EXCEPT ![i] = proc[w].name]
        /\ transcripts \in [Ids -> Transcripts \cup {None}]
        /\ proc[w].name # None /\ UNCHANGED <<conferences, notes>>
    BY <1>1, <1>7 DEF Saves, TypeOK
  <2>2. /\ \A q \in Procs \ {w} : proc'[q] = proc[q]
        /\ proc'[w].pc = "advance" /\ proc'[w].id = i
    BY <1>7 DEF Saves, Stays, Turns
  <2>3. \A j \in Ids : transcripts[j] # None => transcripts'[j] # None
    BY <2>1
  <2>4. \A q \in Procs \ {w} : Fine(q)'
    BY <1>1, <2>1, <2>2, <2>3 DEF Live
  <2>5. Fine(w)'
    BY <2>1, <2>2
  <2>. QED
    BY <2>4, <2>5 DEF Backed
<1>8. ASSUME NEW w \in Workers, Advances(w)
      PROVE  Backed'
  <2>1. /\ UNCHANGED <<conferences, transcripts, notes>>
        /\ \A q \in Procs \ {w} : proc'[q] = proc[q]
        /\ proc[w].pc = "advance" /\ proc'[w].pc = "generate"
        /\ proc'[w].id = proc[w].id
    BY <1>8 DEF Advances, Marks, Stays, Turns
  <2>2. Fine(w)'
    BY <1>1, <2>1 DEF Live
  <2>. QED
    BY <1>2, <2>1, <2>2
<1>9. ASSUME NEW w \in Workers, Ends(w) \/ Completes(w) \/ Fails(w)
      PROVE  Backed'
  BY <1>3, <1>9 DEF Ends, Completes, Fails, Marks, database
<1>10. CASE Requeues \/ Announces
  <2>1. UNCHANGED <<transcripts, notes, proc>> /\ \A i : Live(i)' <=> Live(i)
    BY <1>10 DEF Requeues, Announces, database, Live
  <2>. QED
    BY <1>1, <2>1 DEF Backed
<1>11. ASSUME NEW gone \in SUBSET Ids, Deletes(gone)
       PROVE  Backed'
  <2>1. UNCHANGED proc /\ \A i : Live(i)' => Live(i) /\ i \notin gone
    BY <1>11 DEF Deletes, Cascade, Live
  <2>2. \A i \in Ids \ gone : transcripts'[i] = transcripts[i]
                                /\ notes'[i] = notes[i]
    BY <1>11 DEF Deletes, Cascade
  <2>3. \A p \in Procs : Fine(p)'
    BY <1>1, <2>1, <2>2
  <2>. QED
    BY <2>3 DEF Backed
<1>. HIDE DEF Fine
<1>. QED
  BY <1>4, <1>5, <1>6, <1>7, <1>8, <1>9, <1>10, <1>11 DEF Does

(* What the columns and the rows of a conference say of each other. *)
LEMMA RowsStep ==
    ASSUME Sound, Backed, StateIsBacked, NoOrphans, Does
    PROVE  StateIsBacked' /\ NoOrphans'
<1>. USE Constants
<1>. DEFINE Fine(i) ==
              /\ Live(i) /\ progress[i].state = "transcript_fetched"
                   => transcripts[i] # None
              /\ Live(i) /\ progress[i].state = "notes_generated"
                   => transcripts[i] # None /\ notes[i] # None
              /\ transcripts[i] # None => Live(i)
              /\ notes[i] # None => Live(i) /\ transcripts[i] # None
<1>1. /\ TypeOK /\ \A i \in Ids : Fine(i)
      /\ \A p \in Procs : proc[p].pc # "idle" => proc[p].id \in Ids
      /\ \A p \in Procs : proc[p].pc = "save" => proc[p].name # None
      /\ \A p \in Procs : proc[p].pc = "write" => proc[p].text # None
  BY DEF Sound, StateIsBacked, NoOrphans, Locals
<1>2. (\A i \in Ids : Fine(i)') => StateIsBacked' /\ NoOrphans'
  BY DEF StateIsBacked, NoOrphans
<1>3. ASSUME UNCHANGED <<progress, transcripts, notes>>,
             \A i : Live(i)' <=> Live(i)
      PROVE  \A i \in Ids : Fine(i)'
  BY <1>1, <1>3
<1>4. UNCHANGED conferences => \A i : Live(i)' <=> Live(i)
  BY DEF Live
<1>5. ASSUME NEW p \in Procs, Walks(p)
      PROVE  \A i \in Ids : Fine(i)'
  BY <1>3, <1>4, <1>5 DEF Walks, database
<1>6. ASSUME NEW w \in Workers, NEW i \in Ids, Starts(w, i)
      PROVE  \A j \in Ids : Fine(j)'
  BY <1>3, <1>4, <1>6 DEF Starts, database
<1>7. ASSUME NEW w \in Workers, Ends(w)
      PROVE  \A j \in Ids : Fine(j)'
  BY <1>3, <1>4, <1>7 DEF Ends, database
<1>8. CASE Requeues \/ Announces
  BY <1>2, <1>3, <1>4, <1>8 DEF Requeues, Announces, database
<1>9. ASSUME NEW p \in Procs, Writes(p)
      PROVE  \A j \in Ids : Fine(j)'
  <2> DEFINE i == proc[p].id
  <2>1. /\ i \in Ids /\ notes' = [notes EXCEPT ![i] = proc[p].text]
        /\ notes \in [Ids -> Transcripts \cup {None}] /\ proc[p].text # None
        /\ UNCHANGED <<conferences, progress, transcripts>> /\ Live(i)
        /\ proc[p].pc = "write"
    BY <1>1, <1>9 DEF Writes, TypeOK
  <2>2. transcripts[i] # None
    BY <2>1 DEF Backed
  <2>. QED
    BY <1>1, <1>4, <2>1, <2>2
<1>10. ASSUME NEW w \in Workers, Saves(w)
       PROVE  \A j \in Ids : Fine(j)'
  <2> DEFINE i == proc[w].id
  <2>1. /\ i \in Ids /\ transcripts' = [transcripts EXCEPT ![i] = proc[w].name]
        /\ transcripts \in [Ids -> Transcripts \cup {None}]
        /\ proc[w].name # None /\ UNCHANGED <<conferences, notes>> /\ Live(i)
        /\ \A j \in Ids : progress'[j].state = progress[j].state
    BY <1>1, <1>10 DEF Saves, TypeOK
  <2>. QED
    BY <1>1, <1>4, <2>1
<1>11. ASSUME NEW w \in Workers, Advances(w) \/ Completes(w) \/ Fails(w)
       PROVE  \A j \in Ids : Fine(j)'
  <2> DEFINE i == proc[w].id
  <2>1. /\ i \in Ids /\ Live(i) /\ UNCHANGED <<conferences, transcripts, notes>>
        /\ \A j \in Ids \ {i} : progress'[j] = progress[j]
        /\ \/ proc[w].pc = "advance" /\ progress'[i].state = "transcript_fetched"
           \/ proc[w].pc = "complete" /\ progress'[i].state = "notes_generated"
           \/ progress'[i].state = "failed"
    BY <1>1, <1>11 DEF Advances, Completes, Fails, Marks
  <2>2. /\ proc[w].pc \in {"advance", "complete"} => transcripts[i] # None
        /\ proc[w].pc = "complete" => notes[i] # None
    BY <2>1 DEF Backed
  <2>. QED
    BY <1>1, <1>4, <2>1, <2>2
<1>12. ASSUME NEW gone \in SUBSET Ids, Deletes(gone)
       PROVE  \A j \in Ids : Fine(j)'
  <2>1. /\ UNCHANGED progress
        /\ \A j : Live(j)' <=> Live(j) /\ j \notin gone
    BY <1>12 DEF Deletes, Cascade, Live
  <2>2. \A j \in Ids : /\ transcripts'[j] = IF j \in gone THEN None
                                                          ELSE transcripts[j]
                       /\ notes'[j] = IF j \in gone THEN None ELSE notes[j]
    BY <1>12 DEF Deletes, Cascade
  <2>. QED
    BY <1>1, <2>1, <2>2
<1>. HIDE DEF Fine
<1>. QED
  BY <1>2, <1>5, <1>6, <1>7, <1>8, <1>9, <1>10, <1>11, <1>12 DEF Does

LEMMA UnfinishedStep ==
    ASSUME Sound, OneRunPerConference, Unfinished, Does
    PROVE  Unfinished'
<1>. USE Constants
<1>1. /\ \A w \in Workers : proc[w].pc \notin {"idle", "load"} =>
           progress[proc[w].id].state # "notes_generated"
      /\ \A w \in Workers : proc[w].pc # "idle" => proc[w].id \in Ids
      /\ \A v, w \in Workers :
           v # w /\ proc[v].pc # "idle" => proc[v].id # proc[w].id
  BY DEF Sound, Held, Unfinished, OneRunPerConference
<1>2. ASSUME NEW p \in Procs, UNCHANGED progress,
             \A q \in Procs \ {p} : proc'[q] = proc[q],
             \/ p \in Requests
             \/ proc'[p].pc \in {"idle", "load"}
             \/ /\ proc'[p].id = proc[p].id
                /\ progress[proc[p].id].state # "notes_generated"
      PROVE  Unfinished'
  BY <1>1, <1>2 DEF Unfinished
<1>3. ASSUME NEW p \in Procs, Walks(p)
      PROVE  Unfinished'
  <2>1. UNCHANGED progress /\ \A q \in Procs \ {p} : proc'[q] = proc[q]
    BY <1>3 DEF Walks, Gives, Stops, Stays, Turns, database
  <2>2. p \in Workers => /\ proc'[p].id = proc[p].id
                         /\ progress[proc[p].id].state # "notes_generated"
    BY <1>1, <1>3 DEF Walks, Gives, Stops, Stays, Turns
  <2>. QED
    BY <1>2, <2>1, <2>2
<1>4. ASSUME NEW p \in Procs, Writes(p)
      PROVE  Unfinished'
  <2>1. UNCHANGED progress /\ \A q \in Procs \ {p} : proc'[q] = proc[q]
    BY <1>4 DEF Writes, Stops, Stays, Turns
  <2>2. p \in Workers => /\ proc'[p].id = proc[p].id
                         /\ progress[proc[p].id].state # "notes_generated"
    BY <1>1, <1>4 DEF Writes, Stops, Stays, Turns
  <2>. QED
    BY <1>2, <2>1, <2>2
<1>5. ASSUME NEW w \in Workers, NEW i \in Ids, Starts(w, i)
      PROVE  Unfinished'
  BY <1>2, <1>5 DEF Starts, Turns, database
<1>6. ASSUME NEW w \in Workers, Ends(w)
      PROVE  Unfinished'
  BY <1>2, <1>6 DEF Ends, Stops, Turns, database
<1>7. ASSUME NEW w \in Workers, Saves(w)
      PROVE  Unfinished'
  <2>1. /\ \A q \in Procs \ {w} : proc'[q] = proc[q]
        /\ \A j \in Ids : progress'[j].state = progress[j].state
        /\ proc[w].pc = "save" /\ proc'[w].id = proc[w].id
    BY <1>7 DEF Saves, Stays, Turns
  <2>. QED
    BY <1>1, <2>1 DEF Unfinished
<1>8. ASSUME NEW w \in Workers, Advances(w) \/ Completes(w) \/ Fails(w)
      PROVE  Unfinished'
  <2>1. /\ \A v \in Workers \ {w} : proc'[v] = proc[v]
        /\ \A j \in Ids \ {proc[w].id} : progress'[j] = progress[j]
        /\ \/ /\ proc'[w].id = proc[w].id
              /\ progress'[proc[w].id].state # "notes_generated"
           \/ proc'[w].pc = "idle"
    BY <1>8 DEF Advances, Completes, Fails, Marks, Stops, Stays, Turns
  <2>. QED
    BY <1>1, <2>1 DEF Unfinished
<1>9. CASE UNCHANGED <<progress, proc>>
  BY <1>1, <1>9 DEF Unfinished
<1>. QED
  BY <1>3, <1>4, <1>5, <1>6, <1>7, <1>8, <1>9
     DEF Does, Requeues, Announces, Deletes, database

----------------------------------------------------------------------------
(* Theorems. *)

LEMMA InitInv == Init => IInv
<1>. SUFFICES ASSUME Init PROVE IInv
  OBVIOUS
<1>. USE Constants
<1>1. /\ progress = [i \in Ids |-> NewProgress]
      /\ transcripts = [i \in Ids |-> None] /\ notes = [i \in Ids |-> None]
      /\ meetings = Meetings /\ jobs = [i \in Ids |-> NoJob]
      /\ proc = [p \in Procs |-> Idle] /\ wakes = 0 /\ faults = 0
      /\ conferences = [id : Ids, transcript : {None}]
  BY DEF Init, InitPipeline
<1>2. NewProgress \in Progress /\ NoJob \in Job /\ NoJob.status = "absent"
  BY DEF NewProgress, Progress, States, NoJob, Job
<1>3. Idle.pc = "idle" /\ Idle.id = None /\ NewProgress.state = "pending"
  BY DEF Idle, NewProgress
<1>4. TypeOK
  BY <1>1, <1>2, IdleType, PipelineAssumption DEF TypeOK
<1>5. Held /\ OneRunPerConference /\ Locals /\ Backed
  BY <1>1, <1>2, <1>3 DEF Held, OneRunPerConference, Locals, Backed
<1>6. StateIsBacked /\ NoOrphans /\ Unfinished
  BY <1>1, <1>3 DEF StateIsBacked, NoOrphans, Unfinished
<1>. QED
  BY <1>4, <1>5, <1>6 DEF IInv

LEMMA DoesKeeps ==
    ASSUME IInv, Does, TypeOK'
    PROVE  IInv'
  BY HeldStep, LocalsStep, BackedStep, RowsStep, UnfinishedStep
     DEF IInv, Sound

LEMMA InvStep == IInv /\ [Next]_vars => IInv'
<1>. SUFFICES ASSUME IInv, [Next]_vars PROVE IInv'
  OBVIOUS
<1>1. Sound
  BY DEF IInv, Sound
<1>2. TypeOK' /\ (Does \/ UNCHANGED vars)
  BY <1>1, StepDoes
<1>3. CASE Does
  BY <1>2, <1>3, DoesKeeps
<1>4. CASE UNCHANGED vars
  <2>1. /\ UNCHANGED <<progress, transcripts, notes, jobs, proc>>
        /\ \A i : Live(i)' <=> Live(i)
    BY <1>4 DEF vars, Live
  <2>2. Held' /\ OneRunPerConference' /\ Locals' /\ Unfinished'
    BY <2>1 DEF IInv, Held, OneRunPerConference, Locals, Unfinished
  <2>3. Backed'
    BY <2>1 DEF IInv, Backed
  <2>4. StateIsBacked' /\ NoOrphans'
    BY <2>1 DEF IInv, StateIsBacked, NoOrphans
  <2>. QED
    BY <1>2, <2>2, <2>3, <2>4 DEF IInv
<1>. QED
  BY <1>2, <1>3, <1>4

(* The invariant below is kept by every step of the pipeline and of the    *)
(* rest of the program.                                                    *)
THEOREM Invariance == Spec => []IInv
  BY InitInv, InvStep, PTL DEF Spec

(* Every variable has its type. *)
THEOREM TypeCorrect == Spec => []TypeOK
<1>1. IInv => TypeOK
  BY DEF IInv
<1>. QED
  BY Invariance, <1>1, PTL

(* No two workers run the pipeline of one conference (_job_id). *)
THEOREM OneRun == Spec => []OneRunPerConference
<1>1. IInv => OneRunPerConference
  BY DEF IInv
<1>. QED
  BY Invariance, <1>1, PTL

(* pipeline_state never runs ahead of the rows: "transcript_fetched" has a *)
(* transcript, "notes_generated" has notes as well.                        *)
THEOREM StateBacked == Spec => []StateIsBacked
<1>1. IInv => StateIsBacked
  BY DEF IInv
<1>. QED
  BY Invariance, <1>1, PTL

(* Nothing is stored for a conference that was deleted meanwhile, and no   *)
(* notes without their transcript.                                         *)
THEOREM NoOrphanRows == Spec => []NoOrphans
<1>1. IInv => NoOrphans
  BY DEF IInv
<1>. QED
  BY Invariance, <1>1, PTL

----------------------------------------------------------------------------
(* Notes and transcript agree, where no regenerate request runs: a run has *)
(* in hand, and has written notes of, the transcript that is stored.       *)
Current ==
    \A w \in Workers : Live(proc[w].id) =>
        /\ proc[w].pc \in {"summarize", "select", "write"} =>
             proc[w].text = transcripts[proc[w].id]
        /\ proc[w].pc = "complete" =>
             notes[proc[w].id] = transcripts[proc[w].id]

LEMMA MatchStep ==
    ASSUME Requests = {}, IInv, Current, NotesMatchTranscript, Does
    PROVE  Current' /\ NotesMatchTranscript'
<1>. USE Constants
<1>1. /\ Procs = Workers
      /\ \A w \in Workers : proc[w].pc # "idle" => proc[w].id \in Ids
      /\ \A v, w \in Workers :
           v # w /\ proc[v].pc # "idle" => proc[v].id # proc[w].id
      /\ \A w \in Workers : proc[w].pc \notin {"idle", "load"} =>
           progress[proc[w].id].state # "notes_generated"
      /\ transcripts \in [Ids -> Transcripts \cup {None}]
      /\ notes \in [Ids -> Transcripts \cup {None}]
  BY DEF IInv, TypeOK, Held, OneRunPerConference, Unfinished, Procs
<1>2. ASSUME UNCHANGED <<conferences, transcripts, notes>>,
             NEW p \in Workers,
             \A q \in Workers \ {p} : proc'[q] = proc[q],
             proc'[p].id # None => proc'[p].id = proc[p].id \/
               proc'[p].pc = "load",
             \/ proc'[p].pc \notin {"summarize", "select", "write", "complete"}
             \/ /\ proc'[p].id = proc[p].id
                /\ proc'[p].pc = "summarize"
                /\ proc'[p].text = transcripts[proc[p].id]
             \/ /\ proc'[p].id = proc[p].id /\ proc'[p].text = proc[p].text
                /\ proc[p].pc \in {"summarize", "select", "write"}
                /\ proc'[p].pc \in {"summarize", "select", "write"}
      PROVE  Current'
  BY <1>1, <1>2 DEF Current, Live
<1>3. ASSUME UNCHANGED <<conferences, progress, transcripts, notes>>
      PROVE  NotesMatchTranscript'
  BY <1>3 DEF NotesMatchTranscript, Live
<1>4. ASSUME NEW p \in Procs, Walks(p)
      PROVE  Current' /\ NotesMatchTranscript'
  <2>1. /\ UNCHANGED <<conferences, progress, transcripts, notes>>
        /\ p \in Workers
        /\ \A q \in Workers \ {p} : proc'[q] = proc[q]
        /\ proc'[p].id = proc[p].id
    BY <1>1, <1>4 DEF Walks, Gives, Stops, Stays, Turns, database
  <2>2. \/ proc'[p].pc \notin {"summarize", "select", "write", "complete"}
        \/ /\ proc'[p].pc = "summarize"
           /\ proc'[p].text = transcripts[proc[p].id]
        \/ /\ proc'[p].text = proc[p].text
           /\ proc[p].pc \in {"summarize", "select"}
           /\ proc'[p].pc \in {"select", "write"}
    BY <1>1, <1>4 DEF Walks, Gives, Stops, Stays, Turns
  <2>. QED
    BY <1>2, <1>3, <2>1, <2>2
<1>5. ASSUME NEW p \in Procs, Writes(p)
      PROVE  Current' /\ NotesMatchTranscript'
  <2>. DEFINE i == proc[p].id
  <2>1. /\ UNCHANGED <<conferences, progress, transcripts>>
        /\ p \in Workers /\ i \in Ids /\ Live(i)
        /\ notes' = [notes EXCEPT ![i] = proc[p].text]
        /\ \A q \in Workers \ {p} : proc'[q] = proc[q]
        /\ proc'[p].id = i /\ proc'[p].pc = "complete"
        /\ proc[p].pc = "write"
    BY <1>1, <1>5 DEF Writes, Stays, Turns
  <2>2. proc[p].text = transcripts[i]
    BY <2>1 DEF Current
  <2>3. notes'[i] = transcripts[i] /\ \A j \in Ids \ {i} : notes'[j] = notes[j]
    BY <1>1, <2>1, <2>2
  <2>4. \A j : Live(j)' <=> Live(j)
    BY <2>1 DEF Live
  <2>5. NotesMatchTranscript'
    BY <2>1, <2>3, <2>4 DEF NotesMatchTranscript
  <2>6. ASSUME NEW w \in Workers \ {p}, Live(proc[w].id)
        PROVE  /\ proc[w].pc \in {"summarize", "select", "write"} =>
                    proc[w].text = transcripts[proc[w].id]
               /\ proc[w].pc = "complete" =>
                    notes'[proc[w].id] = transcripts[proc[w].id]
    BY <1>1, <2>1, <2>3, <2>6 DEF Current
  <2>7. Current'
    BY <2>1, <2>3, <2>4, <2>6 DEF Current
  <2>. QED
    BY <2>5, <2>7
<1>6. ASSUME NEW w \in Workers, NEW i \in Ids, Starts(w, i)
      PROVE  Current' /\ NotesMatchTranscript'
  BY <1>1, <1>2, <1>3, <1>6 DEF Starts, Turns, database
<1>7. ASSUME NEW w \in Workers, Ends(w)
      PROVE  Current' /\ NotesMatchTranscript'
  BY <1>1, <1>2, <1>3, <1>7 DEF Ends, Stops, Turns, database
<1>8. ASSUME NEW w \in Workers, Saves(w)
      PROVE  Current' /\ NotesMatchTranscript'
  <2>. DEFINE i == proc[w].id
  <2>1. /\ UNCHANGED <<conferences, notes>>
        /\ i \in Ids /\ progress[i].state # "notes_generated"
        /\ \A j \in Ids : progress'[j].state = progress[j].state
        /\ transcripts' = [transcripts EXCEPT ![i] = proc[w].name]
        /\ \A q \in Workers \ {w} : proc'[q] = proc[q]
        /\ proc'[w].id = i /\ proc'[w].pc = "advance"
        /\ proc[w].pc = "save"
    BY <1>1, <1>8 DEF Saves, Stays, Turns
  <2>2. \A j \in Ids \ {i} : transcripts'[j] = transcripts[j]
    BY <1>1, <2>1
  <2>3. \A j : Live(j)' <=> Live(j)
    BY <2>1 DEF Live
  <2>4. NotesMatchTranscript'
    BY <2>1, <2>2, <2>3 DEF NotesMatchTranscript
  <2>5. Current'
    BY <1>1, <2>1, <2>2, <2>3 DEF Current
  <2>. QED
    BY <2>4, <2>5
<1>9. ASSUME NEW w \in Workers, Advances(w) \/ Completes(w) \/ Fails(w)
      PROVE  Current' /\ NotesMatchTranscript'
  <2>. DEFINE i == proc[w].id
  <2>1. /\ UNCHANGED <<conferences, transcripts, notes>>
        /\ \A j \in Ids \ {i} : progress'[j] = progress[j]
        /\ i \in Ids /\ Live(i)
        /\ \/ progress'[i].state # "notes_generated"
           \/ proc[w].pc = "complete"
    BY <1>1, <1>9 DEF Advances, Completes, Fails, Marks
  <2>2. notes[i] = transcripts[i] \/ progress'[i].state # "notes_generated"
    BY <2>1 DEF Current
  <2>3. NotesMatchTranscript'
    BY <2>1, <2>2 DEF NotesMatchTranscript, Live
  <2>4. /\ \A q \in Workers \ {w} : proc'[q] = proc[q]
        /\ \/ proc'[w].id = i /\ proc'[w].pc = "generate"
           \/ proc'[w].id = None /\ proc'[w].pc = "idle"
    BY <1>1, <1>9 DEF Advances, Completes, Fails, Stops, Stays, Turns
  <2>. QED
    BY <1>2, <2>1, <2>3, <2>4
<1>10. CASE Requeues
  BY <1>3, <1>10 DEF Requeues, database, Current, Live
<1>11. CASE Announces
  BY <1>11 DEF Announces, Current, NotesMatchTranscript
<1>12. ASSUME NEW gone \in SUBSET Ids, Deletes(gone)
       PROVE  Current' /\ NotesMatchTranscript'
  <2>1. /\ UNCHANGED <<progress, proc>>
        /\ \A j : Live(j)' => Live(j) /\ j \notin gone
        /\ \A j \in Ids : Live(j)' =>
             transcripts'[j] = transcripts[j] /\ notes'[j] = notes[j]
    BY <1>12 DEF Deletes, Cascade, Live
  <2>2. NotesMatchTranscript'
    BY <2>1 DEF NotesMatchTranscript
  <2>3. Current'
    BY <1>1, <2>1 DEF Current
  <2>. QED
    BY <2>2, <2>3
<1>. QED
  BY <1>4, <1>5, <1>6, <1>7, <1>8, <1>9, <1>10, <1>11, <1>12 DEF Does

(* With only the pipeline writing notes (no POST notes:regenerate), a      *)
(* complete conference has the notes of the transcript that is stored: a   *)
(* later transcript replaces the stored one only in a run that has not     *)
(* written its notes yet.                                                  *)
THEOREM NotesAreCurrent ==
    ASSUME Requests = {}
    PROVE  Spec => []NotesMatchTranscript
<1>1. Init => IInv /\ Current /\ NotesMatchTranscript
  <2>1. Init => Current /\ NotesMatchTranscript
    BY Constants DEF Init, InitPipeline, Current, NotesMatchTranscript, Idle,
                     NewProgress, Procs
  <2>. QED
    BY <2>1, InitInv
<1>2. ASSUME IInv, Current, NotesMatchTranscript, [Next]_vars
      PROVE  IInv' /\ Current' /\ NotesMatchTranscript'
  <2>1. Does \/ UNCHANGED vars
    BY <1>2, StepDoes DEF IInv, Sound
  <2>2. CASE UNCHANGED vars
    <3>1. Current' /\ NotesMatchTranscript'
      BY <1>2, <2>2 DEF vars, Current, NotesMatchTranscript, Live
    <3>. QED
      BY <1>2, <3>1, InvStep
  <2>3. CASE Does
    BY <1>2, <2>3, MatchStep, InvStep
  <2>. QED
    BY <2>1, <2>2, <2>3
<1>. QED
  BY <1>1, <1>2, PTL DEF Spec

----------------------------------------------------------------------------
(* The refinement: what a step of the pipeline is to the reader.           *)

Seen(i) == IF ~Live(i) THEN "gone"
           ELSE IF transcripts[i] = None THEN "nothing"
           ELSE IF notes[i] = None THEN "transcript" ELSE "notes"

LEMMA ArtifactIsSeen ==
    /\ Artifact = [i \in Ids |-> Seen(i)]
    /\ Artifact' = [i \in Ids |-> Seen(i)']
<1>1. \A i \in Ids : Artifact[i] = Seen(i)
  BY DEF Artifact, Seen
<1>2. \A i \in Ids : Artifact'[i] = Seen(i)'
  BY DEF Artifact, Seen
<1>3. /\ Artifact = [i \in Ids |-> Artifact[i]]
      /\ Artifact' = [i \in Ids |-> Artifact'[i]]
  BY DEF Artifact
<1>. QED
  BY <1>1, <1>2, <1>3

LEMMA InitRefines == Init => Lifecycle!Init
<1>. SUFFICES ASSUME Init PROVE Lifecycle!Init
  OBVIOUS
<1>1. \A i \in Ids : Seen(i) = "nothing"
  <2> SUFFICES ASSUME NEW i \in Ids PROVE Seen(i) = "nothing"
    OBVIOUS
  <2>1. transcripts[i] = None
    BY DEF Init, InitPipeline
  <2>2. [id |-> i, transcript |-> None] \in conferences
    BY DEF Init
  <2>3. Live(i)
    BY <2>2 DEF Live
  <2>. QED
    BY <2>1, <2>3 DEF Seen
<1>2. \A i \in Ids : progress[i].state = "pending"
  BY DEF Init, InitPipeline, NewProgress
<1>. QED
  BY <1>1, <1>2, ArtifactIsSeen DEF Lifecycle!Init, Complete

LEMMA StepRefines ==
    ASSUME IInv, Does \/ UNCHANGED vars
    PROVE  Lifecycle!Next \/ UNCHANGED <<Artifact, Complete>>
<1>. USE Constants
<1>1. /\ TypeOK /\ Locals /\ Backed /\ NoOrphans /\ Unfinished /\ Held
      /\ Does \/ UNCHANGED vars
  BY DEF IInv
<1>2. /\ \A p \in Procs : proc[p].pc # "idle" => proc[p].id \in Ids
      /\ \A p \in Procs : proc[p].pc = "save" => proc[p].name # None
      /\ \A p \in Procs : proc[p].pc = "write" => proc[p].text # None
  BY <1>1 DEF Locals
<1>3. ASSUME UNCHANGED <<transcripts, notes>>, \A i : Live(i)' <=> Live(i)
      PROVE  UNCHANGED Artifact
  <2>1. \A i \in Ids : Seen(i)' = Seen(i)
    BY <1>3 DEF Seen
  <2>. QED
    BY <2>1, ArtifactIsSeen
<1>4. ASSUME \A i : Live(i)' <=> Live(i),
             \A i \in Ids : progress'[i].state = progress[i].state
      PROVE  UNCHANGED Complete
  <2>1. \A i \in Ids : (Live(i) /\ progress[i].state = "notes_generated")'
                    = (Live(i) /\ progress[i].state = "notes_generated")
    BY <1>4
  <2>. QED
    BY <2>1 DEF Complete
<1>5. UNCHANGED conferences => \A i : Live(i)' <=> Live(i)
  BY DEF Live
<1>6. ASSUME UNCHANGED <<progress, transcripts, notes>>,
             \A i : Live(i)' <=> Live(i)
      PROVE  UNCHANGED <<Artifact, Complete>>
  BY <1>3, <1>4, <1>6
<1>7. CASE \/ \E p \in Procs : Walks(p)
           \/ \E w \in Workers, i \in Ids : Starts(w, i)
           \/ \E w \in Workers : Ends(w)
           \/ Requeues \/ Announces \/ UNCHANGED vars
  <2>1. UNCHANGED <<progress, transcripts, notes>> /\ \A i : Live(i)' <=> Live(i)
    BY <1>5, <1>7 DEF Walks, Starts, Ends, Requeues, Announces, database, vars
  <2>. QED
    BY <1>6, <2>1
<1>8. ASSUME NEW w \in Workers, Saves(w)
      PROVE  Lifecycle!Next \/ UNCHANGED <<Artifact, Complete>>
  <2>1. PICK i \in Ids : i = proc[w].id
    BY <1>2, <1>8 DEF Saves
  <2>2. /\ Live(i) /\ UNCHANGED notes /\ \A j : Live(j)' <=> Live(j)
        /\ transcripts'[i] # None
        /\ \A j \in Ids \ {i} : transcripts'[j] = transcripts[j]
        /\ \A j \in Ids : progress'[j].state = progress[j].state
    BY <1>1, <1>2, <1>5, <1>8, <2>1 DEF Saves, TypeOK
  <2>3. UNCHANGED Complete
    BY <1>4, <2>2
  <2>4. \A j \in Ids \ {i} : Seen(j)' = Seen(j)
    BY <2>2 DEF Seen
  <2>5. CASE transcripts[i] = None
    <3>1. notes[i] = None
      BY <1>1, <2>5 DEF NoOrphans
    <3>2. Seen(i) = "nothing" /\ Seen(i)' = "transcript"
      BY <2>2, <2>5, <3>1 DEF Seen
    <3>3. Lifecycle!StoreTranscript(i)
      BY <2>3, <2>4, <3>2, ArtifactIsSeen DEF Lifecycle!StoreTranscript
    <3>. QED
      BY <3>3 DEF Lifecycle!Next
  <2>6. CASE transcripts[i] # None
    <3>1. Seen(i)' = Seen(i)
      BY <2>2, <2>6 DEF Seen
    <3>2. UNCHANGED Artifact
      BY <2>4, <3>1, ArtifactIsSeen
    <3>. QED
      BY <2>3, <3>2
  <2>. QED
    BY <2>5, <2>6
<1>9. ASSUME NEW p \in Procs, Writes(p)
      PROVE  Lifecycle!Next \/ UNCHANGED <<Artifact, Complete>>
  <2>1. PICK i \in Ids : i = proc[p].id
    BY <1>2, <1>9 DEF Writes
  <2>2. /\ Live(i) /\ UNCHANGED <<progress, transcripts>>
        /\ notes'[i] # None /\ \A j : Live(j)' <=> Live(j)
        /\ \A j \in Ids \ {i} : notes'[j] = notes[j]
    BY <1>1, <1>2, <1>5, <1>9, <2>1 DEF Writes, TypeOK
  <2>3. UNCHANGED Complete
    BY <1>4, <2>2
  <2>4. \A j \in Ids \ {i} : Seen(j)' = Seen(j)
    BY <2>2 DEF Seen
  <2>5. transcripts[i] # None
    BY <1>1, <1>9, <2>1, <2>2 DEF Backed, Writes
  <2>6. CASE notes[i] = None
    <3>1. Seen(i) = "transcript" /\ Seen(i)' = "notes"
      BY <2>2, <2>5, <2>6 DEF Seen
    <3>2. Lifecycle!StoreNotes(i)
      BY <2>3, <2>4, <3>1, ArtifactIsSeen DEF Lifecycle!StoreNotes
    <3>. QED
      BY <3>2 DEF Lifecycle!Next
  <2>7. CASE notes[i] # None
    <3>1. Seen(i)' = Seen(i)
      BY <2>2, <2>5, <2>7 DEF Seen
    <3>2. UNCHANGED Artifact
      BY <2>4, <3>1, ArtifactIsSeen
    <3>. QED
      BY <2>3, <3>2
  <2>. QED
    BY <2>6, <2>7
<1>10. ASSUME NEW w \in Workers, Advances(w) \/ Fails(w) \/ Completes(w)
       PROVE  Lifecycle!Next \/ UNCHANGED <<Artifact, Complete>>
  <2>1. PICK i \in Ids : i = proc[w].id
    BY <1>2, <1>10 DEF Advances, Fails, Completes
  <2>2. /\ Live(i) /\ UNCHANGED <<transcripts, notes>>
        /\ \A j : Live(j)' <=> Live(j)
        /\ \A j \in Ids \ {i} : progress'[j] = progress[j]
    BY <1>5, <1>10, <2>1 DEF Advances, Fails, Completes, Marks
  <2>3. UNCHANGED Artifact
    BY <1>3, <2>2
  <2>4. progress[i].state # "notes_generated"
    BY <1>1, <1>10, <2>1 DEF Unfinished, Advances, Fails, Completes
  <2>5. CASE progress'[i].state # "notes_generated"
    <3>1. \A j \in Ids : (Live(j) /\ progress[j].state = "notes_generated")'
                      = (Live(j) /\ progress[j].state = "notes_generated")
      BY <2>2, <2>4, <2>5
    <3>2. UNCHANGED Complete
      BY <3>1 DEF Complete
    <3>. QED
      BY <2>3, <3>2
  <2>6. CASE progress'[i].state = "notes_generated"
    <3>1. Completes(w)
      BY <1>10, <2>1, <2>6 DEF Advances, Fails, Marks
    <3>2. transcripts[i] # None /\ notes[i] # None
      BY <1>1, <2>1, <2>2, <3>1 DEF Backed, Completes
    <3>3. Seen(i) = "notes"
      BY <2>2, <3>2 DEF Seen
    <3>4. \A j \in Ids : (Live(j) /\ progress[j].state = "notes_generated")'
             = IF j = i THEN TRUE
               ELSE (Live(j) /\ progress[j].state = "notes_generated")
      BY <2>2, <2>6
    <3>5. Complete' = [Complete EXCEPT ![i] = TRUE]
      BY <3>4 DEF Complete
    <3>6. Lifecycle!Finish(i)
      BY <2>3, <3>3, <3>5, ArtifactIsSeen DEF Lifecycle!Finish
    <3>. QED
      BY <3>6 DEF Lifecycle!Next
  <2>. QED
    BY <2>5, <2>6
<1>11. ASSUME NEW gone \in SUBSET Ids, Deletes(gone)
       PROVE  Lifecycle!Next \/ UNCHANGED <<Artifact, Complete>>
  <2>1. /\ UNCHANGED progress
        /\ \A j : Live(j)' <=> (Live(j) /\ j \notin gone)
    BY <1>11 DEF Deletes, Cascade, Live
  <2>2. \A j \in Ids \ gone : /\ transcripts'[j] = transcripts[j]
                              /\ notes'[j] = notes[j]
    BY <1>11 DEF Deletes, Cascade
  <2>3. \A j \in Ids : Seen(j)' = IF j \in gone THEN "gone" ELSE Seen(j)
    BY <2>1, <2>2 DEF Seen
  <2>4. Artifact' = [j \in Ids |-> IF j \in gone THEN "gone" ELSE Artifact[j]]
    BY <2>3, ArtifactIsSeen
  <2>5. \A j \in Ids : (Live(j) /\ progress[j].state = "notes_generated")'
           = ((Live(j) /\ progress[j].state = "notes_generated")
                /\ j \notin gone)
    BY <2>1
  <2>6. Complete' = [j \in Ids |-> Complete[j] /\ j \notin gone]
    BY <2>5 DEF Complete
  <2>7. Lifecycle!Delete(gone)
    BY <2>4, <2>6 DEF Lifecycle!Delete
  <2>. QED
    BY <2>7 DEF Lifecycle!Next
<1>. QED
  BY <1>1, <1>7, <1>8, <1>9, <1>10, <1>11 DEF Does

(* Whatever runs at once, fails or is deleted, the reader of a conference  *)
(* sees it move forward only: every step of the pipeline is a step of      *)
(* NotesLifecycle or changes nothing there.                                *)
THEOREM Refines == Spec => ImplementsLifecycle
<1>1. IInv /\ [Next]_vars => [Lifecycle!Next]_<<Artifact, Complete>>
  BY StepDoes, StepRefines DEF IInv, Sound
<1>. QED
  BY <1>1, InitRefines, Invariance, PTL
     DEF Spec, ImplementsLifecycle, Lifecycle!Spec

============================================================================
