--------------------------- MODULE MeetingsProofs ---------------------------
(***************************************************************************)
(* Proofs about Meetings: its type invariant, and that rows, events and    *)
(* spaces agree up to the requests that failed or met another account.     *)
(***************************************************************************)
EXTENDS Meetings, TLAPS

(* What the steps of a POST request have established so far. *)
InOrder(c) ==
    /\ create[c].pc = "idle" => events[c].state = "none"
    /\ create[c].pc = "creating" =>
         create[c].account # None /\ ~create[c].space
    /\ create[c].pc = "finding" => create[c].notes /\ ~create[c].space
    /\ create[c].pc = "enabling" => create[c].notes /\ create[c].space
    /\ create[c].pc = "storing" =>
         /\ create[c].notes = create[c].space
         /\ create[c].notes => c \in recording
    /\ create[c].pc \in {"finding", "enabling", "storing"} =>
         events[c].state = "live"
    /\ events[c].state = "live" => events[c].account # None

Creating == \A c \in Creates : InOrder(c)

(* Only a POST request that is done has a row, or a DELETE that found it.  *)
Done ==
    /\ \A r \in meetings : create[r.id].pc = "done"
    /\ \A d \in Deletes :
         /\ delete[d].meeting # None => create[delete[d].meeting].pc = "done"
         /\ delete[d].pc \in {"loaded", "deleting", "dropping"} =>
              delete[d].meeting # None
         /\ delete[d].pc = "idle" => delete[d].meeting = None

(* What a DELETE request that is about to drop the row leaves behind. *)
Dropping ==
    \A d \in Deletes :
        LET m == delete[d].meeting
        IN delete[d].pc = "dropping" =>
             \/ events[m].state # "live"
             \/ d \in failed
             \/ delete[d].account # events[m].account

IInv ==
    /\ TypeOK /\ Creating /\ Done /\ Dropping
    /\ NotesBacked /\ StraysExplained /\ RowsHaveEvents

----------------------------------------------------------------------------
(* POST request c is now at pc with the given locals; the others stay. *)
CreateMoves(c, pc, a, n, s) ==
    /\ create' \in [Creates -> Create]
    /\ create'[c] = [pc |-> pc, account |-> a, notes |-> n, space |-> s]
    /\ \A t \in Creates \ {c} : create'[t] = create[t]

(* Likewise DELETE request d. *)
DeleteMoves(d, pc, m, a) ==
    /\ delete' \in [Deletes -> Delete]
    /\ delete'[d] = [pc |-> pc, meeting |-> m, account |-> a]
    /\ \A t \in Deletes \ {d} : delete'[t] = delete[t]

(* The event of c is now in state s of account a; the others stay. *)
EventMoves(c, a, s) ==
    /\ events' \in [Creates -> Event]
    /\ events'[c] = [account |-> a, state |-> s]
    /\ \A t \in Creates \ {c} : events'[t] = events[t]

(* What the steps of a POST request do. *)
Starts(c) ==
    /\ create[c].pc = "idle" /\ UNCHANGED <<meetings, events, recording, failed>>
    /\ \/ account # None
          /\ \/ CreateMoves(c, "creating", account, TRUE, FALSE)
             \/ CreateMoves(c, "creating", account, FALSE, FALSE)
       \/ CreateMoves(c, "done", None, FALSE, FALSE)

Schedules(c) ==
    LET q == create[c]
    IN /\ q.pc = "creating" /\ EventMoves(c, q.account, "live")
       /\ UNCHANGED <<meetings, recording>>
       /\ \/ q.notes /\ CreateMoves(c, "finding", q.account, q.notes, q.space)
             /\ UNCHANGED failed
          \/ CreateMoves(c, "storing", q.account, FALSE, q.space)
             /\ UNCHANGED failed
          \/ CreateMoves(c, "done", None, FALSE, FALSE)
             /\ failed' = failed \cup {c}

Configures(c) ==
    LET q == create[c]
    IN /\ UNCHANGED <<meetings, events, failed>>
       /\ recording \subseteq recording' /\ recording' \subseteq recording \cup {c}
       /\ \/ q.pc = "finding"
             /\ CreateMoves(c, "enabling", q.account, q.notes, TRUE)
          \/ q.pc = "enabling" /\ c \in recording'
             /\ CreateMoves(c, "storing", q.account, q.notes, q.space)
          \/ q.pc \in {"finding", "enabling"}
             /\ CreateMoves(c, "storing", q.account, FALSE, FALSE)

Finishes(c) ==
    LET q == create[c]
    IN /\ CreateMoves(c, "done", None, FALSE, FALSE)
       /\ UNCHANGED <<events, recording>>
       /\ \/ /\ q.pc = "storing" /\ UNCHANGED failed
             /\ meetings' = meetings \cup
                              {[id |-> c, notes |-> q.notes, space |-> q.space]}
          \/ q.pc \notin {"idle", "done"} /\ failed' = failed \cup {c}
             /\ UNCHANGED meetings

CreateDoes(c) ==
    /\ UNCHANGED <<account, delete>>
    /\ Starts(c) \/ Schedules(c) \/ Configures(c) \/ Finishes(c)

(* What the steps of a DELETE request do. *)
DeleteDoes(d) ==
    LET q == delete[d]
    IN /\ UNCHANGED <<account, create, recording>>
       /\ \/ /\ q.pc = "idle" /\ UNCHANGED <<meetings, events, failed>>
             /\ \/ DeleteMoves(d, "done", q.meeting, q.account)
                \/ /\ \E r \in meetings : delete'[d].meeting = r.id
                   /\ DeleteMoves(d, "loaded", delete'[d].meeting, q.account)
          \/ /\ q.pc = "loaded" /\ UNCHANGED <<meetings, events, failed>>
             /\ \/ DeleteMoves(d, "deleting", q.meeting, account)
                \/ account = None /\ DeleteMoves(d, "dropping", q.meeting, account)
          \/ /\ q.pc = "deleting" /\ DeleteMoves(d, "dropping", q.meeting, q.account)
             /\ UNCHANGED meetings
             /\ \/ UNCHANGED events /\ failed' = failed \cup {d}
                \/ UNCHANGED <<events, failed>>
                   /\ q.account # events[q.meeting].account
                \/ UNCHANGED failed
                   /\ EventMoves(q.meeting, events[q.meeting].account, "deleted")
          \/ /\ DeleteMoves(d, "done", q.meeting, q.account) /\ UNCHANGED events
             /\ \/ q.pc = "dropping" /\ UNCHANGED failed
                   /\ meetings' = meetings \ Rows(q.meeting)
                \/ q.pc \notin {"idle", "done"} /\ UNCHANGED meetings
                   /\ failed' = failed \cup {d}

ReconnectDoes ==
    /\ account' \in Accounts \cup {None}
    /\ UNCHANGED <<meetings, events, recording, create, delete, failed>>

Does ==
    \/ \E c \in Creates : CreateDoes(c)
    \/ \E d \in Deletes : DeleteDoes(d)
    \/ ReconnectDoes

----------------------------------------------------------------------------
(* The steps of a POST request do just that. *)
LEMMA CreateSteps ==
    ASSUME TypeOK, NEW c \in Creates, CreateMeeting(c) \/ AbortCreate(c)
    PROVE  CreateDoes(c)
<1> USE DEF TypeOK, Create, CreateMoves, EventMoves, EndCreate, NewCreate, Fault
<1>1. ASSUME NEW notes \in BOOLEAN, Begin(c, notes) PROVE CreateDoes(c)
  <2>1. /\ create[c].pc = "idle"
        /\ UNCHANGED <<account, meetings, events, recording, delete, failed>>
    BY <1>1 DEF Begin
  <2>2. CASE account = None
    <3>1. EndCreate(c)
      BY <1>1, <2>2, Zenon DEF Begin
    <3>2. CreateMoves(c, "done", None, FALSE, FALSE)
      BY <3>1
    <3> QED
      BY <2>1, <3>2 DEF CreateDoes, Starts
  <2>3. CASE account # None
    <3>1. create' = [create EXCEPT ![c] = [pc |-> "creating",
                       account |-> account, notes |-> notes, space |-> FALSE]]
      BY <1>1, <2>3, Zenon DEF Begin
    <3>2. CASE notes = TRUE
      <4>1. create' = [create EXCEPT ![c] = [pc |-> "creating",
                         account |-> account, notes |-> TRUE, space |-> FALSE]]
        BY <3>1, <3>2, Zenon
      <4> QED
        BY <2>1, <2>3, <4>1 DEF CreateDoes, Starts
    <3>3. CASE notes = FALSE
      <4>1. create' = [create EXCEPT ![c] = [pc |-> "creating",
                         account |-> account, notes |-> FALSE, space |-> FALSE]]
        BY <3>1, <3>3, Zenon
      <4> QED
        BY <2>1, <2>3, <4>1 DEF CreateDoes, Starts
    <3> QED
      BY <3>2, <3>3, Zenon
  <2> QED
    BY <2>2, <2>3
<1>2. ASSUME NEW link \in BOOLEAN, CreateEvent(c, link) PROVE CreateDoes(c)
  <2>1. EventMoves(c, create[c].account, "live")
    BY <1>2 DEF CreateEvent, Schedule, Event
  <2>2. CASE create[c].notes /\ link
    <3>1. CreateMoves(c, "finding", create[c].account, create[c].notes,
                      create[c].space)
      BY <1>2, <2>2 DEF CreateEvent
    <3> QED
      BY <1>2, <2>1, <2>2, <3>1 DEF CreateEvent, CreateDoes, Schedules
  <2>3. CASE ~(create[c].notes /\ link)
    <3>1. CreateMoves(c, "storing", create[c].account, FALSE, create[c].space)
      BY <1>2, <2>3 DEF CreateEvent
    <3> QED
      BY <1>2, <2>1, <3>1 DEF CreateEvent, CreateDoes, Schedules
  <2> QED
    BY <2>2, <2>3
<1>3. CASE CreateUnanswered(c)
  BY <1>3 DEF CreateUnanswered, Schedule, CreateDoes, Schedules, Event
<1>4. CASE FindSpace(c)
  BY <1>4 DEF FindSpace, CreateDoes, Configures
<1>5. CASE EnableTranscript(c)
  BY <1>5 DEF EnableTranscript, CreateDoes, Configures
<1>6. CASE DowngradeNotes(c)
  BY <1>6 DEF DowngradeNotes, EnableOrNot, CreateDoes, Configures
<1>7. CASE Store(c)
  BY <1>7 DEF Store, CreateDoes, Finishes
<1>8. CASE AbortCreate(c)
  BY <1>8 DEF AbortCreate, CreateDoes, Finishes
<1> QED
  BY <1>1, <1>2, <1>3, <1>4, <1>5, <1>6, <1>7, <1>8 DEF CreateMeeting

(* The steps of a DELETE request do just that. *)
LEMMA DeleteSteps ==
    ASSUME TypeOK, Done, NEW d \in Deletes, DeleteMeeting(d) \/ AbortDelete(d)
    PROVE  DeleteDoes(d)
<1> USE DEF TypeOK, Delete, Done, DeleteMoves, EndDelete, Fault, DeleteDoes
<1>1. ASSUME NEW m \in Creates, Load(d, m) PROVE DeleteDoes(d)
  <2>1. CASE Rows(m) = {}
    BY <1>1, <2>1 DEF Load
  <2>2. CASE Rows(m) # {}
    <3>1. PICK r \in meetings : r.id = m
      BY <2>2 DEF Rows
    <3>2. DeleteMoves(d, "loaded", r.id, delete[d].account)
      BY <1>1, <2>2, <3>1 DEF Load
    <3> QED
      BY <1>1, <3>2 DEF Load
  <2> QED
    BY <2>1, <2>2
<1>2. CASE GetConnection(d)
  BY <1>2 DEF GetConnection
<1>3. CASE DeleteEvent(d)
  BY <1>3 DEF DeleteEvent, EventMoves, Event
<1>4. CASE KeepEvent(d)
  BY <1>4 DEF KeepEvent
<1>5. CASE DropRow(d)
  BY <1>5 DEF DropRow
<1>6. CASE AbortDelete(d)
  BY <1>6 DEF AbortDelete
<1> QED
  BY <1>1, <1>2, <1>3, <1>4, <1>5, <1>6 DEF DeleteMeeting

LEMMA StepDoes ==
    ASSUME TypeOK, Done, [Next]_vars PROVE Does \/ UNCHANGED vars
<1> USE DEF Does
<1>1. ASSUME NEW c \in Creates, CreateMeeting(c) \/ AbortCreate(c) PROVE Does
  BY <1>1, CreateSteps
<1>2. ASSUME NEW d \in Deletes, DeleteMeeting(d) \/ AbortDelete(d) PROVE Does
  BY <1>2, DeleteSteps
<1>3. ASSUME NEW a \in Accounts \cup {None}, Reconnect(a) PROVE Does
  BY <1>3 DEF Reconnect, ReconnectDoes
<1> QED
  BY <1>1, <1>2, <1>3 DEF Next

----------------------------------------------------------------------------
(* Each part of the invariant is kept. *)
LEMMA TypesStep ==
    ASSUME TypeOK, Does \/ UNCHANGED vars PROVE TypeOK'
<1> USE DEF TypeOK, CreateMoves, DeleteMoves, EventMoves
<1>1. ASSUME NEW c \in Creates, CreateDoes(c) PROVE TypeOK'
  <2>1. CASE Starts(c)
    BY <1>1, <2>1 DEF CreateDoes, Starts
  <2>2. CASE Schedules(c)
    BY <1>1, <2>2 DEF CreateDoes, Schedules
  <2>3. CASE Configures(c)
    BY <1>1, <2>3 DEF CreateDoes, Configures
  <2>4. CASE Finishes(c)
    BY <1>1, <2>4 DEF CreateDoes, Finishes, Meeting, Create
  <2> QED
    BY <1>1, <2>1, <2>2, <2>3, <2>4 DEF CreateDoes
<1>2. ASSUME NEW d \in Deletes, DeleteDoes(d) PROVE TypeOK'
  BY <1>2 DEF DeleteDoes, Rows
<1>3. CASE ReconnectDoes \/ UNCHANGED vars
  BY <1>3 DEF ReconnectDoes, vars
<1> QED
  BY <1>1, <1>2, <1>3 DEF Does

LEMMA DoneStep ==
    ASSUME TypeOK, Done, Does \/ UNCHANGED vars PROVE Done'
<1> USE DEF TypeOK, Done, CreateMoves, DeleteMoves, Create, Delete, Meeting
<1>1. ASSUME NEW c \in Creates, CreateDoes(c) PROVE Done'
  <2>1. \/ create'[c].pc = "done" /\ create[c].pc # "done"
           /\ \A r \in meetings' : r \in meetings \/ r.id = c
        \/ create[c].pc # "done" /\ UNCHANGED meetings
    BY <1>1 DEF CreateDoes, Starts, Schedules, Configures, Finishes
  <2>2. /\ UNCHANGED delete
        /\ \A t \in Creates \ {c} : create'[t] = create[t]
    BY <1>1 DEF CreateDoes, Starts, Schedules, Configures, Finishes
  <2> QED
    BY <2>1, <2>2
<1>2. ASSUME NEW d \in Deletes, DeleteDoes(d) PROVE Done'
  <2>1. UNCHANGED create /\ meetings' \subseteq meetings
    BY <1>2 DEF DeleteDoes
  <2>2. delete' \in [Deletes -> Delete]
    BY <1>2 DEF DeleteDoes
  <2>3. /\ \A t \in Deletes \ {d} : delete'[t] = delete[t]
        /\ delete'[d].pc # "idle"
        /\ \/ /\ delete'[d].meeting = delete[d].meeting
              /\ delete'[d].pc = "done" \/ delete[d].meeting # None
           \/ \E r \in meetings : delete'[d].meeting = r.id
    <3>1. CASE delete[d].pc = "idle"
      <4>1. CASE DeleteMoves(d, "done", delete[d].meeting, delete[d].account)
        BY <4>1
      <4> QED
        BY <1>2, <3>1, <4>1 DEF DeleteDoes
    <3>2. CASE delete[d].pc # "idle"
      <4>1. delete[d].pc # "done" => delete[d].meeting # None
        BY <3>2
      <4>2. delete[d].pc # "done"
        BY <1>2 DEF DeleteDoes
      <4>3. /\ \A t \in Deletes \ {d} : delete'[t] = delete[t]
            /\ delete'[d].pc # "idle"
            /\ delete'[d].meeting = delete[d].meeting
        BY <1>2, <3>2 DEF DeleteDoes
      <4> QED
        BY <4>1, <4>2, <4>3
    <3> QED
      BY <3>1, <3>2
  <2> HIDE DEF DeleteMoves, CreateMoves
  <2>4. None \notin Creates
    BY MeetingsAssumption
  <2> QED
    BY <2>1, <2>2, <2>3, <2>4
<1>3. CASE ReconnectDoes \/ UNCHANGED vars
  BY <1>3 DEF ReconnectDoes, vars
<1> QED
  BY <1>1, <1>2, <1>3 DEF Does

LEMMA CreatingStep ==
    ASSUME TypeOK, Creating, Done, Does \/ UNCHANGED vars PROVE Creating'
<1> USE DEF TypeOK, Creating, InOrder, Create, CreateMoves, EventMoves, Event
<1>1. ASSUME NEW c \in Creates, CreateDoes(c) PROVE Creating'
  <2>1. ASSUME NEW t \in Creates, t # c PROVE InOrder(t)'
    <3>1. /\ create'[t] = create[t] /\ events'[t] = events[t]
          /\ recording \subseteq recording'
      BY <1>1, <2>1 DEF CreateDoes, Starts, Schedules, Configures, Finishes
    <3> QED
      BY <3>1
  <2>2. CASE Starts(c)
    <3>1. InOrder(c)'
      BY <2>2 DEF Starts
    <3> QED
      BY <2>1, <3>1
  <2>3. CASE Schedules(c)
    <3>1. InOrder(c)'
      BY <2>3 DEF Schedules
    <3> QED
      BY <2>1, <3>1
  <2>4. CASE Configures(c)
    <3>1. InOrder(c)'
      BY <2>4 DEF Configures
    <3> QED
      BY <2>1, <3>1
  <2>5. CASE Finishes(c)
    <3>1. InOrder(c)'
      BY <2>5 DEF Finishes
    <3> QED
      BY <2>1, <3>1
  <2> QED
    BY <1>1, <2>2, <2>3, <2>4, <2>5 DEF CreateDoes
<1>2. ASSUME NEW d \in Deletes, DeleteDoes(d) PROVE Creating'
  <2>1. UNCHANGED <<create, recording>>
    BY <1>2 DEF DeleteDoes
  <2>2. \/ UNCHANGED events
        \/ LET m == delete[d].meeting
           IN /\ m \in Creates /\ create[m].pc = "done"
              /\ EventMoves(m, events[m].account, "deleted")
    BY <1>2 DEF DeleteDoes, Done, Delete
  <2> QED
    BY <2>1, <2>2
<1>3. CASE ReconnectDoes \/ UNCHANGED vars
  BY <1>3 DEF ReconnectDoes, vars
<1> QED
  BY <1>1, <1>2, <1>3 DEF Does

LEMMA NotesStep ==
    ASSUME TypeOK, Creating, NotesBacked, Does \/ UNCHANGED vars
    PROVE  NotesBacked'
<1> USE DEF TypeOK, NotesBacked, Meeting, Create
<1>1. ASSUME NEW c \in Creates, CreateDoes(c) PROVE NotesBacked'
  <2>1. recording \subseteq recording'
    BY <1>1 DEF CreateDoes, Starts, Schedules, Configures, Finishes
  <2>2. \A r \in meetings' :
          \/ r \in meetings
          \/ /\ create[c].pc = "storing"
             /\ r = [id |-> c, notes |-> create[c].notes, space |-> create[c].space]
    BY <1>1 DEF CreateDoes, Starts, Schedules, Configures, Finishes
  <2> QED
    BY <2>1, <2>2 DEF Creating, InOrder
<1>2. ASSUME NEW d \in Deletes, DeleteDoes(d) PROVE NotesBacked'
  BY <1>2 DEF DeleteDoes
<1>3. CASE ReconnectDoes \/ UNCHANGED vars
  BY <1>3 DEF ReconnectDoes, vars
<1> QED
  BY <1>1, <1>2, <1>3 DEF Does

(* What is over stays over: only the state of its event may still change,  *)
(* to deleted.                                                             *)
LEMMA DoneStays ==
    ASSUME TypeOK, Done, Does \/ UNCHANGED vars
    PROVE  /\ failed \subseteq failed'
           /\ \A m \in Creates :
                create[m].pc = "done" =>
                  /\ create'[m].pc = "done"
                  /\ events'[m].account = events[m].account
                  /\ events'[m].state \in {events[m].state, "deleted"}
           /\ \A d \in Deletes :
                delete[d].pc = "done" => delete'[d] = delete[d]
<1> USE DEF TypeOK, Create, Delete, Event, CreateMoves, DeleteMoves, EventMoves
<1>1. ASSUME NEW c \in Creates, CreateDoes(c)
      PROVE  /\ failed \subseteq failed' /\ create[c].pc # "done"
             /\ UNCHANGED delete
             /\ \A t \in Creates \ {c} :
                  create'[t] = create[t] /\ events'[t] = events[t]
  BY <1>1 DEF CreateDoes, Starts, Schedules, Configures, Finishes
<1>2. ASSUME NEW d \in Deletes, DeleteDoes(d)
      PROVE  /\ failed \subseteq failed' /\ delete[d].pc # "done"
             /\ UNCHANGED create
             /\ \A t \in Deletes \ {d} : delete'[t] = delete[t]
             /\ \A m \in Creates :
                  /\ events'[m].account = events[m].account
                  /\ events'[m].state \in {events[m].state, "deleted"}
  <2>1. /\ failed \subseteq failed' /\ delete[d].pc # "done"
        /\ UNCHANGED create
        /\ \A t \in Deletes \ {d} : delete'[t] = delete[t]
    BY <1>2 DEF DeleteDoes
  <2>2. \/ UNCHANGED events
        \/ EventMoves(delete[d].meeting, events[delete[d].meeting].account,
                      "deleted")
    BY <1>2 DEF DeleteDoes
  <2> QED
    BY <2>1, <2>2
<1>3. CASE ReconnectDoes \/ UNCHANGED vars
  BY <1>3 DEF ReconnectDoes, vars
<1> HIDE DEF CreateMoves, DeleteMoves, EventMoves
<1> QED
  BY <1>1, <1>2, <1>3 DEF Does

LEMMA DroppingStep ==
    ASSUME TypeOK, Creating, Done, Dropping, Does \/ UNCHANGED vars
    PROVE  Dropping'
<1> USE DEF TypeOK, Done, Delete, Event
<1>1. ASSUME NEW t \in Deletes, t \in failed \/ delete'[t] = delete[t],
             delete'[t].pc = "dropping"
      PROVE  \/ events'[delete'[t].meeting].state # "live"
             \/ t \in failed'
             \/ delete'[t].account # events'[delete'[t].meeting].account
  BY <1>1, DoneStays DEF Dropping
<1>2. ASSUME NEW c \in Creates, CreateDoes(c) PROVE Dropping'
  <2>1. UNCHANGED delete
    BY <1>2 DEF CreateDoes
  <2> QED
    BY <1>1, <2>1 DEF Dropping
<1>3. ASSUME NEW d \in Deletes, DeleteDoes(d) PROVE Dropping'
  <2>1. ASSUME delete'[d].pc = "dropping"
        PROVE  \/ events'[delete'[d].meeting].state # "live"
               \/ d \in failed'
               \/ delete'[d].account # events'[delete'[d].meeting].account
    <3>1. CASE delete[d].pc = "loaded"
      <4>1. /\ delete'[d].account = None
            /\ delete'[d].meeting = delete[d].meeting
            /\ UNCHANGED events
        BY <1>3, <2>1, <3>1 DEF DeleteDoes, DeleteMoves
      <4> QED
        BY <4>1, <3>1 DEF Creating, InOrder
    <3>2. CASE delete[d].pc = "deleting"
      BY <1>3, <2>1, <3>2 DEF DeleteDoes, DeleteMoves, EventMoves
    <3>3. CASE delete[d].pc \notin {"loaded", "deleting"}
      <4>1. delete'[d].pc \in {"done", "loaded"}
        BY <1>3, <3>3 DEF DeleteDoes, DeleteMoves
      <4> QED
        BY <2>1, <4>1
    <3> QED
      BY <3>1, <3>2, <3>3
  <2>2. \A t \in Deletes \ {d} : delete'[t] = delete[t]
    BY <1>3 DEF DeleteDoes, DeleteMoves
  <2> QED
    BY <1>1, <2>1, <2>2 DEF Dropping
<1>4. CASE ReconnectDoes \/ UNCHANGED vars
  BY <1>4 DEF ReconnectDoes, vars, Dropping
<1> QED
  BY <1>2, <1>3, <1>4 DEF Does

LEMMA StraysStep ==
    ASSUME TypeOK, Creating, Done, Dropping, StraysExplained,
           Does \/ UNCHANGED vars
    PROVE  StraysExplained'
<1> DEFINE
      Lost(m) ==
        \/ m \in failed
        \/ \E d \in Deletes :
             /\ delete[d].meeting = m /\ delete[d].pc = "done"
             /\ d \in failed \/ delete[d].account # events[m].account
<1> USE DEF TypeOK, Done, Create, Delete, Event, Meeting, Rows, Strays
<1> SUFFICES ASSUME NEW m \in Creates, m \in Strays' PROVE Lost(m)'
  BY DEF StraysExplained
<1>1. CASE m \in Strays
  <2>1. Lost(m) /\ create[m].pc = "done"
    BY <1>1 DEF StraysExplained
  <2> QED
    BY <2>1, DoneStays
<1>2. CASE create[m].pc # "done"
  <2>1. PICK c \in Creates : CreateDoes(c) /\ c = m
    <3>1. create'[m] # create[m]
      BY <1>2
    <3> QED
      BY <3>1 DEF Does, CreateDoes, Starts, Schedules, Configures, Finishes,
                  CreateMoves, DeleteDoes, ReconnectDoes, vars
  <2>2. CASE Starts(m)
    BY <2>2 DEF Starts, Creating, InOrder
  <2>3. CASE Schedules(m)
    BY <2>3 DEF Schedules, CreateMoves
  <2>4. CASE Configures(m)
    BY <2>4 DEF Configures, CreateMoves
  <2>5. CASE Finishes(m)
    <3>1. CASE m \in failed'
      BY <3>1
    <3>2. CASE m \notin failed'
      <4>1. [id |-> m, notes |-> create[m].notes, space |-> create[m].space]
              \in meetings'
        BY <2>5, <3>2 DEF Finishes
      <4> QED
        BY <4>1
    <3> QED
      BY <3>1, <3>2
  <2> QED
    BY <2>1, <2>2, <2>3, <2>4, <2>5 DEF CreateDoes
<1>3. CASE create[m].pc = "done" /\ m \notin Strays
  <2>1. Rows(m) # {}
    BY <1>3, DoneStays
  <2>2. PICK d \in Deletes : DeleteDoes(d) /\ meetings' # meetings
    <3>1. ~(meetings \subseteq meetings')
      BY <2>1
    <3> QED
      BY <3>1 DEF Does, CreateDoes, Starts, Schedules, Configures, Finishes,
                  ReconnectDoes, vars
  <2>3. /\ delete[d].pc = "dropping" /\ meetings' = meetings \ Rows(delete[d].meeting)
        /\ UNCHANGED <<events, failed>>
        /\ delete'[d] = [pc |-> "done", meeting |-> delete[d].meeting,
                         account |-> delete[d].account]
    BY <2>2 DEF DeleteDoes, DeleteMoves
  <2>4. delete[d].meeting = m
    BY <2>1, <2>3
  <2> QED
    BY <2>3, <2>4 DEF Dropping
<1> QED
  BY <1>1, <1>2, <1>3

LEMMA RowsStep ==
    ASSUME TypeOK, Creating, Done, EventsLive, Does \/ UNCHANGED vars
    PROVE  EventsLive'
<1> USE DEF TypeOK, Done, Create, Delete, Event, Meeting
<1> SUFFICES ASSUME NEW r \in meetings',
                    events'[r.id].state # "live"
             PROVE  \E d \in Deletes :
                      /\ delete'[d].meeting = r.id
                      /\ delete'[d].pc = "dropping" \/ d \in failed'
  BY DEF EventsLive
<1>1. ASSUME NEW c \in Creates, CreateDoes(c)
      PROVE  r \in meetings /\ UNCHANGED delete
  <2>1. CASE Finishes(c)
    BY <1>1, <2>1 DEF CreateDoes, Finishes, Creating, InOrder
  <2> QED
    BY <1>1, <2>1 DEF CreateDoes, Starts, Schedules, Configures
<1>2. ASSUME NEW d \in Deletes, DeleteDoes(d) PROVE r \in meetings
  BY <1>2 DEF DeleteDoes
<1>3. r \in meetings
  BY <1>1, <1>2 DEF Does, ReconnectDoes, vars
<1>4. CASE events[r.id].state # "live"
  <2>1. PICK d \in Deletes : /\ delete[d].meeting = r.id
                             /\ delete[d].pc = "dropping" \/ d \in failed
    BY <1>3, <1>4 DEF EventsLive
  <2>2. ASSUME delete'[d] # delete[d] PROVE DeleteDoes(d)
    <3>1. ASSUME NEW t \in Deletes, DeleteDoes(t) PROVE t = d
      BY <2>2, <3>1 DEF DeleteDoes, DeleteMoves
    <3>2. \E t \in Deletes : DeleteDoes(t)
      BY <1>1, <2>2 DEF Does, ReconnectDoes, vars
    <3> QED
      BY <3>1, <3>2
  <2>3. CASE DeleteDoes(d)
    <3>1. r.id \in Creates /\ r.id # None
      BY <1>3, MeetingsAssumption
    <3>2. delete[d].pc # "idle" /\ delete'[d].meeting = r.id
      BY <2>1, <2>3, <3>1 DEF DeleteDoes, DeleteMoves
    <3>3. CASE d \in failed
      BY <3>2, <3>3, DoneStays
    <3>4. CASE delete[d].pc = "dropping"
      <4>1. d \in failed' \/ meetings' = meetings \ Rows(r.id)
        BY <2>1, <2>3, <3>4 DEF DeleteDoes
      <4> QED
        BY <1>3, <3>2, <4>1 DEF Rows
    <3> QED
      BY <2>1, <3>3, <3>4
  <2> QED
    BY <2>1, <2>2, <2>3, DoneStays
<1>5. CASE events[r.id].state = "live"
  <2>1. PICK d \in Deletes : DeleteDoes(d)
    BY <1>3, <1>5
       DEF Does, CreateDoes, Starts, Schedules, Configures, Finishes,
                      EventMoves, ReconnectDoes, vars
  <2>2. /\ delete[d].meeting = r.id
        /\ delete'[d].meeting = r.id /\ delete'[d].pc = "dropping"
    BY <1>3, <1>5, <2>1 DEF DeleteDoes, DeleteMoves, EventMoves
  <2> QED
    BY <2>2
<1> QED
  BY <1>4, <1>5

(* Rows are inserted by POST requests only, and none that is done inserts  *)
(* another.                                                                *)
LEMMA GoneStep ==
    ASSUME TypeOK, Done, RowsGone, Does \/ UNCHANGED vars
    PROVE  RowsGone'
<1> USE DEF TypeOK, Done, Create, Delete, Meeting
<1> SUFFICES ASSUME NEW d \in Deletes, NEW r \in meetings',
                    delete'[d].pc = "done", delete'[d].meeting # None,
                    d \notin failed', r.id = delete'[d].meeting
             PROVE  FALSE
  BY DEF RowsGone, Rows
<1>1. CASE delete[d].pc = "done"
  <2>1. delete'[d] = delete[d] /\ d \notin failed
    BY <1>1, DoneStays
  <2>2. ASSUME NEW c \in Creates, CreateDoes(c) PROVE r \in meetings
    <3>1. create[c].pc # "done"
      BY <2>2 DEF CreateDoes, Starts, Schedules, Configures, Finishes
    <3>2. r.id # c
      BY <2>1, <3>1
    <3>3. meetings' = meetings
          \/ \E n, s : meetings' = meetings \cup
                                    {[id |-> c, notes |-> n, space |-> s]}
      BY <2>2 DEF CreateDoes, Starts, Schedules, Configures, Finishes
    <3> QED
      BY <3>2, <3>3
  <2>3. r \in meetings
    BY <2>2 DEF Does, DeleteDoes, ReconnectDoes, vars
  <2> QED
    BY <1>1, <2>1, <2>3 DEF RowsGone, Rows
<1>2. CASE delete[d].pc # "done"
  <2>1. PICK t \in Deletes : DeleteDoes(t)
    BY <1>2 DEF Does, CreateDoes, ReconnectDoes, vars
  <2>2. t = d
    BY <1>2, <2>1 DEF DeleteDoes, DeleteMoves
  <2>3. delete[d].pc = "dropping" /\ meetings' = meetings \ Rows(r.id)
    BY <1>2, <2>1, <2>2 DEF DeleteDoes, DeleteMoves
  <2> QED
    BY <2>3 DEF Rows
<1> QED
  BY <1>1, <1>2

----------------------------------------------------------------------------
(* IInv is inductive. *)
LEMMA InitInv == ASSUME Init PROVE IInv
<1> USE DEF Init, NewCreate, NewDelete
<1>1. TypeOK
  BY DEF TypeOK, Create, Delete, Event
<1>2. Creating /\ Done /\ Dropping
  BY DEF Creating, InOrder, Done, Dropping
<1>3. NotesBacked /\ StraysExplained /\ RowsHaveEvents
  BY DEF NotesBacked, StraysExplained, Strays, RowsHaveEvents, EventsLive,
         RowsGone
<1> QED
  BY <1>1, <1>2, <1>3 DEF IInv

LEMMA StepInv == ASSUME IInv, [Next]_vars PROVE IInv'
<1> USE DEF IInv
<1>1. Does \/ UNCHANGED vars
  BY StepDoes
<1>2. TypeOK' /\ Creating' /\ Done' /\ Dropping'
  BY <1>1, TypesStep, CreatingStep, DoneStep, DroppingStep
<1>3. NotesBacked' /\ StraysExplained' /\ RowsHaveEvents'
  BY <1>1, NotesStep, StraysStep, RowsStep, GoneStep DEF RowsHaveEvents
<1> QED
  BY <1>2, <1>3

THEOREM Invariance == Spec => []IInv
<1>1. Init => IInv
  BY InitInv
<1>2. IInv /\ [Next]_vars => IInv'
  BY StepInv
<1> QED
  BY <1>1, <1>2, PTL DEF Spec

----------------------------------------------------------------------------
(* Every variable has its type in every reachable state. *)
THEOREM TypeCorrect == Spec => []TypeOK
BY Invariance, PTL DEF IInv

(* A row with notes belongs to a space that transcribes, whichever calls   *)
(* to Google fail and whether they had their effect.                       *)
THEOREM NotesAreBacked == Spec => []NotesBacked
BY Invariance, PTL DEF IInv

(* Only failures and other accounts put events out of the API's reach, for *)
(* any number of concurrent requests.                                      *)
THEOREM NothingElseStrays == Spec => []StraysExplained
BY Invariance, PTL DEF IInv

(* The event of a row is deleted only on the way to dropping the row, or   *)
(* by a request that failed, and a DELETE that finds a row and does not    *)
(* fail leaves none.                                                       *)
THEOREM RowsKeepEvents == Spec => []RowsHaveEvents
BY Invariance, PTL DEF IInv

============================================================================
