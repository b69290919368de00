------------------------- MODULE ParsedEventsProofs -------------------------
(* That a row's transcript is its own conference's, which has no other     *)
(* row, for any handlers, messages and push bodies.                        *)
EXTENDS EventIngestionProofs, ParsedEvents, SequenceTheorems

(* A row has the name parse_push reads from some event. *)
Named ==
    \A r \in conferences :
        \E m \in Messages \ Malformed : EventConference[m] = r.name

(* A transcript in a row came in an event of the row's conference.         *)
Sourced ==
    \A r \in conferences : r.transcript # None =>
        \E m \in Messages \ Malformed :
            EventTranscript[m] = r.transcript /\ EventConference[m] = r.name

(* Whichever of the two names it is read from, it is a bare record name. *)
LEMMA RecordCut ==
    ASSUME NEW name, Parsing!ConferenceRecordFrom(name) # None
    PROVE  /\ Parsing!ConferenceRecordFrom(name) \in Seq({name[1], name[2]})
           /\ Len(Parsing!ConferenceRecordFrom(name)) = 2
           /\ Parsing!ConferenceRecordFrom(name)[1] = "conferenceRecords"
<1>1. /\ Parsing!ConferenceRecordFrom(name) = SubSeq(name, 1, 2)
      /\ name[1] = "conferenceRecords"
  BY DEF Parsing!ConferenceRecordFrom
<1>2. \A i \in 1..2 : name[i] \in {name[1], name[2]}
  OBVIOUS
<1>3. /\ SubSeq(name, 1, 2) \in Seq({name[1], name[2]})
      /\ Len(SubSeq(name, 1, 2)) = IF 1 <= 2 THEN 2 - 1 + 1 ELSE 0
      /\ \A i \in 1..2 - 1 + 1 : SubSeq(name, 1, 2)[i] = name[1 + i - 1]
  BY <1>2, SubSeqProperties, 1 \in Int, 2 \in Int
<1>. QED
  BY <1>1, <1>3

(* So the segment after conferenceRecords makes out the name. *)
LEMMA RecordById ==
    ASSUME NEW m \in Messages \ Malformed, NEW n \in Messages \ Malformed,
           EventConference[m] # None, EventConference[n] # None,
           EventConference[m][2] = EventConference[n][2]
    PROVE  EventConference[m] = EventConference[n]
<1>1. ASSUME NEW e \in Messages \ Malformed, EventConference[e] # None
      PROVE  /\ \E S : EventConference[e] \in Seq(S)
             /\ Len(EventConference[e]) = 2
             /\ EventConference[e][1] = "conferenceRecords"
  <2>1. EventConference[e] = Parsing!ParsePush(Push[e]).conference_record_name
    BY PushAssumption
  <2>2. \E name : EventConference[e] = Parsing!ConferenceRecordFrom(name)
    BY <1>1, <2>1 DEF Parsing!ParsePush
  <2>. QED
    BY <1>1, <2>2, RecordCut
<1>2. PICK S, T : EventConference[m] \in Seq(S) /\ EventConference[n] \in Seq(T)
  BY <1>1
<1>3. \A i \in 1..2 : EventConference[m][i] = EventConference[n][i]
  BY <1>1
<1>. QED
  BY <1>1, <1>2, <1>3, SeqEqual

(* The conference parse_push reads from an event with a transcript is the  *)
(* one the transcript's name begins with, whatever else the event names.   *)
LEMMA ConferenceOfTranscript ==
    ASSUME NEW m \in Messages \ Malformed, EventTranscript[m] # None
    PROVE  EventConference[m] = SubSeq(EventTranscript[m], 1, 2)
<1>. DEFINE name == Push[m].transcript
<1>1. EventTranscript[m] = name
  BY PushAssumption DEF Parsing!ParsePush
<1>2. BelowRecord(name)
  BY <1>1, PushAssumption
<1>3. Parsing!ConferenceRecordFrom(name) = SubSeq(name, 1, 2)
  BY <1>2 DEF BelowRecord, Parsing!ConferenceRecordFrom
<1>4. SubSeq(name, 1, 2) # None
  BY <1>2 DEF BelowRecord
<1>5. EventConference[m]
        = Parsing!ParsePush(Push[m]).conference_record_name
  BY PushAssumption
<1>. QED
  BY <1>1, <1>3, <1>4, <1>5 DEF Parsing!ParsePush

(* A handler writes its transcript into the row of its own conference.     *)
LEMMA SourcedWrite ==
    ASSUME IInv, Sourced, NEW h \in Handlers, req[h].pc # "idle",
           EventTranscript[Msg(h)] \in Transcripts,
           conferences' = SetTranscript(req[h].id, EventTranscript[Msg(h)])
    PROVE  Sourced'
<1>1. Base /\ ObjectsSound /\ Msg(h) \in Messages \ Malformed
  BY DEF IInv, Rows, Base, Locals
<1>2. ASSUME NEW q \in conferences', q.transcript # None
      PROVE  \E m \in Messages \ Malformed :
               EventTranscript[m] = q.transcript /\ EventConference[m] = q.name
  <2>1. PICK r \in conferences :
           /\ q.name = r.name
           /\ r.id = req[h].id => q.transcript = EventTranscript[Msg(h)]
           /\ q = IF r.id = req[h].id
                    THEN [r EXCEPT !.transcript = EventTranscript[Msg(h)]]
                    ELSE r
    BY <1>1, <1>2, SetTranscriptRows
  <2>2. CASE r.id = req[h].id
    <3>1. r.name = EventConference[Msg(h)]
      BY <1>1, <2>2 DEF ObjectsSound
    <3>. QED
      BY <1>1, <2>1, <2>2, <3>1
  <2>3. CASE r.id # req[h].id
    BY <1>2, <2>1, <2>3 DEF Sourced
  <2>. QED
    BY <2>2, <2>3
<1>. QED
  BY <1>2 DEF Sourced

LEMMA SourcedStep == IInv /\ Sourced /\ [Next]_vars => Sourced'
<1>. SUFFICES ASSUME IInv, Sourced, [Next]_vars PROVE Sourced'
  OBVIOUS
<1>1. ASSUME conferences' \subseteq conferences PROVE Sourced'
  BY <1>1 DEF Sourced
<1>2. ASSUME NEW h \in Handlers, InsertConference(h) PROVE Sourced'
  <2>. DEFINE new == [id |-> Msg(h), name |-> EventConference[Msg(h)],
                      conn |-> req[h].conn,
                      transcript |-> EventTranscript[Msg(h)]]
  <2>1. Msg(h) \in Messages \ Malformed
    BY <1>2 DEF IInv, Base, Locals, InsertConference
  <2>2. /\ new.transcript = EventTranscript[Msg(h)]
        /\ new.name = EventConference[Msg(h)]
    OBVIOUS
  <2>3. conferences' \subseteq conferences \cup {new}
    BY <1>2 DEF InsertConference
  <2>. HIDE DEF new
  <2>. QED
    BY <2>1, <2>2, <2>3 DEF Sourced
<1>3. ASSUME NEW h \in Handlers, UpdateConference(h) \/ ReapplyTranscript(h)
      PROVE  Sourced'
  <2>1. /\ req[h].pc # "idle"
        /\ EventTranscript[Msg(h)] \in Transcripts \cup {None}
        /\ ReapplyTranscript(h) => EventTranscript[Msg(h)] # None
    BY <1>3, IngestionAssumption
       DEF IInv, Base, Locals, UpdateConference, ReapplyTranscript
  <2>2. \/ UNCHANGED conferences
        \/ /\ EventTranscript[Msg(h)] # None
           /\ conferences' = SetTranscript(req[h].id, EventTranscript[Msg(h)])
    BY <1>3, <2>1 DEF UpdateConference, ReapplyTranscript
  <2>. QED
    BY <1>1, <2>1, <2>2, SourcedWrite
<1>. QED
  BY <1>1, <1>2, <1>3
     DEF Next, HandlerStep, Serve, vars, database, cloud, Deliver, AckPoison,
         CheckLedger, RecordMessage, LookupSubscription, LoadConference,
         ReloadConference, RefreshConference, Enqueue, Abort, Resubscribe,
         Unsubscribe, DeleteConnection, DeleteMeeting

(* A handler inserts a row under its event's name, and none renames a row. *)
LEMMA NamedStep == IInv /\ Named /\ [Next]_vars => Named'
<1>. SUFFICES ASSUME IInv, Named, [Next]_vars PROVE Named'
  OBVIOUS
<1>1. ASSUME conferences' \subseteq conferences PROVE Named'
  BY <1>1 DEF Named
<1>2. ASSUME NEW h \in Handlers, InsertConference(h) PROVE Named'
  <2>1. Msg(h) \in Messages \ Malformed
    BY <1>2 DEF IInv, Base, Locals, InsertConference
  <2>2. \A q \in conferences' :
           q \in conferences \/ q.name = EventConference[Msg(h)]
    BY <1>2 DEF InsertConference
  <2>. QED
    BY <2>1, <2>2 DEF Named
<1>3. ASSUME NEW h \in Handlers, UpdateConference(h) \/ ReapplyTranscript(h)
      PROVE  Named'
  <2>1. /\ EventTranscript[Msg(h)] \in Transcripts \cup {None}
        /\ ReapplyTranscript(h) => EventTranscript[Msg(h)] # None
    BY <1>3, IngestionAssumption
       DEF IInv, Base, Locals, UpdateConference, ReapplyTranscript
  <2>2. \/ UNCHANGED conferences
        \/ /\ EventTranscript[Msg(h)] \in Transcripts
           /\ conferences' = SetTranscript(req[h].id, EventTranscript[Msg(h)])
    BY <1>3, <2>1 DEF UpdateConference, ReapplyTranscript
  <2>3. \A q \in conferences' : \E r \in conferences : q.name = r.name
    BY <2>2, SetTranscriptRows DEF IInv
  <2>. QED
    BY <2>3 DEF Named
<1>. QED
  BY <1>1, <1>2, <1>3
     DEF Next, HandlerStep, Serve, vars, database, cloud, Deliver, AckPoison,
         CheckLedger, RecordMessage, LookupSubscription, LoadConference,
         ReloadConference, RefreshConference, Enqueue, Abort, Resubscribe,
         Unsubscribe, DeleteConnection, DeleteMeeting

(* Every transcript in a row came in an event of the row's conference.     *)
THEOREM TranscriptsSourced == Spec => []Sourced
<1>1. Init => Sourced
  BY DEF Init, Sourced
<1>. QED
  BY <1>1, SourcedStep, Invariance, PTL DEF Spec

(* A row's transcript is its own conference's: what parser.py derives from *)
(* the transcript's name and what it takes from conferenceRecord come out  *)
(* alike, no handler writes into another conference's row, and there is no *)
(* second row for a conference.                                            *)
THEOREM TranscriptsMatch == Spec => []TranscriptOfConference
<1>1. Init => Named
  BY DEF Init, Named
<1>2. ASSUME IInv, Named, Sourced PROVE TranscriptOfConference
  <2>1. ASSUME NEW r \in conferences, r.transcript # None
        PROVE  r.name = SubSeq(r.transcript, 1, 2)
    BY <1>2, <2>1, ConferenceOfTranscript DEF Sourced
  <2>2. ASSUME NEW r \in conferences, NEW q \in conferences,
               r.name[2] = q.name[2]
        PROVE  r = q
    <3>1. PICK m \in Messages \ Malformed, n \in Messages \ Malformed :
             EventConference[m] = r.name /\ EventConference[n] = q.name
      BY <1>2 DEF Named
    <3>2. r.name # None /\ q.name # None
      BY <1>2, IngestionAssumption DEF IInv, Base, TypeOK, Conference
    <3>3. r.name = q.name
      BY <2>2, <3>1, <3>2, RecordById
    <3>. QED
      BY <1>2, <3>3 DEF IInv, Rows, RowsSound
  <2>. QED
    BY <2>1, <2>2 DEF TranscriptOfConference
<1>. QED
  BY <1>1, <1>2, NamedStep, Invariance, TranscriptsSourced, PTL DEF Spec

=============================================================================
