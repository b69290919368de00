------------------------ MODULE EventIngestionProofs ------------------------
(***************************************************************************)
(* Proofs about EventIngestion, for any number of handlers, messages,      *)
(* conferences and connections.                                            *)
(***************************************************************************)
EXTENDS EventIngestion, TLAPS

(* What a handler's locals hold at each of its awaits. *)
Locals ==
    \A h \in Handlers :
        /\ req[h].pc # "idle" => Msg(h) \in Messages \ Malformed
        /\ req[h].pc \in {"load", "save", "reload", "reapply", "refresh",
                          "enqueue"}
             => /\ EventConference[Msg(h)] # None
                /\ req[h].conn # None
        /\ req[h].pc \in {"reapply", "refresh", "enqueue"} => req[h].id # None
        /\ req[h].pc = "reapply" => EventTranscript[Msg(h)] # None
        /\ req[h].pc \in {"idle", "received", "record", "lookup", "load",
                          "reload"} => req[h].id = None

(* The ids in use were inserted by messages the ledger knows. *)
IdsRecorded ==
    /\ \A r \in conferences : r.id \in ledger
    /\ \A p \in enqueued : p[1] \in ledger /\ p[2] \in ledger
    /\ \A h \in Handlers : req[h].id \in ledger \cup {None}

(* A handler that may still insert a conference, and the id it would take, *)
(* which nobody uses or ever used.                                         *)
MayInsert(h) ==
    \/ req[h].pc \in {"lookup", "load"}
    \/ req[h].pc = "save" /\ req[h].id = None

FreshIds ==
    \A h \in Handlers : MayInsert(h) =>
        /\ \A r \in conferences : r.id # Msg(h)
        /\ \A m \in Messages : <<m, Msg(h)>> \notin enqueued
        /\ \A g \in Handlers : req[g].id # Msg(h)

(* The row behind a handler's conference object, as long as it exists. *)
ObjectsSound ==
    \A h \in Handlers : \A r \in conferences : r.id = req[h].id =>
        /\ r.name = EventConference[Msg(h)]
        /\ req[h].pc = "save" /\ req[h].transcript # None
             => r.transcript # None
        /\ req[h].pc \in {"refresh", "enqueue"}
           /\ EventTranscript[Msg(h)] # None => r.transcript # None

(* Types and locals. *)
Base == TypeOK /\ Locals

(* Messages and the ledger. *)
Once == AtMostOnce /\ AckedIsRecorded /\ IdsRecorded

(* Rows. *)
Rows == FreshIds /\ RowsSound /\ ObjectsSound /\ EnqueuedSound

IInv == Base /\ Once /\ Rows

USE IngestionAssumption

LEMMA InitBase == Init => Base
<1> SUFFICES ASSUME Init PROVE Base
  OBVIOUS
<1> USE DEF Init, Idle
<1>1. TypeOK
  BY DEF TypeOK, Request, Stages, Conference
<1>2. Locals
  BY DEF Locals, Msg
<1> QED
  BY <1>1, <1>2 DEF Base

LEMMA BaseStep == Base /\ [Next]_vars => Base'
<1> SUFFICES ASSUME Base, [Next]_vars PROVE Base'
  OBVIOUS
<1> USE DEF Base, TypeOK, Locals, Msg, Request, Stages, Conference, Idle, Goto,
            Reply200, Reply500, database, cloud
<1>1. ASSUME NEW h \in Handlers, NEW m \in Messages, Deliver(h, m) PROVE Base'
  BY <1>1 DEF Deliver
<1>2. ASSUME NEW m \in Messages, AckPoison(m) PROVE Base'
  BY <1>2 DEF AckPoison
<1>3. ASSUME NEW h \in Handlers, CheckLedger(h) PROVE Base'
  BY <1>3 DEF CheckLedger
<1>4. ASSUME NEW h \in Handlers, RecordMessage(h) PROVE Base'
  BY <1>4 DEF RecordMessage
<1>5. ASSUME NEW h \in Handlers, LookupSubscription(h) PROVE Base'
  BY <1>5 DEF LookupSubscription
<1>6. ASSUME NEW h \in Handlers, LoadConference(h) PROVE Base'
  <2>1. CASE RowsNamed(EventConference[Msg(h)]) = {}
    BY <1>6, <2>1 DEF LoadConference
  <2>2. ASSUME NEW r \in RowsNamed(EventConference[Msg(h)]),
               GotoWithRow(h, "save", r)
        PROVE  Base'
    <3>1. r \in Conference
      BY DEF RowsNamed
    <3>2. UNCHANGED <<unacked, database, enqueued, aborts>>
      BY <1>6 DEF LoadConference
    <3>3. TypeOK'
      BY <1>6, <2>2, <3>1, <3>2 DEF LoadConference, GotoWithRow
    <3>4. Locals'
      BY <1>6, <2>2, <3>1, <3>2 DEF LoadConference, GotoWithRow
    <3> QED
      BY <3>3, <3>4
  <2> QED
    BY <1>6, <2>1, <2>2 DEF LoadConference
<1>7. ASSUME NEW h \in Handlers, InsertConference(h) PROVE Base'
  BY <1>7 DEF InsertConference, RowsNamed
<1>8. ASSUME NEW h \in Handlers, UpdateConference(h) PROVE Base'
  BY <1>8 DEF UpdateConference, RowsWithId, SetTranscript
<1>9. ASSUME NEW h \in Handlers, ReloadConference(h) PROVE Base'
  <2>1. CASE RowsNamed(EventConference[Msg(h)]) = {}
    BY <1>9, <2>1 DEF ReloadConference
  <2>2. ASSUME NEW r \in RowsNamed(EventConference[Msg(h)]),
               NEW pc \in {"reapply", "refresh"},
               pc = "reapply" => EventTranscript[Msg(h)] # None,
               GotoWithRow(h, pc, r)
        PROVE  Base'
    <3>1. r \in Conference
      BY DEF RowsNamed
    <3>2. UNCHANGED <<unacked, database, enqueued, aborts>>
      BY <1>9, <2>2 DEF ReloadConference, GotoWithRow
    <3>3. TypeOK'
      BY <1>9, <2>2, <3>1, <3>2 DEF ReloadConference, GotoWithRow
    <3>4. Locals'
      BY <1>9, <2>2, <3>1, <3>2 DEF ReloadConference, GotoWithRow
    <3> QED
      BY <3>3, <3>4
  <2> QED
    BY <1>9, <2>1, <2>2 DEF ReloadConference
<1>10. ASSUME NEW h \in Handlers, ReapplyTranscript(h) PROVE Base'
  <2>1. \/ UNCHANGED <<database, unacked, enqueued, aborts>> /\ Reply500(h)
        \/ /\ UNCHANGED <<ledger, cloud, unacked, enqueued, aborts>>
           /\ conferences' = SetTranscript(req[h].id, EventTranscript[Msg(h)])
           /\ Goto(h, "refresh")
    BY <1>10 DEF ReapplyTranscript
  <2>2. Locals'
    BY <1>10, <2>1 DEF ReapplyTranscript
  <2>3. EventTranscript[Msg(h)] \in Transcripts
    BY <1>10 DEF ReapplyTranscript
  <2>4. conferences' \subseteq Conference
    BY <2>1, <2>3 DEF SetTranscript
  <2>5. TypeOK'
    BY <2>1, <2>4
  <2> QED
    BY <2>2, <2>5
<1>11. ASSUME NEW h \in Handlers, RefreshConference(h) PROVE Base'
  BY <1>11 DEF RefreshConference, RowsWithId
<1>12. ASSUME NEW h \in Handlers, Enqueue(h) PROVE Base'
  BY <1>12 DEF Enqueue
<1>13. ASSUME NEW h \in Handlers, Abort(h) PROVE Base'
  BY <1>13 DEF Abort
<1>14. ASSUME NEW k \in Connections,
              Resubscribe(k) \/ Unsubscribe(k) \/ DeleteConnection(k)
       PROVE Base'
  BY <1>14 DEF Resubscribe, Unsubscribe, DeleteConnection
<1>15. ASSUME NEW rows \in SUBSET conferences, DeleteMeeting(rows) PROVE Base'
  BY <1>15 DEF DeleteMeeting
<1>16. ASSUME UNCHANGED vars PROVE Base'
  BY <1>16 DEF vars
<1> QED
  BY <1>1, <1>2, <1>3, <1>4, <1>5, <1>6, <1>7, <1>8, <1>9, <1>10, <1>11,
     <1>12, <1>13, <1>14, <1>15, <1>16 DEF Next, HandlerStep, Serve

(* A handler's step changes no other handler.                              *)
LEMMA OthersUnchanged ==
    ASSUME TypeOK, NEW h \in Handlers,
           HandlerStep(h) \/ Abort(h) \/ \E m \in Messages : Deliver(h, m)
    PROVE  \A g \in Handlers \ {h} : req'[g] = req[g]
<1> USE DEF TypeOK, Goto, GotoWithRow, Reply200, Reply500
<1>1. CASE HandlerStep(h)
  BY <1>1
     DEF HandlerStep, Serve, CheckLedger, RecordMessage, LookupSubscription,
     LoadConference, InsertConference, UpdateConference, ReloadConference,
     ReapplyTranscript, RefreshConference, Enqueue
<1>2. CASE Abort(h)
  BY <1>2 DEF Abort
<1>3. CASE \E m \in Messages : Deliver(h, m)
  BY <1>3 DEF Deliver
<1> QED
  BY <1>1, <1>2, <1>3

LEMMA InitOnce == Init => Once
BY DEF Init, Once, AtMostOnce, AckedIsRecorded, IdsRecorded, Admitted, Idle

(* The steps of a handler that leave the ledger and the enqueues alone: an *)
(* admitted handler stays with its message, and only a recorded message is *)
(* acknowledged.                                                           *)
Quiet(h) ==
    /\ \A g \in Handlers \ {h} : req'[g] = req[g]
    /\ ledger' = ledger /\ enqueued' = enqueued
    /\ Admitted(h)' => Admitted(h) /\ req'[h].msg = req[h].msg
    /\ \/ unacked' = unacked
       \/ req[h].msg \in ledger /\ unacked' = unacked \ {req[h].msg}
    /\ req'[h].id \in ledger \cup {None}
    /\ \A r \in conferences' : r.id \in ledger

LEMMA QuietOnce ==
    ASSUME Base, Base', Once, NEW h \in Handlers, Quiet(h)
    PROVE  Once'
<1> USE DEF Base, TypeOK, Once, Quiet, Msg
<1>1. AtMostOnce'
  BY DEF AtMostOnce, Admitted
<1>2. AckedIsRecorded'
  BY DEF AckedIsRecorded
<1>3. IdsRecorded'
  BY DEF IdsRecorded
<1> QED
  BY <1>1, <1>2, <1>3

LEMMA OnceStep == Base /\ Base' /\ Once /\ [Next]_vars => Once'
<1> SUFFICES ASSUME Base, Base', Once, [Next]_vars PROVE Once'
  OBVIOUS
<1> USE DEF Base, TypeOK, Request
<1>a. ASSUME NEW h \in Handlers,
             HandlerStep(h) \/ Abort(h) \/ \E m \in Messages : Deliver(h, m)
      PROVE  \A g \in Handlers \ {h} : req'[g] = req[g]
  BY <1>a, OthersUnchanged
<1>b. ASSUME NEW h \in Handlers, NEW i, NEW t
      PROVE  \A r \in SetTranscript(i, t) : \E q \in conferences : r.id = q.id
  BY DEF SetTranscript, Conference
<1>1. ASSUME NEW h \in Handlers, NEW m \in Messages, Deliver(h, m) PROVE Once'
  <2>1. Quiet(h)
    BY <1>1, <1>a
       DEF Deliver, Quiet, Admitted, Idle, database, Once, IdsRecorded
  <2> QED
    BY <2>1, QuietOnce
<1>2. ASSUME NEW m \in Messages, AckPoison(m) PROVE Once'
  BY <1>2 DEF AckPoison, Once, AtMostOnce, AckedIsRecorded, IdsRecorded,
     Admitted, Msg, database
<1>3. ASSUME NEW h \in Handlers, CheckLedger(h) PROVE Once'
  <2>1. Quiet(h)
    BY <1>3, <1>a
       DEF HandlerStep, Serve, CheckLedger, Quiet, Admitted, Idle, database,
       Once, IdsRecorded, Goto, Reply200, Msg
  <2> QED
    BY <2>1, QuietOnce
<1>4. ASSUME NEW h \in Handlers, RecordMessage(h) PROVE Once'
  <2>1. CASE Msg(h) \in ledger
    <3>1. Quiet(h)
      BY <1>4, <1>a, <2>1
         DEF HandlerStep, Serve, RecordMessage, Quiet, Admitted, Idle,
         Once, IdsRecorded, Reply200, Msg
    <3> QED
      BY <3>1, QuietOnce
  <2>2. CASE Msg(h) \notin ledger
    <3>1. /\ \A g \in Handlers \ {h} : req'[g] = req[g]
          /\ req'[h].msg = Msg(h) /\ req'[h].id = req[h].id
          /\ Msg(h) \in Messages
      BY <1>4, <1>a, <2>2
         DEF HandlerStep, Serve, RecordMessage, Goto, Locals, Msg
    <3>2. /\ ledger' = ledger \cup {Msg(h)}
          /\ UNCHANGED <<unacked, conferences, enqueued>>
      BY <1>4, <2>2 DEF RecordMessage
    <3>3. AtMostOnce'
      BY <2>2, <3>1, <3>2 DEF Once, AtMostOnce, IdsRecorded, Admitted, Msg
    <3>4. AckedIsRecorded' /\ IdsRecorded'
      BY <3>1, <3>2 DEF Once, AckedIsRecorded, IdsRecorded
    <3> QED
      BY <3>3, <3>4 DEF Once
  <2> QED
    BY <2>1, <2>2
<1>5. ASSUME NEW h \in Handlers, LookupSubscription(h) PROVE Once'
  <2>1. Quiet(h)
    BY <1>5, <1>a
       DEF HandlerStep, Serve, LookupSubscription, Quiet, Admitted, Idle,
       database, Once, AtMostOnce, IdsRecorded, Reply200, Msg
  <2> QED
    BY <2>1, QuietOnce
<1>6. ASSUME NEW h \in Handlers, LoadConference(h) PROVE Once'
  <2>1. Quiet(h)
    BY <1>6, <1>a
       DEF HandlerStep, Serve, LoadConference, RowsNamed, GotoWithRow, Goto,
       Quiet, Admitted, database, Once, IdsRecorded, Msg
  <2> QED
    BY <2>1, QuietOnce
<1>7. ASSUME NEW h \in Handlers, InsertConference(h) PROVE Once'
  <2>1. Quiet(h)
    BY <1>7, <1>a
       DEF HandlerStep, Serve, InsertConference, RowsNamed, Goto, Quiet,
       Admitted, Once, AtMostOnce, IdsRecorded, Msg
  <2> QED
    BY <2>1, QuietOnce
<1>8. ASSUME NEW h \in Handlers, UpdateConference(h) PROVE Once'
  <2>1. Quiet(h)
    BY <1>8, <1>a, <1>b
       DEF HandlerStep, Serve, UpdateConference, Goto, Reply500, Idle,
       Quiet, Admitted, Once, IdsRecorded, Msg
  <2> QED
    BY <2>1, QuietOnce
<1>9. ASSUME NEW h \in Handlers, ReloadConference(h) PROVE Once'
  <2> USE DEF Quiet, Admitted, Once, IdsRecorded, Msg
  <2>1. /\ \A g \in Handlers \ {h} : req'[g] = req[g]
        /\ Admitted(h) /\ Msg(h) \in ledger
        /\ UNCHANGED <<database, enqueued>>
    BY <1>9, <1>a DEF HandlerStep, Serve, ReloadConference, AtMostOnce
  <2>2. CASE Reply200(h)
    BY <2>1, <2>2, QuietOnce DEF Reply200, Idle, database
  <2>3. ASSUME NEW r \in conferences, NEW stage, GotoWithRow(h, stage, r),
               UNCHANGED unacked
        PROVE  Once'
    <3>1. Quiet(h)
      BY <2>1, <2>3 DEF GotoWithRow, database
    <3> QED
      BY <3>1, QuietOnce
  <2> QED
    BY <1>9, <2>2, <2>3 DEF ReloadConference, RowsNamed
<1>10. ASSUME NEW h \in Handlers, ReapplyTranscript(h) PROVE Once'
  <2> USE DEF Quiet, Admitted, Once, IdsRecorded, Msg
  <2>1. /\ \A g \in Handlers \ {h} : req'[g] = req[g]
        /\ Admitted(h) /\ Msg(h) \in ledger
        /\ UNCHANGED <<ledger, enqueued>>
    BY <1>10, <1>a DEF HandlerStep, Serve, ReapplyTranscript, AtMostOnce
  <2>2. /\ unacked' = unacked
        /\ \/ req'[h] = Idle
           \/ req'[h].msg = req[h].msg /\ req'[h].id = req[h].id
    BY <1>10 DEF ReapplyTranscript, Goto, Reply500
  <2>3. \A r \in conferences' : r.id \in ledger
    BY <1>10, <1>b DEF ReapplyTranscript
  <2>4. Quiet(h)
    BY <2>1, <2>2, <2>3 DEF Idle
  <2> QED
    BY <2>4, QuietOnce
<1>11. ASSUME NEW h \in Handlers, RefreshConference(h) PROVE Once'
  <2>1. Quiet(h)
    BY <1>11, <1>a
       DEF HandlerStep, Serve, RefreshConference, Goto, Reply500, Idle,
       Quiet, Admitted, database, Once, IdsRecorded, Msg
  <2> QED
    BY <2>1, QuietOnce
<1>12. ASSUME NEW h \in Handlers, Enqueue(h) PROVE Once'
  <2>1. /\ \A g \in Handlers \ {h} : req'[g] = req[g]
        /\ req'[h] = Idle
        /\ Msg(h) \in ledger /\ Admitted(h)
        /\ req[h].id \in ledger
    BY <1>12, <1>a DEF HandlerStep, Serve, Enqueue, Reply200, Once, AtMostOnce,
       IdsRecorded, Admitted, Locals
  <2>2. /\ enqueued' = enqueued \cup {<<Msg(h), req[h].id>>}
        /\ unacked' \in {unacked, unacked \ {Msg(h)}}
        /\ UNCHANGED <<ledger, conferences>>
    BY <1>12 DEF Enqueue, Reply200, database
  <2>3. AtMostOnce'
    BY <2>1, <2>2 DEF Once, AtMostOnce, Admitted, Idle, Msg
  <2>4. AckedIsRecorded'
    BY <2>1, <2>2 DEF Once, AckedIsRecorded
  <2>5. IdsRecorded'
    BY <2>1, <2>2 DEF Once, IdsRecorded, Idle
  <2> QED
    BY <2>3, <2>4, <2>5 DEF Once
<1>13. ASSUME NEW h \in Handlers, Abort(h) PROVE Once'
  <2>1. Quiet(h)
    BY <1>13, <1>a DEF Abort, Reply500, Idle, Quiet, Admitted, database, Once,
       IdsRecorded
  <2> QED
    BY <2>1, QuietOnce
<1>14. ASSUME NEW k \in Connections,
              Resubscribe(k) \/ Unsubscribe(k) \/ DeleteConnection(k)
       PROVE Once'
  BY <1>14 DEF Resubscribe, Unsubscribe, DeleteConnection, Once, AtMostOnce,
     AckedIsRecorded, IdsRecorded, Admitted, Msg
<1>15. ASSUME NEW rows \in SUBSET conferences, DeleteMeeting(rows) PROVE Once'
  BY <1>15 DEF DeleteMeeting, Once, AtMostOnce, AckedIsRecorded, IdsRecorded,
     Admitted, Msg
<1>16. ASSUME UNCHANGED vars PROVE Once'
  BY <1>16 DEF vars, Once, AtMostOnce, AckedIsRecorded, IdsRecorded, Admitted,
     Msg
<1> QED
  BY <1>1, <1>2, <1>3, <1>4, <1>5, <1>6, <1>7, <1>8, <1>9, <1>10, <1>11,
     <1>12, <1>13, <1>14, <1>15, <1>16 DEF Next, HandlerStep, Serve

LEMMA InitRows == Init => Rows
BY DEF Init, Rows, FreshIds, RowsSound, ObjectsSound, EnqueuedSound, MayInsert,
   Idle

(* The steps of a handler that leave conferences and enqueued alone.       *)
LEMMA KeepRows ==
    ASSUME Base, Base', Once, Rows, NEW h \in Handlers,
           \A g \in Handlers \ {h} : req'[g] = req[g],
           UNCHANGED <<conferences, enqueued>>,
           RowsSound',
           MayInsert(h)' =>
             \/ MayInsert(h) /\ Msg(h)' = Msg(h)
             \/ Msg(h)' \notin ledger,
           req'[h].id # None =>
             \/ /\ req'[h].id = req[h].id
                /\ Msg(h)' = Msg(h)
             \/ \E r \in conferences : r.id = req'[h].id,
           \A r \in conferences : r.id = req'[h].id =>
             /\ r.name = EventConference[Msg(h)']
             /\ req'[h].pc = "save" /\ req'[h].transcript # None
                  => r.transcript # None
             /\ req'[h].pc \in {"refresh", "enqueue"}
                /\ EventTranscript[Msg(h)'] # None => r.transcript # None
    PROVE  Rows'
<1> USE DEF Base, TypeOK, Request, Rows, Msg
<1>1. FreshIds'
  <2> SUFFICES ASSUME NEW g \in Handlers, MayInsert(g)'
               PROVE  /\ \A r \in conferences : r.id # Msg(g)'
                      /\ \A m \in Messages : <<m, Msg(g)'>> \notin enqueued
                      /\ \A f \in Handlers : req'[f].id # Msg(g)'
    BY DEF FreshIds
  <2>1. CASE MayInsert(g) /\ Msg(g)' = Msg(g)
    <3>1. /\ \A r \in conferences : r.id # Msg(g)
          /\ \A m \in Messages : <<m, Msg(g)>> \notin enqueued
          /\ \A f \in Handlers : req[f].id # Msg(g)
      BY <2>1 DEF FreshIds
    <3>2. Msg(g) # None
      BY <2>1 DEF MayInsert, Locals
    <3>3. \A f \in Handlers : req'[f].id # Msg(g)
      BY <3>1, <3>2
    <3> QED
      BY <2>1, <3>1, <3>3
  <2>2. CASE Msg(g)' \notin ledger
    <3>1. Msg(g)' # None
      BY DEF MayInsert, Locals
    <3> QED
      BY <2>2, <3>1 DEF Once, IdsRecorded
  <2> QED
    BY <2>1, <2>2 DEF MayInsert
<1>2. ObjectsSound'
  BY DEF ObjectsSound
<1>3. EnqueuedSound'
  BY DEF EnqueuedSound
<1> QED
  BY <1>1, <1>2, <1>3

(* Rows that are deleted disturb nothing.                                  *)
LEMMA FewerRows ==
    ASSUME Base, Rows, conferences' \subseteq conferences,
           UNCHANGED <<req, enqueued>>,
           \A r \in conferences' : r.conn \in connections'
    PROVE  Rows'
BY DEF Rows, FreshIds, RowsSound, ObjectsSound, EnqueuedSound, MayInsert, Msg

(* What the UPDATE of a transcript does to the rows.                       *)
LEMMA SetTranscriptRows ==
    ASSUME Base, NEW i, NEW t \in Transcripts,
           NEW q \in SetTranscript(i, t)
    PROVE  \E r \in conferences :
              /\ q.id = r.id /\ q.name = r.name /\ q.conn = r.conn
              /\ r.id = i => q.transcript = t
              /\ r.transcript # None => q.transcript # None
              /\ q = IF r.id = i THEN [r EXCEPT !.transcript = t] ELSE r
BY DEF SetTranscript, Base, TypeOK, Conference

(* A handler that writes its event's transcript into the row it holds.     *)
LEMMA WriteRows ==
    ASSUME Base, Base', Once, Rows, NEW h \in Handlers,
           \A g \in Handlers \ {h} : req'[g] = req[g],
           UNCHANGED <<enqueued, connections>>,
           EventTranscript[Msg(h)] # None,
           req[h].pc # "idle",
           conferences' = SetTranscript(req[h].id, EventTranscript[Msg(h)]),
           req'[h] = [req[h] EXCEPT !.pc = "refresh"]
    PROVE  Rows'
<1> DEFINE i == req[h].id
           t == EventTranscript[Msg(h)]
<1>0. t \in Transcripts
  BY DEF Base, Locals
<1>1. \A q \in conferences' : \E r \in conferences :
         /\ q.id = r.id /\ q.name = r.name /\ q.conn = r.conn
         /\ r.id = i => q.transcript = t
         /\ r.transcript # None => q.transcript # None
         /\ q = IF r.id = i THEN [r EXCEPT !.transcript = t] ELSE r
  BY <1>0, SetTranscriptRows
<1> HIDE DEF t, i
<1> USE DEF Rows
<1>2. req'[h].id = req[h].id /\ req'[h].msg = req[h].msg
      /\ req'[h].pc = "refresh"
  BY DEF Base, TypeOK, Request
<1>3. FreshIds'
  <2> SUFFICES ASSUME NEW g \in Handlers, MayInsert(g)'
               PROVE  /\ \A r \in conferences' : r.id # Msg(g)'
                      /\ \A m \in Messages : <<m, Msg(g)'>> \notin enqueued
                      /\ \A f \in Handlers : req'[f].id # Msg(g)'
    BY DEF FreshIds
  <2>1. g # h /\ MayInsert(g) /\ Msg(g)' = Msg(g)
    BY <1>2 DEF MayInsert, Msg
  <2>2. /\ \A r \in conferences : r.id # Msg(g)
        /\ \A m \in Messages : <<m, Msg(g)>> \notin enqueued
        /\ \A f \in Handlers : req[f].id # Msg(g)
    BY <2>1 DEF FreshIds
  <2>3. \A r \in conferences' : r.id # Msg(g)
    BY <1>1, <2>2
  <2>4. \A f \in Handlers : req'[f].id # Msg(g)
    BY <1>2, <2>2
  <2> QED
    BY <2>1, <2>2, <2>3, <2>4
<1>4. RowsSound'
  BY <1>1 DEF RowsSound
<1>5. ObjectsSound'
  <2> SUFFICES ASSUME NEW g \in Handlers, NEW q \in conferences',
                      q.id = req'[g].id
               PROVE  /\ q.name = EventConference[Msg(g)']
                      /\ req'[g].pc = "save" /\ req'[g].transcript # None
                           => q.transcript # None
                      /\ req'[g].pc \in {"refresh", "enqueue"}
                         /\ EventTranscript[Msg(g)'] # None
                           => q.transcript # None
    BY DEF ObjectsSound
  <2>1. CASE g = h
    <3>1. PICK r \in conferences :
             /\ q.id = r.id /\ q.name = r.name
             /\ r.id = i => q.transcript = t
      BY <1>1
    <3>2. r.id = req[h].id /\ q.transcript = t
      BY <1>2, <2>1, <3>1 DEF i
    <3>3. r.name = EventConference[Msg(h)]
      BY <3>2 DEF ObjectsSound
    <3>4. q.transcript # None
      BY <1>0, <3>2
    <3> QED
      BY <1>2, <2>1, <3>1, <3>3, <3>4 DEF Msg
  <2>2. CASE g # h
    BY <1>1, <2>2 DEF ObjectsSound, Msg
  <2> QED
    BY <2>1, <2>2
<1>6. EnqueuedSound'
  BY <1>1 DEF EnqueuedSound
<1> QED
  BY <1>3, <1>4, <1>5, <1>6

(* The successful INSERT takes an id nobody used.                          *)
LEMMA InsertRows ==
    ASSUME Base, Base', Once, Rows, NEW h \in Handlers, InsertConference(h),
           \A g \in Handlers \ {h} : req'[g] = req[g],
           NEW new,
           new = [id |-> Msg(h), name |-> EventConference[Msg(h)],
                  conn |-> req[h].conn, transcript |-> EventTranscript[Msg(h)]],
           RowsNamed(new.name) = {}, new.conn \in connections
    PROVE  Rows'
<1> USE DEF Rows
<1>1. /\ conferences' = conferences \cup {new}
      /\ UNCHANGED <<enqueued, connections>>
      /\ req'[h].pc = "refresh" /\ req'[h].id = Msg(h)
      /\ req'[h].msg = Msg(h)
  BY DEF InsertConference, cloud, Base, TypeOK, Request, Msg
<1>2. /\ new.id = Msg(h) /\ new.name = EventConference[Msg(h)]
      /\ new.conn = req[h].conn /\ new.transcript = EventTranscript[Msg(h)]
  OBVIOUS
<1>3. /\ Admitted(h) /\ MayInsert(h) /\ Msg(h) \in Messages
      /\ Msg(h) # None
  BY DEF InsertConference, Admitted, MayInsert, Base, Locals
<1>4. /\ \A r \in conferences : r.id # Msg(h) /\ r.name # new.name
      /\ \A m \in Messages : <<m, Msg(h)>> \notin enqueued
      /\ \A g \in Handlers : req[g].id # Msg(h)
  BY <1>3 DEF FreshIds, RowsNamed
<1>5. FreshIds'
  <2> SUFFICES ASSUME NEW g \in Handlers, MayInsert(g)'
               PROVE  /\ \A r \in conferences' : r.id # Msg(g)'
                      /\ \A m \in Messages : <<m, Msg(g)'>> \notin enqueued
                      /\ \A f \in Handlers : req'[f].id # Msg(g)'
    BY <1>1 DEF FreshIds
  <2>1. g # h /\ MayInsert(g) /\ Msg(g)' = Msg(g)
    BY <1>1 DEF MayInsert, Msg
  <2>2. Msg(g) # Msg(h)
    BY <1>3, <2>1 DEF Once, AtMostOnce, Admitted, MayInsert
  <2>3. /\ \A r \in conferences : r.id # Msg(g)
        /\ \A m \in Messages : <<m, Msg(g)>> \notin enqueued
        /\ \A f \in Handlers : req[f].id # Msg(g)
    BY <2>1 DEF FreshIds
  <2>4. \A r \in conferences' : r.id # Msg(g)
    BY <1>1, <1>2, <2>2, <2>3
  <2>5. \A f \in Handlers : req'[f].id # Msg(g)
    BY <1>1, <2>2, <2>3
  <2> QED
    BY <2>1, <2>3, <2>4, <2>5
<1>6. RowsSound'
  BY <1>1, <1>2, <1>4 DEF RowsSound
<1>7. ObjectsSound'
  <2> SUFFICES ASSUME NEW g \in Handlers, NEW q \in conferences',
                      q.id = req'[g].id
               PROVE  /\ q.name = EventConference[Msg(g)']
                      /\ req'[g].pc = "save" /\ req'[g].transcript # None
                           => q.transcript # None
                      /\ req'[g].pc \in {"refresh", "enqueue"}
                         /\ EventTranscript[Msg(g)'] # None
                           => q.transcript # None
    BY DEF ObjectsSound
  <2>1. CASE g = h
    <3>1. q = new
      BY <1>1, <1>4, <2>1
    <3> QED
      BY <1>1, <1>2, <2>1, <3>1 DEF Msg
  <2>2. CASE g # h
    <3>1. q \in conferences
      BY <1>1, <1>2, <1>4, <2>2
    <3> QED
      BY <2>2, <3>1 DEF ObjectsSound, Msg
  <2> QED
    BY <2>1, <2>2
<1>8. EnqueuedSound'
  BY <1>1, <1>2, <1>4 DEF EnqueuedSound
<1> QED
  BY <1>5, <1>6, <1>7, <1>8

LEMMA EnqueueRows ==
    ASSUME Base, Base', Once, Rows, NEW h \in Handlers, Enqueue(h),
           \A g \in Handlers \ {h} : req'[g] = req[g]
    PROVE  Rows'
<1> USE DEF Rows
<1>1. /\ req'[h] = Idle
      /\ enqueued' = enqueued \cup {<<Msg(h), req[h].id>>}
      /\ UNCHANGED <<conferences, connections>>
  BY DEF Enqueue, Reply200, database, Base, TypeOK
<1>2. req[h].pc = "enqueue" /\ Msg(h) \in Messages /\ req[h].id # None
  BY DEF Enqueue, Base, Locals
<1>3. FreshIds'
  <2> SUFFICES ASSUME NEW g \in Handlers, MayInsert(g)'
               PROVE  /\ \A r \in conferences : r.id # Msg(g)'
                      /\ \A m \in Messages : <<m, Msg(g)'>> \notin enqueued'
                      /\ \A f \in Handlers : req'[f].id # Msg(g)'
    BY <1>1 DEF FreshIds
  <2>1. g # h /\ MayInsert(g) /\ Msg(g)' = Msg(g) /\ Msg(g) # None
    BY <1>1 DEF MayInsert, Msg, Idle, Base, Locals
  <2>2. /\ \A r \in conferences : r.id # Msg(g)
        /\ \A m \in Messages : <<m, Msg(g)>> \notin enqueued
        /\ \A f \in Handlers : req[f].id # Msg(g)
    BY <2>1 DEF FreshIds
  <2>3. \A m \in Messages : <<m, Msg(g)>> \notin enqueued'
    BY <1>1, <2>2
  <2>4. \A f \in Handlers : req'[f].id # Msg(g)
    BY <1>1, <2>1, <2>2 DEF Idle
  <2> QED
    BY <2>1, <2>2, <2>3, <2>4
<1>4. RowsSound'
  BY <1>1 DEF RowsSound
<1>5. ObjectsSound'
  <2> SUFFICES ASSUME NEW g \in Handlers, NEW r \in conferences,
                      r.id = req'[g].id
               PROVE  /\ g # h
                      /\ r.name = EventConference[Msg(g)]
                      /\ req[g].pc = "save" /\ req[g].transcript # None
                           => r.transcript # None
                      /\ req[g].pc \in {"refresh", "enqueue"}
                         /\ EventTranscript[Msg(g)] # None
                           => r.transcript # None
    BY <1>1 DEF ObjectsSound, Msg
  <2>1. g # h
    BY <1>1 DEF Idle, Base, TypeOK, Conference
  <2> QED
    BY <2>1 DEF ObjectsSound
<1>6. EnqueuedSound'
  <2> SUFFICES ASSUME NEW m \in Messages, NEW r \in conferences,
                      <<m, r.id>> \in enqueued'
               PROVE  /\ r.name = EventConference[m]
                      /\ EventTranscript[m] # None => r.transcript # None
    BY <1>1 DEF EnqueuedSound
  <2>1. CASE <<m, r.id>> \in enqueued
    BY <2>1 DEF EnqueuedSound
  <2>2. CASE m = Msg(h) /\ r.id = req[h].id
    BY <1>2, <2>2 DEF ObjectsSound
  <2> QED
    BY <1>1, <2>1, <2>2
<1> QED
  BY <1>3, <1>4, <1>5, <1>6

LEMMA RowsStep == Base /\ Base' /\ Once /\ Rows /\ [Next]_vars => Rows'
<1> SUFFICES ASSUME Base, Base', Once, Rows, [Next]_vars PROVE Rows'
  OBVIOUS
<1> USE DEF Base, TypeOK, Request, Rows, MayInsert, Msg, Idle
<1>a. ASSUME NEW h \in Handlers,
             HandlerStep(h) \/ Abort(h) \/ \E m \in Messages : Deliver(h, m)
      PROVE  \A g \in Handlers \ {h} : req'[g] = req[g]
  BY <1>a, OthersUnchanged
<1>b. ASSUME UNCHANGED <<conferences, connections>>
      PROVE  RowsSound'
  BY <1>b DEF RowsSound
<1>c. \A r \in conferences : r.id # None
  BY DEF Conference
<1>d. ASSUME NEW h \in Handlers,
             \A g \in Handlers \ {h} : req'[g] = req[g],
             UNCHANGED <<conferences, connections, enqueued>>, req'[h] = Idle
      PROVE  Rows'
  <2>1. req'[h].pc = "idle" /\ req'[h].id = None
    BY <1>d
  <2>2. RowsSound'
    BY <1>b, <1>d
  <2> QED
    BY <1>c, <1>d, <2>1, <2>2, KeepRows
<1>1. ASSUME NEW h \in Handlers, NEW m \in Messages, Deliver(h, m) PROVE Rows'
  <2>1. /\ req'[h].pc = "received" /\ req'[h].id = None
        /\ UNCHANGED <<conferences, connections, enqueued>>
    BY <1>1 DEF Deliver, database
  <2> QED
    BY <1>1, <1>a, <1>b, <1>c, <2>1, KeepRows
<1>2. ASSUME NEW m \in Messages, AckPoison(m) PROVE Rows'
  BY <1>2, FewerRows DEF AckPoison, database, RowsSound
<1>3. ASSUME NEW h \in Handlers, CheckLedger(h) PROVE Rows'
  <2>1. UNCHANGED <<conferences, connections, enqueued>>
    BY <1>3 DEF CheckLedger, database
  <2>2. CASE req'[h] = Idle
    BY <1>3, <1>a, <1>d, <2>1, <2>2 DEF HandlerStep, Serve
  <2>3. CASE Goto(h, "record")
    <3>1. req'[h].pc = "record" /\ req'[h].id = None
      BY <1>3, <2>3 DEF Goto, CheckLedger, Locals
    <3> QED
      BY <1>3, <1>a, <1>b, <1>c, <2>1, <3>1, KeepRows DEF HandlerStep, Serve
  <2> QED
    BY <1>3, <2>2, <2>3 DEF CheckLedger, Reply200
<1>4. ASSUME NEW h \in Handlers, RecordMessage(h) PROVE Rows'
  <2>1. UNCHANGED <<conferences, connections, enqueued>>
    BY <1>4 DEF RecordMessage, cloud
  <2>2. CASE req'[h] = Idle
    BY <1>4, <1>a, <1>d, <2>1, <2>2 DEF HandlerStep, Serve
  <2>3. CASE Goto(h, "lookup") /\ Msg(h) \notin ledger
    <3>1. /\ req'[h].pc = "lookup" /\ req'[h].id = None
          /\ Msg(h)' \notin ledger
      BY <1>4, <2>3 DEF Goto, RecordMessage, Locals
    <3> QED
      BY <1>4, <1>a, <1>b, <1>c, <2>1, <3>1, KeepRows DEF HandlerStep, Serve
  <2> QED
    BY <1>4, <2>2, <2>3 DEF RecordMessage, Reply200
<1>5. ASSUME NEW h \in Handlers, LookupSubscription(h) PROVE Rows'
  <2>1. UNCHANGED <<conferences, connections, enqueued>>
    BY <1>5 DEF LookupSubscription, database
  <2>2. CASE req'[h] = Idle
    BY <1>5, <1>a, <1>d, <2>1, <2>2 DEF HandlerStep, Serve
  <2>3. ASSUME NEW k, req' = [req EXCEPT ![h].pc = "load", ![h].conn = k]
        PROVE  Rows'
    <3>0. req[h].pc = "lookup" /\ req[h].id = None
      BY <1>5 DEF LookupSubscription, Locals
    <3>1. /\ req'[h].pc = "load" /\ req'[h].id = None
          /\ Msg(h)' = Msg(h) /\ MayInsert(h)
      BY <2>3, <3>0
    <3> QED
      BY <1>5, <1>a, <1>b, <1>c, <2>1, <3>1, KeepRows DEF HandlerStep, Serve
  <2> QED
    BY <1>5, <2>2, <2>3 DEF LookupSubscription, Reply200
<1>6. ASSUME NEW h \in Handlers, LoadConference(h) PROVE Rows'
  <2>1. UNCHANGED <<conferences, connections, enqueued>>
    BY <1>6 DEF LoadConference, database
  <2>2. CASE Goto(h, "save")
    <3>1. /\ req'[h].pc = "save" /\ req'[h].id = None
          /\ Msg(h)' = Msg(h) /\ MayInsert(h)
      BY <1>6, <2>2 DEF Goto, LoadConference, Locals
    <3> QED
      BY <1>6, <1>a, <1>b, <1>c, <2>1, <3>1, KeepRows DEF HandlerStep, Serve
  <2>3. ASSUME NEW r \in RowsNamed(EventConference[Msg(h)]),
               GotoWithRow(h, "save", r)
        PROVE  Rows'
    <3>1. r \in conferences /\ r.name = EventConference[Msg(h)]
      BY DEF RowsNamed
    <3>2. /\ req'[h].pc = "save" /\ req'[h].id = r.id /\ Msg(h)' = Msg(h)
          /\ req'[h].transcript = r.transcript
      BY <2>3 DEF GotoWithRow
    <3>3. \A q \in conferences : q.id = r.id => q = r
      BY <3>1 DEF RowsSound
    <3>4. RowsSound'
      BY <1>b, <2>1
    <3> QED
      BY <1>6, <1>a, <1>c, <2>1, <3>1, <3>2, <3>3, <3>4, KeepRows
         DEF HandlerStep, Serve
  <2> QED
    BY <1>6, <2>2, <2>3 DEF LoadConference
<1>7. ASSUME NEW h \in Handlers, InsertConference(h) PROVE Rows'
  <2> DEFINE new == [id |-> Msg(h), name |-> EventConference[Msg(h)],
                     conn |-> req[h].conn,
                     transcript |-> EventTranscript[Msg(h)]]
  <2>1. CASE RowsNamed(new.name) = {} /\ new.conn \in connections
    BY <1>7, <1>a, <2>1, InsertRows DEF HandlerStep, Serve
  <2>2. CASE ~(RowsNamed(new.name) = {} /\ new.conn \in connections)
    <3>1. UNCHANGED <<conferences, connections, enqueued>>
      BY <1>7, <2>2 DEF InsertConference, cloud
    <3>2. req'[h].pc = "reload" /\ req'[h].id = None
      BY <1>7, <2>2 DEF InsertConference, Goto
    <3> QED
      BY <1>7, <1>a, <1>b, <1>c, <3>1, <3>2, KeepRows DEF HandlerStep, Serve
  <2> QED
    BY <2>1, <2>2
<1>8. ASSUME NEW h \in Handlers, UpdateConference(h) PROVE Rows'
  <2> DEFINE t == EventTranscript[Msg(h)]
  <2>1. UNCHANGED <<connections, enqueued>> /\ req[h].pc = "save"
    BY <1>8 DEF UpdateConference, cloud
  <2>2. CASE /\ t \in {None, req[h].transcript}
             /\ Goto(h, "refresh") /\ UNCHANGED conferences
    <3>1. /\ req'[h].pc = "refresh" /\ req'[h].id = req[h].id
          /\ Msg(h)' = Msg(h)
      BY <2>2 DEF Goto
    <3>2. \A r \in conferences : r.id = req[h].id =>
            /\ r.name = EventConference[Msg(h)]
            /\ t # None => r.transcript # None
      BY <2>1, <2>2 DEF ObjectsSound
    <3> QED
      BY <1>8, <1>a, <1>b, <2>1, <2>2, <3>1, <3>2, KeepRows
         DEF HandlerStep, Serve
  <2>3. CASE /\ t # None /\ conferences' = SetTranscript(req[h].id, t)
             /\ Goto(h, "refresh")
    <3>1. req'[h] = [req[h] EXCEPT !.pc = "refresh"]
      BY <2>3 DEF Goto
    <3> QED
      BY <1>8, <1>a, <2>1, <2>3, <3>1, WriteRows DEF HandlerStep, Serve
  <2>4. CASE UNCHANGED conferences /\ req'[h] = Idle
    BY <1>8, <1>a, <1>d, <2>1, <2>4 DEF HandlerStep, Serve
  <2> QED
    BY <1>8, <2>2, <2>3, <2>4 DEF UpdateConference, Reply500
<1>9. ASSUME NEW h \in Handlers, ReloadConference(h) PROVE Rows'
  <2>1. UNCHANGED <<conferences, connections, enqueued>>
    BY <1>9 DEF ReloadConference, database
  <2>2. CASE req'[h] = Idle
    BY <1>9, <1>a, <1>d, <2>1, <2>2 DEF HandlerStep, Serve
  <2>3. ASSUME NEW r \in RowsNamed(EventConference[Msg(h)]),
               NEW stage \in {"reapply", "refresh"},
               \/ stage = "reapply"
               \/ EventTranscript[Msg(h)] = None \/ r.transcript # None,
               GotoWithRow(h, stage, r)
        PROVE  Rows'
    <3>1. r \in conferences /\ r.name = EventConference[Msg(h)]
      BY DEF RowsNamed
    <3>2. /\ req'[h].pc = stage /\ req'[h].id = r.id /\ Msg(h)' = Msg(h)
      BY <2>3 DEF GotoWithRow
    <3>3. \A q \in conferences : q.id = r.id => q = r
      BY <3>1 DEF RowsSound
    <3>4. RowsSound'
      BY <1>b, <2>1
    <3> QED
      BY <1>9, <1>a, <1>c, <2>1, <2>3, <3>1, <3>2, <3>3, <3>4, KeepRows
         DEF HandlerStep, Serve
  <2> QED
    BY <1>9, <2>2, <2>3 DEF ReloadConference, Reply200
<1>10. ASSUME NEW h \in Handlers, ReapplyTranscript(h) PROVE Rows'
  <2>1. /\ UNCHANGED <<connections, enqueued>> /\ req[h].pc = "reapply"
        /\ EventTranscript[Msg(h)] # None
    BY <1>10 DEF ReapplyTranscript, cloud, Locals
  <2>2. CASE UNCHANGED conferences /\ req'[h] = Idle
    BY <1>10, <1>a, <1>d, <2>1, <2>2 DEF HandlerStep, Serve
  <2>3. CASE /\ conferences' = SetTranscript(req[h].id, EventTranscript[Msg(h)])
             /\ Goto(h, "refresh")
    <3>1. req'[h] = [req[h] EXCEPT !.pc = "refresh"]
      BY <2>3 DEF Goto
    <3> QED
      BY <1>10, <1>a, <2>1, <2>3, <3>1, WriteRows DEF HandlerStep, Serve
  <2> QED
    BY <1>10, <2>2, <2>3 DEF ReapplyTranscript, Reply500
<1>11. ASSUME NEW h \in Handlers, RefreshConference(h) PROVE Rows'
  <2>1. UNCHANGED <<conferences, connections, enqueued>>
    BY <1>11 DEF RefreshConference, database
  <2>2. CASE req'[h] = Idle
    BY <1>11, <1>a, <1>d, <2>1, <2>2 DEF HandlerStep, Serve
  <2>3. CASE Goto(h, "enqueue")
    <3>1. /\ req'[h].pc = "enqueue" /\ req'[h].id = req[h].id
          /\ Msg(h)' = Msg(h)
      BY <2>3 DEF Goto
    <3>2. \A r \in conferences : r.id = req[h].id =>
            /\ r.name = EventConference[Msg(h)]
            /\ EventTranscript[Msg(h)] # None => r.transcript # None
      BY <1>11 DEF RefreshConference, ObjectsSound
    <3> QED
      BY <1>11, <1>a, <1>b, <2>1, <3>1, <3>2, KeepRows DEF HandlerStep, Serve
  <2> QED
    BY <1>11, <2>2, <2>3 DEF RefreshConference, Reply500
<1>12. ASSUME NEW h \in Handlers, Enqueue(h) PROVE Rows'
  BY <1>12, <1>a, EnqueueRows DEF HandlerStep, Serve
<1>13. ASSUME NEW h \in Handlers, Abort(h) PROVE Rows'
  BY <1>13, <1>a, <1>d DEF Abort, Reply500, database
<1>14. ASSUME NEW k \in Connections,
              Resubscribe(k) \/ Unsubscribe(k) \/ DeleteConnection(k)
       PROVE Rows'
  BY <1>14, FewerRows DEF Resubscribe, Unsubscribe, DeleteConnection, RowsSound
<1>15. ASSUME NEW rows \in SUBSET conferences, DeleteMeeting(rows) PROVE Rows'
  BY <1>15, FewerRows DEF DeleteMeeting, RowsSound, cloud
<1>16. ASSUME UNCHANGED vars PROVE Rows'
  BY <1>16, FewerRows DEF vars, RowsSound
<1> QED
  BY <1>1, <1>2, <1>3, <1>4, <1>5, <1>6, <1>7, <1>8, <1>9, <1>10, <1>11,
     <1>12, <1>13, <1>14, <1>15, <1>16 DEF Next, HandlerStep, Serve

----------------------------------------------------------------------------
(* The inductive invariant holds of every reachable state.                 *)
THEOREM Invariance == Spec => []IInv
<1>1. Init => IInv
  BY InitBase, InitOnce, InitRows DEF IInv
<1>2. IInv /\ [Next]_vars => IInv'
  BY BaseStep, OnceStep, RowsStep DEF IInv
<1> QED
  BY <1>1, <1>2, PTL DEF Spec

(* Every variable has its type in every reachable state.                   *)
THEOREM TypeCorrect == Spec => []TypeOK
<1>1. IInv => TypeOK
  BY DEF IInv, Base
<1> QED
  BY <1>1, Invariance, PTL

(* A message passes the ledger once, whatever is redelivered, raced or cut *)
(* short (the IntegrityError branch of handle_event).                      *)
THEOREM LedgerAdmitsOnce == Spec => []AtMostOnce
<1>1. IInv => AtMostOnce
  BY DEF IInv, Once
<1> QED
  BY <1>1, Invariance, PTL

(* No well-formed message is acknowledged before the ledger has it.        *)
THEOREM NothingAckedUnseen == Spec => []AckedIsRecorded
<1>1. IInv => AckedIsRecorded
  BY DEF IInv, Once
<1> QED
  BY <1>1, Invariance, PTL

(* One row per conference and per id, none without its connection.         *)
THEOREM OneRowPerConference == Spec => []RowsSound
<1>1. IInv => RowsSound
  BY DEF IInv, Rows
<1> QED
  BY <1>1, Invariance, PTL

(* The pipeline is told of the right row, with the transcript in it.       *)
THEOREM EnqueueAfterTranscript == Spec => []EnqueuedSound
<1>1. IInv => EnqueuedSound
  BY DEF IInv, Rows
<1> QED
  BY <1>1, Invariance, PTL

(* No step takes a transcript away from a row.                             *)
THEOREM TranscriptNeverErased == Spec => TranscriptKept
<1> DEFINE Kept == \A r \in conferences, q \in conferences' :
                     r.id = q.id /\ r.transcript # None => q.transcript # None
<1>1. IInv /\ IInv' /\ [Next]_vars => Kept
  <2> SUFFICES ASSUME IInv, IInv', [Next]_vars,
                      NEW r \in conferences, NEW q \in conferences',
                      r.id = q.id, r.transcript # None
               PROVE  q.transcript # None
    OBVIOUS
  <2>0. /\ Base /\ RowsSound /\ RowsSound' /\ FreshIds
    BY DEF IInv, Rows
  <2>1. ASSUME q \in conferences PROVE q.transcript # None
    BY <2>0, <2>1 DEF RowsSound
  <2>2. ASSUME NEW h \in Handlers, InsertConference(h), q \notin conferences
        PROVE  q.transcript # None
    <3>1. MayInsert(h) /\ q.id = Msg(h)
      BY <2>2 DEF InsertConference, MayInsert
    <3> QED
      BY <2>0, <3>1 DEF FreshIds
  <2>3. ASSUME NEW h \in Handlers,
               UpdateConference(h) \/ ReapplyTranscript(h)
        PROVE  q.transcript # None
    <3>1. CASE conferences' = conferences
      BY <2>1, <3>1
    <3>2. CASE /\ conferences' =
                    SetTranscript(req[h].id, EventTranscript[Msg(h)])
               /\ EventTranscript[Msg(h)] \in Transcripts
      <4>1. PICK p \in conferences :
               p.id = q.id /\ (p.transcript # None => q.transcript # None)
        BY <2>0, <3>2, SetTranscriptRows
      <4>2. p = r
        BY <2>0, <4>1 DEF RowsSound
      <4> QED
        BY <4>1, <4>2
    <3>3. EventTranscript[Msg(h)] \in Transcripts \cup {None}
      BY <2>0, <2>3 DEF Base, Locals, UpdateConference, ReapplyTranscript
    <3>4. ReapplyTranscript(h) => EventTranscript[Msg(h)] # None
      BY <2>0 DEF Base, Locals, ReapplyTranscript
    <3> QED
      BY <2>3, <3>1, <3>2, <3>3, <3>4 DEF UpdateConference, ReapplyTranscript
  <2>4. CASE conferences' \subseteq conferences
    BY <2>1, <2>4
  <2> QED
    BY <2>1, <2>2, <2>3, <2>4
       DEF Next, HandlerStep, Serve, vars, database, cloud, Deliver, AckPoison,
           CheckLedger, RecordMessage, LookupSubscription, LoadConference,
           ReloadConference, RefreshConference, Enqueue, Abort, Resubscribe,
           Unsubscribe, DeleteConnection, DeleteMeeting
<1>2. IInv /\ IInv' /\ [Next]_vars => [Kept]_vars
  BY <1>1
<1> QED
  BY <1>2, Invariance, PTL DEF Spec, TranscriptKept

=============================================================================
