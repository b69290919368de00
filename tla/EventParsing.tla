---------------------------- MODULE EventParsing ----------------------------
(***************************************************************************)
(* The body of a Pub/Sub push request and the event read from it           *)
(* (app/events/parser.py).  A resource name is the sequence of its         *)
(* segments, and a field that is missing or empty is None.                 *)
(***************************************************************************)
EXTENDS Naturals, Sequences

CONSTANT None \* Python's None

(* The marker "/subscriptions/" has a slash on either side. *)
SubscriptionNameFromSource(source) ==
    LET at == IF source = None THEN {}
              ELSE {i \in 2..Len(source) - 1 : source[i] = "subscriptions"}
        first == CHOOSE i \in at : \A j \in at : i <= j
    IN IF at = {} THEN None
       ELSE <<"subscriptions">> \o SubSeq(source, first + 1, Len(source))

(* Mutant of ConferenceRecordFrom: the name is not cut. *)
ConferenceRecordUncut(name) ==
    IF Len(name) >= 2 /\ name[1] = "conferenceRecords" THEN name ELSE None

ConferenceRecordFrom(name) ==
    IF Len(name) >= 2 /\ name[1] = "conferenceRecords"
      THEN SubSeq(name, 1, 2) ELSE None

(* An envelope: whether it has a message, the message's id, its data (as   *)
(* far as it gets on the way to a JSON object: "number" is no string), the *)
(* ce-source attribute, and the names in the object's transcript and       *)
(* conferenceRecord; and what has a type the code does not ask about: the  *)
(* body ("body": it is no object), or the attributes, ce-source or a name  *)
(* ("field"), or nothing (None).  Of these only the AttributeError or the  *)
(* TypeError tells.                                                        *)
Crashes(envelope) ==
    \/ envelope.untyped = "body"
    \/ /\ envelope.message /\ envelope.id # None
       /\ \/ envelope.data = "number"
          \/ envelope.data = "object" /\ envelope.untyped = "field"

(* Any other envelope raises EventParseError. *)
Parses(envelope) ==
    /\ envelope.message /\ envelope.id # None /\ envelope.data = "object"
    /\ ~Crashes(envelope)

ParsePush(envelope) ==
    LET transcript == envelope.transcript
        record     == envelope.record
        conference == IF transcript = None THEN None
                                           ELSE ConferenceRecordFrom(transcript)
    IN [message_id |-> envelope.id,
        subscription_name |-> SubscriptionNameFromSource(envelope.source),
        conference_record_name |->
           IF conference = None /\ record # None
             THEN ConferenceRecordFrom(record) ELSE conference,
        transcript_resource_name |-> transcript]

=============================================================================
