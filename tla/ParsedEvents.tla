---------------------------- MODULE ParsedEvents ----------------------------
(***************************************************************************)
(* The webhook on the bodies of its push requests: what the handlers of    *)
(* EventIngestion know of a message is what parse_push (EventParsing)      *)
(* makes of its envelope (app/api/routes/webhooks.py).                     *)
(***************************************************************************)
EXTENDS EventIngestion, Sequences

CONSTANT Push \* the envelope of each message

Parsing == INSTANCE EventParsing

(* A transcript's resource name is conferenceRecords/*/transcripts/*. *)
BelowRecord(name) ==
    Len(name) >= 2 /\ name[1] = "conferenceRecords" /\ SubSeq(name, 1, 2) # None

(* handle_event gets the event parse_push returns; and Google names a      *)
(* transcript below the record of its conference.                          *)
ASSUME PushAssumption ==
    /\ Malformed = {m \in Messages : ~Parsing!Parses(Push[m])}
    /\ Untyped = {m \in Messages : Parsing!Crashes(Push[m])}
    /\ \A m \in Messages \ Malformed :
         LET event == Parsing!ParsePush(Push[m])
         IN /\ EventConference[m] = event.conference_record_name
            /\ EventTranscript[m] = event.transcript_resource_name
            /\ EventSubscription[m] = event.subscription_name
            /\ Push[m].transcript # None => BelowRecord(Push[m].transcript)

----------------------------------------------------------------------------
(* The two kinds of events of a conference meet in its row, although one   *)
(* names the conference and of the other its name is derived: a row's      *)
(* transcript is always its own conference's, and no conference - the      *)
(* segment after conferenceRecords - has two rows under different names,   *)
(* whichever kinds of events and whatever handlers raced to write them.    *)
TranscriptOfConference ==
    /\ \A r \in conferences :
         r.transcript # None => r.name = SubSeq(r.transcript, 1, 2)
    /\ \A r, q \in conferences : r.name[2] = q.name[2] => r = q

=============================================================================
