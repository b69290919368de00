-------------------------- MODULE MCEventIngestion --------------------------
(* Instances of ParsedEvents, and so of EventIngestion, for TLC.           *)
EXTENDS ParsedEvents, TLC

CONSTANTS started, fileA, fileB, unnamed, poison, garbled, c1, t1, t2, k1, s1, s3

Symmetry == Permutations(Handlers)

Record(c)        == <<"conferenceRecords", c>>
File(c, t)       == Record(c) \o <<"transcripts", t>>
Subscription(s)  == <<"subscriptions", s>>
Source(s) == <<"", "", "workspaceevents.googleapis.com", "subscriptions", s>>

(* "conference started"; two "transcript ready" events of the same         *)
(* conference, one of which names it twice and comes under the             *)
(* subscription of a later consent; one that names no conference; a body   *)
(* without a message; and one in which the transcript's name is a number.  *)
MCPush == [m \in Messages |->
    LET base == [message |-> TRUE, id |-> m, data |-> "object",
                 source |-> Source(s1), transcript |-> None, record |-> None,
                 untyped |-> None]
    IN CASE m = started -> [base EXCEPT !.record = Record(c1)]
         [] m = fileA   -> [base EXCEPT !.transcript = File(c1, t1)]
         [] m = fileB   -> [base EXCEPT !.transcript = File(c1, t2),
                                        !.record = Record(c1),
                                        !.source = Source(s3)]
         [] m = unnamed -> [base EXCEPT !.record = <<"spaces", c1>>]
         [] m = poison  -> [base EXCEPT !.message = FALSE]
         [] m = garbled -> [base EXCEPT !.untyped = "field"]]

MCMalformed == {m \in Messages : ~Parsing!Parses(MCPush[m])}
MCUntyped   == {m \in Messages : Parsing!Crashes(MCPush[m])}

(* A field of each message's event. *)
Field(f) == [m \in Messages |-> IF m \in MCMalformed THEN None
                                ELSE Parsing!ParsePush(MCPush[m])[f]]

MCEventConference   == Field("conference_record_name")
MCEventTranscript   == Field("transcript_resource_name")
MCEventSubscription == Field("subscription_name")

Named(f) == {f[m] : m \in Messages} \ {None}

MCConferences   == Named(MCEventConference)
MCTranscripts   == Named(MCEventTranscript)
MCSubscriptions == {Subscription(s1), Subscription(s3)}

MCFirst == [k \in Connections |-> Subscription(s1)]
MCNext  == [k \in Connections |-> Subscription(s3)]

=============================================================================
