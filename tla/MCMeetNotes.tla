---------------------------- MODULE MCMeetNotes -----------------------------
(* Instances of MeetNotes for TLC.                                         *)
EXTENDS MeetNotes, TLC

CONSTANTS started, fileA, fileB, c1, t1, t2, k1, s1, s3, m1

MCEventConference == [m \in Ids |-> c1]
MCEventTranscript ==
    [m \in Ids |-> (started :> None @@ fileA :> t1 @@ fileB :> t2)[m]]

(* With a second subscription, a later consent of the user brings it, and  *)
(* the transcript's event comes under it.                                  *)
MCSecond == IF s3 \in Subscriptions THEN s3 ELSE None

MCEventSubscription ==
    [m \in Ids |-> IF m = fileA /\ s3 \in Subscriptions THEN s3 ELSE s1]
MCFirst == [k \in Connections |-> s1]
MCNext  == [k \in Connections |-> MCSecond]

(* The conference takes place in the meeting m1, if there is one. *)
MCMeetingAt == [m \in Ids |-> IF m1 \in Meetings THEN m1 ELSE None]

=============================================================================
