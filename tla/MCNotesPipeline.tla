-------------------------- MODULE MCNotesPipeline ---------------------------
(* Instances of NotesPipeline for TLC.                                     *)
EXTENDS NotesPipeline

CONSTANTS i1, m1

(* The first conference takes place in a meeting the owner created. *)
MCMeetingAt == [i \in Ids |-> IF i = i1 /\ m1 \in Meetings THEN m1 ELSE None]

=============================================================================
