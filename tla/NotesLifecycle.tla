--------------------------- MODULE NotesLifecycle ---------------------------
(***************************************************************************)
(* What the notes pipeline promises the reader of GET /v1/conferences/     *)
(* {id}/transcript and .../notes (app/api/routes/notes.py): first there is *)
(* nothing, then a transcript, then notes; nothing is taken back but by a  *)
(* deletion, which is final; and "notes_generated" is shown only of a      *)
(* conference that has notes, and for good.                                *)
(***************************************************************************)
CONSTANT Ids

VARIABLES artifact, \* what can be read of each conference
          complete  \* whether its pipeline_state is "notes_generated"

Artifacts == {"nothing", "transcript", "notes", "gone"}

Init ==
    /\ artifact = [i \in Ids |-> "nothing"]
    /\ complete = [i \in Ids |-> FALSE]

StoreTranscript(i) ==
    /\ artifact[i] = "nothing"
    /\ artifact' = [artifact EXCEPT ![i] = "transcript"]
    /\ UNCHANGED complete

StoreNotes(i) ==
    /\ artifact[i] = "transcript"
    /\ artifact' = [artifact EXCEPT ![i] = "notes"]
    /\ UNCHANGED complete

Finish(i) ==
    /\ artifact[i] = "notes"
    /\ complete' = [complete EXCEPT ![i] = TRUE]
    /\ UNCHANGED artifact

Delete(gone) ==
    /\ artifact' = [i \in Ids |-> IF i \in gone THEN "gone" ELSE artifact[i]]
    /\ complete' = [i \in Ids |-> complete[i] /\ i \notin gone]

Next ==
    \/ \E i \in Ids : StoreTranscript(i) \/ StoreNotes(i) \/ Finish(i)
    \/ \E gone \in SUBSET Ids : Delete(gone)

Spec == Init /\ [][Next]_<<artifact, complete>>

=============================================================================
