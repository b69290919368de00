---------------------------- MODULE MCNotesText -----------------------------
(* Instances of NotesText for TLC.                                         *)
EXTENDS NotesText, TLC

CONSTANTS p1, p2, p3, MaxEntries, Lengths

(* Three people listed; entries of two of them, of a participant who is    *)
(* not listed, and of nobody, in any lengths.                              *)
MCSpeaker(i) == <<p3, p2, None, p1>>[i]

MCBooks ==
    {[people |-> <<p1, p2>>,
      entries |-> [i \in 1..n |-> [participant |-> MCSpeaker(i),
                                   length |-> l[i]]]] :
        n \in 0..MaxEntries, l \in [1..MaxEntries -> Lengths]}

=============================================================================
