---------------------------- MODULE MCMeetings -----------------------------
(* Instance of Meetings for TLC. *)
EXTENDS Meetings, TLC

CONSTANTS c1, c2, d1, d2, d3, a1, a2

Symmetry ==
    Permutations({c1, c2}) \cup Permutations({d1, d2, d3})
      \cup Permutations({a1, a2})

============================================================================
