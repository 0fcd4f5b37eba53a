---------------------------- MODULE TrustRegister ----------------------------
(***************************************************************************)
(* What every EP-02 checkpoint store promises: a high-water mark that is   *)
(* set once by bootstrap and then only moves to a newer revision.  The     *)
(* SQLite authority and the file-based store are both shown to implement   *)
(* it.                                                                     *)
(***************************************************************************)
EXTENDS Naturals

CONSTANTS Checkpoints,   \* the checkpoints of authentic snapshots
          None

VARIABLE mark

Init == mark = None

Bootstrap == mark = None /\ mark' \in Checkpoints

Advance ==
    /\ mark # None
    /\ \E k \in Checkpoints : k.revision > mark.revision /\ mark' = k

Next == Bootstrap \/ Advance

Spec == Init /\ [][Next]_mark
=============================================================================
