------------------------------- MODULE MCTree -------------------------------
(* The tree twice: with a gap between keys, manual compactions and failures,  *)
(* and with fewer keys, a deletion and a snapshot. A behaviour is one of one  *)
(* of them.                                                                   *)
EXTENDS LSMTree

VARIABLE part

Deep == INSTANCE LSMTree WITH
  MaxKey <- 2, ManualRanges <- {}, FlushDuring <- {"automatic", "manual"},
  MaxDeletes <- 1, MaxSnapshots <- 1, Faults <- FALSE

TreeInit == part \in {"ranges", "deep"} /\ Init

TreeNext ==
  /\ UNCHANGED part
  /\ \/ part = "ranges" /\ Next
     \/ part = "deep" /\ Deep!Next

TreeSpec == TreeInit /\ [][TreeNext]_<<part, vars>>

\* Manual compactions of every range of keys, bounded or not.
AllRanges == {<<begin, end>> \in (0 .. MaxKey) \X (1 .. NoKey) : begin <= end}
=============================================================================
