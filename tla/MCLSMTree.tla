------------------------------ MODULE MCLSMTree ------------------------------
(* Small instances of LSMTree for TLC. *)
EXTENDS LSMTree

\* CompactRange without bounds.
NullRange == {<<0, NoKey>>}
==============================================================================
