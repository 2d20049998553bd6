---------------------------- MODULE MCStackMapTable ---------------------------
(***************************************************************************)
(* Every list of one to MaxFrames targets out of Offsets, equal ones too.  *)
(***************************************************************************)
EXTENDS StackMapTable, SequencesExt

CONSTANTS
  Offsets,     (* the target offsets used *)
  MaxFrames    (* the longest list        *)

MCTargetLists == BoundedSeq(Offsets, MaxFrames) \ {<< >>}
=============================================================================
