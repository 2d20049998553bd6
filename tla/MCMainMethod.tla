------------------------------ MODULE MCMainMethod -----------------------------
(***************************************************************************)
(* Small programs for MainMethod: every program of at most MaxLength       *)
(* elements, IR_EOF not counted, over an alphabet with one representative  *)
(* of each kind of element write_instruction and write_label tell apart,   *)
(* and longer ones of branches and labels; kept when the semantic check    *)
(* accepts it.                                                             *)
(***************************************************************************)
EXTENDS MainMethod, SequencesExt

CONSTANTS
  MaxLength,    (* the longest program of all kinds of elements  *)
  MaxJumpLength (* the longest of labels and branches            *)

MCRegisters == {0, 5, 6}
MCLabels == {"a", "b"}

ProgramsOver(S, length) ==
  {p \in {Append(q, Eof) : q \in BoundedSeq(S, length)} : SemanAccepts(p)}

(* One of each kind, with the operand mistakes the parser lets through.     *)
AllKinds ==
  { R3("ADD", 5, 5, 6), R3("SUB", 0, 5, 6),
    R2Imm("ADDI", 5, 0, 3), R2Imm("ADDI", 0, 5, -1), R2Label("ADDI", 5, 0, "a"),
    R2Label("BNE", 5, 0, "a"), R2Label("BLT", 5, 6, "b"), R2Imm("BNE", 5, 6, 8),
    R2Imm("XORI", 5, 6, -1), R1Label("JAL", 0, "a"), R1Imm("LUI", 5, -524288),
    Mem("SB", 5, 0, 100), Label("a"), Label("b") }

(* Code with many branches, for longer programs.                            *)
JumpKinds ==
  { R2Imm("ADDI", 5, 5, 3), R2Label("BNE", 5, 0, "a"), R2Label("BLT", 5, 6, "b"),
    Label("a"), Label("b") }

MCPrograms ==
  ProgramsOver(AllKinds, MaxLength) \cup ProgramsOver(JumpKinds, MaxJumpLength)

(* One program for each promise the code generator does not keep.           *)
AdjacentLabels ==
  { << R2Label("BNE", 5, 6, "a"), Label("a"), Label("b"),
       R2Imm("ADDI", 5, 0, 3), Eof >> }

OneBranch == { << Label("a"), R2Label("BNE", 5, 6, "a"), Eof >> }
=============================================================================
