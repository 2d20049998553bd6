--------------------------------- MODULE MCSeman --------------------------------
(***************************************************************************)
(* Programs with labels declared never, once and twice, before and after   *)
(* the instructions of both formats that refer to them.                    *)
(***************************************************************************)
EXTENDS Seman, SequencesExt

CONSTANT MaxLength   (* the longest program, IR_EOF not counted *)

MCRegisters == {0, 5}
MCLabels == {"a", "b"}

Alphabet ==
  { R2Label("BNE", 5, 0, "a"), R2Label("ADDI", 5, 0, "b"), R1Label("JAL", 0, "b"),
    R2Imm("BNE", 5, 0, 8), R3("ADD", 5, 0, 5), Label("a"), Label("b") }

MCPrograms == {Append(q, Eof) : q \in BoundedSeq(Alphabet, MaxLength)}
=============================================================================
