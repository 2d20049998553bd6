------------------------------- MODULE MCClassFile -----------------------------
(***************************************************************************)
(* Programs that share immediates, repeat them, have them in instructions  *)
(* no code is written for, and have labels in their place; main methods    *)
(* without frames, and with: the longest, in a program with immediates,    *)
(* puts the length of its frames out of a uint16_t's reach in ClassFile.cfg.*)
(***************************************************************************)
EXTENDS ClassFile

CONSTANTS
  MaxLength,   (* the longest program of all kinds of elements, without IR_EOF *)
  MaxShared    (* the longest of those whose operands meet in the pool         *)

MCRegisters == {0, 5}
MCLabels == {"a"}

Shared == { R2Imm("ADDI", 5, 5, 1), R1Imm("LUI", 5, 524287), R1Label("JAL", 0, "a"), Label("a") }

Alphabet ==
  Shared \cup { R2Imm("XORI", 5, 5, -1), R3("ADD", 5, 5, 5), Mem("LW", 5, 0, 4) }

ProgramsOver(S, length) ==
  {p \in {Append(q, Eof) : q \in BoundedSeq(S, length)} : SemanAccepts(p)}

MCPrograms == ProgramsOver(Alphabet, MaxLength) \cup ProgramsOver(Shared, MaxShared)

MCMainSizes == { << 11, 0 >>, << 20, 18 >>, << 70, 18 >> }
=============================================================================
