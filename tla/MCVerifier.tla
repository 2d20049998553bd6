------------------------------- MODULE MCVerifier ------------------------------
(***************************************************************************)
(* The programs of MCMainMethod and, for the verdict of the JVM, programs  *)
(* with stores and branches to two labels.                                 *)
(***************************************************************************)
EXTENDS Verifier, MCMainMethod

CONSTANT MaxBranching   (* the longest of these, IR_EOF not counted *)

(* Stores to x0 and to another register, branches to two labels, an R3      *)
(* instruction that is not supported.                                       *)
Branching ==
  { R2Imm("ADDI", 5, 5, 1), R3("ADD", 0, 5, 6), R3("SUB", 0, 5, 6),
    R3("SUB", 5, 5, 6), R2Label("BNE", 5, 6, "a"), R2Label("BLT", 5, 6, "b"),
    Label("a"), Label("b") }

MCVerifierPrograms == MCPrograms \cup ProgramsOver(Branching, MaxBranching)

(* Two branches to one label, the long assigned first.                      *)
SharedTarget ==
  { << R2Imm("ADDI", 5, 0, 1), Label("a"), R2Imm("ADDI", 6, 6, 1),
       R2Label("BNE", 5, 6, "a"), R2Imm("ADDI", 6, 6, 1),
       R2Label("BNE", 5, 6, "a"), R2Imm("ADDI", 6, 0, 0), Eof >> }
=============================================================================
