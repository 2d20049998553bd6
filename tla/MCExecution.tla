------------------------------ MODULE MCExecution ------------------------------
(***************************************************************************)
(* Small programs for Execution.  All are made of the instructions the     *)
(* code generator writes code for; programs may loop for ever, which a     *)
(* small LongRange keeps finite.                                           *)
(***************************************************************************)
EXTENDS Execution, SequencesExt

CONSTANTS
  MaxLength,  (* the longest program, IR_EOF not counted *)
  Alphabet    (* the elements programs are made of       *)

MCRegisters == {0, 5, 6}
MCLabels == {"a", "b"}

MCPrograms ==
  {p \in {Append(q, Eof) : q \in BoundedSeq(Alphabet, MaxLength)} :
     SemanAccepts(p) /\ IsCompilable(p)}

(* Additions, to x0 too, and inequality branches both ways.                 *)
Arithmetic ==
  { R2Imm("ADDI", 5, 5, 1), R2Imm("ADDI", 6, 0, -2), R2Imm("ADDI", 0, 6, 3),
    R3("ADD", 5, 6, 5), R2Label("BNE", 5, 6, "a"), R2Label("BNE", 5, 0, "b"),
    Label("a"), Label("b") }

(* One program for each divergence from the RISC-V manual.                  *)
BltOnEqual == { << R2Imm("ADDI", 6, 5, 0), R2Label("BLT", 5, 6, "a"),
                   R2Imm("ADDI", 5, 0, 1), Label("a"), Eof >> }

JumpIsLost == { << R1Label("JAL", 0, "a"), R2Imm("ADDI", 5, 0, 1),
                   Label("a"), Eof >> }
=============================================================================
