---------------------------------- MODULE Rv ----------------------------------
(***************************************************************************)
(* What a program means: the RISC-V integer machine of the ISA manual that *)
(* README.md names, for the instructions the code generator writes code    *)
(* for, and the jump.  The program counter is an index into the IR array;  *)
(* labels take no room, so it never rests on one.  The machine is not part *)
(* of src/: it is the specification the compiled class has to implement.   *)
(***************************************************************************)
EXTENDS Integers, Sequences

CONSTANTS
  Registers,   (* the registers, by number                              *)
  XRange       (* how many values a register has: 2 ^ 32 for RV32I       *)

VARIABLES
  program,     (* the IR array                                           *)
  pc,          (* the index of the instruction to execute next           *)
  x            (* the registers: signed values                           *)

rvVars == << program, pc, x >>

(* The register value an integer wraps around to, in two's complement.      *)
Wrap(n) == ((n + XRange \div 2) % XRange) - XRange \div 2

(* The first element at or after index k that is not a label.               *)
InstructionAt(k) ==
  CHOOSE m \in k .. Len(program) :
    /\ program[m].type # "label"
    /\ \A n \in k .. m - 1 : program[n].type = "label"

TargetOf(label) ==
  InstructionAt(CHOOSE k \in DOMAIN program :
                  program[k].type = "label" /\ program[k].name = label)

(* x0 is hard-wired to zero.                                                *)
WriteBack(rd, value) ==
  /\ x' = IF rd = 0 THEN x ELSE [x EXCEPT ![rd] = Wrap(value)]
  /\ pc' = InstructionAt(pc + 1)

Branch(condition, label) ==
  /\ pc' = IF condition THEN TargetOf(label) ELSE InstructionAt(pc + 1)
  /\ UNCHANGED x

Init ==
  /\ pc = InstructionAt(1)
  /\ x = [r \in Registers |-> 0]

Step ==
  LET e == program[pc]
  IN  /\ e.type = "instruction"
      /\ \/ e.mnemonic = "ADD" /\ WriteBack(e.rd, x[e.rs1] + x[e.rs2])
         \/ e.mnemonic = "ADDI" /\ WriteBack(e.rd, x[e.rs1] + e.imm)
         \/ e.mnemonic = "BNE" /\ Branch(x[e.rd] # x[e.rs1], e.label)
         \/ e.mnemonic = "BLT" /\ Branch(x[e.rd] < x[e.rs1], e.label)
         \/ e.mnemonic = "JAL" /\ e.rd = 0 /\ Branch(TRUE, e.label)
      /\ UNCHANGED program

Spec == Init /\ [][Step]_rvVars
=============================================================================
