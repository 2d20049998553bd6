---------------------------------- MODULE Ir ----------------------------------
(***************************************************************************)
(* The intermediate representation the parser hands to the semantic check  *)
(* and to the code generator (ir.h), with one constructor for each         *)
(* create_*_instruction of parser.c, and the two conditions seman.c puts   *)
(* on a program before code is generated for it.                           *)
(*                                                                         *)
(* A program is the array the parser builds: a sequence of elements that   *)
(* ends with the IR_EOF element.  IR_DIRECTIVE elements have no producer   *)
(* anywhere in src/ and are left out.                                      *)
(***************************************************************************)
EXTENDS Integers, Sequences

CONSTANTS
  Registers,   (* the registers programs use, out of X0 .. X31           *)
  Labels       (* the label names programs use                           *)

ASSUME RegistersAssumption == Registers \subseteq 0 .. 31

X0 == 0

-----------------------------------------------------------------------------
(* Mnemonics, by the ir_instruction_type get_instruction_type gives them.   *)
(* FENCE, ECALL and EBREAK are built by parse_special_instruction as R2_OP. *)
R3Mnemonics == {"ADD", "SUB", "SLT", "SLTU", "AND", "OR", "XOR",
                "SLL", "SRL", "SRA"}
BranchMnemonics == {"BEQ", "BNE", "BLT", "BLTU", "BGE", "BGEU"}
R2OpMnemonics == {"ADDI", "SLTI", "SLTIU", "ANDI", "ORI", "XORI", "SLLI",
                  "SRLI", "SRAI", "JALR", "FENCE", "ECALL", "EBREAK"}
                 \cup BranchMnemonics
MemMnemonics == {"LW", "LH", "LHU", "LB", "LBU", "SW", "SH", "SB"}
R1OpMnemonics == {"LUI", "AUIPC", "JAL"}

(* The 12-bit and 20-bit immediate bit-fields of ir.h.                      *)
Imm12 == {n \in Int : -2048 <= n /\ n < 2048}
Imm20 == {n \in Int : -524288 <= n /\ n < 524288}

-----------------------------------------------------------------------------
(* Constructors.                                                            *)
R3(mnemonic, rd, rs1, rs2) ==
  [type |-> "instruction", format |-> "R3", mnemonic |-> mnemonic,
   rd |-> rd, rs1 |-> rs1, rs2 |-> rs2]

R2Imm(mnemonic, rd, rs1, imm) ==
  [type |-> "instruction", format |-> "R2_OP", mnemonic |-> mnemonic,
   rd |-> rd, rs1 |-> rs1, op_type |-> "imm", imm |-> imm]

R2Label(mnemonic, rd, rs1, label) ==
  [type |-> "instruction", format |-> "R2_OP", mnemonic |-> mnemonic,
   rd |-> rd, rs1 |-> rs1, op_type |-> "label", label |-> label]

R1Imm(mnemonic, rd, imm) ==
  [type |-> "instruction", format |-> "R1_OP", mnemonic |-> mnemonic,
   rd |-> rd, op_type |-> "imm", imm |-> imm]

R1Label(mnemonic, rd, label) ==
  [type |-> "instruction", format |-> "R1_OP", mnemonic |-> mnemonic,
   rd |-> rd, op_type |-> "label", label |-> label]

Mem(mnemonic, rd, rs1, offset) ==
  [type |-> "instruction", format |-> "MEM", mnemonic |-> mnemonic,
   rd |-> rd, rs1 |-> rs1, offset |-> offset]

Label(name) == [type |-> "label", name |-> name]

Eof == [type |-> "eof"]

-----------------------------------------------------------------------------
(* Everything the parser can put into the array.                            *)
R3Elements ==
  [type : {"instruction"}, format : {"R3"}, mnemonic : R3Mnemonics,
   rd : Registers, rs1 : Registers, rs2 : Registers]

R2ImmElements ==
  [type : {"instruction"}, format : {"R2_OP"}, mnemonic : R2OpMnemonics,
   rd : Registers, rs1 : Registers, op_type : {"imm"}, imm : Imm12]

R2LabelElements ==
  [type : {"instruction"}, format : {"R2_OP"}, mnemonic : R2OpMnemonics,
   rd : Registers, rs1 : Registers, op_type : {"label"}, label : Labels]

R1ImmElements ==
  [type : {"instruction"}, format : {"R1_OP"}, mnemonic : R1OpMnemonics,
   rd : Registers, op_type : {"imm"}, imm : Imm20]

R1LabelElements ==
  [type : {"instruction"}, format : {"R1_OP"}, mnemonic : R1OpMnemonics,
   rd : Registers, op_type : {"label"}, label : Labels]

MemElements ==
  [type : {"instruction"}, format : {"MEM"}, mnemonic : MemMnemonics,
   rd : Registers, rs1 : Registers, offset : Imm12]

InstructionElements ==
  R3Elements \cup R2ImmElements \cup R2LabelElements \cup R1ImmElements
  \cup R1LabelElements \cup MemElements

LabelElements == [type : {"label"}, name : Labels]

Elements == InstructionElements \cup LabelElements \cup {Eof}

IsInstruction(e) == e.type = "instruction"
IsLabel(e) == e.type = "label"
IsEof(e) == e.type = "eof"

(* The operand unions of r2op and r1op: which member op_type says is set.   *)
HasOperand(e) == IsInstruction(e) /\ e.format \in {"R2_OP", "R1_OP"}
HasImm(e) == HasOperand(e) /\ e.op_type = "imm"
HasLabel(e) == HasOperand(e) /\ e.op_type = "label"

-----------------------------------------------------------------------------
(* What seman.c lets through: no label is declared twice, and every label   *)
(* operand, whatever the mnemonic, names a declared label.                  *)
LabelsDeclaredOnce(p) ==
  \A i, j \in DOMAIN p :
    IsLabel(p[i]) /\ IsLabel(p[j]) /\ p[i].name = p[j].name => i = j

ReferencedLabelsExist(p) ==
  \A i \in DOMAIN p : HasLabel(p[i]) =>
    \E j \in DOMAIN p : IsLabel(p[j]) /\ p[j].name = p[i].label

SemanAccepts(p) == LabelsDeclaredOnce(p) /\ ReferencedLabelsExist(p)

(* The array the parser returns: IR_EOF is its last element and only that.  *)
IsProgram(p) ==
  /\ p \in Seq(Elements)
  /\ p # << >>
  /\ \A i \in DOMAIN p : IsEof(p[i]) <=> i = Len(p)

(* The element that declares a label.                                       *)
Declaration(p, label) ==
  CHOOSE i \in DOMAIN p : IsLabel(p[i]) /\ p[i].name = label

=============================================================================
