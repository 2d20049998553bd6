-------------------------------- MODULE Execution -------------------------------
(***************************************************************************)
(* A program is compiled and the JVM then runs the method main that came   *)
(* out.  The JVM is modelled one bytecode at a time from the JVM           *)
(* specification, for the opcodes the code generator uses; it is external  *)
(* to src/, and what is checked is the bytes src/ wrote.  The claim is     *)
(* that the run implements the RISC-V machine of module Rv.                *)
(***************************************************************************)
EXTENDS MainMethod

CONSTANTS
  LongRange,   (* how many values a Java long has: 2 ^ 64                  *)
  XRange       (* how many a register of the RISC-V machine has            *)

(* A long is made of whole registers.                                       *)
ASSUME RangesAssumption ==
  LongRange \in Nat \ {0} /\ XRange \in Nat \ {0} /\ (LongRange % XRange) = 0

VARIABLES
  offset,      (* the JVM's program counter                                *)
  kinds,       (* the kinds of the values on its operand stack, top last   *)
  values,      (* the values: integers, and 0 for a reference              *)
  local_2,     (* the local variable the second pair of slots holds        *)
  registers    (* the long[] the class keeps the registers in              *)

jvmVars == << offset, kinds, values, local_2, registers >>
allVars == << vars, jvmVars >>

(* The value of n in two's complement, when there are range values.         *)
Wrapped(n, range) == ((n + range \div 2) % range) - range \div 2

Long(n) == Wrapped(n, LongRange)

JvmInit ==
  /\ offset = 0
  /\ kinds = << >>
  /\ values = << >>
  /\ local_2 = << >>   \* unassigned
  /\ registers = [r \in Registers |-> 0]

Opcode == At(code, offset)
Operand(n) == values[Len(values) - Len(Operands(Opcode)) + n]

(* Executing an opcode: its operands are replaced by its results.           *)
Executes(opcode, results) ==
  /\ Opcode = opcode
  /\ OperandsOnTop(kinds, opcode)
  /\ kinds' = Below(kinds, opcode) \o Results(opcode)
  /\ values' = Below(values, opcode) \o results

Continue == offset' = offset + Width(Opcode)

(* getstatic registers, ThreadLocal.get and checkcast all leave a reference *)
(* on the stack; local variable 1 is never anything but the register array. *)
References ==
  /\ \/ Executes(JVM_GETSTATIC, << 0 >>)
     \/ Executes(JVM_INVOKEVIRTUAL, << 0 >>)
     \/ Executes(JVM_CHECKCAST, << 0 >>)
     \/ Executes(JVM_ASTORE_1, << >>)
     \/ Executes(JVM_ALOAD_1, << 0 >>)
  /\ Continue
  /\ UNCHANGED << local_2, registers >>

Push ==
  /\ \/ Executes(JVM_BIPUSH, << At(code, offset + 1) >>)
     \/ Executes(JVM_LDC_W,
                 << integers[U2At(code, offset + 1) - FixedConstants] >>)
     \/ local_2 # << >> /\ Executes(JVM_LLOAD_2, local_2)
  /\ Continue
  /\ UNCHANGED << local_2, registers >>

Compute ==
  /\ \/ Executes(JVM_LALOAD, << registers[Operand(2)] >>)
     \/ Executes(JVM_I2L, << Operand(1) >>)
     \/ Executes(JVM_LADD, << Long(Operand(1) + Operand(2)) >>)
     \/ Executes(JVM_LCMP, << IF Operand(1) < Operand(2) THEN -1
                              ELSE IF Operand(1) = Operand(2) THEN 0 ELSE 1 >>)
  /\ Continue
  /\ UNCHANGED << local_2, registers >>

Store ==
  /\ \/ Executes(JVM_LSTORE_2, << >>) /\ local_2' = << Operand(1) >>
          /\ UNCHANGED registers
     \/ Executes(JVM_POP2, << >>) /\ UNCHANGED << local_2, registers >>
     \/ Executes(JVM_LASTORE, << >>)
          /\ registers' = [registers EXCEPT ![Operand(2)] = Operand(3)]
          /\ UNCHANGED local_2
  /\ Continue

Condition == \/ Opcode = JVM_IFEQ /\ Operand(1) = 0
             \/ Opcode = JVM_IFGT /\ Operand(1) > 0

Transfer ==
  /\ \/ /\ Executes(JVM_IFEQ, << >>) \/ Executes(JVM_IFGT, << >>)
        /\ offset' = offset + (IF Condition THEN S2At(code, offset + 1)
                               ELSE Width(Opcode))
     \/ /\ Executes(JVM_GOTO_W, << >>)
        /\ offset' = offset + S4At(code, offset + 1)
  /\ UNCHANGED << local_2, registers >>

Execute == References \/ Push \/ Compute \/ Store \/ Transfer

ExecutionInit == Init /\ JvmInit

ExecutionNext ==
  \/ Next /\ UNCHANGED jvmVars
  \/ pc = "done" /\ Execute /\ UNCHANGED vars

ExecutionSpec == ExecutionInit /\ [][ExecutionNext]_allVars

-----------------------------------------------------------------------------
(* The refinement mapping.  The JVM is executing the instruction whose code *)
(* its offset is in; at the start of an instruction, the first that starts  *)
(* there and is not a label.                                                *)
StartsAt(o) == {k \in DOMAIN ir : ~IsLabel(ir[k]) /\ starts[k] = o}
Covering(o) == {k \in DOMAIN ir \ {Len(ir)} : starts[k] < o /\ o < starts[k + 1]}
First(S) == CHOOSE k \in S : \A m \in S : k <= m

RvPc ==
  IF pc # "done" \/ offset < starts[1]
  THEN First({k \in DOMAIN ir : ~IsLabel(ir[k])})
  ELSE IF StartsAt(offset) # {} THEN First(StartsAt(offset))
  ELSE First(Covering(offset))

(* A register of the program is the low bits of the long that holds it.     *)
Low(n) == Wrapped(n, XRange)
RvRegisters == [r \in Registers |-> Low(registers[r])]

RvMachine == INSTANCE Rv WITH program <- ir, pc <- RvPc, x <- RvRegisters

(* The compiled class implements the RISC-V machine: every write to the     *)
(* register array is the write of the instruction being executed, in        *)
(* program order, branches go where RISC-V takes them, and x0 stays zero.   *)
(* A long may be wider than a register, for no bit of a sum above those of  *)
(* a register gets back into them; only a branch that compares longs that   *)
(* do not fit may go either way.                                            *)
Fits(r) == registers[r] = RvRegisters[r]

ComparesOverflown ==
  LET e == ir[RvPc]
  IN  /\ e.type = "instruction" /\ e.mnemonic \in BranchMnemonics
      /\ ~(Fits(e.rd) /\ Fits(e.rs1))
      /\ RvMachine!Branch(TRUE, e.label) \/ RvMachine!Branch(FALSE, e.label)
      /\ UNCHANGED ir

ImplementsRv ==
  RvMachine!Init /\ [][RvMachine!Step \/ ComparesOverflown]_(RvMachine!rvVars)

(* The JVM never gets stuck: until it returns it is always at an opcode     *)
(* whose operands are on the stack, each of the kind the opcode takes, and  *)
(* it never reads the local variable before it was assigned.                *)
NeverStuck ==
  pc = "done" /\ CodeFits =>
    /\ offset \in 0 .. Len(code) - 1
    /\ Opcode \in Opcodes
    /\ OperandsOnTop(kinds, Opcode)
    /\ Opcode = JVM_LLOAD_2 => local_2 # << >>

(* Of the R3 instructions only ADD is supported: the others leave one of    *)
(* their operands on the stack.                                             *)
IsSupported(p) == \A k \in DOMAIN p : IsR3(p[k]) => p[k].mnemonic = "ADD"

(* Between instructions the operand stack is empty, so that no path through *)
(* the method can fill it up; inside one it stays within the max_stack of   *)
(* main_method_code.                                                        *)
MaxStack == 5
StackBalanced ==
  pc = "done" /\ CodeFits /\ IsSupported(ir) =>
    /\ StartsAt(offset) # {} => kinds = << >>
    /\ Slots(kinds) <= MaxStack
=============================================================================
