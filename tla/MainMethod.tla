------------------------------- MODULE MainMethod ------------------------------
(***************************************************************************)
(* How codegen.c turns a program into the body of the JVM method main: the *)
(* integer constants are put into the constant pool, a first pass writes   *)
(* the bytecode with zeros for the branch offsets and notes where labels   *)
(* and jumps ended up, a second pass writes the offsets over the zeros.    *)
(* Each loop iteration of the code is one action; pc is the loop it is in. *)
(*                                                                         *)
(* pc = "exit" is exit(EXIT_FAILURE); pc = "undefined" is a run that has   *)
(* executed undefined behaviour and of which nothing can be said.          *)
(***************************************************************************)
EXTENDS Ir, Jvm, Functions

CONSTANTS
  Programs,   (* the programs considered: what parser and seman let through *)
  Garbage,    (* values an uninitialised or wrongly read immediate can have *)
  U16Range    (* how many values a uint16_t has: 65536 in the code          *)

(* The code generator is given what the parser and the check accepted.      *)
ASSUME ProgramsAssumption ==
  \A p \in Programs : IsProgram(p) /\ SemanAccepts(p)
(* An uninitialised or wrongly read immediate has some value.               *)
ASSUME GarbageAssumption == Garbage \subseteq Int /\ Garbage # {}
(* Any value of a uint16_t can be written in two bytes.                     *)
ASSUME U16RangeAssumption == U16Range \in Nat \ {0} /\ U16Range <= 65536

VARIABLES
  ir,                  (* the program                                         *)
  pc,                  (* the loop being executed                             *)
  i,                   (* its index into ir                                   *)
  j,                   (* update_label_reference's index into the references  *)
  integers,            (* the integer constants of constant_map, in order     *)
  code,                (* code->code: the bytes of the method                 *)
  code_label_offsets,  (* label -> offset, or NoOffset                        *)
  label_references,    (* label -> the jumps to it, in the order written      *)
  stack_map_frames,    (* the target offsets of code->stack_map_frames        *)
  starts               (* auxiliary: where the code of each element starts    *)

vars == << ir, pc, i, j, integers, code, code_label_offsets,
           label_references, stack_map_frames, starts >>

U16(n) == n % U16Range
NoOffset == -1

-----------------------------------------------------------------------------
(* The constant pool entries the body refers to.  The 38 entries before the *)
(* integers are the same in every class file.                               *)
FixedConstants == 38
LONG_ARRAY_CLASS == 8
THREAD_LOCAL_GET_METHODREF == 34
REGISTERS_FIELDREF == 36

ConstantIndex_mutant(n) ==
  U16(FixedConstants - 1 + CHOOSE k \in DOMAIN integers : integers[k] = n)

ConstantIndex(n) ==
  U16(FixedConstants + CHOOSE k \in DOMAIN integers : integers[k] = n)

AddConstant(n) ==
  integers' = IF n \in Range(integers) THEN integers ELSE Append(integers, n)

-----------------------------------------------------------------------------
(* The byte sequences the emitters write.                                   *)
LoadRegistersIntoLocal ==
  << JVM_GETSTATIC >> \o Bytes2(REGISTERS_FIELDREF)
  \o << JVM_INVOKEVIRTUAL >> \o Bytes2(THREAD_LOCAL_GET_METHODREF)
  \o << JVM_CHECKCAST >> \o Bytes2(LONG_ARRAY_CLASS) \o << JVM_ASTORE_1 >>

LoadRegister(r) == << JVM_ALOAD_1, JVM_BIPUSH, r, JVM_LALOAD >>

StoreRegister_mutant(r) ==
  IF r = X0 THEN << JVM_POP2 >>
  ELSE << JVM_LSTORE_2, JVM_ALOAD_1, JVM_BIPUSH, r, JVM_LASTORE >>

StoreToX0_mutant(r) ==
  IF r = X0 THEN << >>
  ELSE << JVM_LSTORE_2, JVM_ALOAD_1, JVM_BIPUSH, r, JVM_LLOAD_2, JVM_LASTORE >>

StoreRegister(r) ==
  IF r = X0 THEN << JVM_POP2 >>
  ELSE << JVM_LSTORE_2, JVM_ALOAD_1, JVM_BIPUSH, r, JVM_LLOAD_2, JVM_LASTORE >>

LoadConstantBytes(index) == << JVM_LDC_W >> \o Bytes2(index) \o << JVM_I2L >>

(* Of the R3 instructions only ADD computes anything.                       *)
Operation(e) == IF e.mnemonic = "ADD" THEN << JVM_LADD >> ELSE << >>

R3Bytes(e) == LoadRegister(e.rs1) \o LoadRegister(e.rs2) \o Operation(e)
              \o StoreRegister(e.rd)

AddiBytes(e, index) == LoadRegister(e.rs1) \o LoadConstantBytes(index)
                       \o << JVM_LADD >> \o StoreRegister(e.rd)

Compare(e) == LoadRegister(e.rd) \o LoadRegister(e.rs1) \o << JVM_LCMP >>

(* The conditional instruction that skips the goto_w after it.              *)
SkipLength == 8
SkipOpcode_mutant(e) == IF e.mnemonic = "BNE" THEN JVM_IFGT ELSE JVM_IFEQ
SkipOpcode(e) == IF e.mnemonic = "BNE" THEN JVM_IFEQ ELSE JVM_IFGT
Skip(e) == << SkipOpcode(e) >> \o Bytes2(SkipLength)

IsConditional(e) ==
  IsInstruction(e) /\ e.format = "R2_OP" /\ e.mnemonic \in {"BNE", "BLT"}
IsJump(e) ==
  IsConditional(e) \/ (IsInstruction(e) /\ e.format = "R1_OP" /\ e.mnemonic = "J")
IsAddi(e) == IsInstruction(e) /\ e.format = "R2_OP" /\ e.mnemonic = "ADDI"
IsR3(e) == IsInstruction(e) /\ e.format = "R3"

(* The elements write_instruction writes code for.                          *)
WritesCode(e) == IsR3(e) \/ IsAddi(e) \/ IsJump(e)

JumpPrefix(e) == IF IsConditional(e) THEN Compare(e) \o Skip(e) ELSE << >>

GotoPlaceholder == << JVM_GOTO_W >> \o Bytes4(0)

LabelReference_mutant(offset) ==
  [opcode_offset |-> U16(offset + 1), branch_offset |-> U16(offset + 1)]

(* What jump() records about the goto_w it is about to write at an offset.  *)
LabelReference(offset) ==
  [opcode_offset |-> U16(offset), branch_offset |-> U16(offset + 1)]

(* add_stack_frame.                                                         *)
AddStackFrame_mutant(target) ==
  stack_map_frames' = IF stack_map_frames = << >> THEN << U16(target) >>
                      ELSE stack_map_frames

AddStackFrame(target) ==
  stack_map_frames' = Append(stack_map_frames, U16(target))

(* write_label notes an offset only when the next element is not a label.   *)
NotesOffset_mutant(k) == IsInstruction(ir[k + 1])

NotesOffset(k) == ~IsLabel(ir[k + 1])

-----------------------------------------------------------------------------
Init ==
  /\ ir \in Programs
  /\ pc = "constant_pool"
  /\ i = 1
  /\ j = 1
  /\ integers = << >>
  /\ code = << >>
  /\ code_label_offsets = [l \in Labels |-> NoOffset]
  /\ label_references = [l \in Labels |-> << >>]
  /\ stack_map_frames = << >>
  /\ starts = << >>

(* One iteration of constant_pool's loop.  An instruction with an operand   *)
(* that is not an immediate adds whatever the local variable imm holds.     *)
LoadConstant ==
  /\ pc = "constant_pool"
  /\ ~IsEof(ir[i])
  /\ \/ /\ HasImm(ir[i])
        /\ AddConstant(ir[i].imm)
     \/ /\ HasLabel(ir[i])
        /\ \E imm \in Garbage : AddConstant(imm)
     \/ /\ ~HasOperand(ir[i])
        /\ UNCHANGED integers
  /\ i' = i + 1
  /\ UNCHANGED << ir, pc, j, code, code_label_offsets, label_references,
                  stack_map_frames, starts >>

(* The pool is complete: main_method_code begins.                           *)
BeginMain ==
  /\ pc = "constant_pool"
  /\ IsEof(ir[i])
  /\ pc' = "pass1"
  /\ i' = 1
  /\ code' = LoadRegistersIntoLocal
  /\ UNCHANGED << ir, j, integers, code_label_offsets, label_references,
                  stack_map_frames, starts >>

-----------------------------------------------------------------------------
(* The first pass, one element per step.                                    *)
FirstPass ==
  /\ pc = "pass1"
  /\ ~IsEof(ir[i])
  /\ i' = i + 1
  /\ starts' = Append(starts, Len(code))
  /\ UNCHANGED << ir, j, integers >>

WriteLabel ==
  /\ FirstPass
  /\ IsLabel(ir[i])
  /\ code_label_offsets' =
       IF NotesOffset(i)
       THEN [code_label_offsets EXCEPT ![ir[i].name] = U16(Len(code))]
       ELSE code_label_offsets
  /\ UNCHANGED << pc, code, label_references, stack_map_frames >>

WriteR3 ==
  /\ FirstPass
  /\ IsR3(ir[i])
  /\ code' = code \o R3Bytes(ir[i])
  /\ UNCHANGED << pc, code_label_offsets, label_references, stack_map_frames >>

(* An ADDI whose operand is a label reads some bits of the label's address  *)
(* as its immediate; get_constant_index exits when the pool lacks it.       *)
WriteAddi ==
  /\ FirstPass
  /\ IsAddi(ir[i])
  /\ \E imm \in IF HasImm(ir[i]) THEN {ir[i].imm} ELSE Garbage :
       \/ /\ imm \in Range(integers)
          /\ code' = code \o AddiBytes(ir[i], ConstantIndex(imm))
          /\ UNCHANGED pc
       \/ /\ imm \notin Range(integers)
          /\ pc' = "exit"
          /\ UNCHANGED code
  /\ UNCHANGED << code_label_offsets, label_references, stack_map_frames >>

(* BNE and BLT (and J, were it ever to reach the code generator): compare,  *)
(* skip the jump when the condition fails, jump; the stack frame is for the *)
(* instruction after the jump.                                              *)
WriteJump ==
  /\ FirstPass
  /\ IsJump(ir[i])
  /\ HasLabel(ir[i])
  /\ LET opcode == Len(code) + Len(JumpPrefix(ir[i]))
     IN  /\ label_references' =
              [label_references EXCEPT ![ir[i].label] =
                 Append(@, LabelReference(opcode))]
         /\ code' = code \o JumpPrefix(ir[i]) \o GotoPlaceholder
         /\ IF IsConditional(ir[i])
            THEN AddStackFrame(Len(code) + Len(Compare(ir[i])) + SkipLength)
            ELSE UNCHANGED stack_map_frames
  /\ UNCHANGED << pc, code_label_offsets >>

(* The two ways a jump runs into undefined behaviour: its operand is an     *)
(* immediate and is read as a label; or it is the first to its label, and   *)
(* the list of references add_label_reference allocates, whose size and     *)
(* capacity it never sets, is not zero by chance (WriteJump is that chance).*)
WriteJumpUndefined ==
  /\ FirstPass
  /\ IsJump(ir[i])
  /\ HasLabel(ir[i]) => label_references[ir[i].label] = << >>
  /\ pc' = "undefined"
  /\ UNCHANGED << code, code_label_offsets, label_references, stack_map_frames >>

(* Every other instruction is accepted and no code is written for it.       *)
WriteNothing ==
  /\ FirstPass
  /\ IsInstruction(ir[i])
  /\ ~IsR3(ir[i]) /\ ~IsAddi(ir[i]) /\ ~IsJump(ir[i])
  /\ UNCHANGED << pc, code, code_label_offsets, label_references,
                  stack_map_frames >>

EndFirstPass ==
  /\ pc = "pass1"
  /\ IsEof(ir[i])
  /\ pc' = "pass2"
  /\ i' = 1
  /\ starts' = Append(starts, Len(code))
  /\ UNCHANGED << ir, j, integers, code, code_label_offsets,
                  label_references, stack_map_frames >>

-----------------------------------------------------------------------------
(* The second pass: for each label, each reference to it.                   *)
ReferencesLeft ==
  IsLabel(ir[i]) /\ j <= Len(label_references[ir[i].name])

UpdateLabelReference ==
  /\ pc = "pass2"
  /\ ReferencesLeft
  /\ LET label_offset == code_label_offsets[ir[i].name]
         reference == label_references[ir[i].name][j]
     IN  /\ label_offset # NoOffset
         /\ code' = Overwrite(code, reference.branch_offset,
                              Bytes4(label_offset - reference.opcode_offset))
         /\ AddStackFrame(label_offset)
  /\ j' = j + 1
  /\ UNCHANGED << ir, pc, i, integers, code_label_offsets, label_references,
                  starts >>

(* get_code_label_offset exits for a label without an offset.               *)
LabelOffsetMissing ==
  /\ pc = "pass2"
  /\ ReferencesLeft
  /\ code_label_offsets[ir[i].name] = NoOffset
  /\ pc' = "exit"
  /\ UNCHANGED << ir, i, j, integers, code, code_label_offsets,
                  label_references, stack_map_frames, starts >>

(* The loop's increment, also of an element it continues after.             *)
Increment_mutant == IF IsLabel(ir[i]) THEN i + 1 ELSE i
Increment == i + 1

NextElement ==
  /\ pc = "pass2"
  /\ ~IsEof(ir[i])
  /\ ~ReferencesLeft
  /\ i' = Increment
  /\ j' = 1
  /\ UNCHANGED << ir, pc, integers, code, code_label_offsets,
                  label_references, stack_map_frames, starts >>

EndMain ==
  /\ pc = "pass2"
  /\ IsEof(ir[i])
  /\ pc' = "done"
  /\ code' = Append(code, JVM_RETURN)
  /\ UNCHANGED << ir, i, j, integers, code_label_offsets, label_references,
                  stack_map_frames, starts >>

-----------------------------------------------------------------------------
Next ==
  \/ LoadConstant \/ BeginMain
  \/ WriteLabel \/ WriteR3 \/ WriteAddi \/ WriteJump \/ WriteJumpUndefined
  \/ WriteNothing \/ EndFirstPass
  \/ UpdateLabelReference \/ LabelOffsetMissing \/ NextElement \/ EndMain

Spec == Init /\ [][Next]_vars

-----------------------------------------------------------------------------
(* Properties.                                                              *)

Reference == [opcode_offset : 0 .. U16Range - 1, branch_offset : 0 .. U16Range - 1]

(* Types of the code generator's data: main_method_code's bytes are bytes   *)
(* and every stored offset fits the uint16_t it is stored in.               *)
TypeOK ==
  /\ IsProgram(ir)
  /\ pc \in {"constant_pool", "pass1", "pass2", "done", "exit", "undefined"}
  /\ i \in DOMAIN ir
  /\ j \in Nat \ {0}
  /\ integers \in Seq(Int)
  /\ code \in Seq(Byte)
  /\ code_label_offsets \in [Labels -> 0 .. U16Range - 1 \cup {NoOffset}]
  /\ label_references \in [Labels -> Seq(Reference)]
  /\ stack_map_frames \in Seq(0 .. U16Range - 1)
  /\ starts \in Seq(Nat)

(* Offsets are exact as long as the method is shorter than U16Range; a JVM  *)
(* accepts no longer method, and the code generator does not check.         *)
CodeFits == Len(code) < U16Range

(* Where the goto_w of the jump ir[k] is.                                   *)
JumpOpcode(k) == starts[k] + Len(JumpPrefix(ir[k]))
LabelStart(label) == starts[Declaration(ir, label)]

JumpLands(k) ==
  /\ At(code, JumpOpcode(k)) = JVM_GOTO_W
  /\ JumpOpcode(k) + S4At(code, JumpOpcode(k) + 1) = LabelStart(ir[k].label)

SkipLands(k) ==
  LET opcode == starts[k] + Len(Compare(ir[k]))
  IN  /\ At(code, opcode) = SkipOpcode(ir[k])
      /\ opcode + S2At(code, opcode + 1) = starts[k + 1]

(* In the finished method every jump goes to the code that follows its      *)
(* label, and every condition skips exactly the jump after it: the offsets  *)
(* the second pass writes agree with where the first pass put the code.     *)
BranchesLand ==
  pc = "done" /\ CodeFits =>
    \A k \in DOMAIN ir : IsJump(ir[k]) =>
      JumpLands(k) /\ (IsConditional(ir[k]) => SkipLands(k))

(* The finished method has a stack map frame for exactly the offsets that   *)
(* some branch can go to: labels that are jumped to, and the instruction    *)
(* after a conditional jump.  A JVM rejects a branch without a frame.       *)
BranchTargets ==
  {LabelStart(ir[k].label) : k \in {m \in DOMAIN ir : IsJump(ir[m])}}
  \cup {starts[k + 1] : k \in {m \in DOMAIN ir : IsConditional(ir[m])}}

FramesAreTargets ==
  pc = "done" /\ CodeFits => Range(stack_map_frames) = BranchTargets

(* The constant pool index an ADDI's ldc_w carries is that of the entry     *)
(* that holds its immediate: the pool built before the passes and the index *)
(* looked up during them agree.  (In a longer method a branch offset could  *)
(* be written over it.)                                                     *)
ConstantsResolve ==
  pc = "done" /\ CodeFits /\ FixedConstants + Len(integers) < U16Range =>
    \A k \in DOMAIN ir : IsAddi(ir[k]) /\ HasImm(ir[k]) =>
      LET entry == U2At(code, starts[k] + 5) - FixedConstants
      IN  entry \in DOMAIN integers /\ integers[entry] = ir[k].imm

(* Once written, a byte of the method changes only if it is one of the four *)
(* zeros of a jump: overwrite_bytes never touches an opcode, another        *)
(* instruction's operand, or a jump that is already resolved.               *)
IsPlaceholderByte(k) ==
  \E m \in 1 .. Len(starts) :
    IsJump(ir[m]) /\ k - 1 - JumpOpcode(m) \in 1 .. 4

OnlyPlaceholdersRewritten ==
  [][CodeFits' => \A k \in DOMAIN code :
       code'[k] # code[k] =>
         code[k] = 0 /\ pc = "pass2" /\ IsPlaceholderByte(k)]_vars

(* The programs code is generated for without failing: no label operand     *)
(* where an immediate is expected, and no label that is jumped to directly  *)
(* before another label.                                                    *)
IsCompilable(p) ==
  /\ \A k \in DOMAIN p : IsAddi(p[k]) => HasImm(p[k])
  /\ \A k, m \in DOMAIN p :
       IsJump(p[k]) /\ HasLabel(p[k]) /\ IsLabel(p[m])
         /\ p[m].name = p[k].label => ~IsLabel(p[m + 1])

(* The code generator does not fail on a compilable program: each label the *)
(* second pass asks for got its offset in the first, and each constant the  *)
(* first asks for got its index while the pool was built.                   *)
CompilableNeverExits == IsCompilable(ir) => pc # "exit"

(* What grammar.ebnf promises: labels may follow one another.  The code     *)
(* generator exits when the first of two labels in a row is jumped to.      *)
NoExit == pc # "exit"

(* What the comments on the two passes promise: the first builds the whole  *)
(* bytecode and the map of its labels.  The list of references to a label   *)
(* starts out uninitialised.                                                *)
NoUndefinedBehaviour == pc # "undefined"
=============================================================================
