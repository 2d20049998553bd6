---------------------------- MODULE MainMethod_proofs ---------------------------
(***************************************************************************)
(* Theorems about MainMethod, for every set of programs the parser and the *)
(* semantic check let through, every register set and label set.           *)
(***************************************************************************)
EXTENDS MainMethod, Jvm_proofs, FiniteSetTheorems, SequenceTheorems

-----------------------------------------------------------------------------
(* Bytes.                                                                   *)

(* What loads a register is bytes.                                          *)
LEMMA LoadRegisterType ==
  ASSUME NEW r \in Registers
  PROVE  LoadRegister(r) \in Seq(Byte)
BY RegistersAssumption DEF LoadRegister, Byte, JVM_ALOAD_1, JVM_BIPUSH, JVM_LALOAD

(* What stores a register is bytes.                                         *)
LEMMA StoreRegisterType ==
  ASSUME NEW r \in Registers
  PROVE  StoreRegister(r) \in Seq(Byte)
<1>1. r \in Byte
  BY RegistersAssumption DEF Byte
<1>2. << JVM_POP2 >> \in Seq(Byte)
  BY DEF Byte, JVM_POP2
<1>3. << JVM_LSTORE_2, JVM_ALOAD_1, JVM_BIPUSH, r, JVM_LLOAD_2, JVM_LASTORE >>
        \in Seq(Byte)
  BY <1>1 DEF Byte, JVM_LSTORE_2, JVM_ALOAD_1, JVM_BIPUSH, JVM_LLOAD_2, JVM_LASTORE
<1>. QED  BY <1>2, <1>3 DEF StoreRegister

(* What loads a constant is bytes, whatever its index.                      *)
LEMMA LoadConstantType ==
  ASSUME NEW index \in Int
  PROVE  LoadConstantBytes(index) \in Seq(Byte)
BY BytesAreBytes DEF LoadConstantBytes, Byte, JVM_LDC_W, JVM_I2L

(* What the method begins with is bytes.                                    *)
LEMMA PrologueType == LoadRegistersIntoLocal \in Seq(Byte)
<1>1. << JVM_GETSTATIC >> \in Seq(Byte) /\ << JVM_INVOKEVIRTUAL >> \in Seq(Byte)
      /\ << JVM_CHECKCAST >> \in Seq(Byte) /\ << JVM_ASTORE_1 >> \in Seq(Byte)
  BY DEF Byte, JVM_GETSTATIC, JVM_INVOKEVIRTUAL, JVM_CHECKCAST, JVM_ASTORE_1
<1>2. /\ Bytes2(REGISTERS_FIELDREF) \in Seq(Byte)
      /\ Bytes2(THREAD_LOCAL_GET_METHODREF) \in Seq(Byte)
      /\ Bytes2(LONG_ARRAY_CLASS) \in Seq(Byte)
  BY BytesAreBytes
  DEF REGISTERS_FIELDREF, THREAD_LOCAL_GET_METHODREF, LONG_ARRAY_CLASS
<1>. QED  BY <1>1, <1>2, ConcatType DEF LoadRegistersIntoLocal

(* A program's elements, as far as the code generator looks into them.      *)
LEMMA ElementFacts ==
  ASSUME NEW e \in Elements
  PROVE  /\ IsLabel(e) => e.name \in Labels
         /\ IsInstruction(e) => e.rd \in Registers
         /\ HasImm(e) => e.imm \in Int
         /\ HasLabel(e) => e.label \in Labels
         /\ IsR3(e) => e.rs1 \in Registers /\ e.rs2 \in Registers
         /\ IsAddi(e) => e.rs1 \in Registers
         /\ IsConditional(e) => e.rs1 \in Registers
<1>0. Imm12 \subseteq Int /\ Imm20 \subseteq Int
  BY DEF Imm12, Imm20
<1>. USE DEF IsLabel, IsInstruction, HasImm, HasLabel, HasOperand, IsR3, IsAddi,
         IsConditional
<1>1. CASE e \in LabelElements
  BY <1>1 DEF LabelElements
<1>2. CASE e = Eof
  BY <1>2 DEF Eof
<1>3. CASE e \in R3Elements
  BY <1>3 DEF R3Elements
<1>4. CASE e \in R2ImmElements
  BY <1>4, <1>0 DEF R2ImmElements
<1>5. CASE e \in R2LabelElements
  BY <1>5 DEF R2LabelElements
<1>6. CASE e \in R1ImmElements
  BY <1>6, <1>0 DEF R1ImmElements
<1>7. CASE e \in R1LabelElements
  BY <1>7 DEF R1LabelElements
<1>8. CASE e \in MemElements
  BY <1>8 DEF MemElements
<1>. QED
  BY <1>1, <1>2, <1>3, <1>4, <1>5, <1>6, <1>7, <1>8
  DEF Elements, InstructionElements

(* The code generator never looks past IR_EOF: before it, there is a next   *)
(* element.                                                                 *)
LEMMA NextElementExists ==
  ASSUME NEW p, IsProgram(p), NEW k \in DOMAIN p
  PROVE  /\ p[k] \in Elements
         /\ ~IsEof(p[k]) => k + 1 \in DOMAIN p
BY DEF IsProgram

(* The code of every kind of instruction is bytes.                          *)
LEMMA InstructionBytes ==
  ASSUME NEW e \in Elements
  PROVE  /\ IsR3(e) => R3Bytes(e) \in Seq(Byte)
         /\ \A index \in Int : IsAddi(e) => AddiBytes(e, index) \in Seq(Byte)
         /\ IsConditional(e) => Compare(e) \in Seq(Byte)
         /\ JumpPrefix(e) \in Seq(Byte)
<1>1. << JVM_LADD >> \in Seq(Byte) /\ << JVM_LCMP >> \in Seq(Byte)
      /\ << JVM_IFEQ >> \in Seq(Byte) /\ << JVM_IFGT >> \in Seq(Byte)
      /\ << >> \in Seq(Byte)
  BY DEF Byte, JVM_LADD, JVM_LCMP, JVM_IFEQ, JVM_IFGT
<1>2. ASSUME IsR3(e) PROVE R3Bytes(e) \in Seq(Byte)
  <2>1. IsInstruction(e)
    BY <1>2 DEF IsR3
  <2>2. Operation(e) \in Seq(Byte)
    BY <1>1 DEF Operation
  <2>. QED
    BY <1>2, <2>1, <2>2, ElementFacts, LoadRegisterType, StoreRegisterType,
       ConcatType DEF R3Bytes
<1>3. ASSUME IsAddi(e), NEW index \in Int PROVE AddiBytes(e, index) \in Seq(Byte)
  <2>1. IsInstruction(e)
    BY <1>3 DEF IsAddi
  <2>. QED
    BY <1>1, <1>3, <2>1, ElementFacts, LoadRegisterType, LoadConstantType,
       StoreRegisterType, ConcatType DEF AddiBytes
<1>4. ASSUME IsConditional(e) PROVE Compare(e) \in Seq(Byte)
  <2>1. IsInstruction(e)
    BY <1>4 DEF IsConditional
  <2>. QED
    BY <1>1, <1>4, <2>1, ElementFacts, LoadRegisterType, ConcatType DEF Compare
<1>5. JumpPrefix(e) \in Seq(Byte)
  <2>1. Skip(e) \in Seq(Byte)
    BY <1>1, BytesAreBytes, ConcatType DEF Skip, SkipOpcode, SkipLength
  <2>. QED
    BY <1>1, <1>4, <2>1, ConcatType DEF JumpPrefix
<1>. QED  BY <1>2, <1>3, <1>4, <1>5

-----------------------------------------------------------------------------
(* Types.                                                                   *)

(* An offset stored in a uint16_t is within its range.                      *)
LEMMA U16Type ==
  ASSUME NEW n \in Int
  PROVE  U16(n) \in 0 .. U16Range - 1
BY U16RangeAssumption DEF U16

(* The index of a constant that is in the pool is within range.             *)
LEMMA ConstantIndexType ==
  ASSUME integers \in Seq(Int), NEW n \in Range(integers)
  PROVE  ConstantIndex(n) \in Int
<1>1. PICK k \in DOMAIN integers : integers[k] = n
  BY DEF Range
<1>2. (CHOOSE m \in DOMAIN integers : integers[m] = n) \in Int
  BY <1>1
<1>3. FixedConstants + (CHOOSE m \in DOMAIN integers : integers[m] = n) \in Int
  BY <1>2 DEF FixedConstants
<1>. QED  BY <1>3, U16Type DEF ConstantIndex

(* constant_map holds integers after an entry is added.                     *)
LEMMA AddConstantType ==
  ASSUME integers \in Seq(Int), NEW n \in Int, AddConstant(n)
  PROVE  integers' \in Seq(Int)
BY DEF AddConstant

(* The frames are offsets after one is added.                               *)
LEMMA AddStackFrameType ==
  ASSUME stack_map_frames \in Seq(0 .. U16Range - 1), NEW target \in Int,
         AddStackFrame(target)
  PROVE  stack_map_frames' \in Seq(0 .. U16Range - 1)
BY U16Type, SMTT(30) DEF AddStackFrame

(* Moving on to the next element stays within the program, and what every   *)
(* action of the first pass does keeps its types.                           *)
LEMMA FirstPassType ==
  ASSUME TypeOK, FirstPass
  PROVE  /\ IsProgram(ir)'
         /\ (i \in DOMAIN ir)'
         /\ (j \in Nat \ {0})'
         /\ (integers \in Seq(Int))'
         /\ (starts \in Seq(Nat))'
         /\ ir[i] \in Elements
<1>1. ir[i] \in Elements /\ i + 1 \in DOMAIN ir
  BY NextElementExists DEF TypeOK, FirstPass
<1>2. Len(code) \in Nat
  BY DEF TypeOK
<1>. QED  BY <1>1, <1>2 DEF TypeOK, FirstPass, IsProgram

(* Every step keeps the types.                                              *)
LEMMA TypeStep ==
  ASSUME TypeOK, [Next]_vars
  PROVE  TypeOK'
<1>. USE DEF TypeOK
<1>1. CASE LoadConstant
  <2>1. ir[i] \in Elements /\ i + 1 \in DOMAIN ir
    BY <1>1, NextElementExists DEF LoadConstant
  <2>2. integers' \in Seq(Int)
    <3>1. CASE HasImm(ir[i]) /\ AddConstant(ir[i].imm)
      BY <2>1, <3>1, ElementFacts, AddConstantType
    <3>2. ASSUME NEW imm \in Garbage, AddConstant(imm) PROVE integers' \in Seq(Int)
      BY <3>2, AddConstantType, GarbageAssumption
    <3>. QED  BY <1>1, <3>1, <3>2 DEF LoadConstant
  <2>. QED  BY <1>1, <2>1, <2>2 DEF LoadConstant, IsProgram
<1>2. CASE BeginMain
  BY <1>2, PrologueType DEF BeginMain, IsProgram
<1>3. CASE WriteLabel
  <2>1. ir[i].name \in Labels
    BY <1>3, FirstPassType, ElementFacts DEF WriteLabel
  <2>2. U16(Len(code)) \in 0 .. U16Range - 1
    BY U16Type
  <2>3. code_label_offsets' \in [Labels -> 0 .. U16Range - 1 \cup {NoOffset}]
    BY <1>3, <2>1, <2>2 DEF WriteLabel
  <2>. QED  BY <1>3, <2>3, FirstPassType DEF WriteLabel
<1>4. CASE WriteR3
  <2>1. code' \in Seq(Byte)
    BY <1>4, FirstPassType, InstructionBytes, ConcatType DEF WriteR3
  <2>. QED  BY <1>4, <2>1, FirstPassType DEF WriteR3
<1>5. CASE WriteAddi
  <2>1. PICK imm : \/ /\ imm \in Range(integers)
                     /\ code' = code \o AddiBytes(ir[i], ConstantIndex(imm))
                     /\ UNCHANGED pc
                  \/ /\ pc' = "exit"
                     /\ UNCHANGED code
    BY <1>5 DEF WriteAddi
  <2>2. code' \in Seq(Byte)
    <3>1. CASE imm \in Range(integers)
      BY <1>5, <2>1, <3>1, FirstPassType, ConstantIndexType, InstructionBytes,
         ConcatType DEF WriteAddi
    <3>. QED  BY <2>1, <3>1
  <2>. QED  BY <1>5, <2>1, <2>2, FirstPassType DEF WriteAddi
<1>6. CASE WriteJump
  <2>. DEFINE opcode == Len(code) + Len(JumpPrefix(ir[i]))
  <2>1. ir[i] \in Elements /\ ir[i].label \in Labels
    BY <1>6, FirstPassType, ElementFacts DEF WriteJump
  <2>2. JumpPrefix(ir[i]) \in Seq(Byte)
    BY <2>1, InstructionBytes
  <2>3. GotoPlaceholder \in Seq(Byte)
    <3>1. << JVM_GOTO_W >> \in Seq(Byte)
      BY DEF Byte, JVM_GOTO_W
    <3>. QED  BY <3>1, BytesAreBytes, ConcatType DEF GotoPlaceholder
  <2>4. code' \in Seq(Byte)
    BY <1>6, <2>2, <2>3, ConcatType DEF WriteJump
  <2>5. LabelReference(opcode) \in Reference
    <3>1. opcode \in Int /\ opcode + 1 \in Int
      BY <2>2
    <3>2. U16(opcode) \in 0 .. U16Range - 1 /\ U16(opcode + 1) \in 0 .. U16Range - 1
      BY <3>1, U16Type
    <3>. QED  BY <3>2 DEF LabelReference, Reference
  <2>6. label_references' \in [Labels -> Seq(Reference)]
    BY <1>6, <2>1, <2>5 DEF WriteJump
  <2>7. stack_map_frames' \in Seq(0 .. U16Range - 1)
    <3>1. CASE IsConditional(ir[i])
      <4>1. Compare(ir[i]) \in Seq(Byte)
        BY <2>1, <3>1, InstructionBytes
      <4>2. Len(code) + Len(Compare(ir[i])) + SkipLength \in Int
        BY <4>1 DEF SkipLength
      <4>. QED  BY <1>6, <3>1, <4>2, AddStackFrameType DEF WriteJump
    <3>. QED  BY <1>6, <3>1 DEF WriteJump
  <2>. QED  BY <1>6, <2>4, <2>6, <2>7, FirstPassType DEF WriteJump
<1>7. CASE WriteJumpUndefined
  BY <1>7, FirstPassType DEF WriteJumpUndefined
<1>8. CASE WriteNothing
  BY <1>8, FirstPassType DEF WriteNothing
<1>9. CASE EndFirstPass
  BY <1>9 DEF EndFirstPass, IsProgram
<1>10. CASE UpdateLabelReference
  <2>. DEFINE label_offset == code_label_offsets[ir[i].name]
              reference == label_references[ir[i].name][j]
  <2>1. ir[i].name \in Labels
    BY <1>10, NextElementExists, ElementFacts DEF UpdateLabelReference, ReferencesLeft
  <2>2. label_offset \in 0 .. U16Range - 1
    BY <1>10, <2>1 DEF UpdateLabelReference
  <2>3. reference \in Reference
    BY <1>10, <2>1 DEF UpdateLabelReference, ReferencesLeft
  <2>4. label_offset \in Int /\ reference.opcode_offset \in Int
        /\ reference.branch_offset \in Int
    BY <2>2, <2>3, U16RangeAssumption, SMTT(30) DEF Reference
  <2>5. Bytes4(label_offset - reference.opcode_offset) \in Seq(Byte)
    <3>1. label_offset - reference.opcode_offset \in Int
      BY <2>4, SMTT(30)
    <3>. QED  BY <3>1, BytesAreBytes
  <2>6. code' \in Seq(Byte)
    BY <1>10, <2>4, <2>5, OverwriteType DEF UpdateLabelReference
  <2>7. stack_map_frames' \in Seq(0 .. U16Range - 1)
    BY <1>10, <2>4, AddStackFrameType DEF UpdateLabelReference
  <2>. QED
    BY <1>10, <2>6, <2>7 DEF UpdateLabelReference, IsProgram
<1>11. CASE LabelOffsetMissing
  BY <1>11 DEF LabelOffsetMissing, IsProgram
<1>12. CASE NextElement
  BY <1>12, NextElementExists DEF NextElement, Increment, IsProgram
<1>13. CASE EndMain
  <2>1. JVM_RETURN \in Byte
    BY DEF JVM_RETURN, Byte
  <2>. QED  BY <1>13, <2>1 DEF EndMain, IsProgram
<1>14. CASE UNCHANGED vars
  BY <1>14 DEF vars, IsProgram
<1>. QED
  BY <1>1, <1>2, <1>3, <1>4, <1>5, <1>6, <1>7, <1>8, <1>9, <1>10, <1>11, <1>12,
     <1>13, <1>14 DEF Next

(* The types hold initially.                                                *)
LEMMA TypeInit == Init => TypeOK
BY ProgramsAssumption, U16RangeAssumption DEF Init, TypeOK, IsProgram, NoOffset

(* The code generator's data keep their types: every byte it writes is a    *)
(* byte and every offset it stores fits the uint16_t it is stored in.       *)
THEOREM TypeCorrect == Spec => []TypeOK
BY TypeInit, TypeStep, PTL DEF Spec

-----------------------------------------------------------------------------
(* What one loop leaves for the next, which is why a compilable program     *)
(* never makes the code generator exit.  CompilableNeverExits is not        *)
(* inductive: an exit in a late loop is ruled out by what an early one did. *)

ConstantsAdded(n) ==
  \A m \in 1 .. n - 1 : HasImm(ir[m]) => ir[m].imm \in Range(integers)

OffsetsNoted(n) ==
  \A m \in 1 .. n - 1 :
    IsLabel(ir[m]) /\ ~IsLabel(ir[m + 1]) => code_label_offsets[ir[m].name] # NoOffset

ReferencesAreJumps ==
  \A label \in Labels : label_references[label] # << >> =>
    \E m \in DOMAIN ir : IsJump(ir[m]) /\ HasLabel(ir[m]) /\ ir[m].label = label

PhaseInv ==
  /\ pc = "constant_pool" => ConstantsAdded(i)
  /\ pc = "pass1" => ConstantsAdded(Len(ir)) /\ OffsetsNoted(i)
  /\ pc = "pass2" => OffsetsNoted(Len(ir))
  /\ ReferencesAreJumps
  /\ CompilableNeverExits

(* add_constant keeps the constants there are and adds the one it is given. *)
LEMMA AddConstantRange ==
  ASSUME integers \in Seq(Int), NEW n \in Int, AddConstant(n)
  PROVE  Range(integers)' = Range(integers) \cup {n}
<1>1. CASE n \in Range(integers)
  BY <1>1 DEF AddConstant, Range
<1>2. CASE n \notin Range(integers)
  <2>1. integers' = Append(integers, n)
    BY <1>2 DEF AddConstant
  <2>2. DOMAIN integers' = DOMAIN integers \cup {Len(integers) + 1}
    BY <2>1
  <2>3. /\ \A m \in DOMAIN integers : integers'[m] = integers[m]
        /\ integers'[Len(integers) + 1] = n
    BY <2>1
  <2>. QED  BY <2>2, <2>3 DEF Range
<1>. QED  BY <1>1, <1>2

(* An instruction leaves the noted offsets as they are.                     *)
LEMMA InstructionPhase ==
  ASSUME TypeOK, PhaseInv, FirstPass, ~IsLabel(ir[i]), UNCHANGED code_label_offsets
  PROVE  ConstantsAdded(Len(ir))' /\ OffsetsNoted(i)'
<1>1. /\ i \in 1 .. Len(ir) /\ i' = i + 1
      /\ UNCHANGED << ir, integers >>
      /\ ConstantsAdded(Len(ir)) /\ OffsetsNoted(i)
  BY DEF TypeOK, IsProgram, FirstPass, PhaseInv
<1>2. ConstantsAdded(Len(ir))'
  BY <1>1 DEF ConstantsAdded
<1>3. OffsetsNoted(i)'
  <2>. SUFFICES ASSUME NEW m \in 1 .. i, IsLabel(ir[m]), ~IsLabel(ir[m + 1])
                PROVE  code_label_offsets[ir[m].name] # NoOffset
    BY <1>1 DEF OffsetsNoted
  <2>. QED  BY <1>1 DEF OffsetsNoted
<1>. QED  BY <1>2, <1>3

(* Every step keeps what the phases need of each other.                     *)
LEMMA PhaseStep ==
  ASSUME TypeOK, PhaseInv, [Next]_vars
  PROVE  PhaseInv'
<1>0. /\ ir \in Seq(Elements)
      /\ i \in 1 .. Len(ir)
      /\ \A m \in 1 .. Len(ir) : ir[m] \in Elements /\ (IsEof(ir[m]) <=> m = Len(ir))
  BY DEF TypeOK, IsProgram
<1>1. CASE LoadConstant
  <2>1. ConstantsAdded(i)
    BY <1>1 DEF LoadConstant, PhaseInv
  <2>2. /\ Range(integers) \subseteq Range(integers)'
        /\ HasImm(ir[i]) => ir[i].imm \in Range(integers)'
    <3>1. CASE HasImm(ir[i]) /\ AddConstant(ir[i].imm)
      BY <1>0, <3>1, ElementFacts, AddConstantRange DEF TypeOK
    <3>2. ASSUME HasLabel(ir[i]), NEW imm \in Garbage, AddConstant(imm)
          PROVE  Range(integers) \subseteq Range(integers)' /\ ~HasImm(ir[i])
      BY <3>2, AddConstantRange, GarbageAssumption DEF TypeOK, HasLabel, HasImm
    <3>3. CASE ~HasOperand(ir[i]) /\ UNCHANGED integers
      BY <3>3 DEF HasImm
    <3>. QED  BY <1>1, <3>1, <3>2, <3>3 DEF LoadConstant
  <2>3. ConstantsAdded(i)'
    <3>. SUFFICES ASSUME NEW m \in 1 .. i, HasImm(ir[m])
                  PROVE  ir[m].imm \in Range(integers)'
      BY <1>0, <1>1 DEF LoadConstant, ConstantsAdded
    <3>1. CASE m = i
      BY <2>2, <3>1
    <3>2. CASE m \in 1 .. i - 1
      BY <2>1, <2>2, <3>2 DEF ConstantsAdded
    <3>. QED  BY <1>0, <3>1, <3>2
  <2>. QED
    BY <1>1, <2>3 DEF LoadConstant, PhaseInv, ReferencesAreJumps, CompilableNeverExits
<1>2. CASE BeginMain
  <2>1. ConstantsAdded(Len(ir))' /\ OffsetsNoted(i)'
    BY <1>0, <1>2 DEF BeginMain, PhaseInv, ConstantsAdded, OffsetsNoted
  <2>. QED
    BY <1>2, <2>1 DEF BeginMain, PhaseInv, ReferencesAreJumps, CompilableNeverExits
<1>3. CASE WriteLabel
  <2>1. /\ ir[i].name \in Labels
        /\ code_label_offsets \in [Labels -> 0 .. U16Range - 1 \cup {NoOffset}]
        /\ U16(Len(code)) # NoOffset
    <3>1. Len(code) \in Int
      BY DEF TypeOK
    <3>2. U16(Len(code)) # NoOffset
      BY <3>1, U16Type, U16RangeAssumption DEF NoOffset
    <3>. QED  BY <1>0, <1>3, <3>2, ElementFacts DEF WriteLabel, TypeOK
  <2>2. ConstantsAdded(Len(ir))'
    BY <1>3 DEF WriteLabel, FirstPass, PhaseInv, ConstantsAdded
  <2>3. OffsetsNoted(i)'
    <3>. SUFFICES ASSUME NEW m \in 1 .. i, IsLabel(ir[m]), ~IsLabel(ir[m + 1])
                  PROVE  code_label_offsets'[ir[m].name] # NoOffset
      BY <1>0, <1>3 DEF WriteLabel, FirstPass, OffsetsNoted
    <3>1. CASE m = i
      BY <1>3, <2>1, <3>1 DEF WriteLabel, NotesOffset
    <3>2. CASE m \in 1 .. i - 1
      <4>1. code_label_offsets[ir[m].name] # NoOffset
        BY <1>3, <3>2 DEF WriteLabel, FirstPass, PhaseInv, OffsetsNoted
      <4>2. ir[m].name \in Labels
        BY <1>0, ElementFacts
      <4>. QED  BY <1>3, <2>1, <4>1, <4>2 DEF WriteLabel
    <3>. QED  BY <1>0, <3>1, <3>2
  <2>. QED
    BY <1>3, <2>2, <2>3
    DEF WriteLabel, FirstPass, PhaseInv, ReferencesAreJumps, CompilableNeverExits
<1>4. CASE WriteR3
  <2>1. ConstantsAdded(Len(ir))' /\ OffsetsNoted(i)'
    BY <1>4, InstructionPhase DEF WriteR3, IsR3, IsInstruction, IsLabel
  <2>. QED
    BY <1>4, <2>1
    DEF WriteR3, FirstPass, PhaseInv, ReferencesAreJumps, CompilableNeverExits
<1>5. CASE WriteAddi
  <2>1. ConstantsAdded(Len(ir))' /\ OffsetsNoted(i)'
    BY <1>5, InstructionPhase DEF WriteAddi, IsAddi, IsInstruction, IsLabel
  <2>2. IsCompilable(ir) => pc' # "exit"
    <3>. SUFFICES ASSUME IsCompilable(ir) PROVE pc' # "exit"
      OBVIOUS
    <3>1. HasImm(ir[i])
      BY <1>0, <1>5 DEF WriteAddi, IsCompilable
    <3>2. i \in 1 .. Len(ir) - 1
      BY <1>0, <1>5 DEF WriteAddi, FirstPass
    <3>3. ir[i].imm \in Range(integers)
      BY <1>5, <3>1, <3>2 DEF WriteAddi, FirstPass, PhaseInv, ConstantsAdded
    <3>. QED  BY <1>5, <3>1, <3>3 DEF WriteAddi, FirstPass
  <2>. QED
    BY <1>5, <2>1, <2>2
    DEF WriteAddi, FirstPass, PhaseInv, ReferencesAreJumps, CompilableNeverExits
<1>6. CASE WriteJump
  <2>1. ConstantsAdded(Len(ir))' /\ OffsetsNoted(i)'
    BY <1>6, InstructionPhase
    DEF WriteJump, IsJump, IsConditional, IsInstruction, IsLabel
  <2>2. ReferencesAreJumps'
    <3>. SUFFICES ASSUME NEW label \in Labels, label_references'[label] # << >>
                  PROVE  \E m \in DOMAIN ir :
                           IsJump(ir[m]) /\ HasLabel(ir[m]) /\ ir[m].label = label
      BY <1>6 DEF WriteJump, FirstPass, ReferencesAreJumps
    <3>1. CASE label = ir[i].label
      BY <1>0, <1>6, <3>1 DEF WriteJump
    <3>2. CASE label # ir[i].label
      BY <1>6, <3>2 DEF WriteJump, PhaseInv, ReferencesAreJumps, TypeOK
    <3>. QED  BY <3>1, <3>2
  <2>. QED
    BY <1>6, <2>1, <2>2 DEF WriteJump, FirstPass, PhaseInv, CompilableNeverExits
<1>7. CASE WriteJumpUndefined
  BY <1>7
  DEF WriteJumpUndefined, FirstPass, PhaseInv, ReferencesAreJumps, CompilableNeverExits
<1>8. CASE WriteNothing
  <2>1. ConstantsAdded(Len(ir))' /\ OffsetsNoted(i)'
    BY <1>8, InstructionPhase DEF WriteNothing, IsInstruction, IsLabel
  <2>. QED
    BY <1>8, <2>1
    DEF WriteNothing, FirstPass, PhaseInv, ReferencesAreJumps, CompilableNeverExits
<1>9. CASE EndFirstPass
  <2>1. OffsetsNoted(Len(ir))'
    BY <1>0, <1>9 DEF EndFirstPass, PhaseInv, OffsetsNoted
  <2>. QED
    BY <1>9, <2>1 DEF EndFirstPass, PhaseInv, ReferencesAreJumps, CompilableNeverExits
<1>10. CASE UpdateLabelReference
  BY <1>10
  DEF UpdateLabelReference, PhaseInv, OffsetsNoted, ReferencesAreJumps,
      CompilableNeverExits
<1>11. CASE LabelOffsetMissing
  <2>1. ~IsCompilable(ir)
    <3>. SUFFICES ASSUME IsCompilable(ir) PROVE FALSE
      OBVIOUS
    <3>1. ir[i].name \in Labels /\ label_references[ir[i].name] # << >>
      BY <1>0, <1>11, ElementFacts DEF LabelOffsetMissing, ReferencesLeft, TypeOK
    <3>2. PICK m \in DOMAIN ir :
            IsJump(ir[m]) /\ HasLabel(ir[m]) /\ ir[m].label = ir[i].name
      BY <3>1 DEF PhaseInv, ReferencesAreJumps
    <3>3. ~IsLabel(ir[i + 1])
      BY <1>0, <1>11, <3>2 DEF LabelOffsetMissing, ReferencesLeft, IsCompilable
    <3>4. i \in 1 .. Len(ir) - 1
      BY <1>0, <1>11 DEF LabelOffsetMissing, ReferencesLeft, IsLabel, IsEof
    <3>. QED
      BY <1>11, <3>3, <3>4
      DEF LabelOffsetMissing, ReferencesLeft, PhaseInv, OffsetsNoted
  <2>. QED
    BY <1>11, <2>1
    DEF LabelOffsetMissing, PhaseInv, ReferencesAreJumps, CompilableNeverExits
<1>12. CASE NextElement
  BY <1>12
  DEF NextElement, Increment, PhaseInv, OffsetsNoted, ReferencesAreJumps, CompilableNeverExits
<1>13. CASE EndMain
  BY <1>13 DEF EndMain, PhaseInv, ReferencesAreJumps, CompilableNeverExits
<1>14. CASE UNCHANGED vars
  BY <1>14
  DEF vars, PhaseInv, ConstantsAdded, OffsetsNoted, ReferencesAreJumps,
      CompilableNeverExits
<1>. QED
  BY <1>1, <1>2, <1>3, <1>4, <1>5, <1>6, <1>7, <1>8, <1>9, <1>10, <1>11, <1>12,
     <1>13, <1>14 DEF Next

(* Nothing is needed of a phase that has not begun.                         *)
LEMMA PhaseInit == Init => PhaseInv
BY DEF Init, PhaseInv, ConstantsAdded, ReferencesAreJumps, CompilableNeverExits

(* For a compilable program the code generator never exits, however many    *)
(* registers, labels and elements there are: what get_code_label_offset and *)
(* get_constant_index look up in the passes was put there before.           *)
THEOREM NeverExits == Spec => []CompilableNeverExits
<1>1. Init => TypeOK /\ PhaseInv
  BY TypeInit, PhaseInit
<1>2. TypeOK /\ PhaseInv /\ [Next]_vars => (TypeOK /\ PhaseInv)'
  BY TypeStep, PhaseStep
<1>3. PhaseInv => CompilableNeverExits
  BY DEF PhaseInv
<1>. QED  BY <1>1, <1>2, <1>3, PTL DEF Spec

-----------------------------------------------------------------------------
(* The layout of the method: where the code of each element is, and what    *)
(* the two passes have put there.  LayoutInv is the inductive invariant     *)
(* behind the four properties about the finished method; offsets are exact  *)
(* only while the method fits, so it speaks of the layout under CodeFits.   *)

(* Where the code of an element ends: where the next one's starts.          *)
End(m) == IF m + 1 \in DOMAIN starts THEN starts[m + 1] ELSE Len(code)

CodeAt(place, bytes) == BytesAt(code, place, bytes)

(* The code of each element begins where that of the one before it ends.    *)
InOrder ==
  /\ Len(starts) = IF pc = "pass1" THEN i - 1 ELSE Len(ir)
  /\ \A m \in DOMAIN starts : starts[m] <= End(m) /\ End(m) <= Len(code)
  /\ \A m, n \in DOMAIN starts : m < n => End(m) <= starts[n]

GotoOf(m) == JumpPrefix(ir[m]) \o << JVM_GOTO_W >>
BranchOffset(m) == Bytes4(code_label_offsets[ir[m].label] - JumpOpcode(m))

(* A jump is as it was written, but that the second pass may have put its   *)
(* offset over the zeros.                                                   *)
JumpAt(m) ==
  IsJump(ir[m]) =>
    /\ HasLabel(ir[m])
    /\ End(m) = JumpOpcode(m) + 5
    /\ CodeAt(starts[m], GotoOf(m))
    /\ \/ CodeAt(JumpOpcode(m) + 1, Bytes4(0))
       \/ pc # "pass1" /\ CodeAt(JumpOpcode(m) + 1, BranchOffset(m))

AddiOf(m) == AddiBytes(ir[m], ConstantIndex(ir[m].imm))

AddiAt(m) ==
  IsAddi(ir[m]) /\ HasImm(ir[m]) =>
    /\ ir[m].imm \in Range(integers)
    /\ End(m) = starts[m] + Len(AddiOf(m))
    /\ CodeAt(starts[m], AddiOf(m))

CodePlaced == \A m \in DOMAIN starts : JumpAt(m) /\ AddiAt(m)

ReferenceTo(m) ==
  [opcode_offset |-> JumpOpcode(m), branch_offset |-> JumpOpcode(m) + 1]

(* The references to a label are the jumps to it.                           *)
ReferencesKept ==
  /\ \A label \in Labels : \A p \in DOMAIN label_references[label] :
       \E m \in DOMAIN starts :
         /\ IsJump(ir[m]) /\ ir[m].label = label
         /\ label_references[label][p] = ReferenceTo(m)
  /\ \A m \in DOMAIN starts : IsJump(ir[m]) =>
       \E p \in DOMAIN label_references[ir[m].label] :
         label_references[ir[m].label][p] = ReferenceTo(m)

OffsetsKept ==
  \A label \in Labels : code_label_offsets[label] # NoOffset =>
    \E d \in DOMAIN starts :
      IsLabel(ir[d]) /\ ir[d].name = label /\ code_label_offsets[label] = starts[d]

(* The references the second pass has been through: to the labels before    *)
(* ir[i], and the first of those to ir[i].                                  *)
Visited(d, p) == d < i \/ (d = i /\ p < j)

UpdatedAt(label, reference) ==
  /\ code_label_offsets[label] # NoOffset
  /\ CodeAt(reference.branch_offset,
            Bytes4(code_label_offsets[label] - reference.opcode_offset))

Updated ==
  pc # "pass1" =>
    \A d \in DOMAIN ir : IsLabel(ir[d]) =>
      \A p \in DOMAIN label_references[ir[d].name] :
        Visited(d, p) => UpdatedAt(ir[d].name, label_references[ir[d].name][p])

VisitedLabels ==
  IF pc = "pass1" THEN {}
  ELSE {d \in DOMAIN ir : IsLabel(ir[d]) /\
          \E p \in DOMAIN label_references[ir[d].name] : Visited(d, p)}

FramesKept ==
  Range(stack_map_frames) =
    {End(m) : m \in {n \in DOMAIN starts : IsConditional(ir[n])}}
    \cup {code_label_offsets[ir[d].name] : d \in VisitedLabels}

Untouched ==
  /\ code = << >> /\ starts = << >> /\ stack_map_frames = << >>
  /\ code_label_offsets = [label \in Labels |-> NoOffset]
  /\ label_references = [label \in Labels |-> << >>]

Layout ==
  InOrder /\ CodePlaced /\ ReferencesKept /\ OffsetsKept /\ Updated /\ FramesKept

LayoutInv ==
  /\ SemanAccepts(ir)
  /\ pc \in {"constant_pool", "pass1"} => j = 1
  /\ pc = "constant_pool" => Untouched
  /\ pc = "done" => IsEof(ir[i])
  /\ pc \in {"pass1", "pass2", "done"} /\ CodeFits => Layout

-----------------------------------------------------------------------------
(* Before the first pass nothing is laid out.                               *)
LEMMA LayoutInit == Init => LayoutInv
BY ProgramsAssumption DEF Init, LayoutInv, Untouched

(* The lengths of what is written, as far as offsets depend on them.        *)
LEMMA JumpLengths ==
  ASSUME NEW e \in Elements
  PROVE  /\ JumpPrefix(e) \in Seq(Byte) /\ Len(JumpPrefix(e)) \in Nat
         /\ IsConditional(e) =>
              /\ Compare(e) \in Seq(Byte) /\ Len(Compare(e)) \in Nat
              /\ Skip(e) \in Seq(Byte)
              /\ JumpPrefix(e) = Compare(e) \o Skip(e)
              /\ Len(JumpPrefix(e)) = Len(Compare(e)) + 3
         /\ GotoPlaceholder \in Seq(Byte) /\ Len(GotoPlaceholder) = 5
         /\ GotoPlaceholder = << JVM_GOTO_W >> \o Bytes4(0)
         /\ << JVM_GOTO_W >> \in Seq(Byte) /\ Bytes4(0) \in Seq(Byte)
<1>1. JumpPrefix(e) \in Seq(Byte) /\ (IsConditional(e) => Compare(e) \in Seq(Byte))
  BY InstructionBytes
<1>2. Skip(e) \in Seq(Byte) /\ Len(Skip(e)) = 3
  <2>1. << SkipOpcode(e) >> \in Seq(Byte) /\ Bytes2(SkipLength) \in Seq(Byte)
    BY BytesAreBytes DEF SkipOpcode, SkipLength, JVM_IFEQ, JVM_IFGT, Byte
  <2>2. Len(<< SkipOpcode(e) >>) = 1 /\ Len(Bytes2(SkipLength)) = 2
    BY DEF Bytes2
  <2>. DEFINE a == << SkipOpcode(e) >>
              b == Bytes2(SkipLength)
  <2>3. Skip(e) = a \o b
    BY DEF Skip
  <2>. HIDE DEF a, b
  <2>4. a \o b \in Seq(Byte) /\ Len(a \o b) = Len(a) + Len(b)
    BY <2>1, ConcatType, ConcatBytes DEF a, b
  <2>. QED  BY <2>2, <2>3, <2>4 DEF a, b
<1>3. << JVM_GOTO_W >> \in Seq(Byte) /\ Bytes4(0) \in Seq(Byte)
  BY BytesAreBytes DEF JVM_GOTO_W, Byte
<1>5. GotoPlaceholder \in Seq(Byte) /\ Len(GotoPlaceholder) = 5
  <2>. DEFINE a == << JVM_GOTO_W >>
              b == Bytes4(0)
  <2>1. GotoPlaceholder = a \o b /\ a \in Seq(Byte) /\ b \in Seq(Byte)
    BY <1>3 DEF GotoPlaceholder
  <2>2. Len(a) = 1 /\ Len(b) = 4
    BY DEF Bytes4
  <2>. HIDE DEF a, b
  <2>3. GotoPlaceholder \in Seq(Byte) /\ Len(GotoPlaceholder) = Len(a) + Len(b)
    BY <2>1, ConcatType, ConcatBytes
  <2>. QED  BY <2>2, <2>3
<1>6. ASSUME IsConditional(e)
      PROVE  JumpPrefix(e) = Compare(e) \o Skip(e) /\ Len(JumpPrefix(e)) = Len(Compare(e)) + 3
  <2>1. JumpPrefix(e) = Compare(e) \o Skip(e) /\ Compare(e) \in Seq(Byte) /\ Skip(e) \in Seq(Byte)
    BY <1>1, <1>2, <1>6 DEF JumpPrefix
  <2>2. Len(JumpPrefix(e)) = Len(Compare(e)) + Len(Skip(e))
    BY <2>1, ConcatBytes
  <2>. QED  BY <1>2, <2>1, <2>2
<1>7. Len(JumpPrefix(e)) \in Nat /\ (IsConditional(e) => Len(Compare(e)) \in Nat)
  BY <1>1
<1>8. GotoPlaceholder = << JVM_GOTO_W >> \o Bytes4(0)
  BY DEF GotoPlaceholder
<1>. QED  BY <1>1, <1>2, <1>3, <1>5, <1>6, <1>7, <1>8

(* What a longer sequence holds.                                            *)
LEMMA AppendRange ==
  ASSUME NEW S, NEW s \in Seq(S), NEW x \in S
  PROVE  Range(Append(s, x)) = Range(s) \cup {x}
<1>. DEFINE t == Append(s, x)
<1>1. DOMAIN t = DOMAIN s \cup {Len(s) + 1}
  OBVIOUS
<1>2. (\A m \in DOMAIN s : t[m] = s[m]) /\ t[Len(s) + 1] = x
  OBVIOUS
<1>. HIDE DEF t
<1>3. Range(t) = Range(s) \cup {x}
  BY <1>1, <1>2 DEF Range
<1>. QED  BY <1>3 DEF t

(* The offset of a label, when it has one, fits a uint16_t.                 *)
LEMMA OffsetType ==
  ASSUME TypeOK, NEW label \in Labels
  PROVE  /\ code_label_offsets[label] \in Int
         /\ code_label_offsets[label] # NoOffset =>
              /\ code_label_offsets[label] \in Nat
              /\ code_label_offsets[label] < U16Range
<1>1. code_label_offsets[label] \in 0 .. U16Range - 1 \cup {NoOffset}
  BY DEF TypeOK
<1>. QED  BY <1>1, U16RangeAssumption DEF NoOffset

(* A number below U16Range is stored as it is.                              *)
LEMMA U16Fits ==
  ASSUME NEW n \in Nat, n < U16Range
  PROVE  U16(n) = n
<1>1. U16Range \in Nat \ {0} /\ n \in 0 .. U16Range - 1
  BY U16RangeAssumption
<1>. QED  BY <1>1 DEF U16

(* What a step that only writes code at the end of the method leaves as it  *)
(* is.                                                                      *)
LEMMA AppendedCode ==
  ASSUME TypeOK, NEW added \in Seq(Byte), code' = code \o added
  PROVE  /\ Len(code) \in Nat /\ Len(code') = Len(code) + Len(added) /\ Len(added) \in Nat
         /\ CodeFits' => CodeFits
         /\ BytesAt(code', Len(code), added)
         /\ \A place \in Nat, bytes \in Seq(Byte) :
              BytesAt(code, place, bytes) => BytesAt(code', place, bytes)
<1>1. code \in Seq(Byte) /\ Len(code) \in Nat /\ Len(added) \in Nat
  BY DEF TypeOK
<1>2. Len(code') = Len(code) + Len(added)
  BY <1>1, ConcatBytes
<1>3. CodeFits' => CodeFits
  BY <1>1, <1>2, U16RangeAssumption DEF CodeFits
<1>. QED  BY <1>1, <1>2, <1>3, BytesAtConcat

(* The elements whose code is written, their types, and their references.   *)
LEMMA PlacedTypes ==
  ASSUME TypeOK, InOrder, NEW m \in DOMAIN starts
  PROVE  /\ m \in 1 .. Len(starts) /\ m \in Nat /\ m \in DOMAIN ir /\ ir[m] \in Elements
         /\ starts[m] \in Nat /\ JumpOpcode(m) \in Nat /\ End(m) \in Nat
         /\ starts[m] <= JumpOpcode(m)
<1>1. /\ m \in 1 .. Len(starts) /\ m \in Nat /\ m \in DOMAIN ir /\ ir[m] \in Elements
      /\ starts[m] \in Nat /\ End(m) \in Nat
  <2>1. m \in 1 .. Len(starts) /\ m \in Nat /\ starts[m] \in Nat /\ Len(starts) \in Nat /\ Len(code) \in Nat
    BY DEF TypeOK
  <2>2. Len(starts) <= Len(ir) /\ ir \in Seq(Elements) /\ Len(ir) \in Nat
    BY SMTT(30) DEF TypeOK, IsProgram, InOrder
  <2>3. m \in DOMAIN ir /\ ir[m] \in Elements
    BY <2>1, <2>2
  <2>4. End(m) \in Nat
    BY <2>1 DEF End, TypeOK
  <2>. QED  BY <2>1, <2>3, <2>4
<1>2. Len(JumpPrefix(ir[m])) \in Nat
  BY <1>1, JumpLengths
<1>. QED  BY <1>1, <1>2 DEF JumpOpcode

(* A step of the first pass: everything that is placed stays, and the new   *)
(* element's code is what was added.                                        *)
LEMMA FirstPassPlaces ==
  ASSUME TypeOK, LayoutInv, FirstPass, pc' = "pass1", NEW added \in Seq(Byte),
         code' = code \o added, CodeFits', NEW n, n = i
  PROVE  /\ Layout /\ pc = "pass1" /\ ir' = ir /\ ~IsEof(ir[n])
         /\ n \in 1 .. Len(ir) /\ n \in Nat /\ ir[n] \in Elements
         /\ DOMAIN starts = 1 .. n - 1 /\ DOMAIN starts' = 1 .. n
         /\ starts'[n] = Len(code) /\ End(n)' = Len(code')
         /\ JumpOpcode(n)' = Len(code) + Len(JumpPrefix(ir[n]))
         /\ \A m \in 1 .. n - 1 :
              starts'[m] = starts[m] /\ End(m)' = End(m) /\ JumpOpcode(m)' = JumpOpcode(m)
<1>1. pc = "pass1" /\ ir' = ir /\ starts' = Append(starts, Len(code)) /\ ~IsEof(ir[n])
  BY DEF FirstPass
<1>2. Layout
  BY <1>1, AppendedCode DEF LayoutInv
<1>3. /\ n \in 1 .. Len(ir) /\ n \in Nat /\ ir[n] \in Elements /\ Len(starts) = n - 1
      /\ starts \in Seq(Nat) /\ Len(code) \in Nat
  BY <1>1, <1>2 DEF TypeOK, IsProgram, Layout, InOrder
<1>4. DOMAIN starts = 1 .. n - 1 /\ DOMAIN starts' = 1 .. n /\ starts'[n] = Len(code)
      /\ \A m \in 1 .. n - 1 : starts'[m] = starts[m]
  BY <1>1, <1>3
<1>5. End(n)' = Len(code')
  BY <1>3, <1>4 DEF End
<1>6. ASSUME NEW m \in 1 .. n - 1 PROVE End(m)' = End(m) /\ JumpOpcode(m)' = JumpOpcode(m)
  <2>1. JumpOpcode(m)' = JumpOpcode(m)
    BY <1>1, <1>4 DEF JumpOpcode
  <2>2. CASE m = n - 1
    <3>1. m + 1 = n /\ n \in 1 .. n /\ n \notin 1 .. n - 1
      BY <1>3, <2>2
    <3>. QED  BY <1>4, <2>1, <3>1 DEF End
  <2>3. CASE m # n - 1
    <3>1. m + 1 \in 1 .. n - 1 /\ m + 1 \in 1 .. n
      BY <1>3, <2>3
    <3>. QED  BY <1>4, <2>1, <3>1 DEF End
  <2>. QED  BY <2>1, <2>2, <2>3
<1>7. JumpOpcode(n)' = Len(code) + Len(JumpPrefix(ir[n]))
  BY <1>1, <1>4 DEF JumpOpcode
<1>. QED  BY <1>1, <1>2, <1>3, <1>4, <1>5, <1>6, <1>7

(* The new element's code is after all the others'.                         *)
LEMMA FirstPassOrder ==
  ASSUME TypeOK, LayoutInv, FirstPass, pc' = "pass1", NEW added \in Seq(Byte),
         code' = code \o added, CodeFits'
  PROVE  InOrder'
<1>1. PICK n : n = i
  OBVIOUS
<1>2. /\ Layout /\ pc = "pass1" /\ ir' = ir /\ n \in Nat /\ n # 0
      /\ DOMAIN starts = 1 .. n - 1 /\ DOMAIN starts' = 1 .. n
      /\ starts'[n] = Len(code) /\ End(n)' = Len(code')
      /\ \A m \in 1 .. n - 1 : starts'[m] = starts[m] /\ End(m)' = End(m)
  BY <1>1, FirstPassPlaces, SMTT(30)
<1>3. Len(code) \in Nat /\ Len(code') \in Nat /\ Len(code) <= Len(code')
  BY AppendedCode
<1>4. \A m \in 1 .. n - 1 :
        /\ starts[m] \in Nat /\ End(m) \in Nat /\ starts[m] <= End(m) /\ End(m) <= Len(code)
        /\ \A o \in 1 .. n - 1 : m < o => End(m) <= starts[o]
  BY <1>2, PlacedTypes DEF Layout, InOrder
<1>5. \A m \in 1 .. n : starts'[m] <= End(m)' /\ End(m)' <= Len(code')
  <2>. SUFFICES ASSUME NEW m \in 1 .. n PROVE starts'[m] <= End(m)' /\ End(m)' <= Len(code')
    OBVIOUS
  <2>1. CASE m = n
    BY <1>2, <1>3, <2>1
  <2>2. CASE m # n
    <3>1. m \in 1 .. n - 1
      BY <1>2, <2>2
    <3>. QED  BY <1>2, <1>3, <1>4, <3>1
  <2>. QED  BY <2>1, <2>2
<1>6. \A m, o \in 1 .. n : m < o => End(m)' <= starts'[o]
  <2>. SUFFICES ASSUME NEW m \in 1 .. n, NEW o \in 1 .. n, m < o PROVE End(m)' <= starts'[o]
    OBVIOUS
  <2>1. m \in 1 .. n - 1
    BY <1>2
  <2>2. CASE o = n
    BY <1>2, <1>4, <2>1, <2>2
  <2>3. CASE o # n
    <3>1. o \in 1 .. n - 1
      BY <1>2, <2>3
    <3>. QED  BY <1>2, <1>4, <2>1, <3>1
  <2>. QED  BY <2>2, <2>3
<1>7. Len(starts') = i' - 1
  <2>1. Len(starts') = n /\ i' = n + 1
    BY <1>1, <1>2 DEF FirstPass, TypeOK
  <2>. QED  BY <1>2, <2>1
<1>. QED  BY <1>2, <1>5, <1>6, <1>7 DEF InOrder

(* The code of the other elements stays where it is.                        *)
LEMMA FirstPassCode ==
  ASSUME TypeOK, LayoutInv, FirstPass, pc' = "pass1", NEW added \in Seq(Byte),
         code' = code \o added, CodeFits', NEW n, n = i
  PROVE  \A m \in 1 .. n - 1 : JumpAt(m)' /\ AddiAt(m)'
<1>1. /\ Layout /\ pc = "pass1" /\ ir' = ir /\ integers' = integers
      /\ DOMAIN starts = 1 .. n - 1
      /\ \A m \in 1 .. n - 1 :
            starts'[m] = starts[m] /\ End(m)' = End(m) /\ JumpOpcode(m)' = JumpOpcode(m)
  BY FirstPassPlaces DEF FirstPass
<1>. SUFFICES ASSUME NEW m \in 1 .. n - 1 PROVE JumpAt(m)' /\ AddiAt(m)'
  OBVIOUS
<1>2. /\ JumpAt(m) /\ AddiAt(m) /\ ir[m] \in Elements /\ starts[m] \in Nat /\ JumpOpcode(m) \in Nat
      /\ starts'[m] = starts[m] /\ End(m)' = End(m) /\ JumpOpcode(m)' = JumpOpcode(m)
  BY <1>1, PlacedTypes DEF Layout, CodePlaced
<1>3. \A place \in Nat, bytes \in Seq(Byte) :
        BytesAt(code, place, bytes) => BytesAt(code', place, bytes)
  BY AppendedCode
<1>4. JumpAt(m)'
  <2>. SUFFICES ASSUME IsJump(ir[m])
                PROVE  /\ HasLabel(ir[m]) /\ End(m)' = JumpOpcode(m)' + 5
                       /\ BytesAt(code', starts'[m], GotoOf(m))
                       /\ BytesAt(code', JumpOpcode(m)' + 1, Bytes4(0))
    BY <1>1 DEF JumpAt, CodeAt, GotoOf
  <2>1. GotoOf(m) \in Seq(Byte) /\ Bytes4(0) \in Seq(Byte)
    BY <1>2, JumpLengths, ConcatType DEF GotoOf
  <2>2. /\ HasLabel(ir[m]) /\ End(m) = JumpOpcode(m) + 5
        /\ BytesAt(code, starts[m], GotoOf(m))
        /\ BytesAt(code, JumpOpcode(m) + 1, Bytes4(0))
    BY <1>1, <1>2 DEF JumpAt, CodeAt
  <2>3. JumpOpcode(m) + 1 \in Nat
    BY <1>2
  <2>. QED  BY <1>2, <1>3, <2>1, <2>2, <2>3
<1>5. AddiAt(m)'
  <2>. SUFFICES ASSUME IsAddi(ir[m]), HasImm(ir[m])
                PROVE  /\ ir[m].imm \in Range(integers)'
                       /\ End(m)' = starts'[m] + Len(AddiOf(m)')
                       /\ BytesAt(code', starts'[m], AddiOf(m)')
    BY <1>1 DEF AddiAt, CodeAt
  <2>1. AddiOf(m)' = AddiOf(m) /\ Range(integers)' = Range(integers)
    BY <1>1 DEF AddiOf, ConstantIndex, Range
  <2>2. /\ ir[m].imm \in Range(integers) /\ End(m) = starts[m] + Len(AddiOf(m))
        /\ BytesAt(code, starts[m], AddiOf(m))
    BY <1>2 DEF AddiAt, CodeAt
  <2>3. AddiOf(m) \in Seq(Byte)
    BY <1>2, <2>2, ConstantIndexType, InstructionBytes DEF AddiOf, TypeOK
  <2>. QED  BY <1>2, <1>3, <2>1, <2>2, <2>3
<1>. QED  BY <1>4, <1>5

(* What an element that is not a jump leaves alone.                         *)
LEMMA FirstPassReferences ==
  ASSUME TypeOK, LayoutInv, FirstPass, pc' = "pass1", NEW added \in Seq(Byte),
         code' = code \o added, CodeFits', ~IsJump(ir[i]),
         UNCHANGED label_references
  PROVE  ReferencesKept'
<1>1. PICK n : n = i
  OBVIOUS
<1>2. /\ ReferencesKept /\ ir' = ir /\ n \in Nat
      /\ DOMAIN starts = 1 .. n - 1 /\ DOMAIN starts' = 1 .. n
      /\ \A m \in 1 .. n - 1 : JumpOpcode(m)' = JumpOpcode(m)
  BY <1>1, FirstPassPlaces DEF Layout
<1>3. \A m \in 1 .. n - 1 : ReferenceTo(m)' = ReferenceTo(m) /\ m \in 1 .. n
  BY <1>2 DEF ReferenceTo
<1>4. \A m \in 1 .. n : IsJump(ir[m]) => m \in 1 .. n - 1
  BY <1>1, <1>2
<1>5. ASSUME NEW label \in Labels, NEW p \in DOMAIN label_references[label]
      PROVE  \E m \in 1 .. n :
               /\ IsJump(ir[m]) /\ ir[m].label = label
               /\ label_references[label][p] = ReferenceTo(m)'
  BY <1>2, <1>3 DEF ReferencesKept
<1>6. ASSUME NEW m \in 1 .. n, IsJump(ir[m])
      PROVE  \E p \in DOMAIN label_references[ir[m].label] :
               label_references[ir[m].label][p] = ReferenceTo(m)'
  BY <1>2, <1>3, <1>4, <1>6, SMTT(30) DEF ReferencesKept
<1>7. (\A label \in Labels : \A p \in DOMAIN label_references[label] :
        \E m \in DOMAIN starts :
          /\ IsJump(ir[m]) /\ ir[m].label = label
          /\ label_references[label][p] = ReferenceTo(m))'
  <2>. SUFFICES ASSUME NEW label \in Labels, NEW p \in DOMAIN label_references'[label]
                PROVE  \E m \in DOMAIN starts' :
                         /\ IsJump(ir'[m]) /\ ir'[m].label = label
                         /\ label_references'[label][p] = ReferenceTo(m)'
    OBVIOUS
  <2>1. PICK m \in 1 .. n : /\ IsJump(ir[m]) /\ ir[m].label = label
                           /\ label_references[label][p] = ReferenceTo(m)'
    BY <1>5
  <2>2. m \in DOMAIN starts' /\ IsJump(ir'[m]) /\ ir'[m].label = label
        /\ label_references'[label][p] = ReferenceTo(m)'
    BY <1>2, <2>1
  <2>. QED  BY <2>2
<1>8. (\A m \in DOMAIN starts : IsJump(ir[m]) =>
        \E p \in DOMAIN label_references[ir[m].label] :
          label_references[ir[m].label][p] = ReferenceTo(m))'
  BY <1>2, <1>6
<1>. QED  BY <1>7, <1>8 DEF ReferencesKept

(* An element that is no label leaves the labels' offsets alone.            *)
LEMMA FirstPassOffsets ==
  ASSUME TypeOK, LayoutInv, FirstPass, pc' = "pass1", NEW added \in Seq(Byte),
         code' = code \o added, CodeFits', UNCHANGED code_label_offsets
  PROVE  OffsetsKept'
<1>1. PICK n : n = i
  OBVIOUS
<1>2. /\ Layout /\ ir' = ir /\ n \in Nat
      /\ DOMAIN starts = 1 .. n - 1 /\ DOMAIN starts' = 1 .. n
      /\ \A m \in 1 .. n - 1 : starts'[m] = starts[m]
  BY <1>1, FirstPassPlaces
<1>3. OffsetsKept /\ \A m \in 1 .. n - 1 : m \in 1 .. n
  BY <1>2 DEF Layout
<1>. QED  BY <1>2, <1>3 DEF OffsetsKept

(* An element that is no branch leaves the frames alone.                    *)
LEMMA FirstPassFrames ==
  ASSUME TypeOK, LayoutInv, FirstPass, pc' = "pass1", NEW added \in Seq(Byte),
         code' = code \o added, CodeFits', ~IsConditional(ir[i]),
         UNCHANGED stack_map_frames
  PROVE  FramesKept'
<1>1. PICK n : n = i
  OBVIOUS
<1>2. /\ FramesKept /\ ir' = ir /\ n \in Nat /\ pc = "pass1"
      /\ DOMAIN starts = 1 .. n - 1 /\ DOMAIN starts' = 1 .. n
      /\ \A m \in 1 .. n - 1 : End(m)' = End(m) /\ m \in 1 .. n
  BY <1>1, FirstPassPlaces DEF Layout
<1>3. {o \in 1 .. n : IsConditional(ir[o])} = {o \in 1 .. n - 1 : IsConditional(ir[o])}
  BY <1>1, <1>2
<1>4. {End(m)' : m \in {o \in 1 .. n : IsConditional(ir[o])}}
        = {End(m) : m \in {o \in 1 .. n - 1 : IsConditional(ir[o])}}
  BY <1>2, <1>3
<1>5. VisitedLabels = {} /\ VisitedLabels' = {}
  BY <1>2 DEF VisitedLabels
<1>6. Range(stack_map_frames) = {End(m) : m \in {o \in 1 .. n - 1 : IsConditional(ir[o])}}
  BY <1>2, <1>5 DEF FramesKept
<1>7. Range(stack_map_frames)' = {End(m)' : m \in {o \in 1 .. n : IsConditional(ir[o])}}
  BY <1>4, <1>6 DEF Range
<1>. QED  BY <1>2, <1>5, <1>7 DEF FramesKept

(* What is left to show of an element that is neither label nor branch.     *)
LEMMA FirstPassLayout ==
  ASSUME TypeOK, LayoutInv, FirstPass, pc' = "pass1", NEW added \in Seq(Byte),
         code' = code \o added, CodeFits', NEW n, n = i, JumpAt(n)', AddiAt(n)',
         ReferencesKept', OffsetsKept', FramesKept'
  PROVE  Layout'
<1>1. InOrder'
  BY FirstPassOrder
<1>2. DOMAIN starts' = 1 .. n /\ n \in Nat
  BY FirstPassPlaces
<1>3. \A m \in 1 .. n - 1 : JumpAt(m)' /\ AddiAt(m)'
  BY FirstPassCode
<1>4. CodePlaced'
  <2>1. ASSUME NEW m \in 1 .. n PROVE JumpAt(m)' /\ AddiAt(m)'
    <3>1. m = n \/ m \in 1 .. n - 1
      BY <1>2
    <3>. QED  BY <1>3, <3>1
  <2>. QED  BY <1>2, <2>1 DEF CodePlaced
<1>5. Updated'
  BY DEF Updated
<1>. QED  BY <1>1, <1>4, <1>5 DEF Layout

(* An instruction that is neither a jump nor an ADDI.                       *)
LEMMA FirstPassOther ==
  ASSUME TypeOK, LayoutInv, FirstPass, pc' = "pass1", NEW added \in Seq(Byte),
         code' = code \o added, CodeFits', ~IsJump(ir[i]), ~IsAddi(ir[i]),
         OffsetsKept', UNCHANGED << label_references, stack_map_frames >>
  PROVE  Layout'
<1>1. PICK n : n = i
  OBVIOUS
<1>2. JumpAt(n)' /\ AddiAt(n)'
  BY <1>1 DEF JumpAt, AddiAt, FirstPass
<1>3. ReferencesKept' /\ FramesKept'
  BY FirstPassReferences, FirstPassFrames DEF IsJump
<1>. QED  BY <1>1, <1>2, <1>3, FirstPassLayout

(* A label's offset is where its empty code starts.                         *)
LEMMA WriteLabelLayout ==
  ASSUME TypeOK, LayoutInv, WriteLabel, CodeFits'
  PROVE  Layout'
<1>1. PICK n : n = i
  OBVIOUS
<1>2. /\ FirstPass /\ pc' = "pass1" /\ IsLabel(ir[i])
      /\ UNCHANGED << code, label_references, stack_map_frames >>
      /\ code_label_offsets' =
           IF NotesOffset(i)
           THEN [code_label_offsets EXCEPT ![ir[i].name] = U16(Len(code))]
           ELSE code_label_offsets
  BY DEF WriteLabel, FirstPass
<1>. DEFINE added == << >>
<1>3. added \in Seq(Byte) /\ code' = code \o added
  BY <1>2 DEF TypeOK
<1>. HIDE DEF added
<1>4. /\ OffsetsKept /\ ir' = ir /\ n \in Nat /\ ir[n] \in Elements /\ n \in 1 .. n
      /\ DOMAIN starts = 1 .. n - 1 /\ DOMAIN starts' = 1 .. n
      /\ starts'[n] = Len(code) /\ \A m \in 1 .. n - 1 : starts'[m] = starts[m] /\ m \in 1 .. n
  BY <1>1, <1>2, <1>3, FirstPassPlaces DEF Layout
<1>5. U16(Len(code)) = Len(code)
  <2>1. Len(code) \in Nat /\ Len(code) < U16Range
    BY <1>2 DEF TypeOK, CodeFits
  <2>. QED  BY <2>1, U16Fits
<1>6. OffsetsKept'
  <2>. SUFFICES ASSUME NEW label \in Labels, code_label_offsets'[label] # NoOffset
                PROVE  \E d \in 1 .. n :
                         /\ IsLabel(ir[d]) /\ ir[d].name = label
                         /\ code_label_offsets'[label] = starts'[d]
    BY <1>4 DEF OffsetsKept
  <2>1. CASE code_label_offsets'[label] = code_label_offsets[label]
    BY <1>4, <2>1 DEF OffsetsKept
  <2>2. CASE code_label_offsets'[label] # code_label_offsets[label]
    <3>1. label = ir[n].name /\ code_label_offsets'[label] = Len(code)
      BY <1>1, <1>2, <1>5, <2>2 DEF TypeOK
    <3>. QED  BY <1>1, <1>2, <1>4, <3>1
  <2>. QED  BY <2>1, <2>2
<1>7. ~IsJump(ir[i]) /\ ~IsAddi(ir[i])
  BY <1>2 DEF IsJump, IsConditional, IsAddi, IsInstruction, IsLabel
<1>. QED  BY <1>2, <1>3, <1>6, <1>7, FirstPassOther

(* An R3 instruction adds code of its own and nothing else.                 *)
LEMMA WriteR3Layout ==
  ASSUME TypeOK, LayoutInv, WriteR3, CodeFits'
  PROVE  Layout'
<1>. DEFINE added == R3Bytes(ir[i])
<1>1. /\ FirstPass /\ pc' = "pass1" /\ IsR3(ir[i]) /\ code' = code \o added
      /\ UNCHANGED << code_label_offsets, label_references, stack_map_frames >>
  BY DEF WriteR3, FirstPass
<1>2. added \in Seq(Byte)
  BY <1>1, FirstPassType, InstructionBytes
<1>3. ~IsJump(ir[i]) /\ ~IsAddi(ir[i])
  BY <1>1 DEF IsJump, IsConditional, IsAddi, IsR3
<1>. HIDE DEF added
<1>4. OffsetsKept'
  BY <1>1, <1>2, FirstPassOffsets
<1>. QED  BY <1>1, <1>2, <1>3, <1>4, FirstPassOther

(* An instruction without code leaves the method as it is.                  *)
LEMMA WriteNothingLayout ==
  ASSUME TypeOK, LayoutInv, WriteNothing, CodeFits'
  PROVE  Layout'
<1>1. /\ FirstPass /\ pc' = "pass1" /\ ~IsAddi(ir[i]) /\ ~IsJump(ir[i])
      /\ UNCHANGED << code, code_label_offsets, label_references, stack_map_frames >>
  BY DEF WriteNothing, FirstPass
<1>2. << >> \in Seq(Byte) /\ code' = code \o << >>
  BY <1>1 DEF TypeOK
<1>3. OffsetsKept'
  BY <1>1, <1>2, FirstPassOffsets
<1>. QED  BY <1>1, <1>2, <1>3, FirstPassOther

(* An ADDI's code carries the index of its immediate.                       *)
LEMMA WriteAddiLayout ==
  ASSUME TypeOK, LayoutInv, WriteAddi, CodeFits', pc' = "pass1"
  PROVE  Layout'
<1>1. PICK n : n = i
  OBVIOUS
<1>2. /\ FirstPass /\ IsAddi(ir[n]) /\ pc = "pass1"
      /\ UNCHANGED << code_label_offsets, label_references, stack_map_frames >>
  BY <1>1 DEF WriteAddi, FirstPass
<1>3. PICK imm \in IF HasImm(ir[n]) THEN {ir[n].imm} ELSE Garbage :
        imm \in Range(integers) /\ code' = code \o AddiBytes(ir[n], ConstantIndex(imm))
  BY <1>1 DEF WriteAddi
<1>. DEFINE added == AddiBytes(ir[n], ConstantIndex(imm))
<1>4. added \in Seq(Byte)
  BY <1>1, <1>2, <1>3, FirstPassType, ConstantIndexType, InstructionBytes DEF TypeOK
<1>5. code' = code \o added
  BY <1>3
<1>6. HasImm(ir[n]) => added = AddiOf(n)' /\ ir[n].imm \in Range(integers)'
  <2>1. ir' = ir /\ integers' = integers
    BY <1>2 DEF FirstPass
  <2>. QED  BY <1>3, <2>1 DEF AddiOf, ConstantIndex, Range
<1>. HIDE DEF added
<1>7. ~IsJump(ir[n])
  BY <1>2 DEF IsJump, IsConditional, IsAddi
<1>8. starts'[n] = Len(code) /\ End(n)' = Len(code') /\ ir' = ir
  BY <1>1, <1>2, <1>4, <1>5, FirstPassPlaces
<1>9. Len(code') = Len(code) + Len(added) /\ BytesAt(code', Len(code), added)
  BY <1>4, <1>5, AppendedCode
<1>10. JumpAt(n)'
  BY <1>7, <1>8 DEF JumpAt
<1>11. AddiAt(n)'
  BY <1>6, <1>8, <1>9 DEF AddiAt, CodeAt
<1>12. ReferencesKept' /\ OffsetsKept' /\ FramesKept'
  BY <1>1, <1>2, <1>4, <1>5, <1>7, FirstPassReferences, FirstPassOffsets, FirstPassFrames
  DEF IsJump
<1>. QED  BY <1>1, <1>2, <1>4, <1>5, <1>10, <1>11, <1>12, FirstPassLayout

(* A jump's code, its reference and its frame agree on where it is.         *)
LEMMA WriteJumpLayout ==
  ASSUME TypeOK, LayoutInv, WriteJump, CodeFits'
  PROVE  Layout'
<1>1. PICK n : n = i
  OBVIOUS
<1>. DEFINE prefix == JumpPrefix(ir[n])
            added == prefix \o GotoPlaceholder
            opcode == Len(code) + Len(prefix)
            label == ir[n].label
<1>2. /\ FirstPass /\ IsJump(ir[n]) /\ HasLabel(ir[n]) /\ pc = "pass1" /\ pc' = "pass1"
      /\ code' = code \o prefix \o GotoPlaceholder
      /\ label_references' =
           [label_references EXCEPT ![label] = Append(@, LabelReference(opcode))]
      /\ IF IsConditional(ir[n])
         THEN AddStackFrame(Len(code) + Len(Compare(ir[n])) + SkipLength)
         ELSE UNCHANGED stack_map_frames
      /\ UNCHANGED code_label_offsets
  BY <1>1 DEF WriteJump, FirstPass
<1>3. ir[n] \in Elements /\ label \in Labels
  BY <1>1, <1>2, FirstPassType, ElementFacts
<1>4. /\ prefix \in Seq(Byte) /\ Len(prefix) \in Nat
      /\ GotoPlaceholder \in Seq(Byte) /\ Len(GotoPlaceholder) = 5
      /\ GotoPlaceholder = << JVM_GOTO_W >> \o Bytes4(0)
      /\ << JVM_GOTO_W >> \in Seq(Byte) /\ Bytes4(0) \in Seq(Byte)
      /\ Len(code) \in Nat /\ code \in Seq(Byte)
  BY <1>3, JumpLengths DEF TypeOK
<1>5. Len(<< JVM_GOTO_W >>) = 1
  OBVIOUS
<1>6. GotoOf(n) = prefix \o << JVM_GOTO_W >>
  BY DEF GotoOf
<1>. HIDE DEF prefix
<1>7. added \in Seq(Byte) /\ code' = code \o added /\ Len(added) = Len(prefix) + Len(GotoPlaceholder)
  <2>1. added \in Seq(Byte)
    BY <1>4, ConcatType
  <2>2. Len(added) = Len(prefix) + Len(GotoPlaceholder)
    BY <1>4, ConcatBytes
  <2>3. (code \o prefix) \o GotoPlaceholder = code \o added
    BY <1>4, ConcatAssociative, SMTT(30)
  <2>. QED  BY <1>2, <2>1, <2>2, <2>3
<1>8. added = GotoOf(n) \o Bytes4(0) /\ GotoOf(n) \in Seq(Byte)
      /\ Len(GotoOf(n)) = Len(prefix) + Len(<< JVM_GOTO_W >>)
  <2>. DEFINE a == << JVM_GOTO_W >>
              b == Bytes4(0)
  <2>1. a \in Seq(Byte) /\ b \in Seq(Byte) /\ added = prefix \o (a \o b) /\ GotoOf(n) = prefix \o a
    BY <1>4, <1>6
  <2>. HIDE DEF a, b, added
  <2>2. prefix \o (a \o b) = (prefix \o a) \o b
    BY <1>4, <2>1, SMTT(30)
  <2>3. prefix \o a \in Seq(Byte) /\ Len(prefix \o a) = Len(prefix) + Len(a)
    BY <1>4, <2>1, ConcatType, ConcatBytes
  <2>. QED  BY <2>1, <2>2, <2>3 DEF a, b
<1>. HIDE DEF added
<1>9. Len(added) = Len(prefix) + 5 /\ Len(GotoOf(n)) = Len(prefix) + 1
  BY <1>4, <1>5, <1>7, <1>8
<1>10. /\ Layout /\ ir' = ir /\ n \in Nat /\ n \in 1 .. n
       /\ DOMAIN starts = 1 .. n - 1 /\ DOMAIN starts' = 1 .. n
       /\ starts'[n] = Len(code) /\ End(n)' = Len(code')
       /\ JumpOpcode(n)' = opcode
       /\ \A m \in 1 .. n - 1 : JumpOpcode(m)' = JumpOpcode(m) /\ End(m)' = End(m) /\ m \in 1 .. n
  BY <1>1, <1>2, <1>7, FirstPassPlaces, SMTT(30) DEF prefix
<1>11. Len(code') = Len(code) + Len(added) /\ BytesAt(code', Len(code), added) /\ Len(code') < U16Range
  BY <1>7, AppendedCode DEF CodeFits
<1>12. Len(code') = opcode + 5 /\ opcode \in Nat /\ opcode + 1 \in Nat
       /\ Len(code) + Len(GotoOf(n)) = opcode + 1
  BY <1>4, <1>9, <1>11
<1>13. BytesAt(code', Len(code), GotoOf(n)) /\ BytesAt(code', opcode + 1, Bytes4(0))
  <2>1. code' \in Seq(Byte)
    BY <1>4, <1>7, ConcatType
  <2>2. BytesAt(code', Len(code), GotoOf(n)) /\ BytesAt(code', Len(code) + Len(GotoOf(n)), Bytes4(0))
    BY <1>4, <1>8, <1>11, <2>1, BytesAtParts
  <2>. QED  BY <1>12, <2>2
<1>14. JumpAt(n)'
  <2>1. GotoOf(n)' = GotoOf(n)
    BY <1>10 DEF GotoOf
  <2>. QED  BY <1>2, <1>10, <1>12, <1>13, <2>1 DEF JumpAt, CodeAt
<1>15. AddiAt(n)'
  BY <1>2, <1>10 DEF AddiAt, IsAddi, IsJump, IsConditional
<1>16. OffsetsKept'
  BY <1>2, <1>7, FirstPassOffsets
<1>17. ReferencesKept'
  <2>1. LabelReference(opcode) = ReferenceTo(n)'
    <3>1. U16(opcode) = opcode /\ U16(opcode + 1) = opcode + 1
      <4>1. opcode < U16Range /\ opcode + 1 < U16Range
        BY <1>11, <1>12, U16RangeAssumption
      <4>. QED  BY <1>12, <4>1, U16Fits
    <3>. QED  BY <1>10, <3>1 DEF LabelReference, ReferenceTo
  <2>2. \A m \in 1 .. n - 1 : ReferenceTo(m)' = ReferenceTo(m)
    BY <1>10 DEF ReferenceTo
  <2>3. \A l \in Labels : label_references[l] \in Seq(Reference)
    BY DEF TypeOK
  <2>. DEFINE last == Len(label_references[label]) + 1
  <2>4. /\ label_references'[label] = Append(label_references[label], ReferenceTo(n)')
        /\ \A l \in Labels : l # label => label_references'[l] = label_references[l]
    BY <1>2, <1>3, <2>1 DEF TypeOK
  <2>5. /\ DOMAIN label_references'[label] = 1 .. last
        /\ DOMAIN label_references[label] = 1 .. last - 1
        /\ label_references'[label][last] = ReferenceTo(n)'
        /\ \A p \in 1 .. last - 1 : label_references'[label][p] = label_references[label][p]
        /\ last \in 1 .. last /\ \A p \in 1 .. last - 1 : p \in 1 .. last
        /\ \A p \in 1 .. last : p = last \/ p \in 1 .. last - 1
    <3>. DEFINE s == label_references[label]
    <3>1. s \in Seq(Reference) /\ Len(s) \in Nat
      BY <1>3, <2>3
    <3>. HIDE DEF s
    <3>2. /\ Len(Append(s, ReferenceTo(n)')) = Len(s) + 1
          /\ Append(s, ReferenceTo(n)')[Len(s) + 1] = ReferenceTo(n)'
          /\ \A p \in 1 .. Len(s) : Append(s, ReferenceTo(n)')[p] = s[p]
          /\ DOMAIN Append(s, ReferenceTo(n)') = 1 .. Len(s) + 1
          /\ DOMAIN s = 1 .. Len(s)
      BY <3>1
    <3>3. 1 .. Len(s) = 1 .. (Len(s) + 1) - 1
      BY <3>1
    <3>. QED  BY <2>4, <3>1, <3>2, <3>3 DEF s
  <2>. HIDE DEF last
  <2>6. (\A l \in Labels : \A p \in DOMAIN label_references[l] :
           \E m \in DOMAIN starts :
             /\ IsJump(ir[m]) /\ ir[m].label = l
             /\ label_references[l][p] = ReferenceTo(m))'
    <3>. SUFFICES ASSUME NEW l \in Labels, NEW p \in DOMAIN label_references'[l]
                  PROVE  \E m \in DOMAIN starts' :
                           /\ IsJump(ir'[m]) /\ ir'[m].label = l
                           /\ label_references'[l][p] = ReferenceTo(m)'
      OBVIOUS
    <3>1. CASE p \in DOMAIN label_references[l] /\ label_references'[l][p] = label_references[l][p]
      <4>1. PICK m \in DOMAIN starts : /\ IsJump(ir[m]) /\ ir[m].label = l
                                      /\ label_references[l][p] = ReferenceTo(m)
        BY <1>10, <3>1 DEF Layout, ReferencesKept
      <4>2. m \in DOMAIN starts' /\ ReferenceTo(m)' = ReferenceTo(m)
        BY <1>10, <2>2, <4>1
      <4>. QED  BY <1>10, <3>1, <4>1, <4>2
    <3>2. CASE l = label /\ p = last
      <4>1. n \in DOMAIN starts' /\ IsJump(ir'[n]) /\ ir'[n].label = l
            /\ label_references'[l][p] = ReferenceTo(n)'
        BY <1>2, <1>10, <2>5, <3>2
      <4>. QED  BY <4>1
    <3>. QED  BY <2>4, <2>5, <3>1, <3>2
  <2>7. (\A m \in DOMAIN starts : IsJump(ir[m]) =>
           \E p \in DOMAIN label_references[ir[m].label] :
             label_references[ir[m].label][p] = ReferenceTo(m))'
    <3>. SUFFICES ASSUME NEW m \in DOMAIN starts', IsJump(ir[m])
                  PROVE  \E p \in DOMAIN label_references'[ir[m].label] :
                           label_references'[ir[m].label][p] = ReferenceTo(m)'
      BY <1>10
    <3>1. CASE m = n
      BY <2>5, <3>1
    <3>2. CASE m # n
      <4>1. m \in DOMAIN starts
        BY <1>10, <3>2
      <4>2. PICK p \in DOMAIN label_references[ir[m].label] :
              label_references[ir[m].label][p] = ReferenceTo(m)
        BY <1>10, <4>1 DEF Layout, ReferencesKept
      <4>3. ir[m].label \in Labels
        <5>1. HasLabel(ir[m]) /\ ir[m] \in Elements
          BY <1>10, <4>1, PlacedTypes DEF Layout, CodePlaced, JumpAt
        <5>. QED  BY <5>1, ElementFacts
      <4>4. p \in DOMAIN label_references'[ir[m].label]
            /\ label_references'[ir[m].label][p] = label_references[ir[m].label][p]
        BY <2>4, <2>5, <4>2, <4>3
      <4>. QED  BY <1>10, <2>2, <4>1, <4>2, <4>4
    <3>. QED  BY <3>1, <3>2
  <2>. QED  BY <2>6, <2>7 DEF ReferencesKept
<1>18. FramesKept'
  <2>1. CASE ~IsConditional(ir[n])
    BY <1>1, <1>2, <1>7, <2>1, FirstPassFrames
  <2>2. CASE IsConditional(ir[n])
    <3>1. Len(code) + Len(Compare(ir[n])) + SkipLength = Len(code')
      <4>1. Len(prefix) = Len(Compare(ir[n])) + 3 /\ Len(Compare(ir[n])) \in Nat
        BY <1>3, <2>2, JumpLengths DEF prefix
      <4>. QED  BY <1>4, <1>12, <4>1 DEF SkipLength
    <3>2. U16(Len(code')) = Len(code')
      BY <1>11, <1>12, U16Fits
    <3>3. stack_map_frames' = Append(stack_map_frames, Len(code'))
      BY <1>2, <2>2, <3>1, <3>2 DEF AddStackFrame
    <3>4. Range(stack_map_frames') = Range(stack_map_frames) \cup {End(n)'}
      <4>1. stack_map_frames \in Seq(Nat) /\ Len(code') \in Nat
        BY <1>12, U16RangeAssumption DEF TypeOK
      <4>. QED  BY <1>10, <3>3, <4>1, AppendRange, SMTT(30)
    <3>5. VisitedLabels = {} /\ VisitedLabels' = {}
      BY <1>2 DEF VisitedLabels
    <3>6. Range(stack_map_frames) = {End(m) : m \in {o \in 1 .. n - 1 : IsConditional(ir[o])}}
      BY <1>10, <3>5 DEF Layout, FramesKept
    <3>7. {o \in 1 .. n : IsConditional(ir[o])}
            = {o \in 1 .. n - 1 : IsConditional(ir[o])} \cup {n}
      BY <1>10, <2>2
    <3>8. {End(m)' : m \in {o \in 1 .. n : IsConditional(ir[o])}}
            = {End(m) : m \in {o \in 1 .. n - 1 : IsConditional(ir[o])}} \cup {End(n)'}
      BY <1>10, <3>7
    <3>9. Range(stack_map_frames)' = {End(m)' : m \in {o \in 1 .. n : IsConditional(ir[o])}}
      BY <3>4, <3>6, <3>8 DEF Range
    <3>. QED  BY <1>10, <3>5, <3>9 DEF FramesKept
  <2>. QED  BY <2>1, <2>2
<1>. QED
  BY <1>1, <1>2, <1>7, <1>14, <1>15, <1>16, <1>17, <1>18, FirstPassLayout

(* The prologue belongs to no element.                                      *)
LEMMA BeginMainLayout ==
  ASSUME TypeOK, LayoutInv, BeginMain
  PROVE  Layout'
<1>1. /\ pc' = "pass1" /\ i' = 1 /\ Untouched
      /\ UNCHANGED << label_references, starts, stack_map_frames, code_label_offsets >>
  BY DEF BeginMain, LayoutInv
<1>2. Len(starts') = 0 /\ DOMAIN starts' = {}
  BY <1>1 DEF Untouched
<1>3. InOrder' /\ CodePlaced'
  BY <1>1, <1>2 DEF InOrder, CodePlaced
<1>4. ReferencesKept' /\ OffsetsKept'
  BY <1>1, <1>2 DEF ReferencesKept, OffsetsKept, Untouched
<1>5. Updated'
  BY <1>1 DEF Updated
<1>6. FramesKept'
  <2>1. Range(stack_map_frames') = {} /\ VisitedLabels' = {}
    BY <1>1 DEF Range, Untouched, VisitedLabels
  <2>. QED  BY <1>2, <2>1 DEF FramesKept, Range
<1>. QED  BY <1>3, <1>4, <1>5, <1>6 DEF Layout

(* Steps that leave the code, the references and the offsets alone.         *)
LEMMA EndFirstPassLayout ==
  ASSUME TypeOK, LayoutInv, EndFirstPass, CodeFits'
  PROVE  Layout'
<1>1. PICK n : n = Len(ir)
  OBVIOUS
<1>2. /\ pc = "pass1" /\ pc' = "pass2" /\ IsEof(ir[i]) /\ i' = 1 /\ j' = 1
      /\ starts' = Append(starts, Len(code))
      /\ UNCHANGED << ir, integers, code, code_label_offsets, label_references,
                      stack_map_frames >>
  BY DEF EndFirstPass, LayoutInv
<1>3. Layout
  BY <1>2 DEF LayoutInv, CodeFits
<1>4. /\ n \in Nat /\ n # 0 /\ Len(starts) = n - 1 /\ starts \in Seq(Nat) /\ Len(code) \in Nat
      /\ DOMAIN ir = 1 .. n /\ ir[n] \in Elements /\ IsEof(ir[n])
  BY <1>1, <1>2, <1>3 DEF TypeOK, IsProgram, Layout, InOrder
<1>5. /\ DOMAIN starts = 1 .. n - 1 /\ DOMAIN starts' = 1 .. n /\ starts'[n] = Len(code)
      /\ Len(starts') = n
      /\ \A m \in 1 .. n - 1 : starts'[m] = starts[m] /\ m \in 1 .. n
      /\ \A m \in 1 .. n : m = n \/ m \in 1 .. n - 1
  BY <1>2, <1>4
<1>6. End(n)' = Len(code)
  <2>1. n + 1 \notin 1 .. n
    BY <1>4
  <2>. QED  BY <1>2, <1>5, <2>1 DEF End
<1>7. \A m \in 1 .. n - 1 : End(m)' = End(m) /\ JumpOpcode(m)' = JumpOpcode(m)
  <2>. SUFFICES ASSUME NEW m \in 1 .. n - 1
                PROVE  End(m)' = End(m) /\ JumpOpcode(m)' = JumpOpcode(m)
    OBVIOUS
  <2>1. JumpOpcode(m)' = JumpOpcode(m)
    BY <1>2, <1>5 DEF JumpOpcode
  <2>2. CASE m = n - 1
    <3>1. m + 1 = n /\ n \in 1 .. n /\ n \notin 1 .. n - 1
      BY <1>4, <2>2
    <3>. QED  BY <1>2, <1>5, <2>1, <3>1 DEF End
  <2>3. CASE m # n - 1
    <3>1. m + 1 \in 1 .. n - 1 /\ m + 1 \in 1 .. n
      BY <1>4, <2>3
    <3>. QED  BY <1>2, <1>5, <2>1, <3>1 DEF End
  <2>. QED  BY <2>2, <2>3
<1>8. ~IsJump(ir[n]) /\ ~IsAddi(ir[n])
  BY <1>4 DEF IsJump, IsConditional, IsAddi, IsInstruction, IsEof
<1>9. InOrder'
  <2>1. \A m \in 1 .. n - 1 :
          /\ starts[m] \in Nat /\ End(m) \in Nat /\ starts[m] <= End(m) /\ End(m) <= Len(code)
          /\ \A o \in 1 .. n - 1 : m < o => End(m) <= starts[o]
    BY <1>3, <1>5, PlacedTypes DEF Layout, InOrder
  <2>2. \A m \in 1 .. n : starts'[m] <= End(m)' /\ End(m)' <= Len(code)
    <3>. SUFFICES ASSUME NEW m \in 1 .. n PROVE starts'[m] <= End(m)' /\ End(m)' <= Len(code)
      OBVIOUS
    <3>1. CASE m = n
      BY <1>4, <1>5, <1>6, <3>1
    <3>2. CASE m \in 1 .. n - 1
      BY <1>5, <1>7, <2>1, <3>2
    <3>. QED  BY <1>5, <3>1, <3>2
  <2>3. \A m, o \in 1 .. n : m < o => End(m)' <= starts'[o]
    <3>. SUFFICES ASSUME NEW m \in 1 .. n, NEW o \in 1 .. n, m < o PROVE End(m)' <= starts'[o]
      OBVIOUS
    <3>1. m \in 1 .. n - 1
      BY <1>4
    <3>2. CASE o = n
      BY <1>5, <1>7, <2>1, <3>1, <3>2
    <3>3. CASE o \in 1 .. n - 1
      BY <1>5, <1>7, <2>1, <3>1, <3>3
    <3>. QED  BY <1>5, <3>2, <3>3
  <2>4. Len(starts') = Len(ir')
    BY <1>1, <1>2, <1>5
  <2>. QED  BY <1>2, <1>5, <2>2, <2>3, <2>4 DEF InOrder
<1>10. CodePlaced'
  <2>. SUFFICES ASSUME NEW m \in 1 .. n PROVE JumpAt(m)' /\ AddiAt(m)'
    BY <1>5 DEF CodePlaced
  <2>1. CASE m = n
    BY <1>2, <1>8, <2>1 DEF JumpAt, AddiAt
  <2>2. CASE m \in 1 .. n - 1
    <3>1. JumpAt(m) /\ AddiAt(m) /\ starts'[m] = starts[m] /\ End(m)' = End(m)
          /\ JumpOpcode(m)' = JumpOpcode(m)
      BY <1>3, <1>5, <1>7, <2>2 DEF Layout, CodePlaced
    <3>2. AddiOf(m)' = AddiOf(m) /\ Range(integers)' = Range(integers) /\ GotoOf(m)' = GotoOf(m)
      BY <1>2 DEF AddiOf, ConstantIndex, Range, GotoOf
    <3>3. JumpAt(m)'
      BY <1>2, <3>1, <3>2 DEF JumpAt, CodeAt
    <3>4. AddiAt(m)'
      BY <1>2, <3>1, <3>2 DEF AddiAt, CodeAt
    <3>. QED  BY <3>3, <3>4
  <2>. QED  BY <1>5, <2>1, <2>2
<1>11. \A m \in 1 .. n - 1 : ReferenceTo(m)' = ReferenceTo(m)
  BY <1>7 DEF ReferenceTo
<1>12. ReferencesKept'
  <2>1. (\A l \in Labels : \A p \in DOMAIN label_references[l] :
           \E m \in DOMAIN starts :
             /\ IsJump(ir[m]) /\ ir[m].label = l
             /\ label_references[l][p] = ReferenceTo(m))'
    <3>. SUFFICES ASSUME NEW l \in Labels, NEW p \in DOMAIN label_references'[l]
                  PROVE  \E m \in DOMAIN starts' :
                           /\ IsJump(ir'[m]) /\ ir'[m].label = l
                           /\ label_references'[l][p] = ReferenceTo(m)'
      OBVIOUS
    <3>1. PICK m \in DOMAIN starts : /\ IsJump(ir[m]) /\ ir[m].label = l
                                    /\ label_references[l][p] = ReferenceTo(m)
      BY <1>2, <1>3 DEF Layout, ReferencesKept
    <3>2. m \in DOMAIN starts' /\ ReferenceTo(m)' = ReferenceTo(m)
      BY <1>5, <1>11, <3>1
    <3>. QED  BY <1>2, <3>1, <3>2
  <2>2. (\A m \in DOMAIN starts : IsJump(ir[m]) =>
           \E p \in DOMAIN label_references[ir[m].label] :
             label_references[ir[m].label][p] = ReferenceTo(m))'
    <3>. SUFFICES ASSUME NEW m \in DOMAIN starts', IsJump(ir[m])
                  PROVE  \E p \in DOMAIN label_references[ir[m].label] :
                           label_references[ir[m].label][p] = ReferenceTo(m)'
      BY <1>2
    <3>1. m \in 1 .. n - 1
      BY <1>5, <1>8
    <3>. QED  BY <1>3, <1>5, <1>11, <3>1 DEF Layout, ReferencesKept
  <2>. QED  BY <2>1, <2>2 DEF ReferencesKept
<1>13. OffsetsKept'
  BY <1>2, <1>3, <1>5 DEF Layout, OffsetsKept
<1>14. \A d \in DOMAIN ir : \A p \in DOMAIN label_references[ir[d].name] :
         IsLabel(ir[d]) => ~Visited(d, p)'
  <2>. SUFFICES ASSUME NEW d \in DOMAIN ir, IsLabel(ir[d]),
                       NEW p \in DOMAIN label_references[ir[d].name]
                PROVE  ~Visited(d, p)'
    OBVIOUS
  <2>1. ir[d].name \in Labels
    BY NextElementExists, ElementFacts DEF TypeOK
  <2>2. d \in 1 .. n /\ p \in Nat /\ p >= 1
    BY <1>4, <2>1 DEF TypeOK
  <2>. QED  BY <1>2, <1>4, <2>2 DEF Visited
<1>15. Updated' /\ VisitedLabels' = {}
  BY <1>2, <1>14 DEF Updated, VisitedLabels
<1>16. FramesKept'
  <2>1. VisitedLabels = {}
    BY <1>2 DEF VisitedLabels
  <2>2. {o \in 1 .. n : IsConditional(ir[o])} = {o \in 1 .. n - 1 : IsConditional(ir[o])}
    BY <1>5, <1>8 DEF IsJump
  <2>3. {End(m)' : m \in {o \in 1 .. n : IsConditional(ir[o])}}
          = {End(m) : m \in {o \in 1 .. n - 1 : IsConditional(ir[o])}}
    BY <1>7, <2>2
  <2>4. Range(stack_map_frames) = {End(m) : m \in {o \in 1 .. n - 1 : IsConditional(ir[o])}}
    BY <1>3, <1>5, <2>1 DEF Layout, FramesKept
  <2>5. Range(stack_map_frames)' = {End(m)' : m \in {o \in 1 .. n : IsConditional(ir[o])}}
    BY <1>2, <2>3, <2>4 DEF Range
  <2>. QED  BY <1>2, <1>5, <1>15, <2>5 DEF FramesKept
<1>. QED  BY <1>9, <1>10, <1>12, <1>13, <1>15, <1>16 DEF Layout

(* The references to a label that the second pass has been through after a  *)
(* step: those before it and, after one is updated, that one.               *)
LEMMA NextElementLayout ==
  ASSUME TypeOK, LayoutInv, NextElement, CodeFits'
  PROVE  Layout'
<1>1. /\ pc = "pass2" /\ pc' = "pass2" /\ ~ReferencesLeft /\ i' = i + 1 /\ j' = 1
      /\ UNCHANGED << ir, integers, code, code_label_offsets, label_references,
                      stack_map_frames, starts >>
  BY DEF NextElement, Increment
<1>2. Layout
  BY <1>1 DEF LayoutInv, CodeFits
<1>3. \A d \in DOMAIN ir : IsLabel(ir[d]) =>
        \A p \in DOMAIN label_references[ir[d].name] : Visited(d, p)' <=> Visited(d, p)
  <2>. SUFFICES ASSUME NEW d \in DOMAIN ir, IsLabel(ir[d]),
                       NEW p \in DOMAIN label_references[ir[d].name]
                PROVE  Visited(d, p)' <=> Visited(d, p)
    OBVIOUS
  <2>1. ir[d].name \in Labels /\ d \in Nat /\ i \in Nat /\ j \in Nat
    BY NextElementExists, ElementFacts DEF TypeOK, IsProgram
  <2>2. p \in Nat /\ p >= 1 /\ p <= Len(label_references[ir[d].name])
        /\ Len(label_references[ir[d].name]) \in Nat
    BY <2>1 DEF TypeOK
  <2>3. d = i => p < j
    BY <1>1, <2>1, <2>2 DEF ReferencesLeft
  <2>. QED  BY <1>1, <2>1, <2>2, <2>3 DEF Visited
<1>4. InOrder'
  BY <1>1, <1>2 DEF Layout, InOrder, End
<1>5. CodePlaced'
  <2>1. \A m \in DOMAIN starts :
          /\ End(m)' = End(m) /\ JumpOpcode(m)' = JumpOpcode(m) /\ AddiOf(m)' = AddiOf(m)
          /\ GotoOf(m)' = GotoOf(m) /\ BranchOffset(m)' = BranchOffset(m)
    BY <1>1 DEF End, JumpOpcode, AddiOf, ConstantIndex, GotoOf, BranchOffset
  <2>. QED  BY <1>1, <1>2, <2>1 DEF Layout, CodePlaced, JumpAt, AddiAt, CodeAt, Range
<1>6. ReferencesKept'
  BY <1>1, <1>2, SMTT(30) DEF Layout, ReferencesKept, ReferenceTo, JumpOpcode
<1>7. OffsetsKept'
  BY <1>1, <1>2 DEF Layout, OffsetsKept
<1>8. Updated'
  <2>1. \A label, reference : UpdatedAt(label, reference)' <=> UpdatedAt(label, reference)
    BY <1>1 DEF UpdatedAt, CodeAt
  <2>. QED  BY <1>1, <1>2, <1>3, <2>1 DEF Layout, Updated
<1>9. FramesKept'
  <2>1. VisitedLabels' = VisitedLabels
    BY <1>1, <1>3 DEF VisitedLabels
  <2>2. \A m \in DOMAIN starts : End(m)' = End(m)
    BY <1>1 DEF End
  <2>3. {End(m)' : m \in {o \in DOMAIN starts : IsConditional(ir[o])}}
          = {End(m) : m \in {o \in DOMAIN starts : IsConditional(ir[o])}}
    BY <2>2
  <2>4. {code_label_offsets'[ir'[d].name] : d \in VisitedLabels'}
          = {code_label_offsets[ir[d].name] : d \in VisitedLabels}
    BY <1>1, <2>1
  <2>5. Range(stack_map_frames)' = Range(stack_map_frames)
    BY <1>1 DEF Range
  <2>6. FramesKept
    BY <1>2 DEF Layout
  <2>. QED  BY <1>1, <2>3, <2>4, <2>5, <2>6 DEF FramesKept
<1>. QED  BY <1>4, <1>5, <1>6, <1>7, <1>8, <1>9 DEF Layout

(* The return instruction comes after everything else.                      *)
LEMMA EndMainLayout ==
  ASSUME TypeOK, LayoutInv, EndMain, CodeFits'
  PROVE  Layout'
<1>. DEFINE added == << JVM_RETURN >>
<1>1. /\ pc = "pass2" /\ pc' = "done" /\ code' = code \o added /\ added \in Seq(Byte)
      /\ UNCHANGED << ir, i, j, integers, code_label_offsets, label_references,
                      stack_map_frames, starts >>
  <2>1. JVM_RETURN \in Byte /\ code \in Seq(Byte)
    BY DEF TypeOK, JVM_RETURN, Byte
  <2>2. added \in Seq(Byte) /\ Append(code, JVM_RETURN) = code \o added
    BY <2>1
  <2>. QED  BY <2>2 DEF EndMain
<1>. HIDE DEF added
<1>2. /\ Len(code) \in Nat /\ Len(code') = Len(code) + Len(added) /\ Len(added) \in Nat
      /\ CodeFits
      /\ \A place \in Nat, bytes \in Seq(Byte) :
           BytesAt(code, place, bytes) => BytesAt(code', place, bytes)
  BY <1>1, AppendedCode
<1>3. Layout
  BY <1>1, <1>2 DEF LayoutInv
<1>4. Len(starts) = Len(ir) /\ DOMAIN starts = 1 .. Len(ir) /\ Len(ir) \in Nat /\ starts \in Seq(Nat)
  BY <1>1, <1>3 DEF Layout, InOrder, TypeOK, IsProgram
<1>5. \A m \in DOMAIN starts :
        /\ m # Len(ir) => End(m)' = End(m)
        /\ m = Len(ir) => End(m)' = Len(code') /\ End(m) = Len(code)
        /\ JumpOpcode(m)' = JumpOpcode(m)
  BY <1>1, <1>4 DEF End, JumpOpcode
<1>6. InOrder'
  <2>1. \A m \in DOMAIN starts :
          /\ m \in Nat /\ starts[m] \in Nat /\ End(m) \in Nat /\ starts[m] <= End(m) /\ End(m) <= Len(code)
          /\ \A o \in DOMAIN starts : m < o => End(m) <= starts[o]
    BY <1>3, PlacedTypes DEF Layout, InOrder
  <2>2. \A m \in DOMAIN starts : starts[m] <= End(m)' /\ End(m)' <= Len(code')
    BY <1>2, <1>5, <2>1
  <2>3. \A m, o \in DOMAIN starts : m < o => End(m)' <= starts[o]
    BY <1>4, <1>5, <2>1
  <2>. QED  BY <1>1, <1>4, <2>2, <2>3 DEF InOrder
<1>7. CodePlaced'
  <2>. SUFFICES ASSUME NEW m \in DOMAIN starts PROVE JumpAt(m)' /\ AddiAt(m)'
    BY <1>1 DEF CodePlaced
  <2>1. /\ JumpAt(m) /\ AddiAt(m) /\ ir[m] \in Elements /\ starts[m] \in Nat /\ JumpOpcode(m) \in Nat
        /\ JumpOpcode(m)' = JumpOpcode(m)
    BY <1>3, <1>5, PlacedTypes DEF Layout, CodePlaced
  <2>2. IsJump(ir[m]) \/ IsAddi(ir[m]) => End(m)' = End(m)
    <3>1. m = Len(ir) => IsEof(ir[m])
      BY <1>4 DEF TypeOK, IsProgram
    <3>. QED  BY <1>5, <3>1 DEF IsJump, IsConditional, IsAddi, IsInstruction, IsEof
  <2>3. JumpAt(m)'
    <3>. SUFFICES ASSUME IsJump(ir[m])
                  PROVE  /\ HasLabel(ir[m]) /\ End(m)' = JumpOpcode(m)' + 5
                         /\ BytesAt(code', starts[m], GotoOf(m))
                         /\ \/ BytesAt(code', JumpOpcode(m) + 1, Bytes4(0))
                            \/ BytesAt(code', JumpOpcode(m) + 1, BranchOffset(m))
      BY <1>1, <2>1 DEF JumpAt, CodeAt, GotoOf, BranchOffset
    <3>1. GotoOf(m) \in Seq(Byte) /\ Bytes4(0) \in Seq(Byte)
      BY <2>1, JumpLengths, ConcatType DEF GotoOf
    <3>2. BranchOffset(m) \in Seq(Byte)
      <4>1. ir[m].label \in Labels
        BY <2>1, ElementFacts DEF JumpAt
      <4>2. code_label_offsets[ir[m].label] \in Int
        BY <4>1, OffsetType
      <4>3. code_label_offsets[ir[m].label] - JumpOpcode(m) \in Int
        BY <2>1, <4>2
      <4>. QED  BY <4>3, BytesAreBytes DEF BranchOffset
    <3>3. JumpOpcode(m) + 1 \in Nat
      BY <2>1
    <3>. QED  BY <1>2, <2>1, <2>2, <3>1, <3>2, <3>3 DEF JumpAt, CodeAt
  <2>4. AddiAt(m)'
    <3>. SUFFICES ASSUME IsAddi(ir[m]), HasImm(ir[m])
                  PROVE  /\ ir[m].imm \in Range(integers)'
                         /\ End(m)' = starts[m] + Len(AddiOf(m)')
                         /\ BytesAt(code', starts[m], AddiOf(m)')
      BY <1>1 DEF AddiAt, CodeAt
    <3>1. AddiOf(m)' = AddiOf(m) /\ Range(integers)' = Range(integers)
      BY <1>1 DEF AddiOf, ConstantIndex, Range
    <3>2. AddiOf(m) \in Seq(Byte)
      BY <2>1, ConstantIndexType, InstructionBytes DEF AddiOf, AddiAt, TypeOK
    <3>. QED  BY <1>2, <2>1, <2>2, <3>1, <3>2 DEF AddiAt, CodeAt
  <2>. QED  BY <2>3, <2>4
<1>8. ReferencesKept'
  BY <1>1, <1>3 DEF Layout, ReferencesKept, ReferenceTo, JumpOpcode
<1>9. OffsetsKept'
  BY <1>1, <1>3 DEF Layout, OffsetsKept
<1>10. \A d, p : Visited(d, p)' <=> Visited(d, p)
  BY <1>1 DEF Visited
<1>11. Updated'
  <2>. SUFFICES ASSUME NEW d \in DOMAIN ir, IsLabel(ir[d]),
                       NEW p \in DOMAIN label_references[ir[d].name], Visited(d, p)
                PROVE  UpdatedAt(ir[d].name, label_references[ir[d].name][p])'
    BY <1>1, <1>10 DEF Updated
  <2>. DEFINE label == ir[d].name
              reference == label_references[label][p]
  <2>1. UpdatedAt(label, reference)
    BY <1>1, <1>3 DEF Layout, Updated
  <2>2. reference.branch_offset \in Nat
        /\ code_label_offsets[label] - reference.opcode_offset \in Int
    <3>1. label \in Labels
      BY NextElementExists, ElementFacts DEF TypeOK
    <3>2. reference \in Reference /\ code_label_offsets[label] \in Int
      BY <3>1, OffsetType DEF TypeOK
    <3>. QED  BY <3>2, U16RangeAssumption DEF Reference
  <2>3. Bytes4(code_label_offsets[label] - reference.opcode_offset) \in Seq(Byte)
    BY <2>2, BytesAreBytes
  <2>. QED  BY <1>1, <1>2, <2>1, <2>2, <2>3 DEF UpdatedAt, CodeAt
<1>12. FramesKept'
  <2>1. VisitedLabels' = VisitedLabels
    BY <1>1, <1>10 DEF VisitedLabels
  <2>2. \A m \in DOMAIN starts : IsConditional(ir[m]) => End(m)' = End(m)
    <3>1. Len(ir) \in DOMAIN ir
      BY <1>4 DEF TypeOK
    <3>2. IsEof(ir[Len(ir)])
      BY <3>1 DEF TypeOK, IsProgram
    <3>. QED  BY <1>5, <3>2 DEF IsConditional, IsInstruction, IsEof
  <2>3. {End(m)' : m \in {o \in DOMAIN starts : IsConditional(ir[o])}}
          = {End(m) : m \in {o \in DOMAIN starts : IsConditional(ir[o])}}
    BY <2>2
  <2>4. {code_label_offsets'[ir'[d].name] : d \in VisitedLabels'}
          = {code_label_offsets[ir[d].name] : d \in VisitedLabels}
    BY <1>1, <2>1
  <2>5. Range(stack_map_frames)' = Range(stack_map_frames)
    BY <1>1 DEF Range
  <2>6. FramesKept
    BY <1>3 DEF Layout
  <2>. QED  BY <1>1, <2>3, <2>4, <2>5, <2>6 DEF FramesKept
<1>. QED  BY <1>6, <1>7, <1>8, <1>9, <1>11, <1>12 DEF Layout

(* Updating a reference writes over the four bytes after the goto_w of one  *)
(* jump, which lie apart from everything else that is placed.               *)
LEMMA UpdatedReference ==
  ASSUME TypeOK, LayoutInv, UpdateLabelReference, CodeFits'
  PROVE  \E m \in DOMAIN starts :
           /\ Layout /\ pc = "pass2" /\ pc' = "pass2"
           /\ IsLabel(ir[i]) /\ ir[i].name \in Labels /\ i \in DOMAIN ir
           /\ j \in DOMAIN label_references[ir[i].name]
           /\ IsJump(ir[m]) /\ ir[m].label = ir[i].name
           /\ label_references[ir[i].name][j] = ReferenceTo(m)
           /\ code_label_offsets[ir[i].name] # NoOffset
           /\ code' \in Seq(Byte) /\ Len(code') = Len(code)
           /\ BytesAt(code', JumpOpcode(m) + 1, BranchOffset(m))
           /\ \A place \in Nat, bytes \in Seq(Byte) :
                /\ BytesAt(code, place, bytes)
                /\ place + Len(bytes) <= JumpOpcode(m) + 1 \/ End(m) <= place
                => BytesAt(code', place, bytes)
           /\ \A n \in DOMAIN code :
                n \notin JumpOpcode(m) + 2 .. JumpOpcode(m) + 5 => code'[n] = code[n]
<1>. DEFINE label == ir[i].name
            reference == label_references[label][j]
            value == code_label_offsets[label] - reference.opcode_offset
<1>1. /\ pc = "pass2" /\ pc' = "pass2" /\ IsLabel(ir[i]) /\ i \in DOMAIN ir /\ ir[i] \in Elements
      /\ code_label_offsets[label] # NoOffset
      /\ code' = Overwrite(code, reference.branch_offset, Bytes4(value))
      /\ j <= Len(label_references[label])
  BY NextElementExists DEF UpdateLabelReference, ReferencesLeft, TypeOK
<1>2. label \in Labels /\ j \in DOMAIN label_references[label]
  <2>1. label \in Labels
    BY <1>1, ElementFacts
  <2>. QED  BY <1>1, <2>1 DEF TypeOK
<1>3. code \in Seq(Byte) /\ Len(code) \in Nat /\ Len(code') = Len(code) /\ code' \in Seq(Byte)
  <2>1. reference \in Reference /\ code_label_offsets[label] \in Int
    BY <1>2, OffsetType DEF TypeOK
  <2>2. reference.branch_offset \in Int /\ reference.opcode_offset \in Int
    BY <2>1, U16RangeAssumption DEF Reference
  <2>3. value \in Int
    BY <2>1, <2>2
  <2>. HIDE DEF value, reference
  <2>4. Bytes4(value) \in Seq(Byte) /\ code \in Seq(Byte)
    BY <2>3, BytesAreBytes DEF TypeOK
  <2>. QED  BY <1>1, <2>2, <2>4, OverwriteType
<1>4. Layout
  BY <1>1, <1>3 DEF LayoutInv, CodeFits
<1>5. PICK m \in DOMAIN starts : /\ IsJump(ir[m]) /\ ir[m].label = label
                                /\ reference = ReferenceTo(m)
  BY <1>2, <1>4 DEF Layout, ReferencesKept
<1>6. JumpOpcode(m) \in Nat /\ End(m) = JumpOpcode(m) + 5 /\ End(m) <= Len(code)
  BY <1>4, <1>5, PlacedTypes DEF Layout, InOrder, CodePlaced, JumpAt
<1>. DEFINE place_of == JumpOpcode(m) + 1
<1>7. /\ reference.branch_offset = place_of /\ place_of \in Nat /\ place_of + 4 <= Len(code)
      /\ place_of + 4 = End(m)
      /\ value = code_label_offsets[ir[m].label] - JumpOpcode(m)
      /\ value \in Int
  <2>1. code_label_offsets[label] \in Int
    BY <1>2, OffsetType
  <2>. QED  BY <1>5, <1>6, <2>1 DEF ReferenceTo
<1>8. Bytes4(value) = BranchOffset(m)
  BY <1>7 DEF BranchOffset
<1>9. code' = Overwrite(code, place_of, Bytes4(value))
  BY <1>1, <1>7
<1>. HIDE DEF value, place_of
<1>10. /\ BytesAt(code', place_of, Bytes4(value))
       /\ \A place \in Nat, bytes \in Seq(Byte) :
            /\ BytesAt(code, place, bytes)
            /\ place + Len(bytes) <= place_of \/ place_of + 4 <= place
            => BytesAt(code', place, bytes)
  BY <1>3, <1>7, <1>9, BytesAtOverwrite
<1>11. \A n \in 1 .. Len(code) : n \notin place_of + 1 .. place_of + 4 => code'[n] = code[n]
  <2>1. \A n \in 1 .. Len(code) :
          n \notin place_of + 1 .. place_of + 4 => Overwrite(code, place_of, Bytes4(value))[n] = code[n]
    BY <1>3, <1>7, OverwriteElsewhere
  <2>. QED  BY <1>9, <2>1
<1>12. place_of + 1 = JumpOpcode(m) + 2 /\ place_of + 4 = JumpOpcode(m) + 5 /\ DOMAIN code = 1 .. Len(code)
  BY <1>3, <1>6 DEF place_of
<1>13. /\ BytesAt(code', JumpOpcode(m) + 1, BranchOffset(m))
       /\ \A place \in Nat, bytes \in Seq(Byte) :
            /\ BytesAt(code, place, bytes)
            /\ place + Len(bytes) <= JumpOpcode(m) + 1 \/ End(m) <= place
            => BytesAt(code', place, bytes)
       /\ \A n \in DOMAIN code :
            n \notin JumpOpcode(m) + 2 .. JumpOpcode(m) + 5 => code'[n] = code[n]
  BY <1>7, <1>8, <1>10, <1>11, <1>12 DEF place_of
<1>. QED  BY <1>1, <1>2, <1>3, <1>4, <1>5, <1>13

(* The code of two elements does not overlap.                               *)
LEMMA Apart ==
  ASSUME TypeOK, Layout, NEW m \in DOMAIN starts, NEW n \in DOMAIN starts, m # n
  PROVE  /\ End(n) <= starts[m] \/ End(m) <= starts[n]
         /\ starts[m] <= JumpOpcode(m) /\ starts[n] <= JumpOpcode(n)
         /\ starts[m] \in Nat /\ starts[n] \in Nat /\ End(m) \in Nat /\ End(n) \in Nat
         /\ JumpOpcode(m) \in Nat /\ JumpOpcode(n) \in Nat
<1>1. m \in Nat /\ n \in Nat
  BY PlacedTypes DEF Layout
<1>2. m < n \/ n < m
  BY <1>1
<1>. QED  BY <1>2, PlacedTypes DEF Layout, InOrder

(* What is placed for a jump, and for an ADDI, and how long it is.          *)
LEMMA PlacedBytes ==
  ASSUME TypeOK, Layout, NEW n \in DOMAIN starts
  PROVE  /\ IsJump(ir[n]) =>
              /\ GotoOf(n) \in Seq(Byte) /\ starts[n] + Len(GotoOf(n)) = JumpOpcode(n) + 1
              /\ Bytes4(0) \in Seq(Byte) /\ Len(Bytes4(0)) = 4
              /\ ir[n].label \in Labels
              /\ BranchOffset(n) \in Seq(Byte) /\ Len(BranchOffset(n)) = 4
              /\ End(n) = JumpOpcode(n) + 5
         /\ IsAddi(ir[n]) /\ HasImm(ir[n]) =>
              /\ AddiOf(n) \in Seq(Byte) /\ starts[n] + Len(AddiOf(n)) = End(n)
              /\ ~IsJump(ir[n])
<1>1. /\ JumpAt(n) /\ AddiAt(n) /\ ir[n] \in Elements /\ starts[n] \in Nat /\ JumpOpcode(n) \in Nat
      /\ n \in DOMAIN ir
  BY PlacedTypes DEF Layout, CodePlaced
<1>2. ASSUME IsJump(ir[n])
      PROVE  /\ GotoOf(n) \in Seq(Byte) /\ starts[n] + Len(GotoOf(n)) = JumpOpcode(n) + 1
             /\ Bytes4(0) \in Seq(Byte) /\ Len(Bytes4(0)) = 4
             /\ ir[n].label \in Labels
             /\ BranchOffset(n) \in Seq(Byte) /\ Len(BranchOffset(n)) = 4
             /\ End(n) = JumpOpcode(n) + 5
  <2>1. GotoOf(n) \in Seq(Byte) /\ starts[n] + Len(GotoOf(n)) = JumpOpcode(n) + 1
    <3>. DEFINE a == JumpPrefix(ir[n])
                b == << JVM_GOTO_W >>
    <3>1. a \in Seq(Byte) /\ b \in Seq(Byte) /\ Len(a) \in Nat
      BY <1>1, JumpLengths
    <3>2. Len(b) = 1 /\ GotoOf(n) = a \o b
      BY DEF GotoOf
    <3>3. JumpOpcode(n) = starts[n] + Len(a)
      BY DEF JumpOpcode
    <3>. HIDE DEF a, b
    <3>4. a \o b \in Seq(Byte) /\ Len(a \o b) = Len(a) + Len(b)
      BY <3>1, ConcatType, ConcatBytes
    <3>. QED  BY <1>1, <3>1, <3>2, <3>3, <3>4
  <2>2. ir[n].label \in Labels
    BY <1>1, <1>2, ElementFacts DEF JumpAt
  <2>3. code_label_offsets[ir[n].label] - JumpOpcode(n) \in Int
    BY <1>1, <2>2, OffsetType
  <2>4. BranchOffset(n) \in Seq(Byte) /\ Bytes4(0) \in Seq(Byte)
    <3>1. \A value \in Int : Bytes4(value) \in Seq(Byte)
      BY BytesAreBytes
    <3>. QED  BY <2>3, <3>1 DEF BranchOffset
  <2>5. Len(BranchOffset(n)) = 4 /\ Len(Bytes4(0)) = 4
    BY DEF BranchOffset, Bytes4
  <2>. QED  BY <1>1, <1>2, <2>1, <2>2, <2>4, <2>5 DEF JumpAt
<1>3. ASSUME IsAddi(ir[n]), HasImm(ir[n])
      PROVE  /\ AddiOf(n) \in Seq(Byte) /\ starts[n] + Len(AddiOf(n)) = End(n)
             /\ ~IsJump(ir[n])
  <2>1. AddiOf(n) \in Seq(Byte)
    BY <1>1, <1>3, ConstantIndexType, InstructionBytes DEF AddiOf, AddiAt, TypeOK
  <2>. QED  BY <1>1, <1>3, <2>1 DEF AddiAt, IsAddi, IsJump, IsConditional
<1>. QED  BY <1>2, <1>3

(* A resolved jump carries the distance to its label; the rest is as it was.*)
LEMMA UpdateLabelLayout ==
  ASSUME TypeOK, LayoutInv, UpdateLabelReference, CodeFits'
  PROVE  Layout'
<1>1. PICK m \in DOMAIN starts :
           /\ Layout /\ pc = "pass2" /\ pc' = "pass2"
           /\ IsLabel(ir[i]) /\ ir[i].name \in Labels /\ i \in DOMAIN ir
           /\ j \in DOMAIN label_references[ir[i].name]
           /\ IsJump(ir[m]) /\ ir[m].label = ir[i].name
           /\ label_references[ir[i].name][j] = ReferenceTo(m)
           /\ code_label_offsets[ir[i].name] # NoOffset
           /\ code' \in Seq(Byte) /\ Len(code') = Len(code)
           /\ BytesAt(code', JumpOpcode(m) + 1, BranchOffset(m))
           /\ \A place \in Nat, bytes \in Seq(Byte) :
                /\ BytesAt(code, place, bytes)
                /\ place + Len(bytes) <= JumpOpcode(m) + 1 \/ End(m) <= place
                => BytesAt(code', place, bytes)
           /\ \A n \in DOMAIN code :
                n \notin JumpOpcode(m) + 2 .. JumpOpcode(m) + 5 => code'[n] = code[n]
  BY UpdatedReference
<1>2. /\ UNCHANGED << ir, pc, i, integers, code_label_offsets, label_references, starts >>
      /\ j' = j + 1 /\ AddStackFrame(code_label_offsets[ir[i].name])
  BY <1>1 DEF UpdateLabelReference
<1>3. \A n : End(n)' = End(n) /\ JumpOpcode(n)' = JumpOpcode(n)
  BY <1>1, <1>2 DEF End, JumpOpcode
<1>4. InOrder'
  BY <1>1, <1>2, <1>3 DEF Layout, InOrder
<1>5. CodePlaced'
  <2>. SUFFICES ASSUME NEW n \in DOMAIN starts PROVE JumpAt(n)' /\ AddiAt(n)'
    BY <1>2 DEF CodePlaced
  <2>1. JumpAt(n) /\ AddiAt(n) /\ starts[n] \in Nat /\ JumpOpcode(n) \in Nat
    BY <1>1, PlacedTypes DEF Layout, CodePlaced
  <2>2. JumpAt(n)'
    <3>. SUFFICES ASSUME IsJump(ir[n])
                  PROVE  /\ BytesAt(code', starts[n], GotoOf(n))
                         /\ \/ BytesAt(code', JumpOpcode(n) + 1, Bytes4(0))
                            \/ BytesAt(code', JumpOpcode(n) + 1, BranchOffset(n))
      BY <1>1, <1>2, <1>3, <2>1 DEF JumpAt, CodeAt, GotoOf, BranchOffset
    <3>1. /\ GotoOf(n) \in Seq(Byte) /\ starts[n] + Len(GotoOf(n)) = JumpOpcode(n) + 1
          /\ Bytes4(0) \in Seq(Byte) /\ Len(Bytes4(0)) = 4
          /\ BranchOffset(n) \in Seq(Byte) /\ Len(BranchOffset(n)) = 4
          /\ End(n) = JumpOpcode(n) + 5 /\ JumpOpcode(n) + 1 \in Nat
      BY <1>1, <2>1, PlacedBytes
    <3>2. /\ BytesAt(code, starts[n], GotoOf(n))
          /\ \/ BytesAt(code, JumpOpcode(n) + 1, Bytes4(0))
             \/ BytesAt(code, JumpOpcode(n) + 1, BranchOffset(n))
      BY <2>1 DEF JumpAt, CodeAt
    <3>3. CASE n = m
      BY <1>1, <2>1, <3>1, <3>2, <3>3
    <3>4. CASE n # m
      <4>1. End(n) <= JumpOpcode(m) + 1 \/ End(m) <= starts[n]
        BY <1>1, <3>4, Apart
      <4>2. starts[n] <= JumpOpcode(n) + 1
        BY <1>1, <3>4, Apart
      <4>3. End(m) \in Nat /\ JumpOpcode(m) \in Nat
        BY <1>1, <3>4, Apart
      <4>4. BytesAt(code', starts[n], GotoOf(n))
        BY <1>1, <2>1, <3>1, <3>2, <4>1, <4>3
      <4>5. \A bytes \in Seq(Byte) :
              BytesAt(code, JumpOpcode(n) + 1, bytes) /\ Len(bytes) = 4
              => BytesAt(code', JumpOpcode(n) + 1, bytes)
        <5>. SUFFICES ASSUME NEW bytes \in Seq(Byte), Len(bytes) = 4,
                             BytesAt(code, JumpOpcode(n) + 1, bytes)
                      PROVE  BytesAt(code', JumpOpcode(n) + 1, bytes)
          OBVIOUS
        <5>. DEFINE place == JumpOpcode(n) + 1
        <5>1. place \in Nat /\ place + 4 = End(n) /\ starts[n] <= place
          BY <2>1, <3>1, <4>2
        <5>. HIDE DEF place
        <5>2. place + Len(bytes) <= JumpOpcode(m) + 1 \/ End(m) <= place
          BY <2>1, <4>1, <4>3, <5>1
        <5>3. BytesAt(code', place, bytes)
          <6>1. BytesAt(code, place, bytes)
            BY DEF place
          <6>. QED  BY <1>1, <5>1, <5>2, <6>1
        <5>. QED  BY <5>3 DEF place
      <4>. QED  BY <3>1, <3>2, <4>4, <4>5
    <3>. QED  BY <3>3, <3>4
  <2>3. AddiAt(n)'
    <3>. SUFFICES ASSUME IsAddi(ir[n]), HasImm(ir[n])
                  PROVE  BytesAt(code', starts[n], AddiOf(n))
      <4>1. AddiOf(n)' = AddiOf(n) /\ Range(integers)' = Range(integers)
        BY <1>2 DEF AddiOf, ConstantIndex, Range
      <4>. QED  BY <1>2, <1>3, <2>1, <4>1 DEF AddiAt, CodeAt
    <3>1. AddiOf(n) \in Seq(Byte) /\ starts[n] + Len(AddiOf(n)) = End(n) /\ n # m
      BY <1>1, PlacedBytes
    <3>2. End(n) <= starts[m] \/ End(m) <= starts[n]
      BY <1>1, <3>1, Apart
    <3>3. starts[m] <= JumpOpcode(m) /\ starts[m] \in Nat /\ JumpOpcode(m) \in Nat /\ End(n) \in Nat
      BY <1>1, <3>1, Apart
    <3>4. BytesAt(code, starts[n], AddiOf(n))
      BY <2>1 DEF AddiAt, CodeAt
    <3>. QED  BY <1>1, <2>1, <3>1, <3>2, <3>3, <3>4
  <2>. QED  BY <2>2, <2>3
<1>6. ReferencesKept'
  BY <1>1, <1>2, <1>3, ZenonT(60) DEF Layout, ReferencesKept, ReferenceTo
<1>7. OffsetsKept'
  BY <1>1, <1>2 DEF Layout, OffsetsKept
<1>8. i \in Nat /\ j \in Nat
  BY DEF TypeOK, IsProgram
<1>9. \A d \in DOMAIN ir : IsLabel(ir[d]) =>
        \A p \in DOMAIN label_references[ir[d].name] :
          p \in Nat /\ (Visited(d, p)' <=> Visited(d, p) \/ (d = i /\ p = j))
  <2>. SUFFICES ASSUME NEW d \in DOMAIN ir, IsLabel(ir[d]),
                       NEW p \in DOMAIN label_references[ir[d].name]
                PROVE  p \in Nat /\ (Visited(d, p)' <=> Visited(d, p) \/ (d = i /\ p = j))
    OBVIOUS
  <2>1. ir[d].name \in Labels
    BY ElementFacts DEF TypeOK, IsProgram
  <2>2. p \in Nat
    BY <2>1 DEF TypeOK
  <2>. QED  BY <1>2, <1>8, <2>2 DEF Visited
<1>10. Updated'
  <2>. SUFFICES ASSUME NEW d \in DOMAIN ir, IsLabel(ir[d]),
                       NEW p \in DOMAIN label_references[ir[d].name], Visited(d, p)'
                PROVE  UpdatedAt(ir[d].name, label_references[ir[d].name][p])'
    BY <1>1, <1>2 DEF Updated
  <2>1. CASE Visited(d, p)
    <3>. DEFINE label == ir[d].name
                reference == label_references[label][p]
    <3>1. UpdatedAt(label, reference)
      BY <1>1, <2>1 DEF Layout, Updated
    <3>2. label \in Labels
      BY ElementFacts DEF TypeOK, IsProgram
    <3>3. PICK n \in DOMAIN starts : /\ IsJump(ir[n]) /\ ir[n].label = label
                                     /\ reference = ReferenceTo(n)
      BY <1>1, <3>2 DEF Layout, ReferencesKept
    <3>4. /\ BytesAt(code, JumpOpcode(n) + 1, BranchOffset(n)) /\ code_label_offsets[label] # NoOffset
          /\ reference.branch_offset = JumpOpcode(n) + 1
          /\ reference.opcode_offset = JumpOpcode(n)
      BY <3>1, <3>3 DEF UpdatedAt, CodeAt, ReferenceTo, BranchOffset
    <3>5. BytesAt(code', JumpOpcode(n) + 1, BranchOffset(n))
      <4>1. CASE n = m
        BY <1>1, <4>1
      <4>2. CASE n # m
        <5>1. /\ End(n) <= starts[m] \/ End(m) <= starts[n]
              /\ starts[m] <= JumpOpcode(m) /\ starts[n] <= JumpOpcode(n)
              /\ starts[m] \in Nat /\ starts[n] \in Nat /\ End(m) \in Nat /\ End(n) \in Nat
              /\ JumpOpcode(m) \in Nat /\ JumpOpcode(n) \in Nat
          BY <1>1, <4>2, Apart
        <5>2. /\ BranchOffset(n) \in Seq(Byte) /\ Len(BranchOffset(n)) = 4
              /\ End(n) = JumpOpcode(n) + 5 /\ JumpOpcode(n) + 1 \in Nat
          BY <1>1, <3>3, <5>1, PlacedBytes, SMTT(30)
        <5>. DEFINE place == JumpOpcode(n) + 1
                    bytes == BranchOffset(n)
        <5>3. place \in Nat /\ bytes \in Seq(Byte) /\ BytesAt(code, place, bytes)
          BY <3>4, <5>1, <5>2
        <5>4. place + Len(bytes) <= JumpOpcode(m) + 1 \/ End(m) <= place
          BY <5>1, <5>2, SMTT(30)
        <5>. HIDE DEF place, bytes
        <5>5. BytesAt(code', place, bytes)
          BY <1>1, <5>3, <5>4
        <5>. QED  BY <5>5 DEF place, bytes
      <4>. QED  BY <4>1, <4>2
    <3>. QED  BY <1>2, <3>3, <3>4, <3>5 DEF UpdatedAt, CodeAt, BranchOffset
  <2>2. CASE d = i /\ p = j
    BY <1>1, <1>2, <2>2 DEF UpdatedAt, CodeAt, BranchOffset, ReferenceTo
  <2>. QED  BY <1>9, <2>1, <2>2
<1>11. FramesKept'
  <2>. DEFINE offset == code_label_offsets[ir[i].name]
  <2>1. Range(stack_map_frames') = Range(stack_map_frames) \cup {offset}
    <3>1. U16(offset) = offset /\ offset \in 0 .. U16Range - 1
      BY <1>1, OffsetType, U16Fits, U16RangeAssumption
    <3>2. stack_map_frames' = Append(stack_map_frames, offset)
      BY <1>2, <3>1 DEF AddStackFrame
    <3>. DEFINE S == 0 .. U16Range - 1
    <3>3. stack_map_frames \in Seq(S)
      BY DEF TypeOK
    <3>. HIDE DEF offset, S
    <3>4. offset \in S
      BY <3>1 DEF S
    <3>5. Range(Append(stack_map_frames, offset)) = Range(stack_map_frames) \cup {offset}
      BY <3>3, <3>4, AppendRange
    <3>. QED  BY <3>2, <3>5
  <2>2. VisitedLabels' = VisitedLabels \cup {i}
    BY <1>1, <1>2, <1>9 DEF VisitedLabels
  <2>3. {code_label_offsets'[ir'[d].name] : d \in VisitedLabels'}
          = {code_label_offsets[ir[d].name] : d \in VisitedLabels} \cup {offset}
    BY <1>2, <2>2
  <2>4. {End(n)' : n \in {o \in DOMAIN starts : IsConditional(ir[o])}}
          = {End(n) : n \in {o \in DOMAIN starts : IsConditional(ir[o])}}
    BY <1>3
  <2>5. FramesKept
    BY <1>1 DEF Layout
  <2>. HIDE DEF offset
  <2>. QED  BY <1>2, <2>1, <2>3, <2>4, <2>5 DEF FramesKept
<1>. QED  BY <1>4, <1>5, <1>6, <1>7, <1>10, <1>11 DEF Layout

(* Outside the loops that write code, nothing LayoutInv speaks of changes.  *)
LEMMA LayoutStep == TypeOK /\ LayoutInv /\ [Next]_vars => LayoutInv'
<1>. SUFFICES ASSUME TypeOK, LayoutInv, [Next]_vars PROVE LayoutInv'
  OBVIOUS
<1>1. SemanAccepts(ir)'
  <2>1. ir' = ir
    BY DEF Next, vars, LoadConstant, BeginMain, FirstPass, WriteLabel, WriteR3, WriteAddi,
           WriteJump, WriteJumpUndefined, WriteNothing, EndFirstPass,
           UpdateLabelReference, LabelOffsetMissing, NextElement, EndMain
  <2>. QED  BY <2>1 DEF LayoutInv
<1>2. (pc \in {"constant_pool", "pass1"} => j = 1)'
  BY DEF LayoutInv, Next, vars, LoadConstant, BeginMain, FirstPass, WriteLabel, WriteR3,
         WriteAddi, WriteJump, WriteJumpUndefined, WriteNothing, EndFirstPass,
         UpdateLabelReference, LabelOffsetMissing, NextElement, EndMain
<1>3. (pc = "constant_pool" => Untouched)'
  BY DEF LayoutInv, Untouched, Next, vars, LoadConstant, BeginMain, FirstPass, WriteLabel,
         WriteR3, WriteAddi, WriteJump, WriteJumpUndefined, WriteNothing, EndFirstPass,
         UpdateLabelReference, LabelOffsetMissing, NextElement, EndMain
<1>4. (pc = "done" => IsEof(ir[i]))'
  BY DEF LayoutInv, Next, vars, LoadConstant, BeginMain, FirstPass, WriteLabel, WriteR3,
         WriteAddi, WriteJump, WriteJumpUndefined, WriteNothing, EndFirstPass,
         UpdateLabelReference, LabelOffsetMissing, NextElement, EndMain
<1>5. (pc \in {"pass1", "pass2", "done"} /\ CodeFits => Layout)'
  <2>. SUFFICES ASSUME pc' \in {"pass1", "pass2", "done"}, CodeFits' PROVE Layout'
    OBVIOUS
  <2>1. CASE LoadConstant
    BY <2>1 DEF LoadConstant
  <2>2. CASE BeginMain
    BY <2>2, BeginMainLayout
  <2>3. CASE WriteLabel
    BY <2>3, WriteLabelLayout
  <2>4. CASE WriteR3
    BY <2>4, WriteR3Layout
  <2>5. CASE WriteAddi
    <3>1. pc' = "pass1"
      BY <2>5 DEF WriteAddi, FirstPass
    <3>. QED  BY <2>5, <3>1, WriteAddiLayout
  <2>6. CASE WriteJump
    BY <2>6, WriteJumpLayout
  <2>7. CASE WriteJumpUndefined
    BY <2>7 DEF WriteJumpUndefined
  <2>8. CASE WriteNothing
    BY <2>8, WriteNothingLayout
  <2>9. CASE EndFirstPass
    BY <2>9, EndFirstPassLayout
  <2>10. CASE UpdateLabelReference
    BY <2>10, UpdateLabelLayout
  <2>11. CASE LabelOffsetMissing
    BY <2>11 DEF LabelOffsetMissing
  <2>12. CASE NextElement
    BY <2>12, NextElementLayout
  <2>13. CASE EndMain
    BY <2>13, EndMainLayout
  <2>14. CASE UNCHANGED vars
    <3>1. Layout /\ UNCHANGED << ir, pc, i, j, integers, code, code_label_offsets,
                                 label_references, stack_map_frames, starts >>
      BY <2>14 DEF LayoutInv, CodeFits, vars
    <3>2. InOrder'
      BY <3>1 DEF Layout, InOrder, End
    <3>3. CodePlaced'
      BY <3>1 DEF Layout, CodePlaced, JumpAt, AddiAt, CodeAt, End, JumpOpcode, GotoOf,
                  BranchOffset, AddiOf, ConstantIndex, Range
    <3>4. ReferencesKept' /\ OffsetsKept'
      BY <3>1 DEF Layout, ReferencesKept, OffsetsKept, ReferenceTo, JumpOpcode
    <3>5. Updated'
      BY <3>1 DEF Layout, Updated, UpdatedAt, Visited, CodeAt
    <3>6. FramesKept'
      <4>1. VisitedLabels' = VisitedLabels
        BY <3>1 DEF VisitedLabels, Visited
      <4>2. \A m \in DOMAIN starts : End(m)' = End(m)
        BY <3>1 DEF End
      <4>3. {End(m)' : m \in {o \in DOMAIN starts : IsConditional(ir[o])}}
              = {End(m) : m \in {o \in DOMAIN starts : IsConditional(ir[o])}}
        BY <4>2
      <4>4. {code_label_offsets'[ir'[d].name] : d \in VisitedLabels'}
              = {code_label_offsets[ir[d].name] : d \in VisitedLabels}
        BY <3>1, <4>1
      <4>5. Range(stack_map_frames)' = Range(stack_map_frames)
        BY <3>1 DEF Range
      <4>6. FramesKept
        BY <3>1 DEF Layout
      <4>. QED  BY <3>1, <4>3, <4>4, <4>5, <4>6 DEF FramesKept
    <3>. QED  BY <3>2, <3>3, <3>4, <3>5, <3>6 DEF Layout
  <2>. QED  BY <2>1, <2>2, <2>3, <2>4, <2>5, <2>6, <2>7, <2>8, <2>9, <2>10, <2>11,
               <2>12, <2>13, <2>14 DEF Next
<1>. QED  BY <1>1, <1>2, <1>3, <1>4, <1>5 DEF LayoutInv

(* LayoutInv is an invariant of the specification.                          *)
LEMMA LayoutInvariance == Spec => []LayoutInv
<1>1. TypeOK /\ LayoutInv /\ [Next]_vars => LayoutInv'
  BY LayoutStep
<1>. QED  BY LayoutInit, <1>1, TypeCorrect, PTL DEF Spec

(* In the finished method the second pass has been everywhere: every jump   *)
(* carries the distance to its label's code.                                *)
LEMMA Finished ==
  ASSUME TypeOK, LayoutInv, pc = "done", CodeFits
  PROVE  /\ Layout /\ Len(starts) = Len(ir) /\ DOMAIN starts = DOMAIN ir
         /\ \A d \in DOMAIN ir : IsLabel(ir[d]) =>
              \A p \in DOMAIN label_references[ir[d].name] :
                Visited(d, p) /\ UpdatedAt(ir[d].name, label_references[ir[d].name][p])
         /\ \A k \in DOMAIN ir : IsJump(ir[k]) =>
              \E d \in DOMAIN ir, p \in DOMAIN label_references[ir[k].label] :
                /\ IsLabel(ir[d]) /\ ir[d].name = ir[k].label
                /\ label_references[ir[k].label][p] = ReferenceTo(k)
                /\ code_label_offsets[ir[k].label] = starts[d]
                /\ LabelStart(ir[k].label) = starts[d]
                /\ CodeAt(JumpOpcode(k) + 1, BranchOffset(k))
<1>1. Layout /\ IsEof(ir[i]) /\ i \in DOMAIN ir /\ SemanAccepts(ir)
  BY DEF LayoutInv, TypeOK
<1>2. i = Len(ir) /\ Len(ir) \in Nat /\ DOMAIN ir = 1 .. Len(ir)
  BY <1>1 DEF TypeOK, IsProgram
<1>3. Len(starts) = Len(ir) /\ DOMAIN starts = DOMAIN ir
  BY <1>1, <1>2 DEF Layout, InOrder, TypeOK
<1>4. ASSUME NEW d \in DOMAIN ir, IsLabel(ir[d]),
             NEW p \in DOMAIN label_references[ir[d].name]
      PROVE  Visited(d, p) /\ UpdatedAt(ir[d].name, label_references[ir[d].name][p])
  <2>1. d # i
    BY <1>1, <1>4 DEF IsLabel, IsEof
  <2>2. Visited(d, p)
    BY <1>2, <2>1 DEF Visited
  <2>. QED  BY <1>1, <1>4, <2>2 DEF Layout, Updated
<1>5. ASSUME NEW k \in DOMAIN ir, IsJump(ir[k])
      PROVE  \E d \in DOMAIN ir, p \in DOMAIN label_references[ir[k].label] :
                /\ IsLabel(ir[d]) /\ ir[d].name = ir[k].label
                /\ label_references[ir[k].label][p] = ReferenceTo(k)
                /\ code_label_offsets[ir[k].label] = starts[d]
                /\ LabelStart(ir[k].label) = starts[d]
                /\ CodeAt(JumpOpcode(k) + 1, BranchOffset(k))
  <2>. DEFINE label == ir[k].label
  <2>1. HasLabel(ir[k])
    BY <1>1, <1>3, <1>5 DEF Layout, CodePlaced, JumpAt
  <2>2. PICK d \in DOMAIN ir : IsLabel(ir[d]) /\ ir[d].name = label
    BY <1>1, <2>1 DEF SemanAccepts, ReferencedLabelsExist
  <2>3. PICK p \in DOMAIN label_references[label] : label_references[label][p] = ReferenceTo(k)
    BY <1>1, <1>3, <1>5 DEF Layout, ReferencesKept
  <2>4. UpdatedAt(label, ReferenceTo(k))
    BY <1>4, <2>2, <2>3
  <2>5. label \in Labels
    BY <1>5, <2>1, ElementFacts DEF TypeOK, IsProgram
  <2>6. PICK e \in DOMAIN starts :
          IsLabel(ir[e]) /\ ir[e].name = label /\ code_label_offsets[label] = starts[e]
    BY <1>1, <2>4, <2>5 DEF Layout, OffsetsKept, UpdatedAt
  <2>7. \A f \in DOMAIN ir : IsLabel(ir[f]) /\ ir[f].name = label => f = d
    BY <1>1, <2>2 DEF SemanAccepts, LabelsDeclaredOnce
  <2>8. Declaration(ir, label) = d
    BY <2>2, <2>7 DEF Declaration
  <2>9. e = d
    BY <1>3, <2>6, <2>7
  <2>10. CodeAt(JumpOpcode(k) + 1, BranchOffset(k))
    BY <2>4 DEF UpdatedAt, ReferenceTo, BranchOffset
  <2>. QED  BY <2>2, <2>3, <2>6, <2>8, <2>9, <2>10 DEF LabelStart
<1>. QED  BY <1>1, <1>3, <1>4, <1>5

(* The numbers read from placed bytes.                                      *)
LEMMA ReadPlaced ==
  ASSUME NEW s \in Seq(Byte), NEW place \in Nat
  PROVE  /\ \A n \in Int : /\ BytesAt(s, place, Bytes4(n))
                           /\ -2147483648 <= n /\ n < 2147483648
                           => S4At(s, place) = n
         /\ \A n \in Nat : BytesAt(s, place, Bytes2(n)) /\ n < 32768 => S2At(s, place) = n
         /\ \A n \in Nat : BytesAt(s, place, Bytes2(n)) /\ n < 65536 => U2At(s, place) = n
         /\ \A byte \in Byte : BytesAt(s, place, << byte >>) => At(s, place) = byte
<1>1. ASSUME NEW n \in Int, BytesAt(s, place, Bytes4(n)), -2147483648 <= n, n < 2147483648
      PROVE  S4At(s, place) = n
  <2>1. Len(Bytes4(n)) = 4
    BY DEF Bytes4
  <2>2. Value4(Bytes4(n)) = n
    BY <1>1, Bytes4Read
  <2>. DEFINE bytes == Bytes4(n)
  <2>. HIDE DEF bytes
  <2>3. /\ s[place + 1] = bytes[1] /\ s[place + 2] = bytes[2]
        /\ s[place + 3] = bytes[3] /\ s[place + 4] = bytes[4]
    BY <1>1, <2>1 DEF BytesAt, bytes
  <2>4. At(s, place) = bytes[1] /\ At(s, place + 1) = bytes[2]
        /\ At(s, place + 2) = bytes[3] /\ At(s, place + 3) = bytes[4]
    BY <2>3 DEF At
  <2>. QED  BY <2>2, <2>4 DEF S4At, Value4, Signed, bytes
<1>2. ASSUME NEW n \in Nat, BytesAt(s, place, Bytes2(n)), n < 65536
      PROVE  /\ U2At(s, place) = n
             /\ n < 32768 => S2At(s, place) = n
  <2>1. Len(Bytes2(n)) = 2
    BY DEF Bytes2
  <2>2. Bytes2(n)[1] * 256 + Bytes2(n)[2] = n
    BY <1>2, Bytes2Read
  <2>. DEFINE bytes == Bytes2(n)
              x == bytes[1]
              y == bytes[2]
  <2>3. x \in Int /\ y \in Int /\ 0 <= y
    BY DEF Bytes2
  <2>. HIDE DEF bytes
  <2>4. s[place + 1] = x /\ s[place + 2] = y
    BY <1>2, <2>1 DEF BytesAt, bytes
  <2>5. At(s, place) = x /\ At(s, place + 1) = y
    BY <2>4 DEF At
  <2>6. x * 256 + y = n
    BY <2>2 DEF bytes
  <2>. HIDE DEF x, y
  <2>7. n < 32768 => x < 128
    BY <2>3, <2>6
  <2>. QED  BY <2>5, <2>6, <2>7 DEF U2At, S2At, Signed
<1>3. ASSUME NEW byte \in Byte, BytesAt(s, place, << byte >>) PROVE At(s, place) = byte
  <2>. DEFINE bytes == << byte >>
  <2>1. Len(bytes) = 1 /\ bytes[1] = byte
    OBVIOUS
  <2>. HIDE DEF bytes
  <2>. QED  BY <1>3, <2>1 DEF BytesAt, At, bytes
<1>. QED  BY <1>1, <1>2, <1>3

(* The offsets the second pass writes, and the one that skips a jump, reach *)
(* the code that follows the label and the code after the jump.             *)
LEMMA BranchesCorrect == TypeOK /\ LayoutInv => BranchesLand
<1>. SUFFICES ASSUME TypeOK, LayoutInv, pc = "done", CodeFits,
                     NEW k \in DOMAIN ir, IsJump(ir[k])
              PROVE  JumpLands(k) /\ (IsConditional(ir[k]) => SkipLands(k))
  BY DEF BranchesLand
<1>1. /\ Layout /\ Len(starts) = Len(ir) /\ DOMAIN starts = DOMAIN ir /\ k \in DOMAIN starts
      /\ LabelStart(ir[k].label) = code_label_offsets[ir[k].label]
      /\ CodeAt(JumpOpcode(k) + 1, BranchOffset(k))
  BY Finished
<1>2. /\ ir[k] \in Elements /\ starts[k] \in Nat /\ JumpOpcode(k) \in Nat
      /\ starts[k] <= JumpOpcode(k) /\ code \in Seq(Byte)
      /\ CodeAt(starts[k], GotoOf(k)) /\ HasLabel(ir[k])
      /\ End(k) = JumpOpcode(k) + 5 /\ End(k) <= Len(code) /\ Len(code) \in Nat
      /\ Len(code) < 65536
  <2>1. JumpAt(k) /\ End(k) <= Len(code)
    BY <1>1 DEF Layout, CodePlaced, InOrder
  <2>2. Len(code) < 65536
    BY U16RangeAssumption DEF CodeFits, TypeOK
  <2>. QED  BY <1>1, <2>1, <2>2, PlacedTypes DEF JumpAt, Layout, TypeOK
<1>3. /\ JumpPrefix(ir[k]) \in Seq(Byte) /\ << JVM_GOTO_W >> \in Seq(Byte) /\ JVM_GOTO_W \in Byte
      /\ BytesAt(code, starts[k], JumpPrefix(ir[k]))
      /\ BytesAt(code, JumpOpcode(k), << JVM_GOTO_W >>)
  <2>1. JumpPrefix(ir[k]) \in Seq(Byte) /\ << JVM_GOTO_W >> \in Seq(Byte) /\ JVM_GOTO_W \in Byte
    BY <1>2, JumpLengths DEF JVM_GOTO_W, Byte
  <2>. DEFINE a == JumpPrefix(ir[k])
              b == << JVM_GOTO_W >>
  <2>2. BytesAt(code, starts[k], a \o b) /\ JumpOpcode(k) = starts[k] + Len(a)
    BY <1>2 DEF CodeAt, GotoOf, JumpOpcode
  <2>3. JVM_GOTO_W \in Byte
    BY DEF JVM_GOTO_W, Byte
  <2>. HIDE DEF a, b
  <2>4. BytesAt(code, starts[k], a) /\ BytesAt(code, starts[k] + Len(a), b)
    <3>1. code \in Seq(Byte) /\ starts[k] \in Nat /\ a \in Seq(Byte) /\ b \in Seq(Byte)
      BY <1>2, <2>1 DEF a, b
    <3>. QED  BY <2>2, <3>1, BytesAtParts
  <2>. QED  BY <2>1, <2>2, <2>3, <2>4 DEF a, b
<1>4. JumpLands(k)
  <2>. DEFINE value == code_label_offsets[ir[k].label] - JumpOpcode(k)
  <2>1. At(code, JumpOpcode(k)) = JVM_GOTO_W
    BY <1>2, <1>3, ReadPlaced
  <2>2. value \in Int /\ -2147483648 <= value /\ value < 2147483648
    <3>1. ir[k].label \in Labels
      BY <1>2, ElementFacts
    <3>2. code_label_offsets[ir[k].label] \in Int /\ -1 <= code_label_offsets[ir[k].label]
          /\ code_label_offsets[ir[k].label] < 65536
      BY <3>1, OffsetType, U16RangeAssumption DEF NoOffset
    <3>. QED  BY <1>2, <3>2, SMTT(30)
  <2>3. BytesAt(code, JumpOpcode(k) + 1, Bytes4(value))
    BY <1>1 DEF CodeAt, BranchOffset
  <2>4. JumpOpcode(k) + 1 \in Nat
    BY <1>2
  <2>. HIDE DEF value
  <2>5. S4At(code, JumpOpcode(k) + 1) = value
    BY <1>2, <2>2, <2>3, <2>4, ReadPlaced
  <2>6. JumpOpcode(k) + value = LabelStart(ir[k].label)
    <3>1. code_label_offsets[ir[k].label] \in Int
      BY <1>2, OffsetType, ElementFacts
    <3>. QED  BY <1>1, <1>2, <3>1 DEF value
  <2>. QED  BY <2>1, <2>5, <2>6 DEF JumpLands
<1>5. ASSUME IsConditional(ir[k]) PROVE SkipLands(k)
  <2>. DEFINE opcode == starts[k] + Len(Compare(ir[k]))
              a == << SkipOpcode(ir[k]) >>
              b == Bytes2(SkipLength)
  <2>1. /\ Compare(ir[k]) \in Seq(Byte) /\ Len(Compare(ir[k])) \in Nat
        /\ Skip(ir[k]) \in Seq(Byte)
        /\ JumpPrefix(ir[k]) = Compare(ir[k]) \o Skip(ir[k])
        /\ Len(JumpPrefix(ir[k])) = Len(Compare(ir[k])) + 3
    BY <1>2, <1>5, JumpLengths
  <2>2. BytesAt(code, opcode, Skip(ir[k])) /\ opcode \in Nat
    BY <1>2, <1>3, <2>1, BytesAtParts
  <2>3. SkipOpcode(ir[k]) \in Byte /\ a \in Seq(Byte) /\ Len(a) = 1 /\ SkipLength = 8
    BY DEF SkipOpcode, JVM_IFEQ, JVM_IFGT, Byte, SkipLength
  <2>4. b \in Seq(Byte)
    BY <2>3, BytesAreBytes
  <2>5. Skip(ir[k]) = a \o b
    BY DEF Skip
  <2>. HIDE DEF a, b, opcode
  <2>6. BytesAt(code, opcode, a) /\ BytesAt(code, opcode + 1, b)
    <3>1. code \in Seq(Byte) /\ BytesAt(code, opcode, a \o b)
      BY <1>2, <2>2, <2>5
    <3>2. BytesAt(code, opcode, a) /\ BytesAt(code, opcode + Len(a), b)
      BY <2>2, <2>3, <2>4, <3>1, BytesAtParts
    <3>. QED  BY <2>3, <3>2
  <2>7. At(code, opcode) = SkipOpcode(ir[k])
    BY <1>2, <2>2, <2>3, <2>6, ReadPlaced DEF a
  <2>8. S2At(code, opcode + 1) = 8
    BY <1>2, <2>2, <2>3, <2>6, ReadPlaced DEF b
  <2>9. opcode + 8 = starts[k + 1]
    <3>1. End(k) = opcode + 8
      BY <1>2, <2>1 DEF JumpOpcode, opcode
    <3>2. k + 1 \in DOMAIN starts
      BY <1>1, NextElementExists, ElementFacts DEF IsJump, IsConditional, IsInstruction, IsEof, TypeOK, IsProgram
    <3>. QED  BY <3>1, <3>2 DEF End
  <2>. QED  BY <2>7, <2>8, <2>9 DEF SkipLands, opcode
<1>. QED  BY <1>4, <1>5

(* In a finished method every jump goes to the code that follows its label  *)
(* and every condition skips exactly the jump after it.                     *)
THEOREM BranchesLandCorrect == Spec => []BranchesLand
BY TypeCorrect, LayoutInvariance, BranchesCorrect, PTL

(* The frames are those of the first pass, for the instructions after       *)
(* conditional jumps, and those of the second, for the labels jumped to.    *)
LEMMA FramesCorrect == TypeOK /\ LayoutInv => FramesAreTargets
<1>. SUFFICES ASSUME TypeOK, LayoutInv, pc = "done", CodeFits
              PROVE  Range(stack_map_frames) = BranchTargets
  BY DEF FramesAreTargets
<1>1. /\ Layout /\ Len(starts) = Len(ir) /\ DOMAIN starts = DOMAIN ir
      /\ \A d \in DOMAIN ir : IsLabel(ir[d]) =>
           \A p \in DOMAIN label_references[ir[d].name] : Visited(d, p)
      /\ \A k \in DOMAIN ir : IsJump(ir[k]) =>
           \E d \in DOMAIN ir, p \in DOMAIN label_references[ir[k].label] :
             /\ IsLabel(ir[d]) /\ ir[d].name = ir[k].label
             /\ code_label_offsets[ir[k].label] = starts[d]
             /\ LabelStart(ir[k].label) = starts[d]
  BY Finished
<1>2. \A m \in DOMAIN starts : IsConditional(ir[m]) => End(m) = starts[m + 1]
  <2>. SUFFICES ASSUME NEW m \in DOMAIN starts, IsConditional(ir[m]) PROVE m + 1 \in DOMAIN starts
    BY DEF End
  <2>. QED  BY <1>1, NextElementExists DEF IsConditional, IsInstruction, IsEof, TypeOK
<1>3. {End(m) : m \in {n \in DOMAIN starts : IsConditional(ir[n])}}
        = {starts[k + 1] : k \in {m \in DOMAIN ir : IsConditional(ir[m])}}
  BY <1>1, <1>2
<1>4. {code_label_offsets[ir[d].name] : d \in VisitedLabels}
        = {LabelStart(ir[k].label) : k \in {m \in DOMAIN ir : IsJump(ir[m])}}
  <2>1. ASSUME NEW d \in VisitedLabels
        PROVE  \E k \in DOMAIN ir : IsJump(ir[k]) /\ code_label_offsets[ir[d].name] = LabelStart(ir[k].label)
    <3>1. /\ d \in DOMAIN ir /\ IsLabel(ir[d])
          /\ \E p \in DOMAIN label_references[ir[d].name] : Visited(d, p)
      BY <2>1 DEF VisitedLabels
    <3>2. ir[d].name \in Labels
      BY <3>1, ElementFacts DEF TypeOK, IsProgram
    <3>3. PICK m \in DOMAIN starts : IsJump(ir[m]) /\ ir[m].label = ir[d].name
      BY <1>1, <3>1, <3>2 DEF Layout, ReferencesKept
    <3>. QED  BY <1>1, <3>3
  <2>2. ASSUME NEW k \in DOMAIN ir, IsJump(ir[k])
        PROVE  \E d \in VisitedLabels : code_label_offsets[ir[d].name] = LabelStart(ir[k].label)
    <3>1. PICK d \in DOMAIN ir, p \in DOMAIN label_references[ir[k].label] :
             /\ IsLabel(ir[d]) /\ ir[d].name = ir[k].label
             /\ code_label_offsets[ir[k].label] = starts[d]
             /\ LabelStart(ir[k].label) = starts[d]
      BY <1>1, <2>2
    <3>2. p \in DOMAIN label_references[ir[d].name] /\ Visited(d, p)
      BY <1>1, <3>1
    <3>3. d \in VisitedLabels
      BY <3>1, <3>2 DEF VisitedLabels
    <3>. QED  BY <3>1, <3>3
  <2>. QED  BY <2>1, <2>2
<1>. QED  BY <1>1, <1>3, <1>4 DEF Layout, FramesKept, BranchTargets

(* The finished method has a stack map frame for exactly the offsets that   *)
(* some branch can go to.                                                   *)
THEOREM FramesAreTargetsCorrect == Spec => []FramesAreTargets
BY TypeCorrect, LayoutInvariance, FramesCorrect, PTL

(* The bytes after an ADDI's first register are still the index it was      *)
(* given, and the entry of that index is still its immediate.               *)
LEMMA ConstantsCorrect == TypeOK /\ LayoutInv => ConstantsResolve
<1>. SUFFICES ASSUME TypeOK, LayoutInv, pc = "done", CodeFits,
                     FixedConstants + Len(integers) < U16Range,
                     NEW k \in DOMAIN ir, IsAddi(ir[k]), HasImm(ir[k])
              PROVE  LET entry == U2At(code, starts[k] + 5) - FixedConstants
                     IN  entry \in DOMAIN integers /\ integers[entry] = ir[k].imm
  BY DEF ConstantsResolve
<1>. DEFINE e == ir[k]
            entry == CHOOSE n \in DOMAIN integers : integers[n] = e.imm
            index == ConstantIndex(e.imm)
            a == LoadRegister(e.rs1)
            b == << JVM_LDC_W >>
            c == Bytes2(index)
            d == << JVM_I2L >>
            rest == << JVM_LADD >>
            store == StoreRegister(e.rd)
<1>1. Layout /\ k \in DOMAIN starts /\ AddiAt(k) /\ e \in Elements /\ starts[k] \in Nat
  BY Finished, PlacedTypes DEF Layout, CodePlaced
<1>2. e.imm \in Range(integers) /\ BytesAt(code, starts[k], AddiOf(k))
  BY <1>1 DEF AddiAt, CodeAt
<1>3. entry \in DOMAIN integers /\ integers[entry] = e.imm
  BY <1>2 DEF Range
<1>4. entry \in Nat /\ FixedConstants + entry < U16Range /\ FixedConstants + entry \in Nat
      /\ entry + FixedConstants - FixedConstants = entry
  <2>1. integers \in Seq(Int)
    BY DEF TypeOK
  <2>2. U16Range \in Nat /\ FixedConstants \in Nat
    BY U16RangeAssumption DEF FixedConstants
  <2>. HIDE DEF entry
  <2>. QED  BY <1>3, <2>1, <2>2
<1>5. index = FixedConstants + entry /\ index \in Nat /\ index < 65536
  <2>. HIDE DEF entry
  <2>1. U16(FixedConstants + entry) = FixedConstants + entry
    BY <1>4, U16Fits
  <2>2. index = U16(FixedConstants + entry)
    BY DEF ConstantIndex, entry
  <2>. QED  BY <1>4, <2>1, <2>2, U16RangeAssumption
<1>6. /\ a \in Seq(Byte) /\ Len(a) = 4 /\ b \in Seq(Byte) /\ Len(b) = 1
      /\ d \in Seq(Byte) /\ rest \in Seq(Byte)
  <2>1. e.rs1 \in Registers
    BY <1>1, ElementFacts
  <2>2. a \in Seq(Byte)
    BY <2>1, LoadRegisterType
  <2>. QED  BY <2>2 DEF LoadRegister, JVM_LDC_W, JVM_I2L, JVM_LADD, Byte
<1>7. c \in Seq(Byte) /\ store \in Seq(Byte)
  <2>1. c \in Seq(Byte)
    <3>. HIDE DEF index
    <3>. QED  BY <1>5, BytesAreBytes
  <2>2. e.rd \in Registers
    BY <1>1, ElementFacts DEF IsAddi
  <2>. QED  BY <2>1, <2>2, StoreRegisterType
<1>8. AddiOf(k) = a \o ((b \o c) \o d) \o rest \o store
  BY DEF AddiOf, AddiBytes, LoadConstantBytes
<1>9. code \in Seq(Byte) /\ starts[k] + 5 \in Nat /\ starts[k] + 4 \in Nat
  BY <1>1 DEF TypeOK
<1>. HIDE DEF e, entry, index, a, b, c, d, rest, store
<1>10. BytesAt(code, starts[k] + 5, c)
  <2>1. /\ b \o c \in Seq(Byte) /\ (b \o c) \o d \in Seq(Byte)
        /\ a \o ((b \o c) \o d) \in Seq(Byte)
        /\ a \o ((b \o c) \o d) \o rest \in Seq(Byte)
    BY <1>6, <1>7, ConcatType
  <2>2. BytesAt(code, starts[k], a \o ((b \o c) \o d) \o rest)
    <3>. DEFINE most == a \o ((b \o c) \o d) \o rest
    <3>1. BytesAt(code, starts[k], most \o store) /\ most \in Seq(Byte)
      BY <1>2, <1>8, <2>1
    <3>. HIDE DEF most
    <3>2. BytesAt(code, starts[k], most)
      BY <1>1, <1>7, <1>9, <3>1, BytesAtParts
    <3>. QED  BY <3>2 DEF most
  <2>3. BytesAt(code, starts[k], a \o ((b \o c) \o d))
    BY <1>1, <1>6, <1>9, <2>1, <2>2, BytesAtParts
  <2>4. BytesAt(code, starts[k] + Len(a), (b \o c) \o d)
    BY <1>1, <1>6, <1>9, <2>1, <2>3, BytesAtParts
  <2>5. BytesAt(code, starts[k] + 4, (b \o c) \o d)
    BY <1>6, <2>4
  <2>6. BytesAt(code, starts[k] + 4, b \o c)
    BY <1>6, <1>9, <2>1, <2>5, BytesAtParts
  <2>7. BytesAt(code, starts[k] + 4 + Len(b), c)
    BY <1>6, <1>7, <1>9, <2>6, BytesAtParts
  <2>8. starts[k] + 4 + Len(b) = starts[k] + 5
    BY <1>1, <1>6
  <2>. QED  BY <2>7, <2>8
<1>11. U2At(code, starts[k] + 5) = index
  BY <1>5, <1>9, <1>10, ReadPlaced DEF c
<1>12. index - FixedConstants = entry
  BY <1>4, <1>5 DEF FixedConstants
<1>. QED  BY <1>3, <1>11, <1>12 DEF e

(* The constant pool index an ADDI's ldc_w carries is that of the entry     *)
(* that holds its immediate.                                                *)
THEOREM ConstantsResolveCorrect == Spec => []ConstantsResolve
BY TypeCorrect, LayoutInvariance, ConstantsCorrect, PTL

(* Code is only added to, except by the second pass, which writes over the  *)
(* zeros of a jump; what it wrote there before is what it writes again.     *)
LEMMA RewritesCorrect ==
  ASSUME TypeOK, LayoutInv, [Next]_vars, CodeFits', NEW k \in DOMAIN code, code'[k] # code[k]
  PROVE  code[k] = 0 /\ pc = "pass2" /\ IsPlaceholderByte(k)
<1>1. ASSUME NEW added \in Seq(Byte), code' = code \o added PROVE FALSE
  BY <1>1, ConcatBytes DEF TypeOK
<1>2. UpdateLabelReference
  <2>1. ~(code' = code) /\ ~(pc = "constant_pool" /\ Untouched)
    BY DEF Untouched
  <2>2. CASE WriteR3 \/ WriteAddi \/ WriteJump
    <3>1. ir[i] \in Elements /\ (pc = "pass1")
      BY <2>2, NextElementExists DEF TypeOK, WriteR3, WriteAddi, WriteJump, FirstPass
    <3>2. CASE WriteR3
      BY <1>1, <3>1, <3>2, InstructionBytes DEF WriteR3
    <3>3. CASE WriteAddi
      <4>1. PICK imm : imm \in Range(integers) /\ code' = code \o AddiBytes(ir[i], ConstantIndex(imm))
        BY <2>1, <3>3 DEF WriteAddi
      <4>2. ConstantIndex(imm) \in Int
        BY <4>1, ConstantIndexType DEF TypeOK
      <4>3. AddiBytes(ir[i], ConstantIndex(imm)) \in Seq(Byte)
        BY <3>1, <3>3, <4>2, InstructionBytes DEF WriteAddi
      <4>. QED  BY <1>1, <4>1, <4>3
    <3>4. CASE WriteJump
      <4>. DEFINE a == JumpPrefix(ir[i])
                  b == GotoPlaceholder
      <4>1. code' = (code \o a) \o b /\ a \in Seq(Byte) /\ b \in Seq(Byte) /\ code \in Seq(Byte)
        BY <3>1, <3>4, JumpLengths DEF WriteJump, TypeOK
      <4>. HIDE DEF a, b
      <4>2. (code \o a) \o b = code \o (a \o b) /\ a \o b \in Seq(Byte)
        BY <4>1
      <4>. QED  BY <1>1, <4>1, <4>2
    <3>. QED  BY <2>2, <3>2, <3>3, <3>4
  <2>3. CASE EndMain
    <3>1. Append(code, JVM_RETURN) = code \o << JVM_RETURN >> /\ << JVM_RETURN >> \in Seq(Byte)
      BY DEF TypeOK, JVM_RETURN, Byte
    <3>. QED  BY <1>1, <2>3, <3>1 DEF EndMain
  <2>4. CASE BeginMain
    BY <2>4 DEF BeginMain, LayoutInv, Untouched
  <2>. QED  BY <2>1, <2>2, <2>3, <2>4
            DEF Next, vars, LoadConstant, WriteLabel, WriteJumpUndefined, WriteNothing,
                EndFirstPass, LabelOffsetMissing, NextElement
<1>3. PICK m \in DOMAIN starts :
           /\ Layout /\ pc = "pass2" /\ IsJump(ir[m]) /\ Len(code') = Len(code)
           /\ BytesAt(code', JumpOpcode(m) + 1, BranchOffset(m))
           /\ \A n \in DOMAIN code :
                n \notin JumpOpcode(m) + 2 .. JumpOpcode(m) + 5 => code'[n] = code[n]
  BY <1>2, UpdatedReference
<1>4. k \in JumpOpcode(m) + 2 .. JumpOpcode(m) + 5
  BY <1>3
<1>5. k \in Nat /\ JumpOpcode(m) \in Nat /\ m \in 1 .. Len(starts)
  BY <1>3, PlacedTypes DEF TypeOK, Layout
<1>. DEFINE n == k - JumpOpcode(m) - 1
            place == JumpOpcode(m) + 1
<1>6. n \in 1 .. 4 /\ k = place + n
  BY <1>4, <1>5, SMTT(30)
<1>7. IsPlaceholderByte(k)
  <2>1. k - 1 - JumpOpcode(m) \in 1 .. 4
    BY <1>4, <1>5
  <2>. QED  BY <1>3, <1>5, <2>1 DEF IsPlaceholderByte
<1>8. Len(BranchOffset(m)) = 4 /\ Len(Bytes4(0)) = 4 /\ \A p \in 1 .. 4 : Bytes4(0)[p] = 0
  BY DEF BranchOffset, Bytes4
<1>9. BytesAt(code, place, Bytes4(0)) \/ BytesAt(code, place, BranchOffset(m))
  BY <1>3 DEF Layout, CodePlaced, JumpAt, CodeAt
<1>10. BytesAt(code', place, BranchOffset(m))
  BY <1>3
<1>. HIDE DEF n, place
<1>11. code'[k] = BranchOffset(m)[n]
  BY <1>6, <1>8, <1>10 DEF BytesAt
<1>12. code[k] = 0
  BY <1>6, <1>8, <1>9, <1>11 DEF BytesAt
<1>. QED  BY <1>3, <1>7, <1>12

(* Once written, a byte of the method changes only if it is one of the four *)
(* zeros of a jump.                                                         *)
THEOREM OnlyPlaceholdersRewrittenCorrect == Spec => OnlyPlaceholdersRewritten
<1>. DEFINE Rewrites == CodeFits' => \A k \in DOMAIN code :
              code'[k] # code[k] => code[k] = 0 /\ pc = "pass2" /\ IsPlaceholderByte(k)
<1>1. TypeOK /\ LayoutInv /\ [Next]_vars => [Rewrites]_vars
  BY RewritesCorrect
<1>. QED  BY <1>1, TypeCorrect, LayoutInvariance, PTL DEF Spec, OnlyPlaceholdersRewritten

-----------------------------------------------------------------------------
(* The shape of the method: what LayoutInv says of jumps and of ADDI with   *)
(* an immediate, for all that is written.                                   *)

IsCodeOf(m, bytes) == CodeAt(starts[m], bytes) /\ End(m) = starts[m] + Len(bytes)


(* What an element that is no jump is compiled to; the label an ADDI may    *)
(* have for an operand is written as the index of some constant.            *)
ElementAt(m) ==
  /\ IsR3(ir[m]) => IsCodeOf(m, R3Bytes(ir[m]))
  /\ IsAddi(ir[m]) => \E index \in Int : IsCodeOf(m, AddiBytes(ir[m], index))
  /\ ~WritesCode(ir[m]) /\ ~IsEof(ir[m]) => End(m) = starts[m]

(* The method begins by loading the registers and ends by returning.        *)
PrologueLength == 10
Shape ==
  /\ CodeAt(0, LoadRegistersIntoLocal)
  /\ PrologueLength = IF starts = << >> THEN Len(code) ELSE starts[1]
  /\ \A m \in DOMAIN starts : ElementAt(m)
  /\ pc = "pass2" => Len(code) = starts[Len(ir)]
  /\ pc = "done" => /\ Len(code) = starts[Len(ir)] + 1
                    /\ At(code, starts[Len(ir)]) = JVM_RETURN

(* The shape, from the first pass on.                                       *)
ShapeInv == pc \in {"pass1", "pass2", "done"} /\ CodeFits => Shape

-----------------------------------------------------------------------------
(* The shape is kept.                                                       *)


(* The length of what the method begins with.                               *)
LEMMA PrologueFacts ==
  /\ LoadRegistersIntoLocal \in Seq(Byte)
  /\ Len(LoadRegistersIntoLocal) = PrologueLength
<1>. DEFINE a == << JVM_GETSTATIC >>
            b == Bytes2(REGISTERS_FIELDREF)
            c == << JVM_INVOKEVIRTUAL >>
            d == Bytes2(THREAD_LOCAL_GET_METHODREF)
            e == << JVM_CHECKCAST >>
            f == Bytes2(LONG_ARRAY_CLASS)
            g == << JVM_ASTORE_1 >>
<1>1. /\ a \in Seq(Byte) /\ c \in Seq(Byte) /\ e \in Seq(Byte) /\ g \in Seq(Byte)
      /\ Len(a) = 1 /\ Len(c) = 1 /\ Len(e) = 1 /\ Len(g) = 1
  BY DEF Byte, JVM_GETSTATIC, JVM_INVOKEVIRTUAL, JVM_CHECKCAST, JVM_ASTORE_1
<1>2. b \in Seq(Byte) /\ d \in Seq(Byte) /\ f \in Seq(Byte)
  BY BytesAreBytes
  DEF REGISTERS_FIELDREF, THREAD_LOCAL_GET_METHODREF, LONG_ARRAY_CLASS
<1>3. Len(b) = 2 /\ Len(d) = 2 /\ Len(f) = 2
  BY DEF Bytes2
<1>4. LoadRegistersIntoLocal = a \o b \o c \o d \o e \o f \o g
  BY DEF LoadRegistersIntoLocal
<1>. HIDE DEF a, b, c, d, e, f, g
<1>5. PICK ab : ab = a \o b
  OBVIOUS
<1>6. ab \in Seq(Byte) /\ Len(ab) = Len(a) + Len(b)
  BY <1>1, <1>2, <1>3, <1>5, ConcatType, ConcatBytes
<1>7. PICK abc : abc = ab \o c
  OBVIOUS
<1>8. abc \in Seq(Byte) /\ Len(abc) = Len(ab) + Len(c)
  BY <1>1, <1>6, <1>7, ConcatType, ConcatBytes
<1>9. PICK abcd : abcd = abc \o d
  OBVIOUS
<1>10. abcd \in Seq(Byte) /\ Len(abcd) = Len(abc) + Len(d)
  BY <1>2, <1>3, <1>8, <1>9, ConcatType, ConcatBytes
<1>11. PICK abcde : abcde = abcd \o e
  OBVIOUS
<1>12. abcde \in Seq(Byte) /\ Len(abcde) = Len(abcd) + Len(e)
  BY <1>1, <1>10, <1>11, ConcatType, ConcatBytes
<1>13. PICK most : most = abcde \o f
  OBVIOUS
<1>14. most \in Seq(Byte) /\ Len(most) = Len(abcde) + Len(f)
  BY <1>2, <1>3, <1>12, <1>13, ConcatType, ConcatBytes
<1>15. most \o g \in Seq(Byte) /\ Len(most \o g) = Len(most) + Len(g)
  BY <1>1, <1>14, ConcatType, ConcatBytes
<1>16. LoadRegistersIntoLocal = most \o g
  BY <1>4, <1>5, <1>7, <1>9, <1>11, <1>13
<1>17. Len(most \o g) = 10
  BY <1>1, <1>3, <1>6, <1>8, <1>10, <1>12, <1>14, <1>15
<1>. QED  BY <1>15, <1>16, <1>17 DEF PrologueLength

(* The constant pool is complete and the method begins.                     *)
LEMMA BeginMainShape ==
  ASSUME TypeOK, LayoutInv, BeginMain
  PROVE  Shape'
<1>1. starts' = << >> /\ code' = LoadRegistersIntoLocal /\ pc' = "pass1"
  BY DEF BeginMain, LayoutInv, Untouched
<1>2. CodeAt(0, LoadRegistersIntoLocal)'
  <2>. DEFINE bytes == LoadRegistersIntoLocal
  <2>1. bytes \in Seq(Byte) /\ code' = bytes
    BY <1>1, PrologueFacts
  <2>. HIDE DEF bytes
  <2>2. BytesAt(code', 0, bytes)
    BY <2>1 DEF BytesAt
  <2>. QED  BY <2>2 DEF CodeAt, bytes
<1>3. DOMAIN starts' = {}
  BY <1>1
<1>. QED  BY <1>1, <1>2, <1>3, PrologueFacts DEF Shape

(* An element whose code was written before keeps it, where the end of its  *)
(* code and what is placed there stay.                                      *)
LEMMA ElementStays ==
  ASSUME NEW m, ElementAt(m), starts'[m] = starts[m],
         ir' = ir, IsEof(ir[m]) \/ End(m)' = End(m), ir[m] \in Elements,
         \A bytes \in Seq(Byte) : IsCodeOf(m, bytes) => CodeAt(starts[m], bytes)'
  PROVE  ElementAt(m)'
<1>1. ASSUME NEW bytes \in Seq(Byte), IsCodeOf(m, bytes), ~IsEof(ir[m])
      PROVE  IsCodeOf(m, bytes)'
  BY <1>1 DEF IsCodeOf, CodeAt
<1>2. IsR3(ir[m]) \/ IsAddi(ir[m]) => ~IsEof(ir[m])
  BY DEF IsR3, IsAddi, IsInstruction, IsEof
<1>3. IsR3(ir[m]) => IsCodeOf(m, R3Bytes(ir[m]))'
  BY <1>1, <1>2, InstructionBytes DEF ElementAt
<1>4. IsAddi(ir[m]) => \E index \in Int : IsCodeOf(m, AddiBytes(ir[m], index))'
  BY <1>1, <1>2, InstructionBytes DEF ElementAt
<1>5. ~WritesCode(ir[m]) /\ ~IsEof(ir[m]) => End(m)' = starts'[m]
  BY DEF ElementAt
<1>. QED  BY <1>3, <1>4, <1>5 DEF ElementAt

(* A step of the first pass, which adds the code of one more element.       *)
LEMMA FirstPassShape ==
  ASSUME TypeOK, LayoutInv, ShapeInv, FirstPass, pc' = "pass1", NEW added \in Seq(Byte),
         code' = code \o added, CodeFits', NEW n, n = i, ElementAt(n)'
  PROVE  Shape'
<1>1. /\ Layout /\ pc = "pass1" /\ ir' = ir /\ ~IsEof(ir[n])
      /\ n \in 1 .. Len(ir) /\ n \in Nat /\ ir[n] \in Elements
      /\ DOMAIN starts = 1 .. n - 1 /\ DOMAIN starts' = 1 .. n
      /\ starts'[n] = Len(code) /\ End(n)' = Len(code')
      /\ \A m \in 1 .. n - 1 :
           starts'[m] = starts[m] /\ End(m)' = End(m) /\ JumpOpcode(m)' = JumpOpcode(m)
  BY FirstPassPlaces
<1>2. /\ CodeFits /\ Len(code) \in Nat
      /\ \A place \in Nat, bytes \in Seq(Byte) :
           BytesAt(code, place, bytes) => BytesAt(code', place, bytes)
  BY AppendedCode
<1>3. Shape
  BY <1>1, <1>2 DEF ShapeInv
<1>4. CodeAt(0, LoadRegistersIntoLocal)'
  BY <1>2, <1>3, PrologueFacts DEF Shape, CodeAt
<1>5. starts' # << >> /\ starts'[1] = PrologueLength
  <2>. SUFFICES starts'[1] = PrologueLength /\ 1 \in DOMAIN starts'
    OBVIOUS
  <2>1. CASE n = 1
    <3>1. starts = << >>
      BY <1>1, <2>1 DEF TypeOK
    <3>. QED  BY <1>1, <1>3, <2>1, <3>1 DEF Shape
  <2>2. CASE n # 1
    <3>1. 1 \in 1 .. n - 1 /\ starts # << >> /\ 1 \in 1 .. n
      BY <1>1, <2>2
    <3>. QED  BY <1>1, <1>3, <3>1 DEF Shape
  <2>. QED  BY <2>1, <2>2
<1>6. ASSUME NEW m \in 1 .. n - 1 PROVE ElementAt(m)'
  <2>1. m \in DOMAIN starts /\ ElementAt(m) /\ starts[m] \in Nat /\ ir[m] \in Elements
    BY <1>1, <1>3, PlacedTypes DEF Shape, Layout
  <2>2. starts'[m] = starts[m] /\ End(m)' = End(m) /\ ir' = ir
    BY <1>1
  <2>3. \A bytes \in Seq(Byte) : IsCodeOf(m, bytes) => CodeAt(starts[m], bytes)'
    BY <1>2, <2>1, <2>2 DEF IsCodeOf, CodeAt
  <2>. QED  BY <2>1, <2>2, <2>3, ElementStays
<1>7. \A m \in DOMAIN starts' : ElementAt(m)'
  <2>1. \A m \in 1 .. n : m = n \/ m \in 1 .. n - 1
    BY <1>1
  <2>. QED  BY <1>1, <1>6, <2>1
<1>. QED  BY <1>4, <1>5, <1>7 DEF Shape

(* The first pass writes the code of each kind of element.                  *)
LEMMA WritesShape ==
  ASSUME TypeOK, LayoutInv, ShapeInv, pc' = "pass1", CodeFits',
         WriteLabel \/ WriteR3 \/ WriteAddi \/ WriteJump \/ WriteNothing
  PROVE  Shape'
<1>1. PICK n : n = i
  OBVIOUS
<1>2. FirstPass /\ ir[n] \in Elements /\ code \in Seq(Byte) /\ code = code \o << >>
      /\ << >> \in Seq(Byte) /\ ir' = ir /\ pc = "pass1" /\ ~IsEof(ir[n])
  BY <1>1, NextElementExists
  DEF TypeOK, WriteLabel, WriteR3, WriteAddi, WriteJump, WriteNothing, FirstPass
<1>3. ASSUME NEW added \in Seq(Byte), code' = code \o added
      PROVE  /\ IsCodeOf(n, added)'
             /\ ElementAt(n)' => Shape'
  <2>1. starts'[n] = Len(code) /\ End(n)' = Len(code')
    BY <1>1, <1>2, <1>3, FirstPassPlaces
  <2>2. BytesAt(code', Len(code), added) /\ Len(code') = Len(code) + Len(added)
    BY <1>3, AppendedCode
  <2>3. ElementAt(n)' => Shape'
    BY <1>1, <1>2, <1>3, FirstPassShape
  <2>. QED  BY <2>1, <2>2, <2>3 DEF IsCodeOf, CodeAt
<1>4. CASE WriteLabel \/ WriteNothing
  <2>1. code' = code \o << >> /\ ~WritesCode(ir[n])
    BY <1>1, <1>2, <1>4
    DEF WriteLabel, WriteNothing, WritesCode, IsR3, IsAddi, IsJump, IsConditional, IsLabel,
        IsInstruction
  <2>2. IsCodeOf(n, << >>)'
    BY <1>2, <1>3, <2>1
  <2>3. End(n)' = starts'[n]
    <3>. DEFINE none == << >>
    <3>1. none \in Seq(Byte) /\ code' = code \o none /\ Len(none) = 0
      BY <1>2, <2>1
    <3>. HIDE DEF none
    <3>2. n = i /\ CodeFits'
      BY <1>1
    <3>3. starts'[n] = Len(code)
      BY <1>2, <3>1, <3>2, FirstPassPlaces
    <3>4. Len(code) \in Nat
      BY DEF TypeOK
    <3>. QED  BY <2>2, <3>1, <3>3, <3>4 DEF IsCodeOf
  <2>4. ElementAt(n)'
    BY <1>2, <2>1, <2>3 DEF ElementAt, WritesCode
  <2>. QED  BY <1>2, <1>3, <2>1, <2>4
<1>5. CASE WriteR3
  <2>1. code' = code \o R3Bytes(ir[n]) /\ R3Bytes(ir[n]) \in Seq(Byte) /\ IsR3(ir[n])
    BY <1>1, <1>2, <1>5, InstructionBytes DEF WriteR3
  <2>2. ~IsAddi(ir[n]) /\ WritesCode(ir[n])
    BY <2>1 DEF IsR3, IsAddi, WritesCode
  <2>3. IsCodeOf(n, R3Bytes(ir[n]))'
    BY <1>2, <1>3, <2>1
  <2>4. ElementAt(n)'
    BY <1>2, <2>1, <2>2, <2>3 DEF ElementAt
  <2>. QED  BY <1>3, <2>1, <2>4
<1>6. CASE WriteAddi
  <2>1. PICK imm : imm \in Range(integers) /\ code' = code \o AddiBytes(ir[n], ConstantIndex(imm))
    BY <1>1, <1>2, <1>6 DEF WriteAddi
  <2>2. IsAddi(ir[n]) /\ ~IsR3(ir[n]) /\ WritesCode(ir[n])
    BY <1>1, <1>6 DEF WriteAddi, IsR3, IsAddi, WritesCode
  <2>3. ConstantIndex(imm) \in Int
    BY <2>1, ConstantIndexType DEF TypeOK
  <2>4. PICK index \in Int : index = ConstantIndex(imm)
    BY <2>3
  <2>5. PICK bytes : bytes = AddiBytes(ir[n], index)
    OBVIOUS
  <2>6. bytes \in Seq(Byte) /\ code' = code \o bytes
    BY <1>2, <2>1, <2>2, <2>4, <2>5, InstructionBytes
  <2>7. IsCodeOf(n, bytes)'
    BY <1>3, <2>6
  <2>8. bytes = AddiBytes(ir'[n], index)
    BY <1>2, <2>5
  <2>9. ElementAt(n)'
    BY <1>2, <2>2, <2>7, <2>8 DEF ElementAt
  <2>. QED  BY <1>3, <2>6, <2>9
<1>7. CASE WriteJump
  <2>. DEFINE a == JumpPrefix(ir[n])
              b == GotoPlaceholder
  <2>1. code' = (code \o a) \o b /\ a \in Seq(Byte) /\ b \in Seq(Byte)
    BY <1>1, <1>2, <1>7, JumpLengths DEF WriteJump
  <2>2. IsJump(ir[n])
    BY <1>1, <1>7 DEF WriteJump
  <2>3. ~IsR3(ir[n]) /\ ~IsAddi(ir[n]) /\ WritesCode(ir[n])
    BY <2>2 DEF IsJump, IsConditional, IsR3, IsAddi, WritesCode
  <2>4. ElementAt(n)'
    BY <1>2, <2>3 DEF ElementAt
  <2>. HIDE DEF a, b
  <2>5. code' = code \o (a \o b) /\ a \o b \in Seq(Byte)
    BY <1>2, <2>1
  <2>. QED  BY <1>3, <2>4, <2>5
<1>. QED  BY <1>4, <1>5, <1>6, <1>7

(* The end of the first pass.                                               *)
LEMMA EndFirstPassShape ==
  ASSUME TypeOK, LayoutInv, ShapeInv, EndFirstPass, CodeFits'
  PROVE  Shape'
<1>1. PICK n : n = Len(ir)
  OBVIOUS
<1>2. /\ pc = "pass1" /\ pc' = "pass2" /\ IsEof(ir[i])
      /\ starts' = Append(starts, Len(code)) /\ ir' = ir /\ code' = code
  BY DEF EndFirstPass
<1>3. Layout /\ Shape
  BY <1>2 DEF LayoutInv, ShapeInv, CodeFits
<1>4. /\ n \in Nat /\ n # 0 /\ Len(starts) = n - 1 /\ starts \in Seq(Nat) /\ Len(code) \in Nat
      /\ DOMAIN ir = 1 .. n /\ ir[n] \in Elements /\ IsEof(ir[n])
  BY <1>1, <1>2, <1>3 DEF TypeOK, IsProgram, Layout, InOrder
<1>5. /\ DOMAIN starts = 1 .. n - 1 /\ DOMAIN starts' = 1 .. n /\ starts'[n] = Len(code)
      /\ \A m \in 1 .. n - 1 : starts'[m] = starts[m] /\ m \in 1 .. n
      /\ \A m \in 1 .. n : m = n \/ m \in 1 .. n - 1
  BY <1>2, <1>4
<1>6. ASSUME NEW m \in 1 .. n - 1 PROVE ElementAt(m)'
  <2>1. End(m)' = End(m)
    <3>1. CASE m = n - 1
      <4>1. m + 1 = n /\ n \in 1 .. n /\ n \notin 1 .. n - 1
        BY <1>4, <3>1
      <4>. QED  BY <1>2, <1>5, <4>1 DEF End
    <3>2. CASE m # n - 1
      <4>1. m + 1 \in 1 .. n - 1 /\ m + 1 \in 1 .. n
        BY <1>4, <3>2
      <4>. QED  BY <1>2, <1>5, <4>1 DEF End
    <3>. QED  BY <3>1, <3>2
  <2>2. ElementAt(m) /\ ir[m] \in Elements /\ starts'[m] = starts[m]
    BY <1>3, <1>5, PlacedTypes DEF Shape, Layout
  <2>3. \A bytes \in Seq(Byte) : IsCodeOf(m, bytes) => CodeAt(starts[m], bytes)'
    BY <1>2, <2>2 DEF IsCodeOf, CodeAt
  <2>. QED  BY <1>2, <2>1, <2>2, <2>3, ElementStays
<1>7. ElementAt(n)'
  BY <1>2, <1>4 DEF ElementAt, IsEof, IsR3, IsAddi, IsInstruction
<1>8. CodeAt(0, LoadRegistersIntoLocal)'
  BY <1>2, <1>3 DEF Shape, CodeAt
<1>9. starts' # << >> /\ starts'[1] = PrologueLength
  <2>. SUFFICES starts'[1] = PrologueLength /\ 1 \in DOMAIN starts'
    OBVIOUS
  <2>1. CASE n = 1
    <3>1. starts = << >>
      BY <1>4, <2>1
    <3>. QED  BY <1>3, <1>5, <2>1, <3>1 DEF Shape
  <2>2. CASE n # 1
    <3>1. 1 \in 1 .. n - 1 /\ starts # << >> /\ 1 \in 1 .. n
      BY <1>4, <2>2
    <3>. QED  BY <1>3, <1>5, <3>1 DEF Shape
  <2>. QED  BY <2>1, <2>2
<1>. QED  BY <1>1, <1>2, <1>5, <1>6, <1>7, <1>8, <1>9 DEF Shape

(* The second pass writes into jumps only.                                  *)
LEMMA UpdateShape ==
  ASSUME TypeOK, LayoutInv, ShapeInv, UpdateLabelReference, CodeFits'
  PROVE  Shape'
<1>1. PICK m \in DOMAIN starts :
           /\ Layout /\ pc = "pass2" /\ pc' = "pass2" /\ IsJump(ir[m])
           /\ Len(code') = Len(code)
           /\ \A place \in Nat, bytes \in Seq(Byte) :
                /\ BytesAt(code, place, bytes)
                /\ place + Len(bytes) <= JumpOpcode(m) + 1 \/ End(m) <= place
                => BytesAt(code', place, bytes)
  BY UpdatedReference
<1>2. ir' = ir /\ starts' = starts
  BY DEF UpdateLabelReference
<1>3. Shape
  BY <1>1 DEF ShapeInv, CodeFits
<1>4. \A n : End(n)' = End(n)
  BY <1>1, <1>2 DEF End
<1>5. CodeAt(0, LoadRegistersIntoLocal)'
  <2>1. 1 \in DOMAIN starts /\ starts # << >> /\ (m = 1 \/ 1 < m)
    BY <1>1 DEF TypeOK
  <2>2. PrologueLength = starts[1] /\ starts[1] <= End(1) /\ (1 < m => End(1) <= starts[m])
    BY <1>1, <1>3, <2>1 DEF Shape, Layout, InOrder
  <2>3. starts[1] \in Nat /\ End(1) \in Nat /\ starts[m] \in Nat /\ JumpOpcode(m) \in Nat
        /\ starts[m] <= JumpOpcode(m)
    BY <1>1, <2>1, PlacedTypes DEF Layout
  <2>4. 0 + PrologueLength <= JumpOpcode(m) + 1
    BY <2>1, <2>2, <2>3
  <2>. DEFINE bytes == LoadRegistersIntoLocal
  <2>5. bytes \in Seq(Byte) /\ BytesAt(code, 0, bytes) /\ Len(bytes) = PrologueLength
    BY <1>3, PrologueFacts DEF Shape, CodeAt
  <2>. HIDE DEF bytes
  <2>6. BytesAt(code', 0, bytes)
    BY <1>1, <2>4, <2>5
  <2>. QED  BY <2>6 DEF CodeAt, bytes
<1>6. ASSUME NEW n \in DOMAIN starts PROVE ElementAt(n)'
  <2>1. ElementAt(n) /\ ir[n] \in Elements /\ starts[n] \in Nat
    BY <1>1, <1>3, PlacedTypes DEF Shape, Layout
  <2>2. CASE n = m
    <3>1. ~IsR3(ir[n]) /\ ~IsAddi(ir[n]) /\ WritesCode(ir[n])
      BY <1>1, <2>2 DEF IsJump, IsConditional, IsR3, IsAddi, WritesCode
    <3>. QED  BY <1>2, <3>1 DEF ElementAt
  <2>3. CASE n # m
    <3>1. ASSUME NEW bytes \in Seq(Byte), IsCodeOf(n, bytes) PROVE CodeAt(starts[n], bytes)'
      <4>1. /\ End(n) <= starts[m] \/ End(m) <= starts[n]
            /\ starts[m] <= JumpOpcode(m) /\ starts[m] \in Nat /\ End(n) \in Nat
            /\ JumpOpcode(m) \in Nat
        BY <1>1, <2>3, Apart
      <4>2. BytesAt(code, starts[n], bytes) /\ starts[n] + Len(bytes) = End(n)
        BY <3>1 DEF IsCodeOf, CodeAt
      <4>3. starts[n] + Len(bytes) <= JumpOpcode(m) + 1 \/ End(m) <= starts[n]
        BY <4>1, <4>2
      <4>. QED  BY <1>1, <1>2, <2>1, <4>2, <4>3 DEF CodeAt
    <3>. QED  BY <1>2, <1>4, <2>1, <3>1, ElementStays
  <2>. QED  BY <2>2, <2>3
<1>. QED  BY <1>1, <1>2, <1>3, <1>5, <1>6 DEF Shape

(* The return instruction comes after the code of all elements.             *)
LEMMA EndMainShape ==
  ASSUME TypeOK, LayoutInv, ShapeInv, EndMain, CodeFits'
  PROVE  Shape'
<1>. DEFINE added == << JVM_RETURN >>
<1>1. /\ pc = "pass2" /\ pc' = "done" /\ code' = code \o added /\ added \in Seq(Byte)
      /\ Len(added) = 1 /\ added[1] = JVM_RETURN /\ ir' = ir /\ starts' = starts
  <2>1. JVM_RETURN \in Byte /\ code \in Seq(Byte)
    BY DEF TypeOK, JVM_RETURN, Byte
  <2>2. added \in Seq(Byte) /\ Append(code, JVM_RETURN) = code \o added
    BY <2>1
  <2>. QED  BY <2>2 DEF EndMain
<1>. HIDE DEF added
<1>2. /\ Len(code) \in Nat /\ Len(code') = Len(code) + Len(added)
      /\ CodeFits /\ BytesAt(code', Len(code), added)
      /\ \A place \in Nat, bytes \in Seq(Byte) :
           BytesAt(code, place, bytes) => BytesAt(code', place, bytes)
  BY <1>1, AppendedCode
<1>3. Layout /\ Shape
  BY <1>1, <1>2 DEF LayoutInv, ShapeInv
<1>4. /\ Len(starts) = Len(ir) /\ DOMAIN starts = 1 .. Len(ir) /\ Len(ir) \in Nat \ {0}
      /\ IsEof(ir[Len(ir)]) /\ starts # << >>
  <2>1. Len(starts) = Len(ir) /\ starts \in Seq(Nat)
    BY <1>1, <1>3 DEF Layout, InOrder, TypeOK
  <2>2. Len(ir) \in Nat \ {0} /\ Len(ir) \in DOMAIN ir
    BY DEF TypeOK, IsProgram
  <2>3. IsEof(ir[Len(ir)])
    BY <2>2 DEF TypeOK, IsProgram
  <2>. QED  BY <2>1, <2>2, <2>3
<1>5. ASSUME NEW m \in DOMAIN starts PROVE ElementAt(m)'
  <2>1. ElementAt(m) /\ ir[m] \in Elements /\ starts[m] \in Nat
    BY <1>3, PlacedTypes DEF Shape, Layout
  <2>2. IsEof(ir[m]) \/ End(m)' = End(m)
    BY <1>1, <1>4 DEF End
  <2>3. \A bytes \in Seq(Byte) : IsCodeOf(m, bytes) => CodeAt(starts[m], bytes)'
    BY <1>1, <1>2, <2>1 DEF IsCodeOf, CodeAt
  <2>. QED  BY <1>1, <2>1, <2>2, <2>3, ElementStays
<1>6. CodeAt(0, LoadRegistersIntoLocal)'
  BY <1>2, <1>3, PrologueFacts DEF Shape, CodeAt
<1>7. starts[Len(ir)] = Len(code)
  BY <1>1, <1>3 DEF Shape
<1>8. At(code', Len(code)) = JVM_RETURN
  BY <1>1, <1>2 DEF BytesAt, At
<1>. QED  BY <1>1, <1>2, <1>3, <1>4, <1>5, <1>6, <1>7, <1>8 DEF Shape

(* A step that leaves the method alone.                                     *)
LEMMA SameShape ==
  ASSUME ShapeInv, UNCHANGED << ir, pc, code, starts >>
  PROVE  ShapeInv'
<1>. SUFFICES ASSUME pc' \in {"pass1", "pass2", "done"}, CodeFits' PROVE Shape'
  BY DEF ShapeInv
<1>1. Shape
  BY DEF ShapeInv, CodeFits
<1>2. CodeAt(0, LoadRegistersIntoLocal)'
  BY <1>1 DEF Shape, CodeAt
<1>3. \A m \in DOMAIN starts : ElementAt(m)'
  BY <1>1 DEF Shape, ElementAt, IsCodeOf, CodeAt, End
<1>. QED  BY <1>1, <1>2, <1>3 DEF Shape

(* Every step of the code generator keeps the shape.                        *)
LEMMA ShapeStep == TypeOK /\ LayoutInv /\ ShapeInv /\ [Next]_vars => ShapeInv'
<1>. SUFFICES ASSUME TypeOK, LayoutInv, ShapeInv, [Next]_vars PROVE ShapeInv'
  OBVIOUS
<1>1. CASE LoadConstant \/ WriteJumpUndefined \/ LabelOffsetMissing
  BY <1>1 DEF LoadConstant, WriteJumpUndefined, LabelOffsetMissing, ShapeInv
<1>2. CASE BeginMain
  BY <1>2, BeginMainShape DEF ShapeInv
<1>3. CASE WriteLabel \/ WriteR3 \/ WriteAddi \/ WriteJump \/ WriteNothing
  <2>1. pc' \in {"pass1", "exit"}
    BY <1>3 DEF WriteLabel, WriteR3, WriteAddi, WriteJump, WriteNothing, FirstPass
  <2>. QED  BY <1>3, <2>1, WritesShape DEF ShapeInv
<1>4. CASE EndFirstPass
  BY <1>4, EndFirstPassShape DEF ShapeInv
<1>5. CASE UpdateLabelReference
  BY <1>5, UpdateShape DEF ShapeInv
<1>6. CASE EndMain
  BY <1>6, EndMainShape DEF ShapeInv
<1>7. CASE NextElement \/ UNCHANGED vars
  BY <1>7, SameShape DEF NextElement, vars
<1>. QED  BY <1>1, <1>2, <1>3, <1>4, <1>5, <1>6, <1>7 DEF Next

-----------------------------------------------------------------------------
(* The kinds of values on an operand stack.                                 *)
Kinds == {"ref", "int", "long"}

(* What an opcode does to a stack it finds its operands on: below stays,    *)
(* before becomes after.                                                    *)
Moves(op, before, after) ==
  \E rest \in Seq(Kinds) : before = rest \o Operands(op) /\ after = rest \o Results(op)

(* Stacks of two and three values.                                          *)
LEMMA SmallStacks ==
  ASSUME NEW S, NEW x \in S, NEW y \in S, NEW z \in S
  PROVE  /\ << x >> \o << y >> = << x, y >>
         /\ << x >> \o << y, z >> = << x, y, z >>
         /\ << x, y >> \o << z >> = << x, y, z >>
<1>1. PICK one : one = << x >>
  OBVIOUS
<1>2. PICK two : two = << y >>
  OBVIOUS
<1>3. PICK both : both = << x, y >>
  OBVIOUS
<1>4. PICK last : last = << y, z >>
  OBVIOUS
<1>5. PICK all : all = << x, y, z >>
  OBVIOUS
<1>6. PICK three : three = << z >>
  OBVIOUS
<1>7. /\ one \in Seq(S) /\ two \in Seq(S) /\ both \in Seq(S)
      /\ last \in Seq(S) /\ all \in Seq(S) /\ three \in Seq(S)
  BY <1>1, <1>2, <1>3, <1>4, <1>5, <1>6
<1>8. /\ Len(one) = 1 /\ Len(two) = 1 /\ Len(both) = 2 /\ Len(last) = 2 /\ Len(all) = 3
      /\ one[1] = x /\ two[1] = y /\ both[1] = x /\ both[2] = y
      /\ last[1] = y /\ last[2] = z /\ all[1] = x /\ all[2] = y /\ all[3] = z
      /\ Len(three) = 1 /\ three[1] = z
  BY <1>1, <1>2, <1>3, <1>4, <1>5, <1>6
<1>9. ASSUME NEW s \in Seq(S), NEW t \in Seq(S), NEW u \in Seq(S),
             Len(s) + Len(t) = Len(u),
             \A n \in 1 .. Len(u) : u[n] = IF n <= Len(s) THEN s[n] ELSE t[n - Len(s)]
      PROVE  s \o t = u
  <2>1. /\ s \o t \in Seq(S) /\ Len(s \o t) = Len(s) + Len(t)
        /\ \A n \in 1 .. Len(s) + Len(t) :
             (s \o t)[n] = IF n <= Len(s) THEN s[n] ELSE t[n - Len(s)]
    BY ConcatProperties
  <2>2. PICK joined : joined = s \o t
    OBVIOUS
  <2>3. /\ joined \in Seq(S) /\ Len(joined) = Len(u)
        /\ \A n \in 1 .. Len(joined) : joined[n] = u[n]
    BY <1>9, <2>1, <2>2
  <2>4. joined = u
    BY <2>3, SeqEqual
  <2>. QED  BY <2>2, <2>4
<1>10. \A n \in 1 .. 2 : n = 1 \/ n = 2
  OBVIOUS
<1>11. \A n \in 1 .. 3 : n = 1 \/ n = 2 \/ n = 3
  OBVIOUS
<1>12. one \o two = both
  <2>1. \A n \in 1 .. 2 : both[n] = IF n <= 1 THEN one[n] ELSE two[n - 1]
    BY <1>8, <1>10
  <2>2. \A n \in 1 .. Len(both) : both[n] = IF n <= Len(one) THEN one[n] ELSE two[n - Len(one)]
    BY <1>8, <2>1
  <2>3. Len(one) + Len(two) = Len(both)
    BY <1>8
  <2>. QED  BY <1>7, <1>9, <2>2, <2>3
<1>13. one \o last = all
  <2>1. \A n \in 1 .. 3 : all[n] = IF n <= 1 THEN one[n] ELSE last[n - 1]
    BY <1>8, <1>11
  <2>2. \A n \in 1 .. Len(all) : all[n] = IF n <= Len(one) THEN one[n] ELSE last[n - Len(one)]
    BY <1>8, <2>1
  <2>3. Len(one) + Len(last) = Len(all)
    BY <1>8
  <2>. QED  BY <1>7, <1>9, <2>2, <2>3
<1>14. both \o three = all
  <2>1. \A n \in 1 .. 3 : all[n] = IF n <= 2 THEN both[n] ELSE three[n - 2]
    BY <1>8, <1>11
  <2>2. \A n \in 1 .. Len(all) :
          all[n] = IF n <= Len(both) THEN both[n] ELSE three[n - Len(both)]
    BY <1>8, <2>1
  <2>3. Len(both) + Len(three) = Len(all)
    BY <1>8
  <2>. QED  BY <1>7, <1>9, <2>2, <2>3
<1>. QED  BY <1>1, <1>2, <1>3, <1>4, <1>5, <1>6, <1>12, <1>13, <1>14

(* The moves the methods are made of.                                       *)
LEMMA MoveTable ==
  /\ Moves(JVM_GETSTATIC, << >>, << "ref" >>)
  /\ Moves(JVM_INVOKEVIRTUAL, << "ref" >>, << "ref" >>)
  /\ Moves(JVM_CHECKCAST, << "ref" >>, << "ref" >>)
  /\ Moves(JVM_ASTORE_1, << "ref" >>, << >>)
  /\ Moves(JVM_ALOAD_1, << >>, << "ref" >>)
  /\ Moves(JVM_ALOAD_1, << "long" >>, << "long", "ref" >>)
  /\ Moves(JVM_BIPUSH, << "ref" >>, << "ref", "int" >>)
  /\ Moves(JVM_BIPUSH, << "long", "ref" >>, << "long", "ref", "int" >>)
  /\ Moves(JVM_LALOAD, << "ref", "int" >>, << "long" >>)
  /\ Moves(JVM_LALOAD, << "long", "ref", "int" >>, << "long", "long" >>)
  /\ Moves(JVM_LDC_W, << "long" >>, << "long", "int" >>)
  /\ Moves(JVM_I2L, << "long", "int" >>, << "long", "long" >>)
  /\ Moves(JVM_LADD, << "long", "long" >>, << "long" >>)
  /\ Moves(JVM_LCMP, << "long", "long" >>, << "int" >>)
  /\ Moves(JVM_IFEQ, << "int" >>, << >>)
  /\ Moves(JVM_IFGT, << "int" >>, << >>)
  /\ Moves(JVM_GOTO_W, << >>, << >>)
  /\ Moves(JVM_RETURN, << >>, << >>)
  /\ Moves(JVM_POP2, << "long" >>, << >>)
  /\ Moves(JVM_LSTORE_2, << "long" >>, << >>)
  /\ Moves(JVM_LLOAD_2, << "ref", "int" >>, << "ref", "int", "long" >>)
  /\ Moves(JVM_LASTORE, << "ref", "int", "long" >>, << >>)
<1>0. \A x, y, z \in Kinds :
         /\ << x >> \o << y >> = << x, y >>
         /\ << x >> \o << y, z >> = << x, y, z >>
         /\ << x, y >> \o << z >> = << x, y, z >>
  BY SmallStacks
<1>1. /\ Operands(JVM_GETSTATIC) = << >> /\ Results(JVM_GETSTATIC) = << "ref" >>
      /\ Operands(JVM_INVOKEVIRTUAL) = << "ref" >> /\ Results(JVM_INVOKEVIRTUAL) = << "ref" >>
      /\ Operands(JVM_CHECKCAST) = << "ref" >> /\ Results(JVM_CHECKCAST) = << "ref" >>
      /\ Operands(JVM_ASTORE_1) = << "ref" >> /\ Results(JVM_ASTORE_1) = << >>
      /\ Operands(JVM_ALOAD_1) = << >> /\ Results(JVM_ALOAD_1) = << "ref" >>
      /\ Operands(JVM_BIPUSH) = << >> /\ Results(JVM_BIPUSH) = << "int" >>
      /\ Operands(JVM_LALOAD) = << "ref", "int" >> /\ Results(JVM_LALOAD) = << "long" >>
      /\ Operands(JVM_LDC_W) = << >> /\ Results(JVM_LDC_W) = << "int" >>
      /\ Operands(JVM_I2L) = << "int" >> /\ Results(JVM_I2L) = << "long" >>
      /\ Operands(JVM_LADD) = << "long", "long" >> /\ Results(JVM_LADD) = << "long" >>
      /\ Operands(JVM_LCMP) = << "long", "long" >> /\ Results(JVM_LCMP) = << "int" >>
      /\ Operands(JVM_IFEQ) = << "int" >> /\ Results(JVM_IFEQ) = << >>
      /\ Operands(JVM_IFGT) = << "int" >> /\ Results(JVM_IFGT) = << >>
      /\ Operands(JVM_GOTO_W) = << >> /\ Results(JVM_GOTO_W) = << >>
      /\ Operands(JVM_RETURN) = << >> /\ Results(JVM_RETURN) = << >>
      /\ Operands(JVM_POP2) = << "long" >> /\ Results(JVM_POP2) = << >>
      /\ Operands(JVM_LSTORE_2) = << "long" >> /\ Results(JVM_LSTORE_2) = << >>
      /\ Operands(JVM_LLOAD_2) = << >> /\ Results(JVM_LLOAD_2) = << "long" >>
      /\ Operands(JVM_LASTORE) = << "ref", "int", "long" >> /\ Results(JVM_LASTORE) = << >>
  BY DEF Operands, Results, JVM_BIPUSH, JVM_LDC_W, JVM_LLOAD_2, JVM_ALOAD_1, JVM_LALOAD,
         JVM_LSTORE_2, JVM_ASTORE_1, JVM_LASTORE, JVM_POP2, JVM_LADD, JVM_I2L, JVM_LCMP,
         JVM_IFEQ, JVM_IFGT, JVM_RETURN, JVM_GETSTATIC, JVM_INVOKEVIRTUAL, JVM_CHECKCAST,
         JVM_GOTO_W
<1>2. /\ << >> \in Seq(Kinds) /\ << "ref" >> \in Seq(Kinds) /\ << "int" >> \in Seq(Kinds)
      /\ << "long" >> \in Seq(Kinds) /\ << "ref", "int" >> \in Seq(Kinds)
      /\ << "long", "ref" >> \in Seq(Kinds) /\ << "long", "long" >> \in Seq(Kinds)
      /\ << "ref", "int", "long" >> \in Seq(Kinds)
      /\ "ref" \in Kinds /\ "int" \in Kinds /\ "long" \in Kinds
  BY DEF Kinds
<1>3. \A s \in Seq(Kinds) : s \o << >> = s /\ << >> \o s = s
  BY ConcatEmptySeq
<1>4. /\ << "ref" >> \o << "int" >> = << "ref", "int" >>
      /\ << "long" >> \o << "ref" >> = << "long", "ref" >>
      /\ << "long" >> \o << "int" >> = << "long", "int" >>
      /\ << "long" >> \o << "long" >> = << "long", "long" >>
      /\ << "long" >> \o << "ref", "int" >> = << "long", "ref", "int" >>
      /\ << "long", "ref" >> \o << "int" >> = << "long", "ref", "int" >>
      /\ << "ref", "int" >> \o << "long" >> = << "ref", "int", "long" >>
  BY <1>2, <1>0
<1>5. \A op, rest : rest \in Seq(Kinds) => Moves(op, rest \o Operands(op), rest \o Results(op))
  BY DEF Moves
<1>6. Moves(JVM_GETSTATIC, << >>, << "ref" >>)
  <2>. DEFINE rest == << >>
  <2>1. Moves(JVM_GETSTATIC, rest \o Operands(JVM_GETSTATIC), rest \o Results(JVM_GETSTATIC))
    BY <1>2, <1>5
  <2>. QED  BY <1>1, <1>2, <1>3, <1>4, <2>1
<1>7. Moves(JVM_INVOKEVIRTUAL, << "ref" >>, << "ref" >>)
  <2>. DEFINE rest == << >>
  <2>1. Moves(JVM_INVOKEVIRTUAL, rest \o Operands(JVM_INVOKEVIRTUAL),
              rest \o Results(JVM_INVOKEVIRTUAL))
    BY <1>2, <1>5
  <2>. QED  BY <1>1, <1>2, <1>3, <1>4, <2>1
<1>8. Moves(JVM_CHECKCAST, << "ref" >>, << "ref" >>)
  <2>. DEFINE rest == << >>
  <2>1. Moves(JVM_CHECKCAST, rest \o Operands(JVM_CHECKCAST), rest \o Results(JVM_CHECKCAST))
    BY <1>2, <1>5
  <2>. QED  BY <1>1, <1>2, <1>3, <1>4, <2>1
<1>9. Moves(JVM_ASTORE_1, << "ref" >>, << >>)
  <2>. DEFINE rest == << >>
  <2>1. Moves(JVM_ASTORE_1, rest \o Operands(JVM_ASTORE_1), rest \o Results(JVM_ASTORE_1))
    BY <1>2, <1>5
  <2>. QED  BY <1>1, <1>2, <1>3, <1>4, <2>1
<1>10. Moves(JVM_ALOAD_1, << >>, << "ref" >>)
  <2>. DEFINE rest == << >>
  <2>1. Moves(JVM_ALOAD_1, rest \o Operands(JVM_ALOAD_1), rest \o Results(JVM_ALOAD_1))
    BY <1>2, <1>5
  <2>. QED  BY <1>1, <1>2, <1>3, <1>4, <2>1
<1>11. Moves(JVM_ALOAD_1, << "long" >>, << "long", "ref" >>)
  <2>. DEFINE rest == << "long" >>
  <2>1. Moves(JVM_ALOAD_1, rest \o Operands(JVM_ALOAD_1), rest \o Results(JVM_ALOAD_1))
    BY <1>2, <1>5
  <2>. QED  BY <1>1, <1>2, <1>3, <1>4, <2>1
<1>12. Moves(JVM_BIPUSH, << "ref" >>, << "ref", "int" >>)
  <2>. DEFINE rest == << "ref" >>
  <2>1. Moves(JVM_BIPUSH, rest \o Operands(JVM_BIPUSH), rest \o Results(JVM_BIPUSH))
    BY <1>2, <1>5
  <2>. QED  BY <1>1, <1>2, <1>3, <1>4, <2>1
<1>13. Moves(JVM_BIPUSH, << "long", "ref" >>, << "long", "ref", "int" >>)
  <2>. DEFINE rest == << "long", "ref" >>
  <2>1. Moves(JVM_BIPUSH, rest \o Operands(JVM_BIPUSH), rest \o Results(JVM_BIPUSH))
    BY <1>2, <1>5
  <2>. QED  BY <1>1, <1>2, <1>3, <1>4, <2>1
<1>14. Moves(JVM_LALOAD, << "ref", "int" >>, << "long" >>)
  <2>. DEFINE rest == << >>
  <2>1. Moves(JVM_LALOAD, rest \o Operands(JVM_LALOAD), rest \o Results(JVM_LALOAD))
    BY <1>2, <1>5
  <2>. QED  BY <1>1, <1>2, <1>3, <1>4, <2>1
<1>15. Moves(JVM_LALOAD, << "long", "ref", "int" >>, << "long", "long" >>)
  <2>. DEFINE rest == << "long" >>
  <2>1. Moves(JVM_LALOAD, rest \o Operands(JVM_LALOAD), rest \o Results(JVM_LALOAD))
    BY <1>2, <1>5
  <2>. QED  BY <1>1, <1>2, <1>3, <1>4, <2>1
<1>16. Moves(JVM_LDC_W, << "long" >>, << "long", "int" >>)
  <2>. DEFINE rest == << "long" >>
  <2>1. Moves(JVM_LDC_W, rest \o Operands(JVM_LDC_W), rest \o Results(JVM_LDC_W))
    BY <1>2, <1>5
  <2>. QED  BY <1>1, <1>2, <1>3, <1>4, <2>1
<1>17. Moves(JVM_I2L, << "long", "int" >>, << "long", "long" >>)
  <2>. DEFINE rest == << "long" >>
  <2>1. Moves(JVM_I2L, rest \o Operands(JVM_I2L), rest \o Results(JVM_I2L))
    BY <1>2, <1>5
  <2>. QED  BY <1>1, <1>2, <1>3, <1>4, <2>1
<1>18. Moves(JVM_LADD, << "long", "long" >>, << "long" >>)
  <2>. DEFINE rest == << >>
  <2>1. Moves(JVM_LADD, rest \o Operands(JVM_LADD), rest \o Results(JVM_LADD))
    BY <1>2, <1>5
  <2>. QED  BY <1>1, <1>2, <1>3, <1>4, <2>1
<1>19. Moves(JVM_LCMP, << "long", "long" >>, << "int" >>)
  <2>. DEFINE rest == << >>
  <2>1. Moves(JVM_LCMP, rest \o Operands(JVM_LCMP), rest \o Results(JVM_LCMP))
    BY <1>2, <1>5
  <2>. QED  BY <1>1, <1>2, <1>3, <1>4, <2>1
<1>20. Moves(JVM_IFEQ, << "int" >>, << >>)
  <2>. DEFINE rest == << >>
  <2>1. Moves(JVM_IFEQ, rest \o Operands(JVM_IFEQ), rest \o Results(JVM_IFEQ))
    BY <1>2, <1>5
  <2>. QED  BY <1>1, <1>2, <1>3, <1>4, <2>1
<1>21. Moves(JVM_IFGT, << "int" >>, << >>)
  <2>. DEFINE rest == << >>
  <2>1. Moves(JVM_IFGT, rest \o Operands(JVM_IFGT), rest \o Results(JVM_IFGT))
    BY <1>2, <1>5
  <2>. QED  BY <1>1, <1>2, <1>3, <1>4, <2>1
<1>22. Moves(JVM_GOTO_W, << >>, << >>)
  <2>. DEFINE rest == << >>
  <2>1. Moves(JVM_GOTO_W, rest \o Operands(JVM_GOTO_W), rest \o Results(JVM_GOTO_W))
    BY <1>2, <1>5
  <2>. QED  BY <1>1, <1>2, <1>3, <1>4, <2>1
<1>23. Moves(JVM_RETURN, << >>, << >>)
  <2>. DEFINE rest == << >>
  <2>1. Moves(JVM_RETURN, rest \o Operands(JVM_RETURN), rest \o Results(JVM_RETURN))
    BY <1>2, <1>5
  <2>. QED  BY <1>1, <1>2, <1>3, <1>4, <2>1
<1>24. Moves(JVM_POP2, << "long" >>, << >>)
  <2>. DEFINE rest == << >>
  <2>1. Moves(JVM_POP2, rest \o Operands(JVM_POP2), rest \o Results(JVM_POP2))
    BY <1>2, <1>5
  <2>. QED  BY <1>1, <1>2, <1>3, <1>4, <2>1
<1>25. Moves(JVM_LSTORE_2, << "long" >>, << >>)
  <2>. DEFINE rest == << >>
  <2>1. Moves(JVM_LSTORE_2, rest \o Operands(JVM_LSTORE_2), rest \o Results(JVM_LSTORE_2))
    BY <1>2, <1>5
  <2>. QED  BY <1>1, <1>2, <1>3, <1>4, <2>1
<1>26. Moves(JVM_LLOAD_2, << "ref", "int" >>, << "ref", "int", "long" >>)
  <2>. DEFINE rest == << "ref", "int" >>
  <2>1. Moves(JVM_LLOAD_2, rest \o Operands(JVM_LLOAD_2), rest \o Results(JVM_LLOAD_2))
    BY <1>2, <1>5
  <2>. QED  BY <1>1, <1>2, <1>3, <1>4, <2>1
<1>27. Moves(JVM_LASTORE, << "ref", "int", "long" >>, << >>)
  <2>. DEFINE rest == << >>
  <2>1. Moves(JVM_LASTORE, rest \o Operands(JVM_LASTORE), rest \o Results(JVM_LASTORE))
    BY <1>2, <1>5
  <2>. QED  BY <1>1, <1>2, <1>3, <1>4, <2>1
<1>. QED
  BY <1>6, <1>7, <1>8, <1>9, <1>10, <1>11, <1>12, <1>13, <1>14, <1>15, <1>16, <1>17,
     <1>18, <1>19, <1>20, <1>21, <1>22, <1>23, <1>24, <1>25, <1>26, <1>27

(* An opcode of a width, that is no branch.                                 *)
IsStraight(op, width) ==
  /\ op \in Opcodes /\ Width(op) = width
  /\ op \notin {JVM_IFEQ, JVM_IFGT, JVM_GOTO_W}

(* The width of the opcodes that are no branches.                           *)
LEMMA Straight ==
  /\ IsStraight(JVM_GETSTATIC, 3) /\ IsStraight(JVM_INVOKEVIRTUAL, 3)
  /\ IsStraight(JVM_CHECKCAST, 3) /\ IsStraight(JVM_ASTORE_1, 1)
  /\ IsStraight(JVM_ALOAD_1, 1) /\ IsStraight(JVM_BIPUSH, 2) /\ IsStraight(JVM_LALOAD, 1)
  /\ IsStraight(JVM_LDC_W, 3) /\ IsStraight(JVM_I2L, 1) /\ IsStraight(JVM_LADD, 1)
  /\ IsStraight(JVM_LCMP, 1) /\ IsStraight(JVM_POP2, 1) /\ IsStraight(JVM_LSTORE_2, 1)
  /\ IsStraight(JVM_LLOAD_2, 1) /\ IsStraight(JVM_LASTORE, 1)
BY DEF IsStraight, Opcodes, Width, JVM_BIPUSH, JVM_LDC_W, JVM_LLOAD_2, JVM_ALOAD_1, JVM_LALOAD,
       JVM_LSTORE_2, JVM_ASTORE_1, JVM_LASTORE, JVM_POP2, JVM_LADD, JVM_I2L, JVM_LCMP,
       JVM_IFEQ, JVM_IFGT, JVM_RETURN, JVM_GETSTATIC, JVM_INVOKEVIRTUAL, JVM_CHECKCAST,
       JVM_GOTO_W

(* Operands and results are kinds.                                          *)
LEMMA OperandTypes ==
  ASSUME NEW op
  PROVE  Operands(op) \in Seq(Kinds) /\ Results(op) \in Seq(Kinds)
<1>1. /\ << >> \in Seq(Kinds) /\ << "ref" >> \in Seq(Kinds) /\ << "int" >> \in Seq(Kinds)
      /\ << "long" >> \in Seq(Kinds) /\ << "ref", "int" >> \in Seq(Kinds)
      /\ << "long", "long" >> \in Seq(Kinds) /\ << "ref", "int", "long" >> \in Seq(Kinds)
  BY DEF Kinds
<1>. QED  BY <1>1 DEF Operands, Results

(* What is left of a concatenation without its second part.                 *)
LEMMA WithoutLast ==
  ASSUME NEW S, NEW s \in Seq(S), NEW t \in Seq(S)
  PROVE  SubSeq(s \o t, 1, Len(s \o t) - Len(t)) = s
<1>1. /\ s \o t \in Seq(S) /\ Len(s \o t) = Len(s) + Len(t)
      /\ Len(s) \in Nat /\ Len(t) \in Nat
  BY ConcatProperties
<1>2. Len(s \o t) - Len(t) = Len(s)
  BY <1>1
<1>3. SubSeq(s \o t, 1, Len(s)) = s
  <2>1. CASE Len(s) = 0
    <3>1. SubSeq(s \o t, 1, 0) = << >>
      BY SubSeqEmpty
    <3>2. s = << >>
      BY <2>1
    <3>. QED  BY <2>1, <3>1, <3>2
  <2>2. CASE Len(s) # 0
    <3>1. 1 \in 1 .. Len(s) /\ Len(s) \in 1 .. Len(s)
      BY <1>1, <2>2
    <3>. QED  BY <3>1, SubSeqOfConcat1, SubSeqFull
  <2>. QED  BY <2>1, <2>2
<1>. QED  BY <1>2, <1>3

(* A stack of two values, or of three of which two are no longs, is small.  *)
LEMMA SlotsBound ==
  ASSUME NEW s \in Seq(Kinds), Len(s) <= 3,
         Len(s) = 3 => \E k \in 1 .. 3 : \A n \in 1 .. 3 : s[n] = "long" => n = k
  PROVE  Slots(s) <= 5
<1>. DEFINE L == {n \in DOMAIN s : s[n] = "long"}
<1>1. Len(s) \in Nat /\ DOMAIN s = 1 .. Len(s)
  <2>. HIDE DEF L
  <2>. QED  OBVIOUS
<1>2. L \in SUBSET (1 .. Len(s))
  BY <1>1
<1>3. IsFiniteSet(1 .. Len(s)) /\ Cardinality(1 .. Len(s)) = Len(s)
  <2>1. PICK a \in Int : a = 1
    OBVIOUS
  <2>0. Len(s) \in Int
    BY <1>1
  <2>2. PICK b : b = Len(s)
    OBVIOUS
  <2>3. IsFiniteSet(a .. b) /\ Cardinality(a .. b) = IF a > b THEN 0 ELSE b - a + 1
    BY <2>0, <2>2, FS_Interval
  <2>4. (IF a > b THEN 0 ELSE b - a + 1) = b
    BY <1>1, <2>1, <2>2
  <2>. QED  BY <2>1, <2>2, <2>3, <2>4
<1>4. Slots(s) = Len(s) + Cardinality(L)
  BY DEF Slots
<1>5. CASE Len(s) = 3
  <2>1. PICK k \in 1 .. 3 : \A n \in 1 .. 3 : s[n] = "long" => n = k
    BY <1>5
  <2>2. L \in SUBSET {k}
    BY <1>1, <1>5, <2>1
  <2>3. IsFiniteSet({k}) /\ Cardinality({k}) = 1
    BY FS_Singleton
  <2>4. Cardinality(L) <= 1 /\ Cardinality(L) \in Nat
    <3>. HIDE DEF L
    <3>. QED  BY <2>2, <2>3, FS_Subset, FS_CardinalityType, ZenonT(60)
  <2>. QED  BY <1>4, <1>5, <2>4
<1>6. CASE Len(s) # 3
  <2>1. Cardinality(L) <= Len(s) /\ Cardinality(L) \in Nat
    <3>. HIDE DEF L
    <3>. QED  BY <1>2, <1>3, FS_Subset, FS_CardinalityType
  <2>. QED  BY <1>1, <1>4, <1>6, <2>1
<1>. QED  BY <1>5, <1>6

(* What an element ever has on the stack.                                   *)
Stacks ==
  {<< >>, << "ref" >>, << "int" >>, << "long" >>, << "ref", "int" >>, << "long", "ref" >>,
   << "long", "int" >>, << "long", "long" >>, << "long", "ref", "int" >>,
   << "ref", "int", "long" >>}

(* None of it takes more than the five slots of max_stack.                  *)
LEMMA StacksAreSmall ==
  ASSUME NEW s \in Stacks
  PROVE  s \in Seq(Kinds) /\ Slots(s) <= 5
<1>1. ASSUME NEW x \in Kinds, NEW y \in Kinds,
             s = << >> \/ s = << x >> \/ s = << x, y >>
      PROVE  s \in Seq(Kinds) /\ Slots(s) <= 5
  <2>1. s \in Seq(Kinds) /\ Len(s) \in {0, 1, 2}
    <3>1. CASE s = << >>
      BY <3>1
    <3>2. CASE s = << x >>
      BY <3>2
    <3>3. CASE s = << x, y >>
      BY <3>3
    <3>. QED  BY <1>1, <3>1, <3>2, <3>3
  <2>2. \A n \in {0, 1, 2} : n <= 3 /\ n # 3
    OBVIOUS
  <2>3. Len(s) <= 3 /\ Len(s) # 3
    BY <2>1, <2>2, Zenon
  <2>. QED  BY <2>1, <2>3, SlotsBound
<1>2. CASE s = << "long", "ref", "int" >>
  <2>1. s \in Seq(Kinds)
    BY <1>2 DEF Kinds
  <2>2. Len(s) = 3 /\ s[2] # "long" /\ s[3] # "long"
    BY <1>2
  <2>3. \A n \in 1 .. 3 : s[n] = "long" => n = 1
    BY <2>2
  <2>4. Len(s) <= 3 /\ \E k \in 1 .. 3 : \A n \in 1 .. 3 : s[n] = "long" => n = k
    BY <2>2, <2>3
  <2>. QED  BY <2>1, <2>4, SlotsBound
<1>3. CASE s = << "ref", "int", "long" >>
  <2>1. s \in Seq(Kinds)
    BY <1>3 DEF Kinds
  <2>2. Len(s) = 3 /\ s[1] # "long" /\ s[2] # "long"
    BY <1>3
  <2>3. \A n \in 1 .. 3 : s[n] = "long" => n = 3
    BY <2>2
  <2>4. Len(s) <= 3 /\ \E k \in 1 .. 3 : \A n \in 1 .. 3 : s[n] = "long" => n = k
    BY <2>2, <2>3
  <2>. QED  BY <2>1, <2>4, SlotsBound
<1>4. "ref" \in Kinds /\ "int" \in Kinds /\ "long" \in Kinds
  BY DEF Kinds
<1>. QED  BY <1>1, <1>2, <1>3, <1>4 DEF Stacks


-----------------------------------------------------------------------------
(* Where the store of an element that starts at s is.                       *)
StorePlace(e, s) == IF IsAddi(e) THEN s + 9 ELSE s + 8 + Len(Operation(e))

(* The opcodes of an element, where they are, and the registers they name.  *)
Loads(r, place) ==
  /\ place + 4 <= Len(code)
  /\ At(code, place) = JVM_ALOAD_1
  /\ At(code, place + 1) = JVM_BIPUSH
  /\ At(code, place + 2) = r
  /\ At(code, place + 3) = JVM_LALOAD

StoreLength(r) == IF r = X0 THEN 1 ELSE 6

(* The code of a store, X0 being thrown away.                               *)
Stores(r, place) ==
  /\ place + StoreLength(r) <= Len(code)
  /\ r = X0 => At(code, place) = JVM_POP2
  /\ r # X0 => /\ At(code, place) = JVM_LSTORE_2
               /\ At(code, place + 1) = JVM_ALOAD_1
               /\ At(code, place + 2) = JVM_BIPUSH
               /\ At(code, place + 3) = r
               /\ At(code, place + 4) = JVM_LLOAD_2
               /\ At(code, place + 5) = JVM_LASTORE

(* Four pieces of code, one after the other.                                *)
LEMMA FourParts ==
  ASSUME TypeOK, NEW place \in Nat, NEW a \in Seq(Byte), NEW b \in Seq(Byte),
         NEW c \in Seq(Byte), NEW d \in Seq(Byte), CodeAt(place, a \o b \o c \o d)
  PROVE  /\ CodeAt(place, a) /\ CodeAt(place + Len(a), b)
         /\ CodeAt(place + (Len(a) + Len(b)), c)
         /\ CodeAt(place + (Len(a) + Len(b) + Len(c)), d)
         /\ Len(a \o b \o c \o d) = Len(a) + Len(b) + Len(c) + Len(d)
         /\ Len(a) \in Nat /\ Len(b) \in Nat /\ Len(c) \in Nat /\ Len(d) \in Nat
<1>1. PICK ab : ab = a \o b
  OBVIOUS
<1>2. PICK abc : abc = ab \o c
  OBVIOUS
<1>3. ab \in Seq(Byte) /\ Len(ab) = Len(a) + Len(b)
  BY <1>1, ConcatType, ConcatBytes
<1>4. abc \in Seq(Byte) /\ Len(abc) = Len(ab) + Len(c)
  BY <1>2, <1>3, ConcatType, ConcatBytes
<1>5. Len(abc \o d) = Len(abc) + Len(d)
  BY <1>4, ConcatBytes
<1>6. code \in Seq(Byte) /\ Len(a) \in Nat /\ Len(b) \in Nat /\ Len(c) \in Nat /\ Len(d) \in Nat
  BY DEF TypeOK
<1>7. BytesAt(code, place, abc) /\ BytesAt(code, place + Len(abc), d)
  <2>1. BytesAt(code, place, abc \o d)
    BY <1>1, <1>2 DEF CodeAt
  <2>. QED  BY <1>4, <1>6, <2>1, BytesAtParts
<1>8. BytesAt(code, place, ab) /\ BytesAt(code, place + Len(ab), c)
  BY <1>2, <1>3, <1>6, <1>7, BytesAtParts
<1>9. BytesAt(code, place, a) /\ BytesAt(code, place + Len(a), b)
  BY <1>1, <1>6, <1>8, BytesAtParts
<1>10. Len(a \o b \o c \o d) = Len(a) + Len(b) + Len(c) + Len(d)
  BY <1>1, <1>2, <1>3, <1>4, <1>5
<1>. QED  BY <1>3, <1>4, <1>6, <1>7, <1>8, <1>9, <1>10 DEF CodeAt

(* Reading a byte of a piece of code.                                       *)
LEMMA ByteAt ==
  ASSUME TypeOK, NEW place \in Nat, NEW bytes \in Seq(Byte), CodeAt(place, bytes)
  PROVE  /\ place + Len(bytes) <= Len(code)
         /\ \A n \in 0 .. Len(bytes) - 1 : At(code, place + n) = bytes[n + 1]
<1>1. place + Len(bytes) <= Len(code)
  BY DEF CodeAt, BytesAt
<1>2. ASSUME NEW n \in 0 .. Len(bytes) - 1 PROVE At(code, place + n) = bytes[n + 1]
  <2>1. n + 1 \in 1 .. Len(bytes) /\ place + n + 1 = place + (n + 1)
    OBVIOUS
  <2>. QED  BY <2>1 DEF CodeAt, BytesAt, At
<1>. QED  BY <1>1, <1>2

(* Loading a register.                                                      *)
LEMMA LoadRegisterAt ==
  ASSUME TypeOK, NEW place \in Nat, NEW r \in Registers, CodeAt(place, LoadRegister(r))
  PROVE  Loads(r, place)
<1>1. PICK bytes : bytes = LoadRegister(r)
  OBVIOUS
<1>2. bytes \in Seq(Byte) /\ CodeAt(place, bytes)
  BY <1>1, LoadRegisterType
<1>3. /\ Len(bytes) = 4 /\ bytes[1] = JVM_ALOAD_1 /\ bytes[2] = JVM_BIPUSH /\ bytes[3] = r
      /\ bytes[4] = JVM_LALOAD
  BY <1>1 DEF LoadRegister
<1>4. /\ place + Len(bytes) <= Len(code)
      /\ \A n \in 0 .. Len(bytes) - 1 : At(code, place + n) = bytes[n + 1]
  BY <1>2, ByteAt
<1>5. At(code, place + 0) = bytes[0 + 1] /\ At(code, place + 1) = bytes[1 + 1]
      /\ At(code, place + 2) = bytes[2 + 1] /\ At(code, place + 3) = bytes[3 + 1]
  BY <1>3, <1>4
<1>. QED  BY <1>3, <1>4, <1>5 DEF Loads

(* Storing a register.                                                      *)
LEMMA StoreRegisterAt ==
  ASSUME TypeOK, NEW place \in Nat, NEW r \in Registers, CodeAt(place, StoreRegister(r))
  PROVE  Stores(r, place) /\ Len(StoreRegister(r)) = StoreLength(r)
<1>1. PICK bytes : bytes = StoreRegister(r)
  OBVIOUS
<1>2. bytes \in Seq(Byte) /\ CodeAt(place, bytes)
  BY <1>1, StoreRegisterType
<1>3. /\ place + Len(bytes) <= Len(code)
      /\ \A n \in 0 .. Len(bytes) - 1 : At(code, place + n) = bytes[n + 1]
  BY <1>2, ByteAt
<1>4. CASE r = X0
  <2>1. Len(bytes) = 1 /\ bytes[1] = JVM_POP2
    BY <1>1, <1>4 DEF StoreRegister
  <2>2. At(code, place + 0) = bytes[0 + 1]
    BY <1>3, <2>1
  <2>3. At(code, place) = JVM_POP2 /\ StoreLength(r) = 1
    BY <1>4, <2>1, <2>2 DEF StoreLength
  <2>4. Stores(r, place)
    BY <1>3, <1>4, <2>1, <2>3 DEF Stores
  <2>. QED  BY <1>1, <2>1, <2>3, <2>4
<1>5. CASE r # X0
  <2>1. /\ Len(bytes) = 6 /\ bytes[1] = JVM_LSTORE_2 /\ bytes[2] = JVM_ALOAD_1
        /\ bytes[3] = JVM_BIPUSH /\ bytes[4] = r /\ bytes[5] = JVM_LLOAD_2
        /\ bytes[6] = JVM_LASTORE
    BY <1>1, <1>5 DEF StoreRegister
  <2>2. /\ At(code, place + 0) = bytes[0 + 1] /\ At(code, place + 1) = bytes[1 + 1]
        /\ At(code, place + 2) = bytes[2 + 1] /\ At(code, place + 3) = bytes[3 + 1]
        /\ At(code, place + 4) = bytes[4 + 1] /\ At(code, place + 5) = bytes[5 + 1]
    BY <1>3, <2>1
  <2>3. /\ At(code, place) = JVM_LSTORE_2 /\ At(code, place + 1) = JVM_ALOAD_1
        /\ At(code, place + 2) = JVM_BIPUSH /\ At(code, place + 3) = r
        /\ At(code, place + 4) = JVM_LLOAD_2
        /\ At(code, place + 5) = JVM_LASTORE /\ StoreLength(r) = 6
    BY <1>5, <2>1, <2>2 DEF StoreLength
  <2>4. Stores(r, place)
    BY <1>3, <1>5, <2>1, <2>3 DEF Stores
  <2>. QED  BY <1>1, <2>1, <2>3, <2>4
<1>. QED  BY <1>4, <1>5

(* The method is finished, and all that is proved of it.                    *)
Compiled == TypeOK /\ LayoutInv /\ ShapeInv /\ pc = "done" /\ CodeFits

(* What is known of every element of a finished method.                     *)
LEMMA CompiledTypes ==
  ASSUME Compiled, NEW m \in DOMAIN ir
  PROVE  /\ TypeOK /\ Layout /\ Shape /\ DOMAIN starts = DOMAIN ir /\ m \in DOMAIN starts
         /\ m \in Nat /\ ir[m] \in Elements /\ starts[m] \in Nat /\ End(m) \in Nat
         /\ Len(ir) \in DOMAIN ir /\ Len(ir) \in Nat /\ DOMAIN ir = 1 .. Len(ir) /\ m <= Len(ir)
         /\ Len(code) \in Nat /\ End(m) <= Len(code) /\ starts[m] <= End(m)
         /\ ElementAt(m)
<1>1. TypeOK /\ Layout /\ Shape /\ DOMAIN starts = DOMAIN ir
  BY Finished DEF Compiled, ShapeInv
<1>2. Len(ir) \in DOMAIN ir /\ Len(ir) \in Nat /\ DOMAIN ir = 1 .. Len(ir) /\ Len(code) \in Nat
  BY <1>1 DEF TypeOK, IsProgram
<1>3. m \in DOMAIN starts
  BY <1>1
<1>4. /\ m \in Nat /\ ir[m] \in Elements /\ starts[m] \in Nat /\ End(m) \in Nat
      /\ End(m) <= Len(code) /\ starts[m] <= End(m) /\ ElementAt(m)
  BY <1>1, <1>3, PlacedTypes DEF Layout, InOrder, Shape
<1>5. m <= Len(ir)
  BY <1>2
<1>. QED  BY <1>1, <1>2, <1>3, <1>4, <1>5

(* The opcodes of an R3 instruction.                                        *)
LEMMA R3Opcodes ==
  ASSUME Compiled, NEW m \in DOMAIN ir, IsR3(ir[m])
  PROVE  /\ Loads(ir[m].rs1, starts[m]) /\ Loads(ir[m].rs2, starts[m] + 4)
         /\ ir[m].mnemonic = "ADD" => At(code, starts[m] + 8) = JVM_LADD
                                      /\ StorePlace(ir[m], starts[m]) = starts[m] + 9
         /\ ir[m].mnemonic # "ADD" => StorePlace(ir[m], starts[m]) = starts[m] + 8
         /\ Stores(ir[m].rd, StorePlace(ir[m], starts[m]))
         /\ End(m) = StorePlace(ir[m], starts[m]) + StoreLength(ir[m].rd)
<1>. DEFINE s == starts[m]
            a == LoadRegister(ir[m].rs1)
            b == LoadRegister(ir[m].rs2)
            c == Operation(ir[m])
            d == StoreRegister(ir[m].rd)
<1>1. TypeOK /\ ir[m] \in Elements /\ s \in Nat /\ ElementAt(m)
  BY CompiledTypes
<1>2. ir[m].rs1 \in Registers /\ ir[m].rs2 \in Registers /\ ir[m].rd \in Registers
  BY <1>1, ElementFacts DEF IsR3
<1>3. a \in Seq(Byte) /\ b \in Seq(Byte) /\ d \in Seq(Byte)
  BY <1>2, LoadRegisterType, StoreRegisterType
<1>4. c \in Seq(Byte) /\ Len(c) = IF ir[m].mnemonic = "ADD" THEN 1 ELSE 0
  <2>1. << JVM_LADD >> \in Seq(Byte) /\ Len(<< JVM_LADD >>) = 1
    BY DEF JVM_LADD, Byte
  <2>2. << >> \in Seq(Byte) /\ Len(<< >>) = 0
    OBVIOUS
  <2>. QED  BY <2>1, <2>2 DEF Operation
<1>5. Len(a) = 4 /\ Len(b) = 4
  BY DEF LoadRegister
<1>6. CodeAt(s, a \o b \o c \o d) /\ End(m) = s + Len(a \o b \o c \o d)
  BY <1>1 DEF ElementAt, IsCodeOf, R3Bytes
<1>7. ir[m].mnemonic = "ADD" => c[1] = JVM_LADD
  BY DEF Operation
<1>8. StorePlace(ir[m], starts[m]) = s + 8 + Len(c)
  BY DEF StorePlace, IsR3, IsAddi
<1>. HIDE DEF a, b, c, d
<1>9. /\ CodeAt(s, a) /\ CodeAt(s + Len(a), b)
      /\ CodeAt(s + (Len(a) + Len(b)), c)
      /\ CodeAt(s + (Len(a) + Len(b) + Len(c)), d)
      /\ Len(a \o b \o c \o d) = Len(a) + Len(b) + Len(c) + Len(d)
      /\ Len(c) \in Nat /\ Len(d) \in Nat
  <2>1. /\ TypeOK /\ s \in Nat /\ CodeAt(s, a \o b \o c \o d)
        /\ a \in Seq(Byte) /\ b \in Seq(Byte) /\ c \in Seq(Byte) /\ d \in Seq(Byte)
    BY <1>1, <1>3, <1>4, <1>6
  <2>. HIDE DEF s
  <2>. QED  BY <2>1, FourParts
<1>10. /\ s + Len(a) = s + 4 /\ s + (Len(a) + Len(b)) = s + 8
       /\ s + (Len(a) + Len(b) + Len(c)) = StorePlace(ir[m], starts[m])
       /\ s + 4 \in Nat /\ s + 8 \in Nat /\ StorePlace(ir[m], starts[m]) \in Nat
  <2>. HIDE DEF s
  <2>. QED  BY <1>1, <1>5, <1>8, <1>9
<1>11. CodeAt(s + 4, b) /\ CodeAt(s + 8, c) /\ CodeAt(StorePlace(ir[m], starts[m]), d)
  BY <1>9, <1>10
<1>12. Loads(ir[m].rs1, s) /\ Loads(ir[m].rs2, s + 4)
  BY <1>1, <1>2, <1>9, <1>10, <1>11, LoadRegisterAt DEF a, b
<1>13. Stores(ir[m].rd, StorePlace(ir[m], starts[m])) /\ Len(d) = StoreLength(ir[m].rd)
  BY <1>1, <1>2, <1>10, <1>11, StoreRegisterAt DEF d
<1>14. ASSUME ir[m].mnemonic = "ADD" PROVE At(code, s + 8) = JVM_LADD
  <2>1. \A n \in 0 .. Len(c) - 1 : At(code, s + 8 + n) = c[n + 1]
    BY <1>1, <1>4, <1>10, <1>11, ByteAt
  <2>2. Len(c) = 1
    BY <1>4, <1>14
  <2>3. At(code, s + 8 + 0) = c[0 + 1] /\ s + 8 + 0 = s + 8
    BY <1>1, <2>1, <2>2
  <2>. QED  BY <1>7, <1>14, <2>3
<1>15. End(m) = StorePlace(ir[m], starts[m]) + Len(d)
  BY <1>1, <1>5, <1>6, <1>8, <1>9
<1>. QED  BY <1>1, <1>4, <1>8, <1>12, <1>13, <1>14, <1>15

(* The opcodes of an ADDI.                                                  *)
LEMMA AddiOpcodes ==
  ASSUME Compiled, NEW m \in DOMAIN ir, IsAddi(ir[m])
  PROVE  /\ Loads(ir[m].rs1, starts[m])
         /\ At(code, starts[m] + 4) = JVM_LDC_W
         /\ At(code, starts[m] + 7) = JVM_I2L
         /\ At(code, starts[m] + 8) = JVM_LADD
         /\ StorePlace(ir[m], starts[m]) = starts[m] + 9
         /\ Stores(ir[m].rd, StorePlace(ir[m], starts[m]))
         /\ End(m) = StorePlace(ir[m], starts[m]) + StoreLength(ir[m].rd)
<1>1. TypeOK /\ ir[m] \in Elements /\ starts[m] \in Nat /\ ElementAt(m)
  BY CompiledTypes
<1>2. PICK index \in Int : IsCodeOf(m, AddiBytes(ir[m], index))
  BY <1>1 DEF ElementAt
<1>. DEFINE s == starts[m]
            a == LoadRegister(ir[m].rs1)
            b == LoadConstantBytes(index)
            c == << JVM_LADD >>
            d == StoreRegister(ir[m].rd)
<1>3. ir[m].rs1 \in Registers /\ ir[m].rd \in Registers
  BY <1>1, ElementFacts DEF IsAddi
<1>4. a \in Seq(Byte) /\ b \in Seq(Byte) /\ d \in Seq(Byte)
  BY <1>3, LoadRegisterType, LoadConstantType, StoreRegisterType
<1>5. c \in Seq(Byte) /\ Len(c) = 1 /\ c[1] = JVM_LADD
  BY DEF JVM_LADD, Byte
<1>6. Len(a) = 4
  BY DEF LoadRegister
<1>7. Len(b) = 4 /\ b[1] = JVM_LDC_W /\ b[4] = JVM_I2L
  <2>1. PICK u : u = << JVM_LDC_W >>
    OBVIOUS
  <2>2. PICK v : v = Bytes2(index)
    OBVIOUS
  <2>3. PICK w : w = << JVM_I2L >>
    OBVIOUS
  <2>4. u \in Seq(Byte) /\ w \in Seq(Byte)
    BY <2>1, <2>3 DEF JVM_LDC_W, JVM_I2L, Byte
  <2>5. v \in Seq(Byte)
    BY <2>2, BytesAreBytes
  <2>6. Len(u) = 1 /\ u[1] = JVM_LDC_W /\ Len(w) = 1 /\ w[1] = JVM_I2L /\ Len(v) = 2
    BY <2>1, <2>2, <2>3 DEF Bytes2
  <2>7. PICK uv : uv = u \o v
    OBVIOUS
  <2>8. uv \in Seq(Byte) /\ Len(uv) = Len(u) + Len(v) /\ \A n \in 1 .. Len(u) : uv[n] = u[n]
    BY <2>4, <2>5, <2>7, ConcatType, ConcatBytes
  <2>9. b = uv \o w
    BY <2>1, <2>2, <2>3, <2>7 DEF LoadConstantBytes
  <2>. HIDE DEF b
  <2>10. /\ Len(b) = Len(uv) + Len(w) /\ \A n \in 1 .. Len(uv) : b[n] = uv[n]
         /\ \A n \in 1 .. Len(w) : b[Len(uv) + n] = w[n]
    BY <2>4, <2>8, <2>9, ConcatBytes
  <2>11. Len(uv) = 3 /\ 1 \in 1 .. Len(u) /\ 1 \in 1 .. Len(uv) /\ 1 \in 1 .. Len(w)
    BY <2>6, <2>8
  <2>12. b[3 + 1] = w[1] /\ b[1] = u[1] /\ Len(b) = 4
    BY <2>6, <2>8, <2>10, <2>11
  <2>. QED  BY <2>6, <2>12
<1>8. CodeAt(s, a \o b \o c \o d) /\ End(m) = s + Len(a \o b \o c \o d)
  BY <1>2 DEF IsCodeOf, AddiBytes
<1>9. StorePlace(ir[m], starts[m]) = s + 9
  BY DEF StorePlace
<1>. HIDE DEF a, b, c, d
<1>10. /\ CodeAt(s, a) /\ CodeAt(s + Len(a), b)
       /\ CodeAt(s + (Len(a) + Len(b)), c)
       /\ CodeAt(s + (Len(a) + Len(b) + Len(c)), d)
       /\ Len(a \o b \o c \o d) = Len(a) + Len(b) + Len(c) + Len(d)
       /\ Len(d) \in Nat
  <2>1. /\ TypeOK /\ s \in Nat /\ CodeAt(s, a \o b \o c \o d)
        /\ a \in Seq(Byte) /\ b \in Seq(Byte) /\ c \in Seq(Byte) /\ d \in Seq(Byte)
    BY <1>1, <1>4, <1>5, <1>8
  <2>. HIDE DEF s
  <2>. QED  BY <2>1, FourParts
<1>11. /\ s + Len(a) = s + 4 /\ s + (Len(a) + Len(b)) = s + 8
       /\ s + (Len(a) + Len(b) + Len(c)) = s + 9
       /\ s + 4 \in Nat /\ s + 8 \in Nat /\ s + 9 \in Nat
  BY <1>1, <1>5, <1>6, <1>7, <1>10
<1>12. CodeAt(s + 4, b) /\ CodeAt(s + 8, c) /\ CodeAt(s + 9, d)
  BY <1>10, <1>11
<1>13. Loads(ir[m].rs1, s)
  BY <1>1, <1>3, <1>10, LoadRegisterAt DEF a
<1>14. Stores(ir[m].rd, s + 9) /\ Len(d) = StoreLength(ir[m].rd)
  BY <1>1, <1>3, <1>11, <1>12, StoreRegisterAt DEF d
<1>15. At(code, s + 4) = JVM_LDC_W /\ At(code, s + 7) = JVM_I2L
  <2>1. \A n \in 0 .. Len(b) - 1 : At(code, s + 4 + n) = b[n + 1]
    BY <1>1, <1>4, <1>11, <1>12, ByteAt
  <2>2. At(code, s + 4 + 0) = b[0 + 1] /\ At(code, s + 4 + 3) = b[3 + 1]
    BY <1>7, <2>1
  <2>3. s + 4 + 0 = s + 4 /\ s + 4 + 3 = s + 7
    BY <1>1
  <2>. QED  BY <1>7, <2>2, <2>3
<1>16. At(code, s + 8) = JVM_LADD
  <2>1. \A n \in 0 .. Len(c) - 1 : At(code, s + 8 + n) = c[n + 1]
    BY <1>1, <1>5, <1>11, <1>12, ByteAt
  <2>2. At(code, s + 8 + 0) = c[0 + 1] /\ s + 8 + 0 = s + 8
    BY <1>1, <1>5, <2>1
  <2>. QED  BY <1>5, <2>2
<1>17. End(m) = s + 9 + Len(d)
  BY <1>1, <1>5, <1>6, <1>7, <1>8, <1>10, SMTT(30)
<1>. QED  BY <1>9, <1>13, <1>14, <1>15, <1>16, <1>17

(* The opcodes of a jump, and where it goes.                                *)
LEMMA JumpOpcodes ==
  ASSUME Compiled, NEW m \in DOMAIN ir, IsJump(ir[m])
  PROVE  /\ Loads(ir[m].rd, starts[m]) /\ Loads(ir[m].rs1, starts[m] + 4)
         /\ At(code, starts[m] + 8) = JVM_LCMP
         /\ At(code, starts[m] + 9) \in {JVM_IFEQ, JVM_IFGT}
         /\ At(code, starts[m] + 9) = SkipOpcode(ir[m])
         /\ starts[m] + 9 + S2At(code, starts[m] + 10) = End(m)
         /\ At(code, starts[m] + 12) = JVM_GOTO_W
         /\ starts[m] + 12 + S4At(code, starts[m] + 13) = LabelStart(ir[m].label)
         /\ \E k \in DOMAIN ir : starts[m] + 12 + S4At(code, starts[m] + 13) = starts[k]
         /\ End(m) = starts[m] + 17
<1>. DEFINE s == starts[m]
            a == LoadRegister(ir[m].rd)
            b == LoadRegister(ir[m].rs1)
            c == << JVM_LCMP >>
            d == Skip(ir[m])
<1>1. /\ TypeOK /\ ir[m] \in Elements /\ s \in Nat /\ ElementAt(m) /\ Layout /\ m \in DOMAIN starts
      /\ DOMAIN starts = DOMAIN ir
  BY CompiledTypes
<1>2. IsConditional(ir[m])
  <2>1. IsInstruction(ir[m]) /\ ir[m].format = "R1_OP" => ir[m].mnemonic # "J"
    BY <1>1 DEF Elements, InstructionElements, LabelElements, R3Elements, R2ImmElements,
                R2LabelElements, R1ImmElements, R1LabelElements, MemElements, Eof,
                R1OpMnemonics, IsInstruction
  <2>. QED  BY <2>1 DEF IsJump
<1>3. ir[m].rs1 \in Registers /\ ir[m].rd \in Registers
  BY <1>1, <1>2, ElementFacts DEF IsConditional
<1>4. a \in Seq(Byte) /\ b \in Seq(Byte) /\ Len(a) = 4 /\ Len(b) = 4
  <2>1. a \in Seq(Byte) /\ b \in Seq(Byte)
    BY <1>3, LoadRegisterType
  <2>. QED  BY <2>1 DEF LoadRegister
<1>5. c \in Seq(Byte) /\ Len(c) = 1 /\ c[1] = JVM_LCMP
  BY DEF JVM_LCMP, Byte
<1>6. /\ JumpPrefix(ir[m]) \in Seq(Byte) /\ d \in Seq(Byte)
      /\ Compare(ir[m]) \in Seq(Byte) /\ JumpPrefix(ir[m]) = Compare(ir[m]) \o d
      /\ Len(JumpPrefix(ir[m])) = Len(Compare(ir[m])) + 3
      /\ << JVM_GOTO_W >> \in Seq(Byte)
  BY <1>1, <1>2, JumpLengths
<1>7. CodeAt(s, JumpPrefix(ir[m])) /\ End(m) = JumpOpcode(m) + 5
  <2>1. CodeAt(s, JumpPrefix(ir[m]) \o << JVM_GOTO_W >>) /\ End(m) = JumpOpcode(m) + 5
    BY <1>1 DEF Layout, CodePlaced, JumpAt, GotoOf
  <2>2. PICK prefix : prefix = JumpPrefix(ir[m])
    OBVIOUS
  <2>3. PICK last : last = << JVM_GOTO_W >>
    OBVIOUS
  <2>4. code \in Seq(Byte) /\ prefix \in Seq(Byte) /\ last \in Seq(Byte)
        /\ BytesAt(code, s, prefix \o last)
    BY <1>6, <2>1, <2>2, <2>3 DEF TypeOK, CodeAt, Compiled
  <2>5. BytesAt(code, s, prefix)
    BY <1>1, <2>4, BytesAtParts
  <2>. QED  BY <2>1, <2>2, <2>5 DEF CodeAt
<1>8. Compare(ir[m]) = a \o b \o c /\ JumpPrefix(ir[m]) = a \o b \o c \o d
  BY <1>6 DEF Compare
<1>9. Len(Compare(ir[m])) = 9
  <2>. HIDE DEF a, b, c
  <2>1. a \o b \in Seq(Byte) /\ Len(a \o b) = Len(a) + Len(b)
    BY <1>4, ConcatType, ConcatBytes
  <2>2. Len((a \o b) \o c) = Len(a \o b) + Len(c)
    BY <1>5, <2>1, ConcatBytes
  <2>. QED  BY <1>4, <1>5, <1>8, <2>1, <2>2
<1>. HIDE DEF a, b, c, d
<1>10. /\ CodeAt(s, a) /\ CodeAt(s + Len(a), b)
       /\ CodeAt(s + (Len(a) + Len(b)), c)
  <2>1. /\ TypeOK /\ s \in Nat /\ CodeAt(s, a \o b \o c \o d)
        /\ a \in Seq(Byte) /\ b \in Seq(Byte) /\ c \in Seq(Byte) /\ d \in Seq(Byte)
    BY <1>1, <1>4, <1>5, <1>6, <1>7, <1>8
  <2>. HIDE DEF s
  <2>. QED  BY <2>1, FourParts
<1>11. /\ s + Len(a) = s + 4 /\ s + (Len(a) + Len(b)) = s + 8 /\ s + 4 \in Nat /\ s + 8 \in Nat
  BY <1>1, <1>4
<1>12. CodeAt(s + 4, b) /\ CodeAt(s + 8, c)
  BY <1>10, <1>11
<1>13. Loads(ir[m].rd, s) /\ Loads(ir[m].rs1, s + 4)
  BY <1>1, <1>3, <1>10, <1>11, <1>12, LoadRegisterAt DEF a, b
<1>14. At(code, s + 8) = JVM_LCMP
  <2>1. \A n \in 0 .. Len(c) - 1 : At(code, s + 8 + n) = c[n + 1]
    BY <1>1, <1>5, <1>11, <1>12, ByteAt
  <2>2. At(code, s + 8 + 0) = c[0 + 1] /\ s + 8 + 0 = s + 8
    BY <1>1, <1>5, <2>1
  <2>. QED  BY <1>5, <2>2
<1>15. JumpLands(m) /\ SkipLands(m)
  <2>1. BranchesLand
    BY BranchesCorrect DEF Compiled
  <2>. QED  BY <1>2, <2>1 DEF BranchesLand, Compiled
<1>16. JumpOpcode(m) = s + 12
  BY <1>1, <1>6, <1>9 DEF JumpOpcode
<1>17. s + 12 + 1 = s + 13 /\ s + 9 + 1 = s + 10 /\ s + 12 + 5 = s + 17
  BY <1>1
<1>18. /\ At(code, s + 12) = JVM_GOTO_W /\ s + 12 + S4At(code, s + 13) = LabelStart(ir[m].label)
       /\ End(m) = s + 17
  BY <1>7, <1>15, <1>16, <1>17 DEF JumpLands
<1>19. \E k \in DOMAIN ir : LabelStart(ir[m].label) = starts[k]
  BY Finished DEF Compiled
<1>20. m + 1 \in DOMAIN starts /\ End(m) = starts[m + 1]
  <2>1. ~IsEof(ir[m])
    BY <1>2 DEF IsConditional, IsInstruction, IsEof
  <2>2. m + 1 \in DOMAIN ir
    BY <2>1, NextElementExists DEF Compiled, TypeOK
  <2>. QED  BY <1>1, <2>2 DEF End
<1>21. At(code, s + 9) = SkipOpcode(ir[m]) /\ s + 9 + S2At(code, s + 10) = starts[m + 1]
  BY <1>9, <1>15, <1>17 DEF SkipLands
<1>. QED  BY <1>13, <1>14, <1>18, <1>19, <1>20, <1>21 DEF SkipOpcode

(* The opcodes the method begins with.                                      *)
LEMMA PrologueOpcodes ==
  ASSUME Compiled
  PROVE  /\ At(code, 0) = JVM_GETSTATIC /\ At(code, 3) = JVM_INVOKEVIRTUAL
         /\ At(code, 6) = JVM_CHECKCAST /\ At(code, 9) = JVM_ASTORE_1
         /\ 10 <= Len(code) /\ 1 \in DOMAIN ir /\ starts[1] = 10
<1>. DEFINE a == << JVM_GETSTATIC >>
            b == Bytes2(REGISTERS_FIELDREF)
            c == << JVM_INVOKEVIRTUAL >>
            d == Bytes2(THREAD_LOCAL_GET_METHODREF)
            e == << JVM_CHECKCAST >>
            f == Bytes2(LONG_ARRAY_CLASS)
            g == << JVM_ASTORE_1 >>
<1>1. /\ a \in Seq(Byte) /\ c \in Seq(Byte) /\ e \in Seq(Byte) /\ g \in Seq(Byte)
      /\ Len(a) = 1 /\ Len(c) = 1 /\ Len(e) = 1 /\ Len(g) = 1
      /\ a[1] = JVM_GETSTATIC /\ c[1] = JVM_INVOKEVIRTUAL
      /\ e[1] = JVM_CHECKCAST /\ g[1] = JVM_ASTORE_1
  BY DEF Byte, JVM_GETSTATIC, JVM_INVOKEVIRTUAL, JVM_CHECKCAST, JVM_ASTORE_1
<1>2. b \in Seq(Byte) /\ d \in Seq(Byte) /\ f \in Seq(Byte)
  BY BytesAreBytes
  DEF REGISTERS_FIELDREF, THREAD_LOCAL_GET_METHODREF, LONG_ARRAY_CLASS
<1>3. Len(b) = 2 /\ Len(d) = 2 /\ Len(f) = 2
  BY DEF Bytes2
<1>4. TypeOK /\ Shape /\ 1 \in DOMAIN ir /\ DOMAIN starts = DOMAIN ir
  <2>1. \E m : m \in DOMAIN ir
    BY DEF Compiled, TypeOK, IsProgram
  <2>2. Len(ir) \in DOMAIN ir /\ DOMAIN ir = 1 .. Len(ir) /\ Len(ir) \in Nat
    BY <2>1, CompiledTypes
  <2>3. 1 \in DOMAIN ir
    BY <2>2
  <2>. QED  BY <2>3, CompiledTypes
<1>5. starts # << >>
  BY <1>4
<1>6. CodeAt(0, a \o b \o c \o d \o e \o f \o g) /\ starts[1] = 10
  BY <1>4, <1>5 DEF Shape, LoadRegistersIntoLocal, PrologueLength
<1>. HIDE DEF a, b, c, d, e, f, g
<1>7. PICK four : four = a \o b \o c \o d
  OBVIOUS
<1>8. PICK five : five = four \o e
  OBVIOUS
<1>9. PICK six : six = five \o f
  OBVIOUS
<1>10. four \in Seq(Byte)
  BY <1>1, <1>2, <1>7, ConcatType
<1>11. five \in Seq(Byte) /\ Len(five) = Len(four) + Len(e)
  BY <1>1, <1>8, <1>10, ConcatType, ConcatBytes
<1>12. six \in Seq(Byte) /\ Len(six) = Len(five) + Len(f)
  BY <1>2, <1>9, <1>11, ConcatType, ConcatBytes
<1>13. code \in Seq(Byte) /\ BytesAt(code, 0, six \o g)
  BY <1>4, <1>6, <1>7, <1>8, <1>9 DEF TypeOK, CodeAt
<1>14. BytesAt(code, 0, six) /\ BytesAt(code, 0 + Len(six), g)
  BY <1>1, <1>12, <1>13, BytesAtParts
<1>15. BytesAt(code, 0, five)
  BY <1>2, <1>9, <1>11, <1>13, <1>14, BytesAtParts
<1>16. BytesAt(code, 0, four) /\ BytesAt(code, 0 + Len(four), e)
  BY <1>1, <1>8, <1>10, <1>13, <1>15, BytesAtParts
<1>17. CodeAt(0, a \o b \o c \o d)
  BY <1>7, <1>16 DEF CodeAt
<1>18. /\ CodeAt(0, a) /\ CodeAt(0 + (Len(a) + Len(b)), c)
       /\ Len(a \o b \o c \o d) = Len(a) + Len(b) + Len(c) + Len(d)
  <2>1. PICK place \in Nat : place = 0
    OBVIOUS
  <2>2. /\ TypeOK /\ CodeAt(place, a \o b \o c \o d)
        /\ a \in Seq(Byte) /\ b \in Seq(Byte) /\ c \in Seq(Byte) /\ d \in Seq(Byte)
    BY <1>1, <1>2, <1>4, <1>17, <2>1
  <2>3. /\ CodeAt(place, a) /\ CodeAt(place + (Len(a) + Len(b)), c)
        /\ Len(a \o b \o c \o d) = Len(a) + Len(b) + Len(c) + Len(d)
    BY <2>2, FourParts
  <2>. QED  BY <2>1, <2>3
<1>19. Len(four) = 6 /\ Len(five) = 7 /\ Len(six) = 9
  BY <1>1, <1>3, <1>7, <1>11, <1>12, <1>18
<1>20. CodeAt(3, c) /\ CodeAt(6, e) /\ CodeAt(9, g)
  BY <1>1, <1>3, <1>14, <1>16, <1>18, <1>19 DEF CodeAt
<1>21. ASSUME NEW place \in Nat, NEW bytes \in Seq(Byte), Len(bytes) = 1, CodeAt(place, bytes)
       PROVE  At(code, place) = bytes[1] /\ place + 1 <= Len(code)
  <2>1. \A n \in 0 .. Len(bytes) - 1 : At(code, place + n) = bytes[n + 1]
    BY <1>4, <1>21, ByteAt
  <2>2. At(code, place + 0) = bytes[0 + 1]
    BY <1>21, <2>1
  <2>3. place + 1 <= Len(code)
    BY <1>21 DEF CodeAt, BytesAt
  <2>. QED  BY <2>2, <2>3
<1>22. At(code, 0) = a[1]
  BY <1>1, <1>18, <1>21
<1>23. At(code, 3) = c[1] /\ At(code, 6) = e[1]
  BY <1>1, <1>20, <1>21
<1>24. At(code, 9) = g[1] /\ 9 + 1 <= Len(code)
  BY <1>1, <1>20, <1>21
<1>. QED  BY <1>1, <1>4, <1>6, <1>22, <1>23, <1>24

(* Where code starts, an element with code starts, or IR_EOF: in between    *)
(* are only elements without code.                                          *)
LEMMA CodeAtStart ==
  ASSUME Compiled, NEW m \in DOMAIN ir
  PROVE  \E k \in DOMAIN ir : starts[k] = starts[m] /\ (WritesCode(ir[k]) \/ IsEof(ir[k]))
<1>. DEFINE T == {k \in m .. Len(ir) : WritesCode(ir[k]) \/ IsEof(ir[k])}
<1>1. /\ m \in Nat /\ Len(ir) \in Nat /\ DOMAIN ir = 1 .. Len(ir) /\ m <= Len(ir)
      /\ m \in 1 .. Len(ir) /\ IsEof(ir[Len(ir)])
  <2>1. IsEof(ir[Len(ir)])
    BY CompiledTypes DEF Compiled, TypeOK, IsProgram
  <2>. QED  BY <2>1, CompiledTypes
<1>2. T \subseteq Nat /\ Len(ir) \in T
  BY <1>1
<1>3. PICK k \in T : \A n \in T : k <= n
  <2>. HIDE DEF T
  <2>. QED  BY <1>2, LeastNatural
<1>4. k \in m .. Len(ir) /\ k \in DOMAIN ir /\ (WritesCode(ir[k]) \/ IsEof(ir[k]))
  BY <1>1, <1>3
<1>. DEFINE U == {n \in m .. k : starts[n] # starts[m]}
<1>5. ASSUME U # {} PROVE FALSE
  <2>1. U \subseteq Nat
    BY <1>1
  <2>2. PICK n \in U : \A o \in U : n <= o
    <3>. HIDE DEF U
    <3>. QED  BY <1>5, <2>1, LeastNatural
  <2>3. n \in m .. k /\ starts[n] # starts[m]
    BY <2>2
  <2>4. PICK p : p = n - 1
    OBVIOUS
  <2>5. p \in m .. k /\ p < n /\ p < k /\ p + 1 = n /\ p \in m .. Len(ir) /\ p \in DOMAIN ir
        /\ n \in DOMAIN ir
    BY <1>1, <1>4, <2>3, <2>4
  <2>6. starts[p] = starts[m]
    BY <2>2, <2>5
  <2>7. ~WritesCode(ir[p]) /\ ~IsEof(ir[p])
    BY <1>3, <2>5
  <2>8. End(p) = starts[p] /\ DOMAIN starts = DOMAIN ir
    BY <2>5, <2>7, CompiledTypes DEF ElementAt
  <2>9. End(p) = starts[n]
    BY <2>5, <2>8 DEF End
  <2>. QED  BY <2>3, <2>6, <2>8, <2>9
<1>6. starts[k] = starts[m]
  BY <1>1, <1>4, <1>5
<1>. QED  BY <1>4, <1>6

(* After an element that is not IR_EOF the next one starts.                 *)
LEMMA EndIsStart ==
  ASSUME Compiled, NEW m \in DOMAIN ir, ~IsEof(ir[m])
  PROVE  \E k \in DOMAIN ir : starts[k] = End(m)
<1>1. m + 1 \in DOMAIN ir /\ DOMAIN starts = DOMAIN ir
  BY CompiledTypes, NextElementExists DEF TypeOK
<1>. QED  BY <1>1 DEF End

(* Where an element starts no other one is in the middle.                   *)
LEMMA StartsApart ==
  ASSUME Compiled, NEW m \in DOMAIN ir, NEW k \in DOMAIN ir,
         starts[m] < starts[k], starts[k] < End(m)
  PROVE  FALSE
<1>1. /\ starts[m] \in Nat /\ starts[k] \in Nat /\ End(m) \in Nat /\ End(k) \in Nat
      /\ m \in Nat /\ k \in Nat /\ starts[k] <= End(k)
      /\ m \in DOMAIN starts /\ k \in DOMAIN starts /\ Layout
  BY CompiledTypes
<1>2. m < k => End(m) <= starts[k]
  BY <1>1 DEF Layout, InOrder
<1>3. k < m => End(k) <= starts[m]
  BY <1>1 DEF Layout, InOrder
<1>. QED  BY <1>1, <1>2, <1>3

-----------------------------------------------------------------------------
(* Which frames are written twice.  A condition's own frame is where its    *)
(* code ends, and no two end at the same place; every reference the second  *)
(* pass goes through adds a frame at its label.                             *)

(* The references the second pass has been through, each with its label.    *)
Visits ==
  {v \in (DOMAIN ir) \X Nat :
     /\ IsLabel(ir[v[1]]) /\ v[2] \in DOMAIN label_references[ir[v[1]].name]
     /\ Visited(v[1], v[2])}

OffsetOf(d) == code_label_offsets[ir[d].name]

Conditions == {m \in DOMAIN starts : IsConditional(ir[m])}

(* No frame of the second pass is one that was there.                       *)
FramesOnce ==
  /\ \A v \in Visits, m \in Conditions : OffsetOf(v[1]) # End(m)
  /\ \A v, w \in Visits : OffsetOf(v[1]) = OffsetOf(w[1]) => v = w

(* The first pass writes no frame twice; the second does if and only if two *)
(* references, or a reference and a condition, have the same target.        *)
DistinctInv ==
  pc \in {"pass1", "pass2", "done"} /\ CodeFits =>
    /\ \A label \in Labels : IsInjective(label_references[label])
    /\ pc = "pass1" => IsInjective(stack_map_frames)
    /\ pc # "pass1" => (IsInjective(stack_map_frames) <=> FramesOnce)

(* A longer sequence is injective if the shorter is and lacks the last.     *)
LEMMA AppendOnce ==
  ASSUME NEW S, NEW s \in Seq(S), NEW x \in S
  PROVE  IsInjective(Append(s, x)) <=> IsInjective(s) /\ x \notin Range(s)
<1>. DEFINE t == Append(s, x)
            last == Len(s) + 1
<1>1. DOMAIN t = DOMAIN s \cup {last} /\ last \notin DOMAIN s
  OBVIOUS
<1>2. (\A m \in DOMAIN s : t[m] = s[m]) /\ t[last] = x
  OBVIOUS
<1>. HIDE DEF t, last
<1>3. ASSUME IsInjective(t) PROVE IsInjective(s) /\ x \notin Range(s)
  BY <1>1, <1>2, <1>3 DEF IsInjective, Range
<1>4. ASSUME IsInjective(s), x \notin Range(s) PROVE IsInjective(t)
  <2>. SUFFICES ASSUME NEW m \in DOMAIN t, NEW n \in DOMAIN t, t[m] = t[n] PROVE m = n
    BY DEF IsInjective
  <2>. QED  BY <1>1, <1>2, <1>4 DEF IsInjective, Range
<1>5. IsInjective(t) <=> IsInjective(s) /\ x \notin Range(s)
  BY <1>3, <1>4
<1>. QED  BY <1>5 DEF t

(* A jump adds a reference no other one is, and a frame behind all others.  *)
LEMMA WriteJumpDistinct ==
  ASSUME TypeOK, LayoutInv, DistinctInv, WriteJump, CodeFits'
  PROVE  DistinctInv'
<1>1. PICK n : n = i
  OBVIOUS
<1>. DEFINE prefix == JumpPrefix(ir[n])
            added == prefix \o GotoPlaceholder
            opcode == Len(code) + Len(prefix)
            label == ir[n].label
<1>2. /\ FirstPass /\ IsJump(ir[n]) /\ HasLabel(ir[n]) /\ pc = "pass1" /\ pc' = "pass1"
      /\ code' = code \o prefix \o GotoPlaceholder
      /\ label_references' =
           [label_references EXCEPT ![label] = Append(@, LabelReference(opcode))]
      /\ IF IsConditional(ir[n])
         THEN AddStackFrame(Len(code) + Len(Compare(ir[n])) + SkipLength)
         ELSE UNCHANGED stack_map_frames
  BY <1>1 DEF WriteJump, FirstPass
<1>3. ir[n] \in Elements /\ label \in Labels
  BY <1>1, <1>2, FirstPassType, ElementFacts
<1>4. /\ prefix \in Seq(Byte) /\ Len(prefix) \in Nat
      /\ GotoPlaceholder \in Seq(Byte) /\ Len(GotoPlaceholder) = 5
      /\ Len(code) \in Nat /\ code \in Seq(Byte)
  BY <1>3, JumpLengths DEF TypeOK
<1>. HIDE DEF prefix
<1>5. added \in Seq(Byte) /\ code' = code \o added /\ Len(added) = Len(prefix) + Len(GotoPlaceholder)
  <2>1. added \in Seq(Byte) /\ Len(added) = Len(prefix) + Len(GotoPlaceholder)
    BY <1>4, ConcatType, ConcatBytes
  <2>2. (code \o prefix) \o GotoPlaceholder = code \o (prefix \o GotoPlaceholder)
    BY <1>4, ConcatAssociative, SMTT(30)
  <2>. QED  BY <1>2, <2>1, <2>2
<1>. HIDE DEF added
<1>7. added \in Seq(Byte) /\ code' = code \o added /\ Len(added) = Len(prefix) + 5
  BY <1>4, <1>5
<1>11. Len(code') = Len(code) + Len(added) /\ Len(code') < U16Range /\ CodeFits
  BY <1>7, AppendedCode DEF CodeFits
<1>12. Len(code') = opcode + 5 /\ opcode \in Nat /\ opcode + 1 \in Nat /\ opcode < U16Range
       /\ Len(code') \in Nat /\ opcode + 1 < U16Range
  BY <1>4, <1>7, <1>11, U16RangeAssumption
<1>10. /\ Layout /\ InOrder
       /\ \A l \in Labels : IsInjective(label_references[l])
       /\ IsInjective(stack_map_frames)
  BY <1>2, <1>11 DEF LayoutInv, DistinctInv, Layout
<1>13. \A m \in DOMAIN starts : IsJump(ir[m]) => JumpOpcode(m) < Len(code)
  <2>. SUFFICES ASSUME NEW m \in DOMAIN starts, IsJump(ir[m]) PROVE JumpOpcode(m) < Len(code)
    OBVIOUS
  <2>1. JumpOpcode(m) \in Nat /\ End(m) = JumpOpcode(m) + 5 /\ End(m) <= Len(code)
    BY <1>10, PlacedTypes DEF Layout, InOrder, CodePlaced, JumpAt
  <2>. QED  BY <1>4, <2>1
<1>14. ASSUME NEW l \in Labels PROVE IsInjective(label_references'[l])
  <2>1. CASE l # label
    BY <1>2, <1>3, <1>10, <1>14, <2>1 DEF TypeOK
  <2>2. CASE l = label
    <3>. DEFINE s == label_references[label]
                x == LabelReference(opcode)
    <3>1. s \in Seq(Reference) /\ label_references'[l] = Append(s, x)
      BY <1>2, <1>3, <2>2 DEF TypeOK
    <3>2. x \in Reference /\ x.opcode_offset = opcode
      BY <1>12, U16Fits, U16Type DEF LabelReference, Reference
    <3>3. ASSUME x \in Range(s) PROVE FALSE
      <4>1. PICK p \in DOMAIN s : s[p] = x
        BY <3>3 DEF Range
      <4>2. PICK m \in DOMAIN starts : IsJump(ir[m]) /\ s[p] = ReferenceTo(m)
        BY <1>3, <1>10, <4>1 DEF Layout, ReferencesKept
      <4>3. x.opcode_offset = JumpOpcode(m)
        BY <4>1, <4>2 DEF ReferenceTo
      <4>4. JumpOpcode(m) < Len(code) /\ JumpOpcode(m) \in Nat
        BY <1>10, <1>13, <4>2, PlacedTypes
      <4>. QED  BY <1>4, <3>2, <4>3, <4>4
    <3>4. IsInjective(s)
      BY <1>3, <1>10
    <3>. HIDE DEF s, x
    <3>5. IsInjective(Append(s, x))
      BY <3>1, <3>2, <3>3, <3>4, AppendOnce
    <3>. QED  BY <3>1, <3>5
  <2>. QED  BY <2>1, <2>2
<1>15. IsInjective(stack_map_frames')
  <2>1. CASE ~IsConditional(ir[n])
    <3>1. stack_map_frames' = stack_map_frames
      BY <1>2, <2>1
    <3>. QED  BY <1>10, <3>1
  <2>2. CASE IsConditional(ir[n])
    <3>1. Len(code) + Len(Compare(ir[n])) + SkipLength = Len(code')
      <4>1. Len(prefix) = Len(Compare(ir[n])) + 3 /\ Len(Compare(ir[n])) \in Nat
        BY <1>3, <2>2, JumpLengths DEF prefix
      <4>. QED  BY <1>4, <1>12, <4>1 DEF SkipLength
    <3>2. U16(Len(code')) = Len(code')
      BY <1>11, <1>12, U16Fits
    <3>3. stack_map_frames' = Append(stack_map_frames, Len(code'))
      BY <1>2, <2>2, <3>1, <3>2 DEF AddStackFrame
    <3>4. stack_map_frames \in Seq(Nat)
      BY U16RangeAssumption DEF TypeOK
    <3>5. ASSUME Len(code') \in Range(stack_map_frames) PROVE FALSE
      <4>1. VisitedLabels = {}
        BY <1>2 DEF VisitedLabels
      <4>2. PICK m \in DOMAIN starts : Len(code') = End(m)
        BY <1>10, <3>5, <4>1 DEF Layout, FramesKept
      <4>3. End(m) <= Len(code) /\ End(m) \in Nat
        BY <1>10, PlacedTypes DEF InOrder
      <4>. QED  BY <1>4, <1>7, <1>11, <4>2, <4>3
    <3>6. IsInjective(Append(stack_map_frames, Len(code')))
      BY <1>10, <1>12, <3>4, <3>5, AppendOnce
    <3>. QED  BY <3>3, <3>6
  <2>. QED  BY <2>1, <2>2
<1>. QED  BY <1>2, <1>14, <1>15 DEF DistinctInv

(* A reference the second pass goes through adds one frame, where its label *)
(* is.                                                                      *)
LEMMA UpdateDistinct ==
  ASSUME TypeOK, LayoutInv, DistinctInv, UpdateLabelReference, CodeFits'
  PROVE  DistinctInv'
<1>1. PICK m \in DOMAIN starts :
           /\ Layout /\ pc = "pass2" /\ pc' = "pass2"
           /\ IsLabel(ir[i]) /\ ir[i].name \in Labels /\ i \in DOMAIN ir
           /\ j \in DOMAIN label_references[ir[i].name]
           /\ code_label_offsets[ir[i].name] # NoOffset
           /\ code' \in Seq(Byte) /\ Len(code') = Len(code)
  BY UpdatedReference
<1>2. /\ UNCHANGED << ir, pc, i, integers, code_label_offsets, label_references, starts >>
      /\ j' = j + 1 /\ AddStackFrame(code_label_offsets[ir[i].name])
  BY <1>1 DEF UpdateLabelReference
<1>3. CodeFits
  BY <1>1 DEF CodeFits
<1>4. /\ \A label \in Labels : IsInjective(label_references[label])
      /\ IsInjective(stack_map_frames) <=> FramesOnce
  BY <1>1, <1>3 DEF DistinctInv
<1>5. i \in Nat /\ j \in Nat
  BY DEF TypeOK, IsProgram
<1>6. PICK last : last = << i, j >>
  OBVIOUS
<1>7. Visits' = Visits \cup {last} /\ last \notin Visits /\ last[1] = i
  <2>1. ASSUME NEW v \in (DOMAIN ir) \X Nat
        PROVE  Visited(v[1], v[2])' <=> Visited(v[1], v[2]) \/ v = last
    <3>1. v[1] \in DOMAIN ir /\ v[2] \in Nat /\ v = << v[1], v[2] >>
      BY <2>1
    <3>2. v = last <=> v[1] = i /\ v[2] = j
      BY <1>6, <3>1
    <3>3. PICK d : d = v[1]
      OBVIOUS
    <3>4. PICK p : p = v[2]
      OBVIOUS
    <3>5. d \in Nat /\ p \in Nat
      BY <3>1, <3>3, <3>4 DEF TypeOK, IsProgram
    <3>6. Visited(d, p)' <=> Visited(d, p) \/ (d = i /\ p = j)
      BY <1>2, <1>5, <3>5 DEF Visited
    <3>. QED  BY <3>2, <3>3, <3>4, <3>6
  <2>2. last \in (DOMAIN ir) \X Nat /\ last[1] = i /\ last[2] = j
    BY <1>1, <1>5, <1>6, Zenon
  <2>3. ~Visited(last[1], last[2])
    BY <1>5, <2>2 DEF Visited
  <2>4. Visits' = {v \in (DOMAIN ir) \X Nat :
                     /\ IsLabel(ir[v[1]]) /\ v[2] \in DOMAIN label_references[ir[v[1]].name]
                     /\ Visited(v[1], v[2])'}
    BY <1>2 DEF Visits
  <2>5. IsLabel(ir[last[1]]) /\ last[2] \in DOMAIN label_references[ir[last[1]].name]
    BY <1>1, <2>2
  <2>. QED  BY <2>1, <2>2, <2>3, <2>4, <2>5 DEF Visits
<1>. DEFINE offset == code_label_offsets[ir[i].name]
<1>8. OffsetOf(i) = offset /\ \A d : OffsetOf(d)' = OffsetOf(d)
  BY <1>2 DEF OffsetOf
<1>9. Conditions' = Conditions /\ \A n : End(n)' = End(n)
  BY <1>1, <1>2 DEF Conditions, End
<1>10. IsInjective(stack_map_frames') <=>
         IsInjective(stack_map_frames) /\ offset \notin Range(stack_map_frames)
  <2>1. U16(offset) = offset /\ offset \in 0 .. U16Range - 1
    BY <1>1, OffsetType, U16Fits, U16RangeAssumption
  <2>2. stack_map_frames' = Append(stack_map_frames, offset)
    BY <1>2, <2>1 DEF AddStackFrame
  <2>. DEFINE S == 0 .. U16Range - 1
  <2>3. stack_map_frames \in Seq(S) /\ offset \in S
    BY <2>1 DEF TypeOK
  <2>. HIDE DEF offset, S
  <2>4. IsInjective(Append(stack_map_frames, offset)) <=>
          IsInjective(stack_map_frames) /\ offset \notin Range(stack_map_frames)
    BY <2>3, AppendOnce
  <2>. QED  BY <2>2, <2>4
<1>. HIDE DEF offset
<1>11. offset \in Range(stack_map_frames) <=>
         \/ \E n \in Conditions : offset = End(n)
         \/ \E v \in Visits : offset = OffsetOf(v[1])
  <2>1. Range(stack_map_frames) = {End(n) : n \in Conditions} \cup {OffsetOf(d) : d \in VisitedLabels}
    BY <1>1 DEF Layout, FramesKept, Conditions, OffsetOf
  <2>2. VisitedLabels = {v[1] : v \in Visits}
    <3>1. ASSUME NEW d \in VisitedLabels PROVE \E v \in Visits : v[1] = d
      <4>1. d \in DOMAIN ir /\ IsLabel(ir[d])
        BY <1>1, <3>1 DEF VisitedLabels
      <4>2. PICK p \in DOMAIN label_references[ir[d].name] : Visited(d, p)
        BY <1>1, <3>1 DEF VisitedLabels
      <4>3. ir[d].name \in Labels
        BY <4>1, ElementFacts DEF TypeOK, IsProgram
      <4>4. p \in Nat
        BY <4>2, <4>3, SMTT(30) DEF TypeOK
      <4>5. PICK v : v = << d, p >>
        OBVIOUS
      <4>6. v[1] = d /\ v[2] = p /\ v \in (DOMAIN ir) \X Nat
        BY <4>1, <4>4, <4>5, Zenon
      <4>. QED  BY <4>1, <4>2, <4>6 DEF Visits
    <3>2. ASSUME NEW v \in Visits PROVE v[1] \in VisitedLabels
      <4>1. /\ IsLabel(ir[v[1]]) /\ v[2] \in DOMAIN label_references[ir[v[1]].name]
            /\ Visited(v[1], v[2]) /\ v[1] \in DOMAIN ir
        BY <3>2 DEF Visits
      <4>. QED  BY <1>1, <4>1 DEF VisitedLabels
    <3>. QED  BY <3>1, <3>2
  <2>. QED  BY <2>1, <2>2
<1>12. FramesOnce' <=> FramesOnce /\ offset \notin Range(stack_map_frames)
  <2>1. FramesOnce' <=>
          /\ \A v \in Visits', n \in Conditions : OffsetOf(v[1]) # End(n)
          /\ \A v, w \in Visits' : OffsetOf(v[1]) = OffsetOf(w[1]) => v = w
    BY <1>8, <1>9 DEF FramesOnce
  <2>. QED  BY <1>7, <1>8, <1>11, <2>1 DEF FramesOnce
<1>13. IsInjective(stack_map_frames)' <=> FramesOnce'
  BY <1>4, <1>10, <1>12 DEF IsInjective
<1>. QED  BY <1>1, <1>2, <1>4, <1>13 DEF DistinctInv


(* What a step leaves of the visits and of the conditions' ends, it leaves  *)
(* of their being all different.                                            *)
LEMMA SameVisits ==
  ASSUME UNCHANGED << ir, label_references, code_label_offsets, starts >>,
         \A m \in Conditions : End(m)' = End(m),
         \A d \in DOMAIN ir : IsLabel(ir[d]) =>
           \A p \in DOMAIN label_references[ir[d].name] : Visited(d, p)' <=> Visited(d, p)
  PROVE  FramesOnce' <=> FramesOnce
<1>1. Conditions' = Conditions /\ \A d : OffsetOf(d)' = OffsetOf(d)
  BY DEF Conditions, OffsetOf
<1>2. Visits' = Visits
  <2>1. Visits' = {v \in (DOMAIN ir) \X Nat :
                     /\ IsLabel(ir[v[1]]) /\ v[2] \in DOMAIN label_references[ir[v[1]].name]
                     /\ Visited(v[1], v[2])'}
    BY DEF Visits
  <2>2. ASSUME NEW v \in (DOMAIN ir) \X Nat, IsLabel(ir[v[1]]),
               v[2] \in DOMAIN label_references[ir[v[1]].name]
        PROVE  Visited(v[1], v[2])' <=> Visited(v[1], v[2])
    <3>1. PICK d : d = v[1]
      OBVIOUS
    <3>2. PICK p : p = v[2]
      OBVIOUS
    <3>3. Visited(d, p)' <=> Visited(d, p)
      BY <2>2, <3>1, <3>2
    <3>4. v[1]' = v[1] /\ v[2]' = v[2]
      OBVIOUS
    <3>. QED  BY <3>1, <3>2, <3>3, <3>4
  <2>. QED  BY <2>1, <2>2 DEF Visits
<1>3. FramesOnce' <=> /\ \A v \in Visits', m \in Conditions' : OffsetOf(v[1])' # End(m)'
                      /\ \A v, w \in Visits' : OffsetOf(v[1])' = OffsetOf(w[1])' => v = w
  BY DEF FramesOnce
<1>. QED  BY <1>1, <1>2, <1>3 DEF FramesOnce

(* An element that is no jump leaves references and frames alone.           *)
LEMMA FirstPassDistinct ==
  ASSUME DistinctInv, pc = "pass1", pc' = "pass1", CodeFits,
         UNCHANGED << label_references, stack_map_frames >>
  PROVE  DistinctInv'
BY DEF DistinctInv, IsInjective

(* The second pass begins with no visit made.                               *)
LEMMA EndFirstPassDistinct ==
  ASSUME TypeOK, LayoutInv, DistinctInv, EndFirstPass, CodeFits'
  PROVE  DistinctInv'
<1>1. /\ pc = "pass1" /\ pc' = "pass2" /\ i' = 1 /\ j' = 1 /\ CodeFits
      /\ UNCHANGED << ir, code, label_references, stack_map_frames >>
  BY DEF EndFirstPass, LayoutInv, CodeFits
<1>2. Visits' = {}
  <2>. SUFFICES ASSUME NEW v \in (DOMAIN ir) \X Nat, IsLabel(ir[v[1]]),
                       v[2] \in DOMAIN label_references[ir[v[1]].name], Visited(v[1], v[2])'
                PROVE  FALSE
    BY <1>1 DEF Visits
  <2>1. PICK d : d = v[1]
    OBVIOUS
  <2>2. PICK p : p = v[2]
    OBVIOUS
  <2>3. d \in DOMAIN ir /\ ir[d].name \in Labels
    BY <2>1, NextElementExists, ElementFacts DEF TypeOK
  <2>4. d \in Nat /\ d >= 1 /\ p \in Nat /\ p >= 1
    BY <2>1, <2>2, <2>3 DEF TypeOK, IsProgram
  <2>5. Visited(d, p)'
    BY <2>1, <2>2
  <2>. QED  BY <1>1, <2>4, <2>5 DEF Visited
<1>3. FramesOnce'
  BY <1>2 DEF FramesOnce
<1>. QED  BY <1>1, <1>3 DEF DistinctInv, IsInjective

(* Passing to the next element, or to the end, leaves the visits as they    *)
(* are.                                                                     *)
LEMMA NextElementDistinct ==
  ASSUME TypeOK, DistinctInv, NextElement, CodeFits'
  PROVE  DistinctInv'
<1>1. /\ pc = "pass2" /\ pc' = "pass2" /\ ~ReferencesLeft /\ i' = i + 1 /\ j' = 1
      /\ UNCHANGED << ir, code, code_label_offsets, label_references,
                      stack_map_frames, starts >>
  BY DEF NextElement, Increment
<1>2. CodeFits
  BY <1>1 DEF CodeFits
<1>3. \A d \in DOMAIN ir : IsLabel(ir[d]) =>
        \A p \in DOMAIN label_references[ir[d].name] : Visited(d, p)' <=> Visited(d, p)
  <2>. SUFFICES ASSUME NEW d \in DOMAIN ir, IsLabel(ir[d]),
                       NEW p \in DOMAIN label_references[ir[d].name]
                PROVE  Visited(d, p)' <=> Visited(d, p)
    OBVIOUS
  <2>1. ir[d].name \in Labels /\ d \in Nat /\ i \in Nat /\ j \in Nat
    BY NextElementExists, ElementFacts DEF TypeOK, IsProgram
  <2>2. p \in Nat /\ p >= 1 /\ p <= Len(label_references[ir[d].name])
        /\ Len(label_references[ir[d].name]) \in Nat
    BY <2>1 DEF TypeOK
  <2>3. d = i => p < j
    BY <1>1, <2>1, <2>2 DEF ReferencesLeft
  <2>. QED  BY <1>1, <2>1, <2>2, <2>3 DEF Visited
<1>4. \A m \in Conditions : End(m)' = End(m)
  BY <1>1 DEF End
<1>5. FramesOnce' <=> FramesOnce
  BY <1>1, <1>3, <1>4, SameVisits
<1>. QED  BY <1>1, <1>2, <1>5 DEF DistinctInv, IsInjective

(* The return instruction is behind the conditions.                         *)
LEMMA EndMainDistinct ==
  ASSUME TypeOK, LayoutInv, DistinctInv, EndMain, CodeFits'
  PROVE  DistinctInv'
<1>. DEFINE added == << JVM_RETURN >>
<1>1. /\ pc = "pass2" /\ pc' = "done" /\ code' = code \o added /\ added \in Seq(Byte)
      /\ UNCHANGED << ir, i, j, code_label_offsets, label_references,
                      stack_map_frames, starts >>
  <2>1. JVM_RETURN \in Byte /\ code \in Seq(Byte)
    BY DEF TypeOK, JVM_RETURN, Byte
  <2>2. added \in Seq(Byte) /\ Append(code, JVM_RETURN) = code \o added
    BY <2>1
  <2>. QED  BY <2>2 DEF EndMain
<1>. HIDE DEF added
<1>2. CodeFits
  BY <1>1, AppendedCode
<1>3. Layout
  BY <1>1, <1>2 DEF LayoutInv
<1>4. Len(starts) = Len(ir) /\ DOMAIN starts = 1 .. Len(ir) /\ Len(ir) \in Nat /\ starts \in Seq(Nat)
  BY <1>1, <1>3 DEF Layout, InOrder, TypeOK, IsProgram
<1>5. \A m \in Conditions : End(m)' = End(m)
  <2>1. IsEof(ir[Len(ir)])
    <3>1. Len(ir) \in DOMAIN ir
      BY <1>4 DEF TypeOK
    <3>. QED  BY <3>1 DEF TypeOK, IsProgram
  <2>2. \A m \in Conditions : m \in DOMAIN starts /\ m # Len(ir)
    BY <2>1 DEF Conditions, IsConditional, IsInstruction, IsEof
  <2>. QED  BY <1>1, <1>4, <2>2 DEF End
<1>6. \A d, p : Visited(d, p)' <=> Visited(d, p)
  BY <1>1 DEF Visited
<1>7. FramesOnce' <=> FramesOnce
  BY <1>1, <1>5, <1>6, SameVisits
<1>. QED  BY <1>1, <1>2, <1>7 DEF DistinctInv, IsInjective

(* A step that leaves everything alone.                                     *)
LEMMA SameDistinct ==
  ASSUME DistinctInv, UNCHANGED vars
  PROVE  DistinctInv'
<1>1. UNCHANGED << ir, pc, i, j, code, code_label_offsets, label_references,
                   stack_map_frames, starts >>
  BY DEF vars
<1>2. \A m : End(m)' = End(m)
  BY <1>1 DEF End
<1>3. \A d, p : Visited(d, p)' <=> Visited(d, p)
  BY <1>1 DEF Visited
<1>4. FramesOnce' <=> FramesOnce
  BY <1>1, <1>2, <1>3, SameVisits
<1>. QED  BY <1>1, <1>4 DEF DistinctInv, IsInjective, CodeFits

(* No label is referred to at the start.                                    *)
LEMMA BeginMainDistinct ==
  ASSUME LayoutInv, BeginMain
  PROVE  DistinctInv'
<1>1. /\ pc' = "pass1" /\ label_references' = [label \in Labels |-> << >>]
      /\ stack_map_frames' = << >>
  BY DEF BeginMain, LayoutInv, Untouched
<1>. QED  BY <1>1 DEF DistinctInv, IsInjective

(* Every step keeps what is known of frames written twice.                  *)
LEMMA DistinctStep == TypeOK /\ LayoutInv /\ DistinctInv /\ [Next]_vars => DistinctInv'
<1>. SUFFICES ASSUME TypeOK, LayoutInv, DistinctInv, [Next]_vars,
                     pc' \in {"pass1", "pass2", "done"}, CodeFits'
              PROVE  DistinctInv'
  BY DEF DistinctInv
<1>1. CASE LoadConstant
  BY <1>1 DEF LoadConstant
<1>2. CASE BeginMain
  BY <1>2, BeginMainDistinct
<1>3. CASE WriteLabel \/ WriteR3 \/ WriteAddi \/ WriteNothing
  <2>1. /\ pc = "pass1" /\ pc' = "pass1" /\ UNCHANGED << label_references, stack_map_frames >>
    BY <1>3 DEF WriteLabel, WriteR3, WriteAddi, WriteNothing, FirstPass
  <2>2. \E added \in Seq(Byte) : code' = code \o added
    <3>1. ir[i] \in Elements /\ code \in Seq(Byte) /\ << >> \in Seq(Byte)
      BY NextElementExists DEF TypeOK
    <3>2. code = code \o << >>
      BY <3>1
    <3>3. CASE WriteLabel \/ WriteNothing
      BY <3>1, <3>2, <3>3 DEF WriteLabel, WriteNothing
    <3>4. CASE WriteR3
      BY <3>1, <3>4, InstructionBytes DEF WriteR3
    <3>5. CASE WriteAddi
      <4>1. PICK imm : imm \in Range(integers) /\ code' = code \o AddiBytes(ir[i], ConstantIndex(imm))
        BY <2>1, <3>5 DEF WriteAddi
      <4>2. ConstantIndex(imm) \in Int
        BY <4>1, ConstantIndexType DEF TypeOK
      <4>3. IsAddi(ir[i])
        BY <3>5 DEF WriteAddi
      <4>. QED  BY <3>1, <4>1, <4>2, <4>3, InstructionBytes
    <3>. QED  BY <1>3, <3>3, <3>4, <3>5
  <2>3. CodeFits
    BY <2>2, AppendedCode
  <2>. QED  BY <2>1, <2>3, FirstPassDistinct
<1>4. CASE WriteJump
  BY <1>4, WriteJumpDistinct
<1>5. CASE WriteJumpUndefined
  BY <1>5 DEF WriteJumpUndefined
<1>6. CASE EndFirstPass
  BY <1>6, EndFirstPassDistinct
<1>7. CASE UpdateLabelReference
  BY <1>7, UpdateDistinct
<1>8. CASE LabelOffsetMissing
  BY <1>8 DEF LabelOffsetMissing
<1>9. CASE NextElement
  BY <1>9, NextElementDistinct
<1>10. CASE EndMain
  BY <1>10, EndMainDistinct
<1>11. CASE UNCHANGED vars
  BY <1>11, SameDistinct
<1>. QED  BY <1>1, <1>2, <1>3, <1>4, <1>5, <1>6, <1>7, <1>8, <1>9, <1>10, <1>11 DEF Next

(* In a finished method every reference has been visited: the visits are    *)
(* the jumps, each with the label it goes to.                               *)
LEMMA FinishedVisits ==
  ASSUME TypeOK, LayoutInv, DistinctInv, pc = "done", CodeFits
  PROVE  /\ Conditions = {m \in DOMAIN ir : IsConditional(ir[m])}
         /\ \A m \in DOMAIN ir : IsConditional(ir[m]) => End(m) = starts[m + 1]
         /\ \A v \in Visits : \E m \in DOMAIN ir :
              /\ IsJump(ir[m]) /\ LabelStart(ir[m].label) = OffsetOf(v[1])
              /\ IsLabel(ir[v[1]]) /\ ir[v[1]].name = ir[m].label
              /\ label_references[ir[m].label][v[2]] = ReferenceTo(m)
         /\ \A m \in DOMAIN ir : IsJump(ir[m]) => \E v \in Visits :
              /\ LabelStart(ir[m].label) = OffsetOf(v[1])
              /\ IsLabel(ir[v[1]]) /\ ir[v[1]].name = ir[m].label
              /\ label_references[ir[m].label][v[2]] = ReferenceTo(m)
<1>1. /\ Layout /\ Len(starts) = Len(ir) /\ DOMAIN starts = DOMAIN ir
      /\ \A d \in DOMAIN ir : IsLabel(ir[d]) =>
           \A p \in DOMAIN label_references[ir[d].name] : Visited(d, p)
      /\ \A m \in DOMAIN ir : IsJump(ir[m]) =>
           \E d \in DOMAIN ir, p \in DOMAIN label_references[ir[m].label] :
             /\ IsLabel(ir[d]) /\ ir[d].name = ir[m].label
             /\ label_references[ir[m].label][p] = ReferenceTo(m)
             /\ code_label_offsets[ir[m].label] = starts[d]
             /\ LabelStart(ir[m].label) = starts[d]
  BY Finished
<1>2. Conditions = {m \in DOMAIN ir : IsConditional(ir[m])}
  BY <1>1 DEF Conditions
<1>3. \A m \in DOMAIN ir : IsConditional(ir[m]) => End(m) = starts[m + 1]
  <2>. SUFFICES ASSUME NEW m \in DOMAIN ir, IsConditional(ir[m]) PROVE End(m) = starts[m + 1]
    OBVIOUS
  <2>1. ~IsEof(ir[m])
    BY DEF IsConditional, IsInstruction, IsEof
  <2>2. m + 1 \in DOMAIN ir
    BY <2>1, NextElementExists DEF TypeOK
  <2>. QED  BY <1>1, <2>2 DEF End
<1>4. ASSUME NEW v \in Visits
      PROVE  \E m \in DOMAIN ir :
               /\ IsJump(ir[m]) /\ LabelStart(ir[m].label) = OffsetOf(v[1])
               /\ IsLabel(ir[v[1]]) /\ ir[v[1]].name = ir[m].label
               /\ label_references[ir[m].label][v[2]] = ReferenceTo(m)
  <2>1. /\ v[1] \in DOMAIN ir /\ IsLabel(ir[v[1]])
        /\ v[2] \in DOMAIN label_references[ir[v[1]].name]
    BY <1>4 DEF Visits
  <2>2. ir[v[1]].name \in Labels
    BY <2>1, NextElementExists, ElementFacts DEF TypeOK
  <2>3. PICK m \in DOMAIN ir :
          /\ IsJump(ir[m]) /\ ir[m].label = ir[v[1]].name
          /\ label_references[ir[v[1]].name][v[2]] = ReferenceTo(m)
    BY <1>1, <2>1, <2>2 DEF Layout, ReferencesKept
  <2>4. LabelStart(ir[m].label) = OffsetOf(v[1])
    BY <1>1, <2>3 DEF OffsetOf
  <2>. QED  BY <2>1, <2>3, <2>4
<1>5. ASSUME NEW m \in DOMAIN ir, IsJump(ir[m])
      PROVE  \E v \in Visits :
               /\ LabelStart(ir[m].label) = OffsetOf(v[1])
               /\ IsLabel(ir[v[1]]) /\ ir[v[1]].name = ir[m].label
               /\ label_references[ir[m].label][v[2]] = ReferenceTo(m)
  <2>1. PICK d \in DOMAIN ir, p \in DOMAIN label_references[ir[m].label] :
             /\ IsLabel(ir[d]) /\ ir[d].name = ir[m].label
             /\ label_references[ir[m].label][p] = ReferenceTo(m)
             /\ code_label_offsets[ir[m].label] = starts[d]
             /\ LabelStart(ir[m].label) = starts[d]
    BY <1>1, <1>5
  <2>2. ir[d].name \in Labels
    BY <2>1, NextElementExists, ElementFacts DEF TypeOK
  <2>3. p \in Nat
    BY <2>1, <2>2 DEF TypeOK
  <2>4. PICK v : v = << d, p >>
    OBVIOUS
  <2>5. v[1] = d /\ v[2] = p /\ v \in (DOMAIN ir) \X Nat
    BY <2>3, <2>4, Zenon
  <2>6. Visited(d, p)
    BY <1>1, <2>1
  <2>7. v \in Visits
    BY <2>1, <2>5, <2>6 DEF Visits
  <2>. QED  BY <2>1, <2>5, <2>7 DEF OffsetOf
<1>. QED  BY <1>2, <1>3, <1>4, <1>5

(* Jumps at different places have different references.                     *)
LEMMA ReferencesDiffer ==
  ASSUME TypeOK, Layout, NEW m \in DOMAIN starts, NEW n \in DOMAIN starts, m # n,
         IsJump(ir[m]), IsJump(ir[n])
  PROVE  ReferenceTo(m) # ReferenceTo(n)
<1>1. /\ End(n) <= starts[m] \/ End(m) <= starts[n]
      /\ starts[m] <= JumpOpcode(m) /\ starts[n] <= JumpOpcode(n)
      /\ starts[m] \in Nat /\ starts[n] \in Nat
      /\ JumpOpcode(m) \in Nat /\ JumpOpcode(n) \in Nat
  BY Apart
<1>2. End(m) = JumpOpcode(m) + 5 /\ End(n) = JumpOpcode(n) + 5
  BY DEF Layout, CodePlaced, JumpAt
<1>3. JumpOpcode(m) # JumpOpcode(n)
  BY <1>1, <1>2
<1>4. ReferenceTo(m).opcode_offset = JumpOpcode(m) /\ ReferenceTo(n).opcode_offset = JumpOpcode(n)
  BY DEF ReferenceTo
<1>. QED  BY <1>3, <1>4

(* A finished method has each frame once if and only if each target is that *)
(* of one branch.                                                           *)
OneBranchEach ==
  /\ \A n, m \in DOMAIN ir :
       n # m /\ IsJump(ir[n]) /\ IsJump(ir[m]) =>
         LabelStart(ir[n].label) # LabelStart(ir[m].label)
  /\ \A n, m \in DOMAIN ir :
       IsConditional(ir[n]) /\ IsJump(ir[m]) =>
         starts[n + 1] # LabelStart(ir[m].label)

(* Frames are different exactly if what the branches go to is.              *)
LEMMA FramesDistinct ==
  ASSUME TypeOK, LayoutInv, DistinctInv, pc = "done", CodeFits
  PROVE  IsInjective(stack_map_frames) <=> OneBranchEach
<1>1. IsInjective(stack_map_frames) <=> FramesOnce
  BY DEF DistinctInv
<1>. DEFINE Of(v, m) == /\ LabelStart(ir[m].label) = OffsetOf(v[1])
                        /\ IsLabel(ir[v[1]]) /\ ir[v[1]].name = ir[m].label
                        /\ label_references[ir[m].label][v[2]] = ReferenceTo(m)
<1>2. /\ Conditions = {m \in DOMAIN ir : IsConditional(ir[m])}
      /\ \A m \in DOMAIN ir : IsConditional(ir[m]) => End(m) = starts[m + 1]
      /\ \A v \in Visits : \E m \in DOMAIN ir : IsJump(ir[m]) /\ Of(v, m)
      /\ \A m \in DOMAIN ir : IsJump(ir[m]) => \E v \in Visits : Of(v, m)
  BY FinishedVisits
<1>3. Layout /\ DOMAIN starts = DOMAIN ir /\ LabelsDeclaredOnce(ir)
  BY Finished DEF LayoutInv, SemanAccepts
(* Two visits of one jump are one: a label is declared once and its         *)
(* references differ.                                                       *)
<1>4. \A v, w \in Visits : \A m \in DOMAIN ir : Of(v, m) /\ Of(w, m) => v = w
  <2>. SUFFICES ASSUME NEW v \in Visits, NEW w \in Visits, NEW m \in DOMAIN ir, Of(v, m), Of(w, m)
                PROVE  v = w
    OBVIOUS
  <2>1. v[1] \in DOMAIN ir /\ w[1] \in DOMAIN ir /\ v \in (DOMAIN ir) \X Nat /\ w \in (DOMAIN ir) \X Nat
        /\ v[2] \in DOMAIN label_references[ir[v[1]].name]
        /\ w[2] \in DOMAIN label_references[ir[w[1]].name]
    BY DEF Visits
  <2>2. v[1] = w[1]
    BY <1>3, <2>1 DEF LabelsDeclaredOnce
  <2>3. ir[m].label \in Labels
    <3>1. ir[v[1]].name \in Labels
      BY <2>1, NextElementExists, ElementFacts DEF TypeOK
    <3>. QED  BY <3>1
  <2>4. IsInjective(label_references[ir[m].label])
    BY <2>3 DEF DistinctInv
  <2>5. v[2] = w[2]
    BY <2>1, <2>4 DEF IsInjective
  <2>6. v = << v[1], v[2] >> /\ w = << w[1], w[2] >>
    BY <2>1
  <2>. QED  BY <2>2, <2>5, <2>6
(* Two jumps of one visit are one: they would have the same reference.      *)
<1>5. \A v \in Visits : \A m, n \in DOMAIN ir :
        IsJump(ir[m]) /\ IsJump(ir[n]) /\ Of(v, m) /\ Of(v, n) => m = n
  <2>. SUFFICES ASSUME NEW v \in Visits, NEW m \in DOMAIN ir, NEW n \in DOMAIN ir,
                       IsJump(ir[m]), IsJump(ir[n]), Of(v, m), Of(v, n)
                PROVE  m = n
    OBVIOUS
  <2>1. ReferenceTo(m) = ReferenceTo(n)
    OBVIOUS
  <2>. QED  BY <1>3, <2>1, ReferencesDiffer
<1>6. \A v, m : Of(v, m) => OffsetOf(v[1]) = LabelStart(ir[m].label)
  OBVIOUS
<1>. HIDE DEF Of
<1>7. FramesOnce <=> OneBranchEach
  <2>1. ASSUME FramesOnce PROVE OneBranchEach
    <3>1. ASSUME NEW n \in DOMAIN ir, NEW m \in DOMAIN ir, n # m, IsJump(ir[n]), IsJump(ir[m]),
                 LabelStart(ir[n].label) = LabelStart(ir[m].label)
          PROVE  FALSE
      <4>1. PICK v \in Visits : Of(v, n)
        BY <1>2, <3>1
      <4>2. PICK w \in Visits : Of(w, m)
        BY <1>2, <3>1
      <4>3. v = w
        BY <1>6, <2>1, <3>1, <4>1, <4>2 DEF FramesOnce
      <4>. QED  BY <1>5, <3>1, <4>1, <4>2, <4>3
    <3>2. ASSUME NEW n \in DOMAIN ir, NEW m \in DOMAIN ir, IsConditional(ir[n]), IsJump(ir[m])
          PROVE  starts[n + 1] # LabelStart(ir[m].label)
      <4>1. PICK v \in Visits : Of(v, m)
        BY <1>2, <3>2
      <4>. QED  BY <1>2, <1>6, <2>1, <3>2, <4>1 DEF FramesOnce
    <3>. QED  BY <3>1, <3>2 DEF OneBranchEach
  <2>2. ASSUME OneBranchEach PROVE FramesOnce
    <3>1. ASSUME NEW v \in Visits, NEW m \in Conditions PROVE OffsetOf(v[1]) # End(m)
      <4>1. PICK n \in DOMAIN ir : IsJump(ir[n]) /\ Of(v, n)
        BY <1>2
      <4>. QED  BY <1>2, <1>6, <2>2, <4>1 DEF OneBranchEach
    <3>2. ASSUME NEW v \in Visits, NEW w \in Visits, OffsetOf(v[1]) = OffsetOf(w[1])
          PROVE  v = w
      <4>1. PICK n \in DOMAIN ir : IsJump(ir[n]) /\ Of(v, n)
        BY <1>2
      <4>2. PICK m \in DOMAIN ir : IsJump(ir[m]) /\ Of(w, m)
        BY <1>2
      <4>3. m = n
        BY <1>6, <2>2, <3>2, <4>1, <4>2 DEF OneBranchEach
      <4>. QED  BY <1>4, <4>1, <4>2, <4>3
    <3>. QED  BY <3>1, <3>2 DEF FramesOnce
  <2>. QED  BY <2>1, <2>2
<1>. QED  BY <1>1, <1>7

=============================================================================
