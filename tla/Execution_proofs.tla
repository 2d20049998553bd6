---------------------------- MODULE Execution_proofs ----------------------------
(***************************************************************************)
(* Theorems about Execution: for every program, the JVM that runs the      *)
(* method the code generator wrote is never stuck, its operand stack is    *)
(* balanced for every supported one, and for every faithful one the run    *)
(* implements the RISC-V machine.                                          *)
(***************************************************************************)
EXTENDS Execution, MainMethod_proofs

-----------------------------------------------------------------------------
(* Where the JVM can be in the code of an element, and what the part of the *)
(* element it has executed has left on the stack, above what is there from  *)
(* before.                                                                  *)
IsAt(place, below, own) == offset = place /\ kinds = below \o own

(* In the code that puts the register array into local variable 1.          *)
InPrologue(below) ==
  \/ IsAt(0, below, << >>)
  \/ \E place \in {3, 6, 9} : IsAt(place, below, << "ref" >>)

(* In the code that stores a register, with what is in local variable 2 on  *)
(* the way to where it belongs.                                             *)
InStore(r, place, below) ==
  \/ IsAt(place, below, << "long" >>)
  \/ /\ r # X0 /\ local_2 # << >>
     /\ \/ IsAt(place + 1, below, << >>)
        \/ IsAt(place + 2, below, << "ref" >>)
        \/ IsAt(place + 4, below, << "ref", "int" >>)
        \/ IsAt(place + 5, below, << "ref", "int", "long" >>)

(* In the code of an element that starts at s.                              *)
InElement(e, s, below) ==
  \/ IsAt(s, below, << >>)
  \/ /\ WritesCode(e)
     /\ \/ IsAt(s + 1, below, << "ref" >>)
        \/ IsAt(s + 3, below, << "ref", "int" >>)
        \/ IsAt(s + 4, below, << "long" >>)
  \/ /\ IsR3(e) \/ IsJump(e)
     /\ \/ IsAt(s + 5, below, << "long", "ref" >>)
        \/ IsAt(s + 7, below, << "long", "ref", "int" >>)
        \/ IsAt(s + 8, below, << "long", "long" >>)
  \/ /\ IsAddi(e)
     /\ \/ IsAt(s + 7, below, << "long", "int" >>)
        \/ IsAt(s + 8, below, << "long", "long" >>)
  \/ /\ IsR3(e) \/ IsAddi(e)
     /\ InStore(e.rd, StorePlace(e, s), below)
  \/ /\ IsJump(e)
     /\ IsAt(s + 9, below, << "int" >>) \/ IsAt(s + 12, below, << >>)

(* Every part of an element adds to the stack what the next one takes; only *)
(* what is not supported leaves anything below.                             *)
RunsFrom(below) == InPrologue(below) \/ \E m \in DOMAIN ir : InElement(ir[m], starts[m], below)

(* The JVM waits for the method, and is then somewhere in it.               *)
RunInv ==
  /\ pc # "done" => offset = 0 /\ kinds = << >>
  /\ pc = "done" /\ CodeFits =>
       \E below \in Seq(Kinds) :
         (IsSupported(ir) => below = << >>) /\ RunsFrom(below)

-----------------------------------------------------------------------------
(* The shape is kept.                                                       *)
(* holds of the method holds while it runs.                                 *)
LEMMA RunKeepsMethod == ExecutionSpec => [](TypeOK /\ LayoutInv /\ ShapeInv)
<1>1. ExecutionInit => Init
  BY DEF ExecutionInit
<1>2. [ExecutionNext]_allVars => [Next]_vars
  BY DEF ExecutionNext, allVars
<1>3. ExecutionSpec => Spec
  BY <1>1, <1>2, PTL DEF ExecutionSpec, Spec
<1>4. Init => ShapeInv
  BY DEF Init, ShapeInv
<1>5. TypeOK /\ LayoutInv /\ ShapeInv /\ [Next]_vars => ShapeInv'
  BY ShapeStep
<1>6. Spec => []ShapeInv
  BY <1>4, <1>5, TypeCorrect, LayoutInvariance, PTL DEF Spec
<1>. QED  BY <1>3, <1>6, TypeCorrect, LayoutInvariance, PTL

(* what executing it does to the stack, the offset and the local variable.  *)
LEMMA Executed ==
  ASSUME NEW op \in Opcodes, NEW before, NEW after, NEW below \in Seq(Kinds), NEW place \in Nat,
         Moves(op, before, after), IsAt(place, below, before), At(code, place) = op
  PROVE  /\ Opcode = op /\ OperandsOnTop(kinds, Opcode)
         /\ Execute =>
              /\ kinds' = below \o after
              /\ op \notin {JVM_IFEQ, JVM_IFGT, JVM_GOTO_W} => offset' = place + Width(op)
              /\ op = JVM_GOTO_W => offset' = place + S4At(code, place + 1)
              /\ op \in {JVM_IFEQ, JVM_IFGT} =>
                   offset' \in {place + 3, place + S2At(code, place + 1)}
              /\ local_2 # << >> \/ op = JVM_LSTORE_2 => local_2' # << >>
<1>1. offset = place /\ Opcode = op /\ kinds = below \o before
  BY DEF IsAt, Opcode
<1>2. PICK rest \in Seq(Kinds) : before = rest \o Operands(op) /\ after = rest \o Results(op)
  BY DEF Moves
<1>3. PICK t : t = Operands(op)
  OBVIOUS
<1>4. PICK u : u = Results(op)
  OBVIOUS
<1>5. PICK s : s = below \o rest
  OBVIOUS
<1>6. t \in Seq(Kinds) /\ u \in Seq(Kinds) /\ s \in Seq(Kinds)
  BY <1>2, <1>3, <1>4, <1>5, OperandTypes, ConcatProperties
<1>7. kinds = s \o t /\ below \o after = s \o u
  <2>1. (below \o rest) \o t = below \o (rest \o t)
    BY <1>6, ConcatAssociative, SMTT(60)
  <2>2. (below \o rest) \o u = below \o (rest \o u)
    BY <1>6, ConcatAssociative, SMTT(60)
  <2>. QED  BY <1>1, <1>2, <1>3, <1>4, <1>5, <2>1, <2>2
<1>8. Below(kinds, op) = s
  BY <1>3, <1>6, <1>7, WithoutLast DEF Below
<1>9. OperandsOnTop(kinds, op)
  <2>1. Len(s \o t) = Len(s) + Len(t) /\ Len(s) \in Nat /\ Len(t) \in Nat
    BY <1>6, ConcatProperties
  <2>2. Len(kinds) >= Len(Operands(op))
    BY <1>3, <1>7, <2>1
  <2>. QED  BY <1>3, <1>7, <1>8, <2>2 DEF OperandsOnTop
<1>10. ASSUME NEW o, NEW results, Executes(o, results)
       PROVE  o = op /\ kinds' = below \o after
  BY <1>1, <1>4, <1>7, <1>8, <1>10 DEF Executes
<1>11. ASSUME Execute PROVE kinds' = below \o after
  BY <1>10, <1>11 DEF Execute, References, Push, Compute, Store, Transfer
<1>12. ASSUME Execute, op \notin {JVM_IFEQ, JVM_IFGT, JVM_GOTO_W}
       PROVE  offset' = place + Width(op)
  <2>1. ~Transfer
    BY <1>10, <1>12 DEF Transfer
  <2>2. Continue
    BY <1>12, <2>1 DEF Execute, References, Push, Compute, Store
  <2>. QED  BY <1>1, <2>2 DEF Continue
<1>13. ASSUME Execute, op \in {JVM_IFEQ, JVM_IFGT, JVM_GOTO_W} PROVE Transfer
  <2>1. op \in {153, 157, 200}
    BY <1>13 DEF JVM_IFEQ, JVM_IFGT, JVM_GOTO_W
  <2>2. ~References
    BY <1>10, <2>1 DEF References, JVM_GETSTATIC, JVM_INVOKEVIRTUAL, JVM_CHECKCAST, JVM_ASTORE_1,
                       JVM_ALOAD_1
  <2>3. ~Push
    BY <1>10, <2>1 DEF Push, JVM_BIPUSH, JVM_LDC_W, JVM_LLOAD_2
  <2>4. ~Compute
    BY <1>10, <2>1 DEF Compute, JVM_LALOAD, JVM_I2L, JVM_LADD, JVM_LCMP
  <2>5. ~Store
    BY <1>10, <2>1 DEF Store, JVM_LSTORE_2, JVM_POP2, JVM_LASTORE
  <2>. QED  BY <1>13, <2>2, <2>3, <2>4, <2>5 DEF Execute
<1>14. ASSUME Execute, op = JVM_GOTO_W PROVE offset' = place + S4At(code, place + 1)
  <2>1. Transfer
    BY <1>13, <1>14
  <2>2. op = 200
    BY <1>14 DEF JVM_GOTO_W
  <2>3. \A results : ~Executes(JVM_IFEQ, results) /\ ~Executes(JVM_IFGT, results)
    BY <1>10, <2>2 DEF JVM_IFEQ, JVM_IFGT
  <2>. QED  BY <1>1, <2>1, <2>3 DEF Transfer
<1>15. ASSUME Execute, op \in {JVM_IFEQ, JVM_IFGT}
       PROVE  offset' \in {place + 3, place + S2At(code, place + 1)}
  <2>1. Transfer
    BY <1>13, <1>15
  <2>2. op \in {153, 157}
    BY <1>15 DEF JVM_IFEQ, JVM_IFGT
  <2>3. \A results : ~Executes(JVM_GOTO_W, results)
    BY <1>10, <2>2 DEF JVM_GOTO_W
  <2>4. Width(JVM_IFEQ) = 3 /\ Width(JVM_IFGT) = 3
    BY DEF Width, JVM_IFEQ, JVM_IFGT, JVM_BIPUSH, JVM_LDC_W, JVM_GETSTATIC, JVM_INVOKEVIRTUAL,
           JVM_CHECKCAST, JVM_GOTO_W
  <2>5. Width(op) = 3
    BY <1>15, <2>4
  <2>. QED  BY <1>1, <2>1, <2>3, <2>5 DEF Transfer
<1>16. ASSUME Execute, local_2 # << >> PROVE local_2' # << >>
  <2>1. local_2' = local_2 \/ local_2' = << Operand(1) >>
    BY <1>16 DEF Execute, References, Push, Compute, Store, Transfer
  <2>2. << Operand(1) >> # << >>
    OBVIOUS
  <2>. QED  BY <1>16, <2>1, <2>2
<1>17. ASSUME Execute, op = JVM_LSTORE_2 PROVE local_2' # << >>
  <2>1. op = 65
    BY <1>17 DEF JVM_LSTORE_2
  <2>2. Store
    <3>1. ~References
      BY <1>10, <2>1 DEF References, JVM_GETSTATIC, JVM_INVOKEVIRTUAL, JVM_CHECKCAST,
                         JVM_ASTORE_1, JVM_ALOAD_1
    <3>2. ~Push
      BY <1>10, <2>1 DEF Push, JVM_BIPUSH, JVM_LDC_W, JVM_LLOAD_2
    <3>3. ~Compute
      BY <1>10, <2>1 DEF Compute, JVM_LALOAD, JVM_I2L, JVM_LADD, JVM_LCMP
    <3>4. ~Transfer
      BY <1>10, <2>1 DEF Transfer, JVM_IFEQ, JVM_IFGT, JVM_GOTO_W
    <3>. QED  BY <1>17, <3>1, <3>2, <3>3, <3>4 DEF Execute
  <2>3. \A results : ~Executes(JVM_POP2, results) /\ ~Executes(JVM_LASTORE, results)
    BY <1>10, <2>1 DEF JVM_POP2, JVM_LASTORE
  <2>4. local_2' = << Operand(1) >>
    BY <2>2, <2>3 DEF Store
  <2>5. << Operand(1) >> # << >>
    OBVIOUS
  <2>. QED  BY <2>4, <2>5
<1>. QED  BY <1>1, <1>9, <1>11, <1>12, <1>14, <1>15, <1>16, <1>17
(* Running the method.                                                      *)

(* What NeverStuck says of a finished method.                               *)
CanExecute ==
  /\ offset \in 0 .. Len(code) - 1
  /\ Opcode \in Opcodes
  /\ OperandsOnTop(kinds, Opcode)
  /\ Opcode = JVM_LLOAD_2 => local_2 # << >>

(* The JVM can execute the opcode it is at, and what it then finds.         *)
Goes(place, below, own) ==
  /\ CanExecute
  /\ Execute => /\ offset' = place /\ kinds' = below \o own
                /\ local_2 # << >> => local_2' # << >>

(* Executing an opcode that is no branch.                                   *)
LEMMA StraightGoes ==
  ASSUME NEW op, NEW width \in Nat, IsStraight(op, width), NEW before, NEW after,
         Moves(op, before, after), NEW below \in Seq(Kinds), NEW place \in Nat,
         IsAt(place, below, before), At(code, place) = op, place < Len(code), TypeOK,
         op = JVM_LLOAD_2 => local_2 # << >>
  PROVE  /\ Goes(place + width, below, after)
         /\ Execute /\ op = JVM_LSTORE_2 => local_2' # << >>
<1>1. op \in Opcodes /\ Width(op) = width /\ op \notin {JVM_IFEQ, JVM_IFGT, JVM_GOTO_W}
  BY DEF IsStraight
<1>2. /\ Opcode = op /\ OperandsOnTop(kinds, Opcode)
      /\ Execute =>
           /\ kinds' = below \o after
           /\ op \notin {JVM_IFEQ, JVM_IFGT, JVM_GOTO_W} => offset' = place + Width(op)
           /\ local_2 # << >> \/ op = JVM_LSTORE_2 => local_2' # << >>
  BY <1>1, Executed
<1>3. offset = place /\ Len(code) \in Nat
  BY DEF IsAt, TypeOK
<1>4. offset \in 0 .. Len(code) - 1
  BY <1>3
<1>5. CanExecute
  BY <1>1, <1>2, <1>4 DEF CanExecute
<1>. QED  BY <1>1, <1>2, <1>5 DEF Goes

(* The beginning of the method.                                             *)
LEMMA PrologueGoes ==
  ASSUME Compiled, NEW below \in Seq(Kinds), InPrologue(below)
  PROVE  /\ CanExecute
         /\ Execute => InPrologue(below)' \/ (offset' = starts[1] /\ kinds' = below \o << >>)
<1>1. /\ At(code, 0) = JVM_GETSTATIC /\ At(code, 3) = JVM_INVOKEVIRTUAL
      /\ At(code, 6) = JVM_CHECKCAST /\ At(code, 9) = JVM_ASTORE_1
      /\ 10 <= Len(code) /\ 1 \in DOMAIN ir /\ starts[1] = 10
  BY PrologueOpcodes
<1>2. Len(code) \in Nat /\ TypeOK
  BY DEF Compiled, TypeOK
<1>3. JVM_LLOAD_2 \notin {JVM_GETSTATIC, JVM_INVOKEVIRTUAL, JVM_CHECKCAST, JVM_ASTORE_1}
  BY DEF JVM_LLOAD_2, JVM_GETSTATIC, JVM_INVOKEVIRTUAL, JVM_CHECKCAST, JVM_ASTORE_1
<1>4. ASSUME NEW place \in Nat, place < 10, NEW op, IsStraight(op, 3),
             \/ Moves(op, << >>, << "ref" >>) /\ IsAt(place, below, << >>)
             \/ Moves(op, << "ref" >>, << "ref" >>) /\ IsAt(place, below, << "ref" >>),
             At(code, place) = op, op # JVM_LLOAD_2
      PROVE  Goes(place + 3, below, << "ref" >>)
  BY <1>1, <1>2, <1>4, StraightGoes
<1>5. CASE IsAt(0, below, << >>)
  <2>1. Goes(0 + 3, below, << "ref" >>)
    <3>1. PICK place \in Nat : place = 0
      OBVIOUS
    <3>2. /\ IsStraight(JVM_GETSTATIC, 3) /\ Moves(JVM_GETSTATIC, << >>, << "ref" >>)
          /\ IsAt(place, below, << >>) /\ place < 10 /\ At(code, place) = JVM_GETSTATIC
      BY <1>1, <1>5, <3>1, MoveTable, Straight
    <3>3. TypeOK /\ place < Len(code) /\ JVM_GETSTATIC # JVM_LLOAD_2 /\ 3 \in Nat
      BY <1>1, <1>2, <1>3, <3>2
    <3>4. Goes(place + 3, below, << "ref" >>)
      BY <3>2, <3>3, StraightGoes
    <3>. QED  BY <3>1, <3>4
  <2>2. Execute => IsAt(3, below, << "ref" >>)'
    BY <2>1 DEF Goes, IsAt
  <2>. QED  BY <2>1, <2>2 DEF Goes, InPrologue
<1>6. CASE IsAt(3, below, << "ref" >>)
  <2>1. Goes(3 + 3, below, << "ref" >>)
    BY <1>1, <1>3, <1>4, <1>6, MoveTable, Straight
  <2>2. Execute => IsAt(6, below, << "ref" >>)'
    BY <2>1 DEF Goes, IsAt
  <2>. QED  BY <2>1, <2>2 DEF Goes, InPrologue
<1>7. CASE IsAt(6, below, << "ref" >>)
  <2>1. Goes(6 + 3, below, << "ref" >>)
    BY <1>1, <1>3, <1>4, <1>7, MoveTable, Straight
  <2>2. Execute => IsAt(9, below, << "ref" >>)'
    BY <2>1 DEF Goes, IsAt
  <2>. QED  BY <2>1, <2>2 DEF Goes, InPrologue
<1>8. CASE IsAt(9, below, << "ref" >>)
  <2>1. Goes(9 + 1, below, << >>)
    BY <1>1, <1>2, <1>3, <1>8, MoveTable, Straight, StraightGoes
  <2>. QED  BY <1>1, <2>1 DEF Goes
<1>. QED  BY <1>5, <1>6, <1>7, <1>8 DEF InPrologue

(* Loading a register puts its value on top of what there is.               *)
LEMMA LoadGoes ==
  ASSUME TypeOK, NEW below \in Seq(Kinds), NEW place \in Nat, NEW r, Loads(r, place)
  PROVE  /\ IsAt(place, below, << >>) => Goes(place + 1, below, << "ref" >>)
         /\ IsAt(place + 1, below, << "ref" >>) => Goes(place + 3, below, << "ref", "int" >>)
         /\ IsAt(place + 3, below, << "ref", "int" >>) => Goes(place + 4, below, << "long" >>)
         /\ IsAt(place, below, << "long" >>) => Goes(place + 1, below, << "long", "ref" >>)
         /\ IsAt(place + 1, below, << "long", "ref" >>) =>
              Goes(place + 3, below, << "long", "ref", "int" >>)
         /\ IsAt(place + 3, below, << "long", "ref", "int" >>) =>
              Goes(place + 4, below, << "long", "long" >>)
<1>1. /\ place + 4 <= Len(code) /\ Len(code) \in Nat
      /\ place + 1 \in Nat /\ place + 3 \in Nat
      /\ place < Len(code) /\ place + 1 < Len(code) /\ place + 3 < Len(code)
      /\ (place + 1) + 2 = place + 3 /\ (place + 3) + 1 = place + 4
  BY DEF Loads, TypeOK
<1>2. JVM_LLOAD_2 \notin {JVM_ALOAD_1, JVM_BIPUSH, JVM_LALOAD}
  BY DEF JVM_LLOAD_2, JVM_ALOAD_1, JVM_BIPUSH, JVM_LALOAD
<1>3. ASSUME NEW before, NEW after, Moves(JVM_ALOAD_1, before, after), IsAt(place, below, before)
      PROVE  Goes(place + 1, below, after)
  BY <1>1, <1>2, <1>3, Straight, StraightGoes DEF Loads
<1>4. ASSUME NEW before, NEW after, Moves(JVM_BIPUSH, before, after),
             IsAt(place + 1, below, before)
      PROVE  Goes(place + 3, below, after)
  <2>1. Goes((place + 1) + 2, below, after)
    BY <1>1, <1>2, <1>4, Straight, StraightGoes DEF Loads
  <2>. QED  BY <1>1, <2>1
<1>5. ASSUME NEW before, NEW after, Moves(JVM_LALOAD, before, after),
             IsAt(place + 3, below, before)
      PROVE  Goes(place + 4, below, after)
  <2>1. Goes((place + 3) + 1, below, after)
    BY <1>1, <1>2, <1>5, Straight, StraightGoes DEF Loads
  <2>. QED  BY <1>1, <2>1
<1>. QED  BY <1>3, <1>4, <1>5, MoveTable

(* Storing a register takes its value away.                                 *)
LEMMA StoreGoes ==
  ASSUME TypeOK, NEW below \in Seq(Kinds), NEW place \in Nat, NEW r, Stores(r, place),
         InStore(r, place, below)
  PROVE  /\ CanExecute
         /\ Execute => \/ InStore(r, place, below)'
                       \/ offset' = place + StoreLength(r) /\ kinds' = below \o << >>
<1>1. Len(code) \in Nat /\ place + StoreLength(r) <= Len(code)
  BY DEF TypeOK, Stores
<1>2. CASE r = X0
  <2>1. IsAt(place, below, << "long" >>) /\ At(code, place) = JVM_POP2 /\ StoreLength(r) = 1
    BY <1>2 DEF InStore, Stores, StoreLength
  <2>2. place < Len(code) /\ JVM_POP2 # JVM_LLOAD_2
    BY <1>1, <2>1 DEF JVM_POP2, JVM_LLOAD_2
  <2>3. Goes(place + 1, below, << >>)
    BY <2>1, <2>2, MoveTable, Straight, StraightGoes
  <2>. QED  BY <2>1, <2>3 DEF Goes
<1>3. CASE r # X0
  <2>1. /\ StoreLength(r) = 6
        /\ At(code, place) = JVM_LSTORE_2 /\ At(code, place + 1) = JVM_ALOAD_1
        /\ At(code, place + 2) = JVM_BIPUSH /\ At(code, place + 4) = JVM_LLOAD_2
        /\ At(code, place + 5) = JVM_LASTORE
    BY <1>3 DEF Stores, StoreLength
  <2>2. /\ place + 1 \in Nat /\ place + 2 \in Nat /\ place + 4 \in Nat /\ place + 5 \in Nat
        /\ place < Len(code) /\ place + 1 < Len(code) /\ place + 2 < Len(code)
        /\ place + 4 < Len(code) /\ place + 5 < Len(code)
        /\ (place + 1) + 1 = place + 2 /\ (place + 2) + 2 = place + 4
        /\ (place + 4) + 1 = place + 5 /\ (place + 5) + 1 = place + 6
    BY <1>1, <2>1
  <2>3. JVM_LLOAD_2 \notin {JVM_LSTORE_2, JVM_ALOAD_1, JVM_BIPUSH, JVM_LASTORE}
    BY DEF JVM_LLOAD_2, JVM_LSTORE_2, JVM_ALOAD_1, JVM_BIPUSH, JVM_LASTORE
  <2>4. CASE IsAt(place, below, << "long" >>)
    <3>1. Goes(place + 1, below, << >>) /\ (Execute => local_2' # << >>)
      BY <2>1, <2>2, <2>3, <2>4, MoveTable, Straight, StraightGoes
    <3>. QED  BY <1>3, <3>1 DEF Goes, InStore, IsAt
  <2>5. CASE local_2 # << >> /\ IsAt(place + 1, below, << >>)
    <3>1. Goes((place + 1) + 1, below, << "ref" >>)
      BY <2>1, <2>2, <2>3, <2>5, MoveTable, Straight, StraightGoes
    <3>. QED  BY <1>3, <2>2, <2>5, <3>1 DEF Goes, InStore, IsAt
  <2>6. CASE local_2 # << >> /\ IsAt(place + 2, below, << "ref" >>)
    <3>1. Goes((place + 2) + 2, below, << "ref", "int" >>)
      BY <2>1, <2>2, <2>3, <2>6, MoveTable, Straight, StraightGoes
    <3>. QED  BY <1>3, <2>2, <2>6, <3>1 DEF Goes, InStore, IsAt
  <2>7. CASE local_2 # << >> /\ IsAt(place + 4, below, << "ref", "int" >>)
    <3>1. Goes((place + 4) + 1, below, << "ref", "int", "long" >>)
      BY <2>1, <2>2, <2>3, <2>7, MoveTable, Straight, StraightGoes
    <3>. QED  BY <1>3, <2>2, <2>7, <3>1 DEF Goes, InStore, IsAt
  <2>8. CASE local_2 # << >> /\ IsAt(place + 5, below, << "ref", "int", "long" >>)
    <3>1. Goes((place + 5) + 1, below, << >>)
      BY <2>1, <2>2, <2>3, <2>8, MoveTable, Straight, StraightGoes
    <3>. QED  BY <2>1, <2>2, <3>1 DEF Goes
  <2>. QED  BY <1>3, <2>4, <2>5, <2>6, <2>7, <2>8 DEF InStore
<1>. QED  BY <1>2, <1>3

(* A conditional jump goes on to the goto_w or after it, the goto_w to      *)
(* where the code of some element starts.                                   *)
LEMMA JumpGoes ==
  ASSUME Compiled, NEW m \in DOMAIN ir, IsJump(ir[m]), NEW s \in Nat, s = starts[m],
         NEW below \in Seq(Kinds),
         IsAt(s + 9, below, << "int" >>) \/ IsAt(s + 12, below, << >>)
  PROVE  /\ CanExecute
         /\ Execute => /\ kinds' = below \o << >>
                       /\ offset' = s + 12 \/ \E k \in DOMAIN ir : offset' = starts[k]
<1>1. /\ At(code, s + 9) \in {JVM_IFEQ, JVM_IFGT}
      /\ s + 9 + S2At(code, s + 10) = End(m)
      /\ At(code, s + 12) = JVM_GOTO_W
      /\ \E k \in DOMAIN ir : s + 12 + S4At(code, s + 13) = starts[k]
      /\ End(m) = s + 17
  BY JumpOpcodes
<1>2. End(m) <= Len(code) /\ Len(code) \in Nat
  BY CompiledTypes
<1>3. /\ s + 9 \in 0 .. Len(code) - 1 /\ s + 12 \in 0 .. Len(code) - 1 /\ s + 9 \in Nat
      /\ s + 12 \in Nat /\ (s + 9) + 1 = s + 10 /\ (s + 12) + 1 = s + 13 /\ (s + 9) + 3 = s + 12
  BY <1>1, <1>2, SMTT(60)
<1>4. {JVM_IFEQ, JVM_IFGT, JVM_GOTO_W} \subseteq Opcodes
      /\ JVM_LLOAD_2 \notin {JVM_IFEQ, JVM_IFGT, JVM_GOTO_W}
  BY DEF Opcodes, JVM_LLOAD_2, JVM_IFEQ, JVM_IFGT, JVM_GOTO_W
<1>5. CASE IsAt(s + 9, below, << "int" >>)
  <2>1. PICK op : op = At(code, s + 9)
    OBVIOUS
  <2>2. op \in Opcodes /\ op \in {JVM_IFEQ, JVM_IFGT} /\ Moves(op, << "int" >>, << >>)
    BY <1>1, <1>4, <2>1, MoveTable
  <2>3. /\ Opcode = op /\ OperandsOnTop(kinds, Opcode)
        /\ Execute => /\ kinds' = below \o << >>
                      /\ offset' \in {(s + 9) + 3, (s + 9) + S2At(code, (s + 9) + 1)}
    BY <1>3, <1>5, <2>1, <2>2, Executed
  <2>4. \E k \in DOMAIN ir : starts[k] = End(m)
    BY EndIsStart DEF IsJump, IsConditional, IsInstruction, IsEof
  <2>5. CanExecute
    BY <1>3, <1>4, <1>5, <2>2, <2>3 DEF CanExecute, IsAt
  <2>. QED  BY <1>1, <1>3, <2>3, <2>4, <2>5
<1>6. CASE IsAt(s + 12, below, << >>)
  <2>1. PICK op : op = JVM_GOTO_W
    OBVIOUS
  <2>2. op \in Opcodes /\ Moves(op, << >>, << >>) /\ At(code, s + 12) = op
    BY <1>1, <1>4, <2>1, MoveTable
  <2>3. /\ Opcode = op /\ OperandsOnTop(kinds, Opcode)
        /\ Execute => /\ kinds' = below \o << >>
                      /\ op = JVM_GOTO_W => offset' = (s + 12) + S4At(code, (s + 12) + 1)
    BY <1>3, <1>6, <2>2, Executed
  <2>4. CanExecute
    BY <1>3, <1>4, <1>6, <2>1, <2>2, <2>3 DEF CanExecute, IsAt
  <2>. QED  BY <1>1, <1>3, <2>1, <2>3, <2>4
<1>. QED  BY <1>5, <1>6

(* In the code of an element, the JVM goes on in it or to where some        *)
(* element starts.                                                          *)
LEMMA ElementGoes ==
  ASSUME Compiled, NEW m \in DOMAIN ir, NEW e, e = ir[m], NEW s \in Nat, s = starts[m],
         NEW below \in Seq(Kinds), InElement(e, s, below), WritesCode(e),
         IsR3(e) /\ IsAt(s + 8, below, << "long", "long" >>) => e.mnemonic = "ADD"
  PROVE  /\ CanExecute
         /\ Execute =>
              \/ InElement(e, s, below)'
              \/ \E k \in DOMAIN ir : offset' = starts[k] /\ kinds' = below \o << >>
<1>1. /\ TypeOK /\ Len(code) \in Nat /\ End(m) <= Len(code) /\ End(m) \in Nat
      /\ \E r : Loads(r, s)
      /\ \E k \in DOMAIN ir : starts[k] = End(m)
  <2>1. ~IsEof(e)
    BY DEF WritesCode, IsR3, IsAddi, IsJump, IsConditional, IsInstruction, IsEof
  <2>2. \E k \in DOMAIN ir : starts[k] = End(m)
    BY <2>1, EndIsStart
  <2>3. \E r : Loads(r, s)
    BY R3Opcodes, AddiOpcodes, JumpOpcodes DEF WritesCode
  <2>. QED  BY <2>2, <2>3, CompiledTypes
<1>2. IsR3(e) \/ IsJump(e) => \E r : Loads(r, s + 4)
  BY R3Opcodes, JumpOpcodes
<1>3. /\ s + 4 \in Nat /\ s + 7 \in Nat /\ s + 8 \in Nat
      /\ (s + 4) + 1 = s + 5 /\ (s + 4) + 3 = s + 7 /\ (s + 4) + 4 = s + 8
      /\ (s + 7) + 1 = s + 8 /\ (s + 8) + 1 = s + 9
  BY SMTT(30)
<1>4. /\ ~(IsR3(e) /\ IsAddi(e)) /\ ~(IsR3(e) /\ IsJump(e)) /\ ~(IsAddi(e) /\ IsJump(e))
  BY DEF IsR3, IsAddi, IsJump, IsConditional
<1>5. JVM_LLOAD_2 \notin {JVM_LDC_W, JVM_I2L, JVM_LADD, JVM_LCMP}
  BY DEF JVM_LLOAD_2, JVM_LDC_W, JVM_I2L, JVM_LADD, JVM_LCMP
<1>6. CASE IsAt(s, below, << >>)
  <2>1. Goes(s + 1, below, << "ref" >>)
    BY <1>1, <1>6, LoadGoes
  <2>. QED  BY <2>1 DEF Goes, InElement, IsAt
<1>7. CASE IsAt(s + 1, below, << "ref" >>)
  <2>1. Goes(s + 3, below, << "ref", "int" >>)
    BY <1>1, <1>7, LoadGoes
  <2>. QED  BY <2>1 DEF Goes, InElement, IsAt
<1>8. CASE IsAt(s + 3, below, << "ref", "int" >>)
  <2>1. Goes(s + 4, below, << "long" >>)
    BY <1>1, <1>8, LoadGoes
  <2>. QED  BY <2>1 DEF Goes, InElement, IsAt
<1>9. CASE IsAt(s + 4, below, << "long" >>)
  <2>1. CASE IsR3(e) \/ IsJump(e)
    <3>1. Goes((s + 4) + 1, below, << "long", "ref" >>)
      BY <1>1, <1>2, <1>3, <1>9, <2>1, LoadGoes
    <3>. QED  BY <1>3, <2>1, <3>1 DEF Goes, InElement, IsAt
  <2>2. CASE IsAddi(e)
    <3>1. At(code, s + 4) = JVM_LDC_W
      BY <2>2, AddiOpcodes
    <3>3. s + 4 < Len(code)
      BY <1>1, <2>2, AddiOpcodes, SMTT(60) DEF StoreLength
    <3>2. Goes((s + 4) + 3, below, << "long", "int" >>)
      BY <1>1, <1>3, <1>5, <1>9, <3>1, <3>3, MoveTable, Straight, StraightGoes
    <3>. QED  BY <1>3, <2>2, <3>2 DEF Goes, InElement, IsAt
  <2>. QED  BY <2>1, <2>2 DEF WritesCode
<1>10. CASE (IsR3(e) \/ IsJump(e)) /\ IsAt(s + 5, below, << "long", "ref" >>)
  <2>1. Goes((s + 4) + 3, below, << "long", "ref", "int" >>)
    BY <1>1, <1>2, <1>3, <1>10, LoadGoes
  <2>. QED  BY <1>3, <1>10, <2>1 DEF Goes, InElement, IsAt
<1>11. CASE (IsR3(e) \/ IsJump(e)) /\ IsAt(s + 7, below, << "long", "ref", "int" >>)
  <2>1. Goes((s + 4) + 4, below, << "long", "long" >>)
    BY <1>1, <1>2, <1>3, <1>11, LoadGoes
  <2>. QED  BY <1>3, <1>11, <2>1 DEF Goes, InElement, IsAt
<1>12. CASE IsAddi(e) /\ IsAt(s + 7, below, << "long", "int" >>)
  <2>1. At(code, s + 7) = JVM_I2L /\ s + 7 < Len(code)
    BY <1>1, <1>12, AddiOpcodes, SMTT(30) DEF StoreLength
  <2>2. Goes((s + 7) + 1, below, << "long", "long" >>)
    BY <1>1, <1>3, <1>5, <1>12, <2>1, MoveTable, Straight, StraightGoes
  <2>. QED  BY <1>3, <1>12, <2>2 DEF Goes, InElement, IsAt
<1>13. CASE (IsR3(e) \/ IsAddi(e)) /\ IsAt(s + 8, below, << "long", "long" >>)
  <2>1. At(code, s + 8) = JVM_LADD /\ s + 8 < Len(code) /\ StorePlace(e, s) = s + 9
    BY <1>1, <1>13, R3Opcodes, AddiOpcodes, SMTT(30) DEF StoreLength
  <2>2. Goes((s + 8) + 1, below, << "long" >>)
    BY <1>1, <1>3, <1>5, <1>13, <2>1, MoveTable, Straight, StraightGoes
  <2>. QED  BY <1>3, <1>13, <2>1, <2>2 DEF Goes, InElement, InStore, IsAt
<1>14. CASE IsJump(e) /\ IsAt(s + 8, below, << "long", "long" >>)
  <2>1. At(code, s + 8) = JVM_LCMP /\ s + 8 < Len(code)
    BY <1>1, <1>14, JumpOpcodes, SMTT(60)
  <2>2. Goes((s + 8) + 1, below, << "int" >>)
    BY <1>1, <1>3, <1>5, <1>14, <2>1, MoveTable, Straight, StraightGoes
  <2>. QED  BY <1>3, <1>14, <2>2 DEF Goes, InElement, IsAt
<1>15. CASE (IsR3(e) \/ IsAddi(e)) /\ InStore(e.rd, StorePlace(e, s), below)
  <2>1. PICK place : place = StorePlace(e, s)
    OBVIOUS
  <2>2. place \in Nat /\ Stores(e.rd, place) /\ End(m) = place + StoreLength(e.rd)
    <3>1. Stores(e.rd, place) /\ End(m) = place + StoreLength(e.rd)
      BY <1>15, <2>1, R3Opcodes, AddiOpcodes
    <3>2. place \in {s + 8, s + 9}
      BY <1>15, <2>1, R3Opcodes, AddiOpcodes
    <3>. QED  BY <3>1, <3>2
  <2>3. /\ CanExecute
        /\ Execute => \/ InStore(e.rd, place, below)'
                      \/ offset' = place + StoreLength(e.rd) /\ kinds' = below \o << >>
    BY <1>1, <1>15, <2>1, <2>2, StoreGoes
  <2>4. InStore(e.rd, place, below)' => InElement(e, s, below)'
    BY <1>15, <2>1 DEF InElement
  <2>. QED  BY <1>1, <2>2, <2>3, <2>4
<1>16. CASE IsJump(e) /\ (IsAt(s + 9, below, << "int" >>) \/ IsAt(s + 12, below, << >>))
  <2>1. /\ CanExecute
        /\ Execute => /\ kinds' = below \o << >>
                      /\ offset' = s + 12 \/ \E k \in DOMAIN ir : offset' = starts[k]
    BY <1>16, JumpGoes
  <2>. QED  BY <1>16, <2>1 DEF InElement, IsAt
<1>. QED  BY <1>6, <1>7, <1>8, <1>9, <1>10, <1>11, <1>12, <1>13, <1>14, <1>15, <1>16
          DEF InElement

(* An element that is not at its start has code.                            *)
LEMMA InsideWrites ==
  ASSUME NEW e, NEW s, NEW below, InElement(e, s, below), ~IsAt(s, below, << >>)
  PROVE  WritesCode(e)
BY DEF InElement, WritesCode

(* At IR_EOF nothing is executed.                                           *)
LEMMA ReturnStops ==
  ASSUME Opcode = JVM_RETURN
  PROVE  ~Execute
<1>1. ASSUME NEW o, NEW results, Executes(o, results) PROVE o = 177
  BY <1>1 DEF Executes, JVM_RETURN
<1>2. ASSUME Execute PROVE FALSE
  BY <1>1, <1>2 DEF Execute, References, Push, Compute, Store, Transfer, JVM_GETSTATIC,
     JVM_INVOKEVIRTUAL, JVM_CHECKCAST, JVM_ASTORE_1, JVM_ALOAD_1, JVM_BIPUSH, JVM_LDC_W,
     JVM_LLOAD_2, JVM_LALOAD, JVM_I2L, JVM_LADD, JVM_LCMP, JVM_LSTORE_2, JVM_POP2,
     JVM_LASTORE, JVM_IFEQ, JVM_IFGT, JVM_GOTO_W
<1>. QED  BY <1>2

(* The JVM returns at IR_EOF: it can do so, and executes nothing after it.  *)
LEMMA ReturnGoes ==
  ASSUME Compiled, NEW m \in DOMAIN ir, IsEof(ir[m]), NEW below \in Seq(Kinds),
         IsAt(starts[m], below, << >>)
  PROVE  CanExecute /\ ~Execute
<1>1. m = Len(ir)
  BY DEF Compiled, TypeOK, IsProgram
<1>2. /\ At(code, starts[m]) = JVM_RETURN /\ Len(code) = starts[m] + 1
      /\ starts[m] \in Nat /\ Len(code) \in Nat
  BY <1>1, CompiledTypes DEF Compiled, Shape
<1>3. offset = starts[m] /\ Opcode = JVM_RETURN
  BY <1>2 DEF IsAt, Opcode
<1>4. PICK op : op = JVM_RETURN
  OBVIOUS
<1>5. op \in Opcodes /\ op # JVM_LLOAD_2 /\ op = 177
  BY <1>4 DEF Opcodes, JVM_RETURN, JVM_LLOAD_2
<1>6. Moves(op, << >>, << >>)
  BY <1>4, MoveTable
<1>7. OperandsOnTop(kinds, Opcode)
  BY <1>2, <1>4, <1>5, <1>6, Executed
<1>8. CanExecute
  BY <1>2, <1>3, <1>4, <1>5, <1>7 DEF CanExecute
<1>. QED  BY <1>3, <1>8, ReturnStops

(* What the run of a finished method leaves of the method.                  *)
LEMMA ArrivesAt ==
  ASSUME UNCHANGED vars, NEW below, NEW k \in DOMAIN ir, offset' = starts[k],
         kinds' = below \o << >>
  PROVE  RunsFrom(below)'
<1>1. k \in DOMAIN ir' /\ offset' = starts'[k] /\ ir'[k] = ir[k]
  BY DEF vars
<1>2. IsAt(starts[k], below, << >>)'
  BY <1>1 DEF IsAt
<1>3. InElement(ir[k], starts[k], below)'
  BY <1>2 DEF InElement
<1>. QED  BY <1>1, <1>3 DEF RunsFrom

(* The unsupported R3 instructions write no operation: the store takes the  *)
(* second operand, and the first one stays.                                 *)
LEMMA Unsupported ==
  ASSUME Compiled, NEW m \in DOMAIN ir, IsR3(ir[m]), ir[m].mnemonic # "ADD",
         NEW below \in Seq(Kinds), IsAt(starts[m] + 8, below, << "long", "long" >>)
  PROVE  \E more \in Seq(Kinds) :
           IsAt(starts[m] + 8, more, << "long" >>) /\ InElement(ir[m], starts[m], more)
<1>1. PICK u : u = << "long" >>
  OBVIOUS
<1>2. u \in Seq(Kinds)
  BY <1>1 DEF Kinds
<1>3. PICK more : more = below \o u
  OBVIOUS
<1>4. more \in Seq(Kinds) /\ more \o u = below \o (u \o u)
  BY <1>2, <1>3, ConcatProperties, ConcatAssociative
<1>5. u \o u = << "long", "long" >>
  BY <1>1, SmallStacks DEF Kinds
<1>6. IsAt(starts[m] + 8, more, << "long" >>)
  BY <1>1, <1>4, <1>5 DEF IsAt
<1>7. StorePlace(ir[m], starts[m]) = starts[m] + 8
  BY R3Opcodes
<1>8. InElement(ir[m], starts[m], more)
  BY <1>6, <1>7 DEF InElement, InStore
<1>. QED  BY <1>4, <1>6, <1>8

(* From wherever the JVM is in a finished method it can go on, and gets to  *)
(* somewhere in it.                                                         *)
LEMMA RunGoes ==
  ASSUME Compiled, NEW below \in Seq(Kinds), RunsFrom(below), IsSupported(ir) => below = << >>
  PROVE  /\ CanExecute
         /\ Execute /\ UNCHANGED vars =>
              \E more \in Seq(Kinds) : (IsSupported(ir) => more = << >>) /\ RunsFrom(more)'
<1>1. CASE InPrologue(below)
  <2>1. /\ CanExecute
        /\ Execute => InPrologue(below)' \/ (offset' = starts[1] /\ kinds' = below \o << >>)
    BY <1>1, PrologueGoes
  <2>2. 1 \in DOMAIN ir
    BY PrologueOpcodes
  <2>. QED  BY <2>1, <2>2, ArrivesAt DEF RunsFrom
<1>2. ASSUME NEW m \in DOMAIN ir, NEW more \in Seq(Kinds), IsSupported(ir) => more = << >>,
             InElement(ir[m], starts[m], more), WritesCode(ir[m]),
             IsR3(ir[m]) /\ IsAt(starts[m] + 8, more, << "long", "long" >>)
               => ir[m].mnemonic = "ADD"
      PROVE  /\ CanExecute
             /\ Execute /\ UNCHANGED vars =>
                  \E most \in Seq(Kinds) : (IsSupported(ir) => most = << >>) /\ RunsFrom(most)'
  <2>1. PICK e : e = ir[m]
    OBVIOUS
  <2>2. PICK s \in Nat : s = starts[m]
    BY <1>2, CompiledTypes
  <2>3. /\ CanExecute
        /\ Execute => \/ InElement(e, s, more)'
                      \/ \E k \in DOMAIN ir : offset' = starts[k] /\ kinds' = more \o << >>
    BY <1>2, <2>1, <2>2, ElementGoes
  <2>4. ASSUME UNCHANGED vars, InElement(e, s, more)' PROVE RunsFrom(more)'
    <3>1. ir' = ir /\ starts' = starts
      BY <2>4 DEF vars
    <3>2. m \in DOMAIN ir' /\ e = ir'[m] /\ s = starts'[m]
      BY <1>2, <2>1, <2>2, <3>1
    <3>3. InElement(ir[m], starts[m], more)'
      BY <2>4, <3>2
    <3>. QED  BY <3>2, <3>3 DEF RunsFrom
  <2>. QED  BY <1>2, <2>3, <2>4, ArrivesAt
<1>3. ASSUME NEW m \in DOMAIN ir, InElement(ir[m], starts[m], below)
      PROVE  /\ CanExecute
             /\ Execute /\ UNCHANGED vars =>
                  \E most \in Seq(Kinds) : (IsSupported(ir) => most = << >>) /\ RunsFrom(most)'
  <2>1. CASE IsAt(starts[m], below, << >>)
    <3>1. PICK k \in DOMAIN ir : starts[k] = starts[m] /\ (WritesCode(ir[k]) \/ IsEof(ir[k]))
      BY <1>3, CodeAtStart
    <3>2. IsAt(starts[k], below, << >>)
      BY <2>1, <3>1
    <3>3. CASE IsEof(ir[k])
      BY <3>2, <3>3, ReturnGoes
    <3>4. CASE WritesCode(ir[k])
      <4>1. starts[k] \in Nat
        BY CompiledTypes
      <4>2. InElement(ir[k], starts[k], below)
        BY <3>2 DEF InElement
      <4>3. ~IsAt(starts[k] + 8, below, << "long", "long" >>)
        BY <3>2, <4>1 DEF IsAt
      <4>. QED  BY <1>2, <3>4, <4>2, <4>3
    <3>. QED  BY <3>1, <3>3, <3>4
  <2>2. CASE ~IsAt(starts[m], below, << >>)
    <3>1. WritesCode(ir[m])
      BY <1>3, <2>2, InsideWrites
    <3>2. CASE IsR3(ir[m]) /\ IsAt(starts[m] + 8, below, << "long", "long" >>)
               /\ ir[m].mnemonic # "ADD"
      <4>1. PICK more \in Seq(Kinds) :
              IsAt(starts[m] + 8, more, << "long" >>) /\ InElement(ir[m], starts[m], more)
        BY <1>3, <3>2, Unsupported
      <4>2. ~IsSupported(ir)
        BY <1>3, <3>2 DEF IsSupported
      <4>3. ~IsAt(starts[m] + 8, more, << "long", "long" >>)
        <5>1. PICK u : u = << "long" >>
          OBVIOUS
        <5>2. PICK v : v = << "long", "long" >>
          OBVIOUS
        <5>3. u \in Seq(Kinds) /\ v \in Seq(Kinds) /\ Len(u) = 1 /\ Len(v) = 2
          BY <5>1, <5>2 DEF Kinds
        <5>4. Len(more \o u) = Len(more) + Len(u) /\ Len(more \o v) = Len(more) + Len(v)
          BY <5>3, ConcatProperties
        <5>5. more \o u # more \o v
          BY <5>3, <5>4
        <5>. QED  BY <4>1, <5>1, <5>2, <5>5 DEF IsAt
      <4>. QED  BY <1>2, <1>3, <3>1, <4>1, <4>2, <4>3
    <3>. QED  BY <1>2, <1>3, <3>1, <3>2
  <2>. QED  BY <2>1, <2>2
<1>. QED  BY <1>1, <1>3 DEF RunsFrom

(* A step that changes nothing.                                             *)
LEMMA SameRun ==
  ASSUME RunInv, UNCHANGED vars, UNCHANGED jvmVars
  PROVE  RunInv'
<1>1. /\ ir' = ir /\ starts' = starts /\ pc' = pc /\ code' = code
      /\ offset' = offset /\ kinds' = kinds /\ local_2' = local_2
  BY DEF vars, jvmVars
<1>2. ASSUME NEW e, NEW s, NEW below, InElement(e, s, below)
      PROVE  InElement(e, s, below)'
  BY <1>1, <1>2, SMTT(60) DEF InElement, InStore, IsAt
<1>3. ASSUME NEW below, InPrologue(below) PROVE InPrologue(below)'
  BY <1>1, <1>3 DEF InPrologue, IsAt
<1>4. ASSUME NEW below, RunsFrom(below) PROVE RunsFrom(below)'
  <2>1. CASE InPrologue(below)
    BY <1>3, <2>1 DEF RunsFrom
  <2>2. ASSUME NEW m \in DOMAIN ir, InElement(ir[m], starts[m], below)
        PROVE  RunsFrom(below)'
    <3>1. PICK e : e = ir[m]
      OBVIOUS
    <3>2. PICK s : s = starts[m]
      OBVIOUS
    <3>3. InElement(e, s, below)'
      BY <1>2, <2>2, <3>1, <3>2
    <3>4. m \in DOMAIN ir' /\ e = ir'[m] /\ s = starts'[m]
      BY <1>1, <2>2, <3>1, <3>2
    <3>. QED  BY <3>3, <3>4 DEF RunsFrom
  <2>. QED  BY <1>4, <2>1, <2>2 DEF RunsFrom
<1>. QED  BY <1>1, <1>4 DEF RunInv, CodeFits

(* The JVM is always somewhere in a finished method.                        *)
LEMMA RunInvariance == ExecutionSpec => [](TypeOK /\ LayoutInv /\ ShapeInv /\ RunInv)
<1>1. ExecutionInit => RunInv
  BY DEF ExecutionInit, Init, JvmInit, RunInv
<1>2. ASSUME TypeOK, LayoutInv, ShapeInv, RunInv, [ExecutionNext]_allVars
      PROVE  RunInv'
  <2>1. CASE UNCHANGED allVars
    <3>1. UNCHANGED vars /\ UNCHANGED jvmVars
      BY <2>1 DEF allVars
    <3>. QED  BY <1>2, <3>1, SameRun
  <2>2. CASE Next /\ UNCHANGED jvmVars
    <3>1. pc # "done"
      BY <2>2 DEF Next, BeginMain, LoadConstant, WriteLabel, WriteR3, WriteAddi, WriteJump,
         WriteJumpUndefined, LabelOffsetMissing, WriteNothing, FirstPass, NextElement,
         EndFirstPass, UpdateLabelReference, EndMain
    <3>2. offset' = 0 /\ kinds' = << >>
      BY <1>2, <2>2, <3>1 DEF RunInv, jvmVars
    <3>3. PICK none : none = << >>
      OBVIOUS
    <3>4. none \in Seq(Kinds) /\ none \o none = << >>
      BY <3>3, ConcatEmptySeq
    <3>5. IsAt(0, none, << >>)'
      BY <3>2, <3>3, <3>4 DEF IsAt
    <3>6. RunsFrom(none)'
      BY <3>5 DEF RunsFrom, InPrologue
    <3>. QED  BY <3>2, <3>3, <3>4, <3>6 DEF RunInv
  <2>3. CASE pc = "done" /\ Execute /\ UNCHANGED vars
    <3>1. SUFFICES ASSUME CodeFits'
                   PROVE  \E below \in Seq(Kinds) :
                            (IsSupported(ir) => below = << >>)' /\ RunsFrom(below)'
      BY <2>3 DEF RunInv, vars
    <3>2. CodeFits /\ ir' = ir
      BY <2>3, <3>1 DEF CodeFits, vars
    <3>3. PICK below \in Seq(Kinds) : (IsSupported(ir) => below = << >>) /\ RunsFrom(below)
      BY <1>2, <2>3, <3>2 DEF RunInv
    <3>4. Compiled
      BY <1>2, <2>3, <3>2 DEF Compiled
    <3>. QED  BY <2>3, <3>2, <3>3, <3>4, RunGoes DEF IsSupported
  <2>. QED  BY <1>2, <2>1, <2>2, <2>3 DEF ExecutionNext
<1>. QED  BY <1>1, <1>2, RunKeepsMethod, PTL DEF ExecutionSpec

(* Whatever program was compiled into a method that fits in the code        *)
(* buffer, the JVM that runs it is always at an opcode whose operands are   *)
(* on its stack, each of the kind the opcode takes: NeverStuck.             *)
THEOREM NeverStuckCorrect == ExecutionSpec => []NeverStuck
<1>1. ASSUME TypeOK, LayoutInv, ShapeInv, RunInv, pc = "done", CodeFits
      PROVE  CanExecute
  <2>1. PICK below \in Seq(Kinds) : (IsSupported(ir) => below = << >>) /\ RunsFrom(below)
    BY <1>1 DEF RunInv
  <2>. QED  BY <1>1, <2>1, RunGoes DEF Compiled
<1>2. TypeOK /\ LayoutInv /\ ShapeInv /\ RunInv => NeverStuck
  BY <1>1 DEF NeverStuck, CanExecute
<1>. QED  BY <1>2, RunInvariance, PTL

-----------------------------------------------------------------------------
(* The operand stack of a supported program.                                *)

(* Above an empty stack there is only what is the element's own.            *)
LEMMA AtBottom ==
  ASSUME NEW place, NEW own \in Stacks, IsAt(place, << >>, own)
  PROVE  offset = place /\ kinds = own
<1>1. own \in Seq(Kinds)
  BY StacksAreSmall
<1>. QED  BY <1>1, ConcatEmptySeq DEF IsAt

(* In the prologue.                                                         *)
LEMMA PrologueBalanced ==
  ASSUME InPrologue(<< >>)
  PROVE  kinds \in Stacks /\ (kinds = << >> \/ offset < 10)
<1>1. << >> \in Stacks /\ << "ref" >> \in Stacks
  BY DEF Stacks
<1>. QED  BY <1>1, AtBottom DEF InPrologue

(* In an element, what is on the stack is there between its start and its   *)
(* end.                                                                     *)
LEMMA ElementBalanced ==
  ASSUME Compiled, NEW m \in DOMAIN ir, InElement(ir[m], starts[m], << >>)
  PROVE  kinds \in Stacks /\ (kinds = << >> \/ (starts[m] < offset /\ offset < End(m)))
<1>1. PICK e : e = ir[m]
  OBVIOUS
<1>2. PICK s \in Nat : s = starts[m]
  BY CompiledTypes
<1>3. /\ << >> \in Stacks /\ << "ref" >> \in Stacks /\ << "int" >> \in Stacks
      /\ << "long" >> \in Stacks /\ << "ref", "int" >> \in Stacks
      /\ << "long", "ref" >> \in Stacks /\ << "long", "int" >> \in Stacks
      /\ << "long", "long" >> \in Stacks /\ << "long", "ref", "int" >> \in Stacks
      /\ << "ref", "int", "long" >> \in Stacks
  BY DEF Stacks
<1>4. IsR3(e) \/ IsAddi(e) =>
        /\ StorePlace(e, s) \in {s + 8, s + 9}
        /\ End(m) = StorePlace(e, s) + StoreLength(e.rd)
        /\ StorePlace(e, s) = s + 8 => ~IsAddi(e)
  BY <1>1, <1>2, R3Opcodes, AddiOpcodes
<1>5. StoreLength(e.rd) \in {1, 6} /\ (e.rd # X0 => StoreLength(e.rd) = 6)
  BY DEF StoreLength
<1>6. IsJump(e) => End(m) = s + 17
  BY <1>1, <1>2, JumpOpcodes
<1>7. WritesCode(e) => s + 8 < End(m)
  BY <1>4, <1>5, <1>6 DEF WritesCode
<1>8. CASE IsAt(s, << >>, << >>)
  BY <1>3, <1>8, AtBottom
<1>9. ASSUME NEW own \in Stacks, NEW n \in {1, 3, 4, 5, 7, 8}, IsAt(s + n, << >>, own),
             WritesCode(e)
      PROVE  kinds \in Stacks /\ s < offset /\ offset < End(m)
  <2>1. offset = s + n /\ kinds = own
    BY <1>9, AtBottom
  <2>2. End(m) \in Nat
    BY CompiledTypes
  <2>. QED  BY <1>7, <1>9, <2>1, <2>2
<1>10. CASE (IsR3(e) \/ IsAddi(e)) /\ InStore(e.rd, StorePlace(e, s), << >>)
  <2>1. PICK place \in Nat : place = StorePlace(e, s)
    BY <1>4, <1>10
  <2>2. place \in {s + 8, s + 9} /\ End(m) = place + StoreLength(e.rd)
    BY <1>4, <1>10, <2>1
  <2>3. ASSUME NEW own \in Stacks, NEW n \in 0 .. 5, IsAt(place + n, << >>, own),
               n = 0 \/ e.rd # X0
        PROVE  kinds \in Stacks /\ s < offset /\ offset < End(m)
    <3>1. offset = place + n /\ kinds = own
      BY <2>3, AtBottom
    <3>. QED  BY <1>5, <2>2, <2>3, <3>1
  <2>4. CASE IsAt(place, << >>, << "long" >>)
    <3>1. place + 0 = place
      OBVIOUS
    <3>2. IsAt(place + 0, << >>, << "long" >>)
      BY <2>4, <3>1
    <3>3. 0 \in 0 .. 5
      OBVIOUS
    <3>. QED  BY <1>2, <1>3, <2>3, <3>2, <3>3
  <2>5. CASE e.rd # X0 /\ ~IsAt(place, << >>, << "long" >>)
    BY <1>2, <1>3, <1>10, <2>1, <2>3, <2>5 DEF InStore
  <2>. QED  BY <1>10, <2>1, <2>4, <2>5 DEF InStore
<1>11. CASE IsJump(e) /\ (IsAt(s + 9, << >>, << "int" >>) \/ IsAt(s + 12, << >>, << >>))
  <2>1. \/ offset = s + 9 /\ kinds = << "int" >>
        \/ kinds = << >>
    BY <1>3, <1>11, AtBottom
  <2>2. s < s + 9 /\ s + 9 < End(m)
    BY <1>6, <1>11
  <2>. QED  BY <1>2, <1>3, <2>1, <2>2
<1>. QED  BY <1>1, <1>2, <1>3, <1>8, <1>9, <1>10, <1>11 DEF InElement, WritesCode

(* empty between instructions and within max_stack inside one:              *)
(* StackBalanced.                                                           *)
THEOREM StackBalancedCorrect == ExecutionSpec => []StackBalanced
<1>1. ASSUME TypeOK, LayoutInv, ShapeInv, RunInv, pc = "done", CodeFits, IsSupported(ir)
      PROVE  (StartsAt(offset) # {} => kinds = << >>) /\ Slots(kinds) <= MaxStack
  <2>1. RunsFrom(<< >>) /\ Compiled
    BY <1>1 DEF RunInv, Compiled
  <2>2. CASE InPrologue(<< >>)
    <3>1. kinds \in Stacks /\ (kinds = << >> \/ offset < 10)
      BY <2>2, PrologueBalanced
    <3>2. ASSUME NEW k \in DOMAIN ir, starts[k] = offset PROVE ~(offset < 10)
      <4>1. 1 \in DOMAIN ir /\ starts[1] = 10
        BY <2>1, PrologueOpcodes
      <4>2. /\ starts[k] \in Nat /\ k \in Nat /\ k >= 1 /\ k \in DOMAIN starts
            /\ 1 \in DOMAIN starts /\ Layout
        BY <2>1, <3>2, <4>1, CompiledTypes
      <4>3. End(1) \in Nat /\ starts[1] <= End(1)
        BY <2>1, <4>1, CompiledTypes
      <4>4. 1 < k => End(1) <= starts[k]
        BY <4>2 DEF Layout, InOrder
      <4>. QED  BY <3>2, <4>1, <4>2, <4>3, <4>4
    <3>. QED  BY <3>1, <3>2, StacksAreSmall DEF StartsAt, MaxStack
  <2>3. ASSUME NEW m \in DOMAIN ir, InElement(ir[m], starts[m], << >>)
        PROVE  (StartsAt(offset) # {} => kinds = << >>) /\ Slots(kinds) <= MaxStack
    <3>1. kinds \in Stacks /\ (kinds = << >> \/ (starts[m] < offset /\ offset < End(m)))
      BY <2>1, <2>3, ElementBalanced
    <3>2. ASSUME NEW k \in DOMAIN ir, starts[k] = offset, starts[m] < offset, offset < End(m)
          PROVE  FALSE
      BY <2>1, <2>3, <3>2, StartsApart
    <3>. QED  BY <3>1, <3>2, StacksAreSmall DEF StartsAt, MaxStack
  <2>. QED  BY <2>1, <2>2, <2>3 DEF RunsFrom
<1>2. TypeOK /\ LayoutInv /\ ShapeInv /\ RunInv => StackBalanced
  BY <1>1 DEF StackBalanced
<1>. QED  BY <1>2, RunInvariance, PTL

-----------------------------------------------------------------------------
(* What the run computes.                                                   *)

(* What the JVM has computed of an element when it is at a place in its     *)
(* code: the operand stack holds the values of the registers it has read.   *)
Has(place, own) == offset = place /\ values = own

FirstRegister(e) == IF IsJump(e) THEN e.rd ELSE e.rs1
SecondRegister(e) == IF IsJump(e) THEN e.rs1 ELSE e.rs2
FirstValue(e) == registers[FirstRegister(e)]
SecondValue(e) == IF IsAddi(e) THEN e.imm ELSE registers[SecondRegister(e)]

Sum(e) == Long(FirstValue(e) + SecondValue(e))
Order(v, w) == IF v < w THEN -1 ELSE IF v = w THEN 0 ELSE 1

(* In the prologue there are no values, only references.                    *)
Preparing == Has(0, << >>) \/ \E place \in {3, 6, 9} : Has(place, << 0 >>)

(* In the code that stores a value.                                         *)
Storing(r, place, v) ==
  \/ Has(place, << v >>)
  \/ /\ r # X0 /\ local_2 = << v >>
     /\ \/ Has(place + 1, << >>)
        \/ Has(place + 2, << 0 >>)
        \/ Has(place + 4, << 0, r >>)
        \/ Has(place + 5, << 0, r, v >>)

(* In the code of an element that starts at s.                              *)
Computing(e, s) ==
  \/ Has(s, << >>)
  \/ /\ WritesCode(e)
     /\ \/ Has(s + 1, << 0 >>)
        \/ Has(s + 3, << 0, FirstRegister(e) >>)
        \/ Has(s + 4, << FirstValue(e) >>)
        \/ Has(s + 8, << FirstValue(e), SecondValue(e) >>)
  \/ /\ IsR3(e) \/ IsJump(e)
     /\ \/ Has(s + 5, << FirstValue(e), 0 >>)
        \/ Has(s + 7, << FirstValue(e), 0, SecondRegister(e) >>)
  \/ IsAddi(e) /\ Has(s + 7, << FirstValue(e), SecondValue(e) >>)
  \/ /\ IsR3(e) \/ IsAddi(e)
     /\ Storing(e.rd, s + 9, Sum(e))
  \/ /\ IsJump(e)
     /\ \/ Has(s + 9, << Order(FirstValue(e), SecondValue(e)) >>)
        \/ FirstValue(e) # SecondValue(e) /\ Has(s + 12, << >>)

(* The elements whose code computes what RISC-V says.  Not among them are   *)
(* the BLT and the jumps, which do not; and the instructions that no code   *)
(* is written for, or module Rv has no meaning of.                          *)
IsFaithful(e) ==
  \/ IsLabel(e) \/ IsEof(e)
  \/ IsR3(e) /\ e.mnemonic = "ADD"
  \/ IsAddi(e) /\ HasImm(e)
  \/ IsInstruction(e) /\ e.mnemonic = "BNE" /\ HasLabel(e)

(* A program of such elements, and a method and a constant pool that are    *)
(* within what a class file can have.                                       *)
ConstantsFit == FixedConstants + Len(integers) < U16Range
Faithful ==
  /\ \A k \in DOMAIN ir : IsFaithful(ir[k])
  /\ pc = "done" => CodeFits /\ ConstantsFit

(* The JVM computes what the element it is in says, from the registers.     *)
ValuesInv ==
  /\ pc # "done" => /\ offset = 0 /\ values = << >>
                    /\ registers = [r \in Registers |-> 0]
  /\ pc = "done" /\ Faithful =>
       /\ registers \in [Registers -> Int]
       /\ Preparing \/ \E m \in DOMAIN ir : Computing(ir[m], starts[m])

-----------------------------------------------------------------------------
(* Two's complement.                                                        *)

(* Wrapping changes a number by a multiple of the range, and such a change  *)
(* does not show after wrapping.                                            *)
LEMMA WrappedBy ==
  ASSUME NEW range \in Nat \ {0}, NEW n \in Int
  PROVE  /\ Wrapped(n, range) \in Int
         /\ \E p \in Int : Wrapped(n, range) = range * p + n
         /\ \A p \in Int : Wrapped(range * p + n, range) = Wrapped(n, range)
<1>1. PICK half \in Int : half = range \div 2
  OBVIOUS
<1>2. PICK x \in Int : x = n + half
  BY <1>1
<1>. DEFINE q == x \div range
            r == x % range
<1>3. q \in Int /\ r \in Int /\ x = range * q + r
  OBVIOUS
<1>4. Wrapped(n, range) = r - half
  BY <1>1, <1>2 DEF Wrapped
<1>. HIDE DEF q, r
<1>5. range * q \in Int /\ range * (-q) = -(range * q) /\ -q \in Int
  BY <1>3
<1>6. Wrapped(n, range) = range * (-q) + n /\ Wrapped(n, range) \in Int
  <2>1. PICK z \in Int : z = range * q /\ range * (-q) = -z
    BY <1>5
  <2>2. r - half = -z + n
    BY <1>1, <1>2, <1>3, <2>1
  <2>. QED  BY <1>1, <1>3, <1>4, <2>1, <2>2
<1>7. ASSUME NEW p \in Int PROVE Wrapped(range * p + n, range) = Wrapped(n, range)
  <2>1. (range * p + x) % range = r
    BY ModShift DEF r
  <2>2. range * p \in Int
    OBVIOUS
  <2>3. (range * p + n) + half = range * p + x
    BY <1>1, <1>2, <2>2
  <2>4. Wrapped(range * p + n, range) = ((range * p + x) % range) - half
    BY <1>1, <2>3 DEF Wrapped
  <2>. QED  BY <1>4, <2>1, <2>4
<1>. QED  BY <1>5, <1>6, <1>7

(* The register a long stands for, and the one a sum of longs stands for:   *)
(* no bit above those of a register gets into them.                         *)
LEMMA LowSum ==
  ASSUME NEW n \in Int, NEW m \in Int
  PROVE  /\ Long(n) \in Int /\ Low(n) \in Int
         /\ Low(Long(n + m)) = Low(Low(n) + Low(m))
         /\ Low(Long(n + m)) = Low(Low(n) + m)
<1>1. LongRange \in Nat \ {0} /\ XRange \in Nat \ {0} /\ (LongRange % XRange) = 0
  BY RangesAssumption
<1>2. PICK c \in Int : LongRange = XRange * c
  <2>1. LongRange = XRange * (LongRange \div XRange) + (LongRange % XRange)
        /\ LongRange \div XRange \in Int
    BY <1>1
  <2>2. XRange * (LongRange \div XRange) \in Int
    BY <1>1, <2>1
  <2>. QED  BY <1>1, <2>1, <2>2
<1>3. \A x \in Int : /\ Low(x) \in Int /\ Long(x) \in Int
                     /\ \E p \in Int : Low(x) = XRange * p + x
                     /\ \E p \in Int : Long(x) = LongRange * p + x
                     /\ \A p \in Int : Low(XRange * p + x) = Low(x)
  BY <1>1, WrappedBy DEF Low, Long
<1>4. Low(Long(n + m)) = Low(n + m)
  <2>1. PICK p \in Int : Long(n + m) = LongRange * p + (n + m)
    BY <1>3
  <2>2. PICK d \in Int : d = c * p
    BY <1>2
  <2>3. XRange * d = LongRange * p
    BY <1>1, <1>2, <2>2
  <2>. QED  BY <1>3, <2>1, <2>2, <2>3
<1>5. PICK p \in Int : Low(n) = XRange * p + n
  BY <1>3
<1>6. PICK q \in Int : Low(m) = XRange * q + m
  BY <1>3
<1>7. XRange * p \in Int /\ XRange * q \in Int /\ XRange * (p + q) = XRange * p + XRange * q
      /\ p + q \in Int /\ n + m \in Int
  BY <1>1
<1>8. Low(n) + Low(m) = XRange * (p + q) + (n + m)
  BY <1>5, <1>6, <1>7
<1>9. Low(n) + m = XRange * p + (n + m)
  BY <1>5, <1>7
<1>. QED  BY <1>3, <1>4, <1>7, <1>8, <1>9

-----------------------------------------------------------------------------
(* What executing an opcode changes, top being its operands.                *)
Effect(op, rest, top) ==
  /\ op \in {JVM_GETSTATIC, JVM_INVOKEVIRTUAL, JVM_CHECKCAST, JVM_ALOAD_1} =>
       values' = rest \o << 0 >>
  /\ op \in {JVM_ASTORE_1, JVM_LSTORE_2, JVM_POP2, JVM_LASTORE, JVM_IFEQ, JVM_GOTO_W} =>
       values' = rest \o << >>
  /\ op = JVM_BIPUSH => values' = rest \o << At(code, offset + 1) >>
  /\ op = JVM_LDC_W =>
       values' = rest \o << integers[U2At(code, offset + 1) - FixedConstants] >>
  /\ op = JVM_LLOAD_2 => values' = rest \o local_2
  /\ op = JVM_LALOAD => values' = rest \o << registers[top[2]] >>
  /\ op = JVM_I2L => values' = rest \o << top[1] >>
  /\ op = JVM_LADD => values' = rest \o << Long(top[1] + top[2]) >>
  /\ op = JVM_LCMP => values' = rest \o << Order(top[1], top[2]) >>
  /\ local_2' = IF op = JVM_LSTORE_2 THEN << top[1] >> ELSE local_2
  /\ registers' = IF op = JVM_LASTORE THEN [registers EXCEPT ![top[2]] = top[3]]
                  ELSE registers
  /\ op \notin {JVM_IFEQ, JVM_IFGT, JVM_GOTO_W} => offset' = offset + Width(op)
  /\ op = JVM_GOTO_W => offset' = offset + S4At(code, offset + 1)
  /\ op = JVM_IFEQ =>
       offset' = offset + (IF top[1] = 0 THEN S2At(code, offset + 1) ELSE 3)

(* What an opcode computes from the values on top of the stack.             *)
LEMMA Computed ==
  ASSUME NEW op, Opcode = op, NEW rest \in Seq(Int), NEW top \in Seq(Int),
         values = rest \o top, Len(top) = Len(Operands(op)), Execute
  PROVE  Effect(op, rest, top)
<1>1. PICK operands : operands = Operands(op)
  OBVIOUS
<1>2. Len(top) = Len(operands) /\ Len(top) \in Nat /\ Len(rest) \in Nat
      /\ Len(values) = Len(rest) + Len(top)
      /\ \A n \in 1 .. Len(top) : values[Len(rest) + n] = top[n]
  <2>1. PICK all : all = rest \o top
    OBVIOUS
  <2>2. /\ Len(all) = Len(rest) + Len(top)
        /\ \A n \in 1 .. Len(rest) + Len(top) :
             all[n] = IF n <= Len(rest) THEN rest[n] ELSE top[n - Len(rest)]
    BY <2>1, ConcatProperties
  <2>3. Len(top) \in Nat /\ Len(rest) \in Nat
    OBVIOUS
  <2>4. ASSUME NEW n \in 1 .. Len(top) PROVE all[Len(rest) + n] = top[n]
    <3>1. /\ Len(rest) + n \in 1 .. Len(rest) + Len(top) /\ ~(Len(rest) + n <= Len(rest))
          /\ (Len(rest) + n) - Len(rest) = n
      BY <2>3
    <3>. QED  BY <2>2, <3>1
  <2>. QED  BY <1>1, <2>1, <2>2, <2>3, <2>4
<1>3. ASSUME NEW n \in 1 .. Len(top) PROVE Operand(n) = top[n]
  <2>1. Len(values) - Len(operands) + n = Len(rest) + n
    BY <1>2
  <2>. QED  BY <1>1, <1>2, <2>1 DEF Operand
<1>4. SubSeq(values, 1, Len(values) - Len(operands)) = rest
  BY <1>2, WithoutLast
<1>5. ASSUME NEW o, NEW results, Executes(o, results)
      PROVE  o = op /\ values' = rest \o results
  BY <1>1, <1>4, <1>5 DEF Executes, Below
<1>6. /\ op \in {JVM_LSTORE_2, JVM_I2L, JVM_IFEQ} => Len(top) = 1
      /\ op \in {JVM_LADD, JVM_LCMP, JVM_LALOAD} => Len(top) = 2
      /\ op = JVM_LASTORE => Len(top) = 3
  <2>1. /\ op \in {JVM_LSTORE_2, JVM_I2L, JVM_IFEQ} => Len(Operands(op)) = 1
        /\ op \in {JVM_LADD, JVM_LCMP, JVM_LALOAD} => Len(Operands(op)) = 2
        /\ op = JVM_LASTORE => Len(Operands(op)) = 3
    BY DEF Operands, JVM_BIPUSH, JVM_LDC_W, JVM_LLOAD_2, JVM_ALOAD_1, JVM_LALOAD,
         JVM_LSTORE_2, JVM_ASTORE_1, JVM_LASTORE, JVM_POP2, JVM_LADD, JVM_I2L, JVM_LCMP,
         JVM_IFEQ, JVM_IFGT, JVM_RETURN, JVM_GETSTATIC, JVM_INVOKEVIRTUAL, JVM_CHECKCAST,
         JVM_GOTO_W
  <2>. QED  BY <2>1
<1>7. /\ op \in {JVM_LSTORE_2, JVM_I2L, JVM_IFEQ} => Operand(1) = top[1]
      /\ op \in {JVM_LADD, JVM_LCMP, JVM_LALOAD} => Operand(1) = top[1] /\ Operand(2) = top[2]
      /\ op = JVM_LASTORE => Operand(2) = top[2] /\ Operand(3) = top[3]
  BY <1>3, <1>6
<1>. DEFINE reference == rest \o << 0 >>
            nothing == rest \o << >>
            byte == rest \o << At(code, offset + 1) >>
            constant == rest \o << integers[U2At(code, offset + 1) - FixedConstants] >>
            local == rest \o local_2
            register == rest \o << registers[top[2]] >>
            same == rest \o << top[1] >>
            sum == rest \o << Long(top[1] + top[2]) >>
            order == rest \o << Order(top[1], top[2]) >>
            saved == << top[1] >>
            stored == [registers EXCEPT ![top[2]] = top[3]]
            next == offset + Width(op)
            far == offset + S4At(code, offset + 1)
            skipped == offset + (IF top[1] = 0 THEN S2At(code, offset + 1) ELSE 3)
            Plain == offset' = next /\ local_2' = local_2 /\ registers' = registers
<1>8. ASSUME References
      PROVE  /\ Plain
             /\ \/ /\ op \in {JVM_GETSTATIC, JVM_INVOKEVIRTUAL, JVM_CHECKCAST, JVM_ALOAD_1}
                   /\ values' = reference
                \/ op = JVM_ASTORE_1 /\ values' = nothing
  BY <1>5, <1>8 DEF References, Continue
<1>9. ASSUME Push
      PROVE  /\ Plain
             /\ \/ op = JVM_BIPUSH /\ values' = byte
                \/ /\ op = JVM_LDC_W
                   /\ values' = constant
                \/ op = JVM_LLOAD_2 /\ values' = local
  BY <1>5, <1>9 DEF Push, Continue
<1>10. ASSUME Compute
       PROVE  /\ Plain
              /\ \/ op = JVM_LALOAD /\ values' = register
                 \/ op = JVM_I2L /\ values' = same
                 \/ op = JVM_LADD /\ values' = sum
                 \/ op = JVM_LCMP /\ values' = order
  <2>1. Plain
    BY <1>5, <1>10 DEF Compute, Continue
  <2>2. CASE Executes(JVM_LALOAD, << registers[Operand(2)] >>)
    BY <1>5, <1>7, <2>1, <2>2
  <2>3. CASE Executes(JVM_I2L, << Operand(1) >>)
    BY <1>5, <1>7, <2>1, <2>3
  <2>4. CASE Executes(JVM_LADD, << Long(Operand(1) + Operand(2)) >>)
    BY <1>5, <1>7, <2>1, <2>4
  <2>5. CASE Executes(JVM_LCMP, << Order(Operand(1), Operand(2)) >>)
    BY <1>5, <1>7, <2>1, <2>5
  <2>. QED  BY <1>10, <2>2, <2>3, <2>4, <2>5 DEF Compute, Order
<1>11. ASSUME Store
       PROVE  /\ offset' = next /\ values' = nothing
              /\ \/ op = JVM_LSTORE_2 /\ local_2' = saved /\ registers' = registers
                 \/ op = JVM_POP2 /\ local_2' = local_2 /\ registers' = registers
                 \/ /\ op = JVM_LASTORE /\ local_2' = local_2
                    /\ registers' = stored
  BY <1>5, <1>7, <1>11 DEF Store, Continue
<1>12. Width(JVM_IFEQ) = 3
  BY DEF Width, JVM_IFEQ, JVM_BIPUSH, JVM_LDC_W, JVM_IFGT, JVM_GETSTATIC, JVM_INVOKEVIRTUAL,
         JVM_CHECKCAST, JVM_GOTO_W
<1>13. JVM_IFEQ # JVM_IFGT
  BY DEF JVM_IFEQ, JVM_IFGT
<1>14. ASSUME Transfer
       PROVE  /\ values' = nothing /\ local_2' = local_2 /\ registers' = registers
              /\ \/ /\ op = JVM_IFEQ
                    /\ offset' = skipped
                 \/ op = JVM_IFGT
                 \/ op = JVM_GOTO_W /\ offset' = far
  BY <1>5, <1>7, <1>12, <1>13, <1>14 DEF Transfer, Condition
<1>. HIDE DEF reference, nothing, byte, constant, local, register, same, sum, order, saved,
              stored, next, far, skipped
<1>15. /\ op \in {JVM_GETSTATIC, JVM_INVOKEVIRTUAL, JVM_CHECKCAST, JVM_ALOAD_1} =>
            values' = reference
       /\ op \in {JVM_ASTORE_1, JVM_LSTORE_2, JVM_POP2, JVM_LASTORE, JVM_IFEQ, JVM_GOTO_W} =>
            values' = nothing
       /\ op = JVM_BIPUSH => values' = byte
       /\ op = JVM_LDC_W => values' = constant
       /\ op = JVM_LLOAD_2 => values' = local
       /\ op = JVM_LALOAD => values' = register
       /\ op = JVM_I2L => values' = same
       /\ op = JVM_LADD => values' = sum
       /\ op = JVM_LCMP => values' = order
       /\ op = JVM_LSTORE_2 => local_2' = saved
       /\ op # JVM_LSTORE_2 => local_2' = local_2
       /\ op = JVM_LASTORE => registers' = stored
       /\ op # JVM_LASTORE => registers' = registers
       /\ op \notin {JVM_IFEQ, JVM_IFGT, JVM_GOTO_W} => offset' = next
       /\ op = JVM_GOTO_W => offset' = far
       /\ op = JVM_IFEQ => offset' = skipped
  <2>1. CASE References
    BY <1>8, <2>1, SMTT(30)
    DEF JVM_BIPUSH, JVM_LDC_W, JVM_LLOAD_2, JVM_ALOAD_1, JVM_LALOAD,
           JVM_LSTORE_2, JVM_ASTORE_1, JVM_LASTORE, JVM_POP2, JVM_LADD, JVM_I2L, JVM_LCMP,
           JVM_IFEQ, JVM_IFGT, JVM_GETSTATIC, JVM_INVOKEVIRTUAL, JVM_CHECKCAST, JVM_GOTO_W
  <2>2. CASE Push
    BY <1>9, <2>2, SMTT(60)
    DEF JVM_BIPUSH, JVM_LDC_W, JVM_LLOAD_2, JVM_ALOAD_1, JVM_LALOAD,
           JVM_LSTORE_2, JVM_ASTORE_1, JVM_LASTORE, JVM_POP2, JVM_LADD, JVM_I2L, JVM_LCMP,
           JVM_IFEQ, JVM_IFGT, JVM_GETSTATIC, JVM_INVOKEVIRTUAL, JVM_CHECKCAST, JVM_GOTO_W
  <2>3. CASE Compute
    BY <1>10, <2>3, SMTT(60)
    DEF JVM_BIPUSH, JVM_LDC_W, JVM_LLOAD_2, JVM_ALOAD_1, JVM_LALOAD,
           JVM_LSTORE_2, JVM_ASTORE_1, JVM_LASTORE, JVM_POP2, JVM_LADD, JVM_I2L, JVM_LCMP,
           JVM_IFEQ, JVM_IFGT, JVM_GETSTATIC, JVM_INVOKEVIRTUAL, JVM_CHECKCAST, JVM_GOTO_W
  <2>4. CASE Store
    <3>1. CASE op = JVM_LSTORE_2
      BY <1>11, <2>4, <3>1
      DEF JVM_BIPUSH, JVM_LDC_W, JVM_LLOAD_2, JVM_ALOAD_1, JVM_LALOAD,
          JVM_LSTORE_2, JVM_ASTORE_1, JVM_LASTORE, JVM_POP2, JVM_LADD, JVM_I2L, JVM_LCMP,
          JVM_IFEQ, JVM_IFGT, JVM_GETSTATIC, JVM_INVOKEVIRTUAL, JVM_CHECKCAST, JVM_GOTO_W
    <3>2. CASE op = JVM_POP2
      BY <1>11, <2>4, <3>2
      DEF JVM_BIPUSH, JVM_LDC_W, JVM_LLOAD_2, JVM_ALOAD_1, JVM_LALOAD,
          JVM_LSTORE_2, JVM_ASTORE_1, JVM_LASTORE, JVM_POP2, JVM_LADD, JVM_I2L, JVM_LCMP,
          JVM_IFEQ, JVM_IFGT, JVM_GETSTATIC, JVM_INVOKEVIRTUAL, JVM_CHECKCAST, JVM_GOTO_W
    <3>3. CASE op = JVM_LASTORE
      BY <1>11, <2>4, <3>3
      DEF JVM_BIPUSH, JVM_LDC_W, JVM_LLOAD_2, JVM_ALOAD_1, JVM_LALOAD,
          JVM_LSTORE_2, JVM_ASTORE_1, JVM_LASTORE, JVM_POP2, JVM_LADD, JVM_I2L, JVM_LCMP,
          JVM_IFEQ, JVM_IFGT, JVM_GETSTATIC, JVM_INVOKEVIRTUAL, JVM_CHECKCAST, JVM_GOTO_W
    <3>. QED  BY <1>11, <2>4, <3>1, <3>2, <3>3
  <2>5. CASE Transfer
    <3>1. CASE op = JVM_IFEQ
      BY <1>14, <2>5, <3>1
      DEF JVM_BIPUSH, JVM_LDC_W, JVM_LLOAD_2, JVM_ALOAD_1, JVM_LALOAD,
          JVM_LSTORE_2, JVM_ASTORE_1, JVM_LASTORE, JVM_POP2, JVM_LADD, JVM_I2L, JVM_LCMP,
          JVM_IFEQ, JVM_IFGT, JVM_GETSTATIC, JVM_INVOKEVIRTUAL, JVM_CHECKCAST, JVM_GOTO_W
    <3>2. CASE op = JVM_IFGT
      BY <1>14, <2>5, <3>2
      DEF JVM_BIPUSH, JVM_LDC_W, JVM_LLOAD_2, JVM_ALOAD_1, JVM_LALOAD,
          JVM_LSTORE_2, JVM_ASTORE_1, JVM_LASTORE, JVM_POP2, JVM_LADD, JVM_I2L, JVM_LCMP,
          JVM_IFEQ, JVM_IFGT, JVM_GETSTATIC, JVM_INVOKEVIRTUAL, JVM_CHECKCAST, JVM_GOTO_W
    <3>3. CASE op = JVM_GOTO_W
      BY <1>14, <2>5, <3>3
      DEF JVM_BIPUSH, JVM_LDC_W, JVM_LLOAD_2, JVM_ALOAD_1, JVM_LALOAD,
          JVM_LSTORE_2, JVM_ASTORE_1, JVM_LASTORE, JVM_POP2, JVM_LADD, JVM_I2L, JVM_LCMP,
          JVM_IFEQ, JVM_IFGT, JVM_GETSTATIC, JVM_INVOKEVIRTUAL, JVM_CHECKCAST, JVM_GOTO_W
    <3>. QED  BY <1>14, <2>5, <3>1, <3>2, <3>3
  <2>. QED  BY <2>1, <2>2, <2>3, <2>4, <2>5 DEF Execute
<1>. QED
  BY <1>15
  DEF Effect, reference, nothing, byte, constant, local, register, same, sum, order, saved,
      stored, next, far, skipped

(* An opcode that is no branch and neither assigns the local variable nor   *)
(* writes to a register.                                                    *)
IsQuiet(op, width) == IsStraight(op, width) /\ op \notin {JVM_LSTORE_2, JVM_LASTORE}

(* Those opcodes.                                                           *)
LEMMA Quiet ==
  /\ IsQuiet(JVM_GETSTATIC, 3) /\ IsQuiet(JVM_INVOKEVIRTUAL, 3)
  /\ IsQuiet(JVM_CHECKCAST, 3) /\ IsQuiet(JVM_ASTORE_1, 1)
  /\ IsQuiet(JVM_ALOAD_1, 1) /\ IsQuiet(JVM_BIPUSH, 2) /\ IsQuiet(JVM_LALOAD, 1)
  /\ IsQuiet(JVM_LDC_W, 3) /\ IsQuiet(JVM_I2L, 1) /\ IsQuiet(JVM_LADD, 1)
  /\ IsQuiet(JVM_LCMP, 1) /\ IsQuiet(JVM_POP2, 1) /\ IsQuiet(JVM_LLOAD_2, 1)
<1>1. {JVM_GETSTATIC, JVM_INVOKEVIRTUAL, JVM_CHECKCAST, JVM_ASTORE_1, JVM_ALOAD_1, JVM_BIPUSH,
       JVM_LALOAD, JVM_LDC_W, JVM_I2L, JVM_LADD, JVM_LCMP, JVM_POP2, JVM_LLOAD_2}
      \cap {JVM_LSTORE_2, JVM_LASTORE} = {}
  BY DEF JVM_BIPUSH, JVM_LDC_W, JVM_LLOAD_2, JVM_ALOAD_1, JVM_LALOAD, JVM_LSTORE_2,
         JVM_ASTORE_1, JVM_LASTORE, JVM_POP2, JVM_LADD, JVM_I2L, JVM_LCMP, JVM_GETSTATIC,
         JVM_INVOKEVIRTUAL, JVM_CHECKCAST
<1>. QED  BY <1>1, Straight DEF IsQuiet

(* How many operands an opcode takes.                                       *)
LEMMA OperandCount ==
  /\ \A op \in {JVM_GETSTATIC, JVM_ALOAD_1, JVM_BIPUSH, JVM_LDC_W, JVM_LLOAD_2, JVM_GOTO_W} :
       Len(Operands(op)) = 0
  /\ \A op \in {JVM_INVOKEVIRTUAL, JVM_CHECKCAST, JVM_ASTORE_1, JVM_I2L, JVM_POP2,
                JVM_LSTORE_2, JVM_IFEQ} : Len(Operands(op)) = 1
  /\ \A op \in {JVM_LALOAD, JVM_LADD, JVM_LCMP} : Len(Operands(op)) = 2
  /\ Len(Operands(JVM_LASTORE)) = 3
BY DEF Operands, JVM_BIPUSH, JVM_LDC_W, JVM_LLOAD_2, JVM_ALOAD_1, JVM_LALOAD,
       JVM_LSTORE_2, JVM_ASTORE_1, JVM_LASTORE, JVM_POP2, JVM_LADD, JVM_I2L, JVM_LCMP,
       JVM_IFEQ, JVM_IFGT, JVM_RETURN, JVM_GETSTATIC, JVM_INVOKEVIRTUAL, JVM_CHECKCAST,
       JVM_GOTO_W

(* The JVM goes on and changes nothing but its operand stack.               *)
Runs(place, own) ==
  Execute => /\ offset' = place /\ values' = own
             /\ registers' = registers /\ local_2' = local_2

(* Executing a quiet opcode replaces its operands by its result.            *)
LEMMA QuietRuns ==
  ASSUME NEW op, NEW width \in Nat, IsQuiet(op, width), NEW place \in Nat,
         At(code, place) = op, NEW rest \in Seq(Int), NEW top \in Seq(Int),
         Has(place, rest \o top), Len(top) = Len(Operands(op))
  PROVE  /\ op \in {JVM_GETSTATIC, JVM_INVOKEVIRTUAL, JVM_CHECKCAST, JVM_ALOAD_1} =>
              Runs(place + width, rest \o << 0 >>)
         /\ op \in {JVM_ASTORE_1, JVM_POP2} => Runs(place + width, rest \o << >>)
         /\ op = JVM_BIPUSH => Runs(place + width, rest \o << At(code, place + 1) >>)
         /\ op = JVM_LDC_W =>
              Runs(place + width,
                   rest \o << integers[U2At(code, place + 1) - FixedConstants] >>)
         /\ op = JVM_LLOAD_2 => Runs(place + width, rest \o local_2)
         /\ op = JVM_LALOAD => Runs(place + width, rest \o << registers[top[2]] >>)
         /\ op = JVM_I2L => Runs(place + width, rest \o << top[1] >>)
         /\ op = JVM_LADD => Runs(place + width, rest \o << Long(top[1] + top[2]) >>)
         /\ op = JVM_LCMP => Runs(place + width, rest \o << Order(top[1], top[2]) >>)
<1>1. /\ Width(op) = width /\ op \notin {JVM_IFEQ, JVM_IFGT, JVM_GOTO_W}
      /\ op \notin {JVM_LSTORE_2, JVM_LASTORE}
  BY DEF IsQuiet, IsStraight
<1>2. Opcode = op /\ offset = place /\ values = rest \o top
  BY DEF Has, Opcode
<1>3. Execute => Effect(op, rest, top)
  BY <1>2, Computed
<1>4. ASSUME NEW own, Execute => values' = own PROVE Runs(place + width, own)
  <2>1. Execute => offset' = place + width /\ registers' = registers /\ local_2' = local_2
    BY <1>1, <1>2, <1>3 DEF Effect
  <2>. QED  BY <1>4, <2>1 DEF Runs, Has
<1>5. ASSUME op \in {JVM_GETSTATIC, JVM_INVOKEVIRTUAL, JVM_CHECKCAST, JVM_ALOAD_1}
      PROVE  Runs(place + width, rest \o << 0 >>)
  <2>1. PICK own : own = rest \o << 0 >>
    OBVIOUS
  <2>2. Execute => values' = own
    BY <1>5, <1>2, <1>3, <2>1 DEF Effect
  <2>. QED  BY <1>4, <2>1, <2>2
<1>6. ASSUME op \in {JVM_ASTORE_1, JVM_POP2}
      PROVE  Runs(place + width, rest \o << >>)
  <2>1. PICK own : own = rest \o << >>
    OBVIOUS
  <2>2. Execute => values' = own
    BY <1>6, <1>2, <1>3, <2>1 DEF Effect
  <2>. QED  BY <1>4, <2>1, <2>2
<1>7. ASSUME op = JVM_BIPUSH
      PROVE  Runs(place + width, rest \o << At(code, place + 1) >>)
  <2>1. PICK own : own = rest \o << At(code, place + 1) >>
    OBVIOUS
  <2>2. Execute => values' = own
    BY <1>7, <1>2, <1>3, <2>1 DEF Effect
  <2>. QED  BY <1>4, <2>1, <2>2
<1>8. ASSUME op = JVM_LDC_W
      PROVE  Runs(place + width, rest \o << integers[U2At(code, place + 1) - FixedConstants] >>)
  <2>1. PICK own : own = rest \o << integers[U2At(code, place + 1) - FixedConstants] >>
    OBVIOUS
  <2>2. Execute => values' = own
    BY <1>8, <1>2, <1>3, <2>1 DEF Effect
  <2>. QED  BY <1>4, <2>1, <2>2
<1>9. ASSUME op = JVM_LLOAD_2
      PROVE  Runs(place + width, rest \o local_2)
  <2>1. PICK own : own = rest \o local_2
    OBVIOUS
  <2>2. Execute => values' = own
    BY <1>9, <1>2, <1>3, <2>1 DEF Effect
  <2>. QED  BY <1>4, <2>1, <2>2
<1>10. ASSUME op = JVM_LALOAD
      PROVE  Runs(place + width, rest \o << registers[top[2]] >>)
  <2>1. PICK own : own = rest \o << registers[top[2]] >>
    OBVIOUS
  <2>2. Execute => values' = own
    BY <1>10, <1>2, <1>3, <2>1 DEF Effect
  <2>. QED  BY <1>4, <2>1, <2>2
<1>11. ASSUME op = JVM_I2L
      PROVE  Runs(place + width, rest \o << top[1] >>)
  <2>1. PICK own : own = rest \o << top[1] >>
    OBVIOUS
  <2>2. Execute => values' = own
    BY <1>11, <1>2, <1>3, <2>1 DEF Effect
  <2>. QED  BY <1>4, <2>1, <2>2
<1>12. ASSUME op = JVM_LADD
      PROVE  Runs(place + width, rest \o << Long(top[1] + top[2]) >>)
  <2>1. PICK own : own = rest \o << Long(top[1] + top[2]) >>
    OBVIOUS
  <2>2. Execute => values' = own
    BY <1>12, <1>2, <1>3, <2>1 DEF Effect
  <2>. QED  BY <1>4, <2>1, <2>2
<1>13. ASSUME op = JVM_LCMP
      PROVE  Runs(place + width, rest \o << Order(top[1], top[2]) >>)
  <2>1. PICK own : own = rest \o << Order(top[1], top[2]) >>
    OBVIOUS
  <2>2. Execute => values' = own
    BY <1>13, <1>2, <1>3, <2>1 DEF Effect
  <2>. QED  BY <1>4, <2>1, <2>2
<1>. QED  BY <1>5, <1>6, <1>7, <1>8, <1>9, <1>10, <1>11, <1>12, <1>13

(* Stacks of up to three numbers.                                           *)
LEMMA IntStacks ==
  /\ \A s \in Seq(Int) : s \o << >> = s /\ << >> \o s = s
  /\ << >> \in Seq(Int) /\ Len(<< >>) = 0
  /\ \A x, y, z \in Int :
       /\ << x >> \in Seq(Int) /\ << x, y >> \in Seq(Int) /\ << x, y, z >> \in Seq(Int)
       /\ Len(<< x >>) = 1 /\ Len(<< x, y >>) = 2 /\ Len(<< x, y, z >>) = 3
       /\ << x >> \o << y >> = << x, y >>
       /\ << x >> \o << y, z >> = << x, y, z >>
       /\ << x, y >> \o << z >> = << x, y, z >>
<1>1. \A s \in Seq(Int) : s \o << >> = s /\ << >> \o s = s
  BY ConcatEmptySeq
<1>2. << >> \in Seq(Int) /\ Len(<< >>) = 0
  OBVIOUS
<1>3. ASSUME NEW x \in Int, NEW y \in Int, NEW z \in Int
      PROVE  /\ << x >> \in Seq(Int) /\ << x, y >> \in Seq(Int) /\ << x, y, z >> \in Seq(Int)
             /\ Len(<< x >>) = 1 /\ Len(<< x, y >>) = 2 /\ Len(<< x, y, z >>) = 3
  OBVIOUS
<1>4. \A x, y, z \in Int :
        /\ << x >> \o << y >> = << x, y >>
        /\ << x >> \o << y, z >> = << x, y, z >>
        /\ << x, y >> \o << z >> = << x, y, z >>
  BY SmallStacks
<1>. QED  BY <1>1, <1>2, <1>3, <1>4

(* Pushing a value on the stack.                                            *)
LEMMA PushRuns ==
  ASSUME NEW op, NEW width \in Nat, IsQuiet(op, width), NEW place \in Nat,
         At(code, place) = op, NEW rest \in Seq(Int), Has(place, rest)
  PROVE  /\ op \in {JVM_GETSTATIC, JVM_ALOAD_1} => Runs(place + width, rest \o << 0 >>)
         /\ op = JVM_BIPUSH => Runs(place + width, rest \o << At(code, place + 1) >>)
         /\ op = JVM_LDC_W =>
              Runs(place + width,
                   rest \o << integers[U2At(code, place + 1) - FixedConstants] >>)
         /\ op = JVM_LLOAD_2 => Runs(place + width, rest \o local_2)
<1>1. PICK top : top = << >>
  OBVIOUS
<1>2. top \in Seq(Int) /\ Len(top) = 0 /\ rest \o top = rest
  BY <1>1, IntStacks
<1>3. op \in {JVM_GETSTATIC, JVM_ALOAD_1, JVM_BIPUSH, JVM_LDC_W, JVM_LLOAD_2} =>
        Has(place, rest \o top) /\ Len(top) = Len(Operands(op))
  BY <1>2, OperandCount
<1>4. op \in {JVM_GETSTATIC, JVM_ALOAD_1} => Runs(place + width, rest \o << 0 >>)
  BY <1>2, <1>3, QuietRuns
<1>5. op = JVM_BIPUSH => Runs(place + width, rest \o << At(code, place + 1) >>)
  BY <1>2, <1>3, QuietRuns
<1>6. op = JVM_LDC_W =>
        Runs(place + width, rest \o << integers[U2At(code, place + 1) - FixedConstants] >>)
  BY <1>2, <1>3, QuietRuns
<1>7. op = JVM_LLOAD_2 => Runs(place + width, rest \o local_2)
  BY <1>2, <1>3, QuietRuns
<1>. QED  BY <1>4, <1>5, <1>6, <1>7

(* Loading a register puts its value on top of what there is.               *)
LEMMA LoadRuns ==
  ASSUME NEW r \in Int, NEW place \in Nat, Loads(r, place), registers[r] \in Int, NEW a \in Int
  PROVE  /\ Has(place, << >>) => Runs(place + 1, << 0 >>)
         /\ Has(place + 1, << 0 >>) => Runs(place + 3, << 0, r >>)
         /\ Has(place + 3, << 0, r >>) => Runs(place + 4, << registers[r] >>)
         /\ Has(place, << a >>) => Runs(place + 1, << a, 0 >>)
         /\ Has(place + 1, << a, 0 >>) => Runs(place + 3, << a, 0, r >>)
         /\ Has(place + 3, << a, 0, r >>) => Runs(place + 4, << a, registers[r] >>)
<1>1. /\ At(code, place) = JVM_ALOAD_1 /\ At(code, place + 1) = JVM_BIPUSH
      /\ At(code, place + 2) = r /\ At(code, place + 3) = JVM_LALOAD
      /\ place + 1 \in Nat /\ place + 3 \in Nat
      /\ (place + 1) + 1 = place + 2 /\ (place + 1) + 2 = place + 3 /\ (place + 3) + 1 = place + 4
  BY DEF Loads
<1>2. ASSUME NEW rest \in Seq(Int)
      PROVE  /\ Has(place, rest) => Runs(place + 1, rest \o << 0 >>)
             /\ Has(place + 1, rest) => Runs(place + 3, rest \o << r >>)
  <2>1. ASSUME Has(place, rest) PROVE Runs(place + 1, rest \o << 0 >>)
    BY <1>1, <2>1, Quiet, PushRuns
  <2>2. ASSUME Has(place + 1, rest) PROVE Runs(place + 3, rest \o << r >>)
    <3>1. Runs((place + 1) + 2, rest \o << At(code, (place + 1) + 1) >>)
      BY <1>1, <2>2, Quiet, PushRuns
    <3>. QED  BY <1>1, <3>1
  <2>. QED  BY <2>1, <2>2
<1>3. ASSUME NEW rest \in Seq(Int), NEW top, top = << 0, r >>, Has(place + 3, rest \o top)
      PROVE  Runs(place + 4, rest \o << registers[r] >>)
  <2>1. top \in Seq(Int) /\ Len(top) = 2 /\ top[2] = r
    BY <1>3
  <2>2. Len(top) = Len(Operands(JVM_LALOAD))
    BY <2>1, OperandCount
  <2>3. Runs((place + 3) + 1, rest \o << registers[top[2]] >>)
    BY <1>1, <1>3, <2>1, <2>2, Quiet, QuietRuns
  <2>. QED  BY <1>1, <2>1, <2>3
<1>0. 0 \in Int
  OBVIOUS
<1>4. /\ Has(place, << >>) => Runs(place + 1, << 0 >>)
      /\ Has(place + 1, << 0 >>) => Runs(place + 3, << 0, r >>)
  <2>1. PICK rest : rest = << >>
    OBVIOUS
  <2>2. PICK one : one = << 0 >>
    OBVIOUS
  <2>3. rest \in Seq(Int) /\ one \in Seq(Int)
    BY <1>0, <2>1, <2>2, IntStacks
  <2>4. rest \o << 0 >> = << 0 >>
    BY <1>0, <2>1, <2>2, <2>3, IntStacks
  <2>5. << 0 >> \o << r >> = << 0, r >>
    BY <1>0, IntStacks, ZenonT(60)
  <2>. QED  BY <1>2, <2>1, <2>2, <2>3, <2>4, <2>5
<1>5. /\ Has(place, << a >>) => Runs(place + 1, << a, 0 >>)
      /\ Has(place + 1, << a, 0 >>) => Runs(place + 3, << a, 0, r >>)
  <2>1. PICK rest : rest = << a >>
    OBVIOUS
  <2>2. PICK two : two = << a, 0 >>
    OBVIOUS
  <2>3. rest \in Seq(Int) /\ two \in Seq(Int)
    BY <1>0, <2>1, <2>2, IntStacks
  <2>4. << a >> \o << 0 >> = << a, 0 >>
    BY <1>0, IntStacks, ZenonT(60)
  <2>5. << a, 0 >> \o << r >> = << a, 0, r >>
    BY <1>0, IntStacks, ZenonT(60)
  <2>. QED  BY <1>2, <2>1, <2>2, <2>3, <2>4, <2>5
<1>6. Has(place + 3, << 0, r >>) => Runs(place + 4, << registers[r] >>)
  <2>1. PICK rest : rest = << >>
    OBVIOUS
  <2>2. PICK top : top = << 0, r >>
    OBVIOUS
  <2>3. PICK result : result = << registers[r] >>
    OBVIOUS
  <2>4. /\ rest \in Seq(Int) /\ top \in Seq(Int) /\ result \in Seq(Int)
        /\ rest \o top = top /\ rest \o result = result
    BY <2>1, <2>2, <2>3, IntStacks
  <2>. QED  BY <1>3, <2>2, <2>3, <2>4
<1>7. Has(place + 3, << a, 0, r >>) => Runs(place + 4, << a, registers[r] >>)
  <2>1. PICK rest : rest = << a >>
    OBVIOUS
  <2>2. PICK top : top = << 0, r >>
    OBVIOUS
  <2>3. rest \in Seq(Int)
    BY <2>1, IntStacks
  <2>4. << a >> \o << 0, r >> = << a, 0, r >>
    BY <1>0, IntStacks, ZenonT(60)
  <2>5. << a >> \o << registers[r] >> = << a, registers[r] >>
    BY <1>0, IntStacks, Zenon
  <2>. QED  BY <1>3, <2>1, <2>2, <2>3, <2>4, <2>5
<1>. QED  BY <1>4, <1>5, <1>6, <1>7

(* Computing with what is on the stack.                                     *)
LEMMA ComputeRuns ==
  ASSUME NEW place \in Nat, NEW a \in Int, NEW b \in Int
  PROVE  /\ At(code, place) = JVM_LADD /\ Has(place, << a, b >>) =>
              Runs(place + 1, << Long(a + b) >>)
         /\ At(code, place) = JVM_LCMP /\ Has(place, << a, b >>) =>
              Runs(place + 1, << Order(a, b) >>)
         /\ At(code, place) = JVM_I2L /\ Has(place, << a, b >>) => Runs(place + 1, << a, b >>)
         /\ /\ At(code, place) = JVM_LDC_W /\ Has(place, << a >>)
            /\ integers[U2At(code, place + 1) - FixedConstants] = b
            => Runs(place + 3, << a, b >>)
<1>1. PICK two : two = << a, b >>
  OBVIOUS
<1>2. PICK none : none = << >>
  OBVIOUS
<1>3. PICK first : first = << a >>
  OBVIOUS
<1>4. PICK second : second = << b >>
  OBVIOUS
<1>5. /\ two \in Seq(Int) /\ Len(two) = 2 /\ two[1] = a /\ two[2] = b
      /\ first \in Seq(Int) /\ second \in Seq(Int) /\ Len(second) = 1 /\ second[1] = b
      /\ none \in Seq(Int)
  BY <1>1, <1>2, <1>3, <1>4
<1>6. << a >> \o << b >> = << a, b >>
  BY IntStacks, Zenon
<1>7. none \o two = two /\ first \o second = two
  BY <1>1, <1>2, <1>3, <1>4, <1>5, <1>6, IntStacks
<1>8. ASSUME At(code, place) = JVM_LADD, Has(place, << a, b >>)
      PROVE  Runs(place + 1, << Long(a + b) >>)
  <2>1. PICK sum : sum = << Long(a + b) >>
    OBVIOUS
  <2>2. Len(two) = Len(Operands(JVM_LADD)) /\ Has(place, none \o two)
    BY <1>1, <1>5, <1>7, <1>8, OperandCount
  <2>3. Runs(place + 1, none \o << Long(two[1] + two[2]) >>)
    BY <1>5, <1>8, <2>2, Quiet, QuietRuns
  <2>4. Runs(place + 1, none \o sum)
    BY <1>5, <2>1, <2>3
  <2>5. sum \in Seq(Int)
    BY <2>1, LowSum
  <2>. QED  BY <1>2, <2>1, <2>4, <2>5, IntStacks
<1>9. ASSUME At(code, place) = JVM_LCMP, Has(place, << a, b >>)
      PROVE  Runs(place + 1, << Order(a, b) >>)
  <2>1. PICK order : order = << Order(a, b) >>
    OBVIOUS
  <2>2. Len(two) = Len(Operands(JVM_LCMP)) /\ Has(place, none \o two)
    BY <1>1, <1>5, <1>7, <1>9, OperandCount
  <2>3. Runs(place + 1, none \o << Order(two[1], two[2]) >>)
    BY <1>5, <1>9, <2>2, Quiet, QuietRuns
  <2>4. Runs(place + 1, none \o order)
    BY <1>5, <2>1, <2>3
  <2>5. order \in Seq(Int)
    BY <2>1 DEF Order
  <2>. QED  BY <1>2, <2>1, <2>4, <2>5, IntStacks
<1>10. ASSUME At(code, place) = JVM_I2L, Has(place, << a, b >>)
       PROVE  Runs(place + 1, << a, b >>)
  <2>1. Len(second) = Len(Operands(JVM_I2L)) /\ Has(place, first \o second)
    BY <1>1, <1>5, <1>7, <1>10, OperandCount
  <2>2. Runs(place + 1, first \o << second[1] >>)
    BY <1>5, <1>10, <2>1, Quiet, QuietRuns
  <2>. QED  BY <1>3, <1>5, <1>6, <2>2
<1>11. ASSUME At(code, place) = JVM_LDC_W, Has(place, << a >>),
              integers[U2At(code, place + 1) - FixedConstants] = b
       PROVE  Runs(place + 3, << a, b >>)
  <2>1. Runs(place + 3, first \o << integers[U2At(code, place + 1) - FixedConstants] >>)
    BY <1>3, <1>5, <1>11, Quiet, PushRuns
  <2>. QED  BY <1>3, <1>6, <1>11, <2>1
<1>. QED  BY <1>8, <1>9, <1>10, <1>11

(* Storing a value takes it into its register, or nowhere.                  *)
LEMMA StoreRuns ==
  ASSUME NEW place \in Nat, NEW r \in Int, NEW v \in Int, Stores(r, place),
         Storing(r, place, v), Execute
  PROVE  \/ Storing(r, place, v)' /\ registers' = registers
         \/ /\ Has(place + StoreLength(r), << >>)'
            /\ registers' = IF r = X0 THEN registers ELSE [registers EXCEPT ![r] = v]
<1>0. 0 \in Int
  OBVIOUS
<1>1. PICK none : none = << >>
  OBVIOUS
<1>2. PICK one : one = << v >>
  OBVIOUS
<1>3. /\ none \in Seq(Int) /\ one \in Seq(Int) /\ Len(one) = 1 /\ one[1] = v
      /\ none \o one = one /\ none \o << >> = none
  <2>1. none \in Seq(Int) /\ one \in Seq(Int) /\ Len(one) = 1 /\ one[1] = v
    BY <1>1, <1>2
  <2>. QED  BY <1>1, <2>1, IntStacks
<1>4. CASE r = X0
  <2>1. Has(place, one) /\ At(code, place) = JVM_POP2 /\ StoreLength(r) = 1
    BY <1>2, <1>4 DEF Storing, Stores, StoreLength
  <2>2. Has(place, none \o one) /\ Len(one) = Len(Operands(JVM_POP2))
    BY <1>3, <2>1, OperandCount
  <2>3. Runs(place + 1, none \o << >>)
    BY <1>3, <2>1, <2>2, Quiet, QuietRuns
  <2>. QED  BY <1>1, <1>3, <1>4, <2>1, <2>3 DEF Runs, Has
<1>5. CASE r # X0
  <2>1. /\ StoreLength(r) = 6
        /\ At(code, place) = JVM_LSTORE_2 /\ At(code, place + 1) = JVM_ALOAD_1
        /\ At(code, place + 2) = JVM_BIPUSH /\ At(code, place + 3) = r
        /\ At(code, place + 4) = JVM_LLOAD_2 /\ At(code, place + 5) = JVM_LASTORE
    BY <1>5 DEF Stores, StoreLength
  <2>2. /\ place + 1 \in Nat /\ place + 2 \in Nat /\ place + 4 \in Nat /\ place + 5 \in Nat
        /\ (place + 1) + 1 = place + 2 /\ (place + 2) + 1 = place + 3
        /\ (place + 2) + 2 = place + 4
        /\ (place + 4) + 1 = place + 5 /\ (place + 5) + 1 = place + 6
    OBVIOUS
  <2>3. << 0 >> \o << r >> = << 0, r >> /\ << 0, r >> \o << v >> = << 0, r, v >>
        /\ << 0 >> \in Seq(Int) /\ << 0, r >> \in Seq(Int)
    <3>1. << 0 >> \o << r >> = << 0, r >>
      BY <1>0, IntStacks, Zenon
    <3>2. << 0, r >> \o << v >> = << 0, r, v >>
      <4>1. \A x, y, z \in Int : << x, y >> \o << z >> = << x, y, z >>
        BY IntStacks, ZenonT(60)
      <4>. QED  BY <1>0, <4>1, Zenon
    <3>3. << 0 >> \in Seq(Int) /\ << 0, r >> \in Seq(Int)
      OBVIOUS
    <3>. QED  BY <3>1, <3>2, <3>3
  <2>4. CASE Has(place, << v >>)
    <3>1. Has(place, none \o one) /\ Len(one) = Len(Operands(JVM_LSTORE_2))
      BY <1>2, <1>3, <2>4, OperandCount
    <3>2. Opcode = JVM_LSTORE_2 /\ values = none \o one /\ offset = place
      BY <2>1, <3>1 DEF Opcode, Has
    <3>3. Effect(JVM_LSTORE_2, none, one)
      BY <1>3, <3>1, <3>2, Computed
    <3>4. /\ Width(JVM_LSTORE_2) = 1 /\ JVM_LSTORE_2 \notin {JVM_IFEQ, JVM_IFGT, JVM_GOTO_W}
          /\ JVM_LSTORE_2 # JVM_LASTORE
      BY Straight DEF IsStraight, JVM_LSTORE_2, JVM_LASTORE
    <3>5. /\ offset' = place + 1 /\ values' = none \o << >> /\ registers' = registers
          /\ local_2' = << one[1] >>
      BY <3>2, <3>3, <3>4 DEF Effect
    <3>. QED  BY <1>1, <1>3, <1>5, <3>5 DEF Storing, Has
  <2>5. CASE local_2 = << v >> /\ Has(place + 1, << >>)
    <3>1. Runs((place + 1) + 1, none \o << 0 >>)
      BY <1>1, <1>3, <2>1, <2>2, <2>5, Quiet, PushRuns
    <3>2. none \o << 0 >> = << 0 >>
      BY <1>0, <1>1, <2>3, IntStacks
    <3>. QED  BY <1>5, <2>2, <2>5, <3>1, <3>2 DEF Runs, Storing, Has
  <2>6. CASE local_2 = << v >> /\ Has(place + 2, << 0 >>)
    <3>1. Runs((place + 2) + 2, << 0 >> \o << At(code, (place + 2) + 1) >>)
      BY <2>1, <2>2, <2>3, <2>6, Quiet, PushRuns
    <3>. QED  BY <1>5, <2>1, <2>2, <2>3, <2>6, <3>1 DEF Runs, Storing, Has
  <2>7. CASE local_2 = << v >> /\ Has(place + 4, << 0, r >>)
    <3>1. Runs((place + 4) + 1, << 0, r >> \o local_2)
      BY <2>1, <2>2, <2>3, <2>7, Quiet, PushRuns
    <3>. QED  BY <1>5, <2>2, <2>3, <2>7, <3>1 DEF Runs, Storing, Has
  <2>8. CASE local_2 = << v >> /\ Has(place + 5, << 0, r, v >>)
    <3>1. PICK top : top = << 0, r, v >>
      OBVIOUS
    <3>2. top \in Seq(Int) /\ Len(top) = 3 /\ top[2] = r /\ top[3] = v
      BY <3>1
    <3>3. /\ Opcode = JVM_LASTORE /\ offset = place + 5 /\ values = none \o top
          /\ Len(top) = Len(Operands(JVM_LASTORE))
      BY <1>1, <2>1, <2>8, <3>1, <3>2, IntStacks, OperandCount DEF Opcode, Has
    <3>4. Effect(JVM_LASTORE, none, top)
      BY <1>3, <3>2, <3>3, Computed
    <3>5. Width(JVM_LASTORE) = 1 /\ JVM_LASTORE \notin {JVM_IFEQ, JVM_IFGT, JVM_GOTO_W}
      BY Straight DEF IsStraight
    <3>6. /\ offset' = (place + 5) + 1 /\ values' = none \o << >>
          /\ registers' = [registers EXCEPT ![top[2]] = top[3]]
      BY <3>3, <3>4, <3>5 DEF Effect
    <3>. QED  BY <1>1, <1>3, <1>5, <2>1, <2>2, <3>2, <3>6 DEF Has
  <2>. QED  BY <1>5, <2>4, <2>5, <2>6, <2>7, <2>8 DEF Storing
<1>. QED  BY <1>4, <1>5

(* Where the conditional branch and the goto_w of a jump go.                *)
LEMMA BranchRuns ==
  ASSUME NEW place \in Nat, NEW a \in Int
  PROVE  /\ At(code, place) = JVM_IFEQ /\ Has(place, << a >>) =>
              Runs(place + (IF a = 0 THEN S2At(code, place + 1) ELSE 3), << >>)
         /\ At(code, place) = JVM_GOTO_W /\ Has(place, << >>) =>
              Runs(place + S4At(code, place + 1), << >>)
<1>1. PICK none : none = << >>
  OBVIOUS
<1>2. PICK one : one = << a >>
  OBVIOUS
<1>3. /\ none \in Seq(Int) /\ one \in Seq(Int) /\ Len(one) = 1 /\ one[1] = a /\ Len(none) = 0
      /\ none \o one = one /\ none \o none = none /\ none \o << >> = none
  <2>1. none \in Seq(Int) /\ one \in Seq(Int) /\ Len(one) = 1 /\ one[1] = a /\ Len(none) = 0
    BY <1>1, <1>2
  <2>. QED  BY <1>1, <2>1, IntStacks
<1>4. JVM_IFEQ # JVM_LSTORE_2 /\ JVM_IFEQ # JVM_LASTORE /\ JVM_GOTO_W # JVM_LSTORE_2
      /\ JVM_GOTO_W # JVM_LASTORE
  BY DEF JVM_IFEQ, JVM_LSTORE_2, JVM_LASTORE, JVM_GOTO_W
<1>5. ASSUME At(code, place) = JVM_IFEQ, Has(place, << a >>), Execute
      PROVE  /\ offset' = place + (IF a = 0 THEN S2At(code, place + 1) ELSE 3)
             /\ values' = << >> /\ registers' = registers /\ local_2' = local_2
  <2>1. /\ Opcode = JVM_IFEQ /\ offset = place /\ values = none \o one
        /\ Len(one) = Len(Operands(JVM_IFEQ))
    BY <1>2, <1>3, <1>5, OperandCount DEF Opcode, Has
  <2>2. Effect(JVM_IFEQ, none, one)
    BY <1>3, <1>5, <2>1, Computed
  <2>3. /\ offset' = place + (IF one[1] = 0 THEN S2At(code, place + 1) ELSE 3)
        /\ values' = none \o << >> /\ registers' = registers /\ local_2' = local_2
    BY <1>4, <2>1, <2>2 DEF Effect
  <2>. QED  BY <1>1, <1>3, <2>3 DEF Has
<1>6. ASSUME At(code, place) = JVM_GOTO_W, Has(place, << >>), Execute
      PROVE  /\ offset' = place + S4At(code, place + 1) /\ values' = << >>
             /\ registers' = registers /\ local_2' = local_2
  <2>1. /\ Opcode = JVM_GOTO_W /\ offset = place /\ values = none \o none
        /\ Len(none) = Len(Operands(JVM_GOTO_W))
    BY <1>1, <1>3, <1>6, OperandCount DEF Opcode, Has
  <2>2. Effect(JVM_GOTO_W, none, none)
    BY <1>3, <1>6, <2>1, Computed
  <2>3. /\ offset' = place + S4At(code, place + 1)
        /\ values' = none \o << >> /\ registers' = registers /\ local_2' = local_2
    BY <1>4, <2>1, <2>2 DEF Effect
  <2>. QED  BY <1>1, <1>3, <2>3 DEF Has
<1>. QED  BY <1>5, <1>6 DEF Runs

(* The faithful elements that code is written for.                          *)
LEMMA FaithfulElement ==
  ASSUME NEW e \in Elements, IsFaithful(e), WritesCode(e)
  PROVE  /\ IsR3(e) => /\ e.mnemonic = "ADD" /\ ~IsAddi(e) /\ ~IsJump(e)
                       /\ e.rs2 \in Registers
         /\ IsAddi(e) => /\ e.mnemonic = "ADDI" /\ ~IsJump(e) /\ ~IsR3(e)
                         /\ HasImm(e) /\ e.imm \in Int
         /\ IsJump(e) => /\ e.mnemonic = "BNE" /\ ~IsR3(e) /\ ~IsAddi(e)
                         /\ HasLabel(e) /\ e.label \in Labels
         /\ e.rd \in Registers /\ e.rs1 \in Registers /\ IsInstruction(e)
<1>1. /\ IsInstruction(e) => e.rd \in Registers
      /\ HasImm(e) => e.imm \in Int
      /\ HasLabel(e) => e.label \in Labels
      /\ IsR3(e) => e.rs1 \in Registers /\ e.rs2 \in Registers
      /\ IsAddi(e) => e.rs1 \in Registers
      /\ IsConditional(e) => e.rs1 \in Registers
  BY ElementFacts
<1>2. IsInstruction(e) /\ ~IsLabel(e) /\ ~IsEof(e)
  BY DEF WritesCode, IsR3, IsAddi, IsJump, IsConditional, IsInstruction, IsLabel, IsEof
<1>3. HasLabel(e) /\ e.mnemonic = "BNE" => e.format = "R2_OP"
  BY <1>2 DEF Elements, InstructionElements, LabelElements, R3Elements, R2ImmElements,
              R2LabelElements, R1ImmElements, R1LabelElements, MemElements, Eof,
              IsInstruction, HasLabel, HasOperand, R1OpMnemonics
<1>. QED
  BY <1>1, <1>2, <1>3
  DEF IsFaithful, IsR3, IsAddi, IsJump, IsConditional, WritesCode, IsInstruction, HasImm,
      HasOperand

(* The values the code of an element computes with are integers.            *)
LEMMA ValueTypes ==
  ASSUME NEW e \in Elements, IsFaithful(e), WritesCode(e), registers \in [Registers -> Int]
  PROVE  /\ FirstRegister(e) \in Registers /\ FirstRegister(e) \in Int
         /\ ~IsAddi(e) => SecondRegister(e) \in Registers /\ SecondRegister(e) \in Int
         /\ FirstValue(e) \in Int /\ SecondValue(e) \in Int /\ Sum(e) \in Int
         /\ Order(FirstValue(e), SecondValue(e)) \in Int
         /\ e.rd \in Int
<1>1. /\ IsR3(e) => e.rs2 \in Registers
      /\ IsAddi(e) => e.imm \in Int
      /\ e.rd \in Registers /\ e.rs1 \in Registers
  BY FaithfulElement
<1>2. Registers \subseteq Int
  BY RegistersAssumption
<1>3. FirstRegister(e) \in Registers /\ (~IsAddi(e) => SecondRegister(e) \in Registers)
  BY <1>1 DEF FirstRegister, SecondRegister, WritesCode
<1>4. FirstValue(e) \in Int /\ SecondValue(e) \in Int
  BY <1>1, <1>3 DEF FirstValue, SecondValue
<1>5. Sum(e) \in Int
  BY <1>4, LowSum DEF Sum
<1>6. Order(FirstValue(e), SecondValue(e)) \in Int
  BY DEF Order
<1>. QED  BY <1>1, <1>2, <1>3, <1>4, <1>5, <1>6

(* The end of the code of an element does to the registers what the element *)
(* says, and goes where it says.                                            *)
Completes(e, m) ==
  /\ values' = << >>
  /\ IsR3(e) \/ IsAddi(e) =>
       /\ offset' = End(m)
       /\ registers' = IF e.rd = X0 THEN registers ELSE [registers EXCEPT ![e.rd] = Sum(e)]
  /\ IsJump(e) =>
       /\ registers' = registers
       /\ offset' = IF FirstValue(e) = SecondValue(e) THEN End(m) ELSE LabelStart(e.label)

(* In the code of an element the JVM goes on computing, or completes it.    *)
LEMMA ComputeGoes ==
  ASSUME Compiled, ConstantsFit, registers \in [Registers -> Int], NEW m \in DOMAIN ir,
         IsFaithful(ir[m]), WritesCode(ir[m]), NEW e, e = ir[m], NEW s \in Nat, s = starts[m],
         Computing(e, s), Execute
  PROVE  (Computing(e, s)' /\ registers' = registers) \/ Completes(e, m)
<1>. DEFINE Goal == (Computing(e, s)' /\ registers' = registers) \/ Completes(e, m)
<1>1. e \in Elements /\ IsFaithful(e) /\ WritesCode(e)
  BY CompiledTypes
<1>2. /\ IsR3(e) => e.mnemonic = "ADD" /\ ~IsAddi(e) /\ ~IsJump(e)
      /\ IsAddi(e) => ~IsJump(e) /\ ~IsR3(e) /\ HasImm(e)
      /\ IsJump(e) => e.mnemonic = "BNE" /\ ~IsR3(e) /\ ~IsAddi(e)
  BY <1>1, FaithfulElement
<1>3. PICK r \in Int : r = FirstRegister(e)
  BY <1>1, ValueTypes
<1>4. PICK v \in Int : v = FirstValue(e)
  BY <1>1, ValueTypes
<1>5. PICK w \in Int : w = SecondValue(e)
  BY <1>1, ValueTypes
<1>6. PICK q : q = SecondRegister(e)
  OBVIOUS
<1>7. PICK sum \in Int : sum = Sum(e)
  BY <1>1, ValueTypes
<1>8. PICK order \in Int : order = Order(v, w)
  BY <1>1, <1>4, <1>5, ValueTypes
<1>9. registers[r] = v /\ (~IsAddi(e) => q \in Int /\ registers[q] = w) /\ e.rd \in Int
      /\ (IsAddi(e) => w = e.imm) /\ sum = Long(v + w)
  BY <1>1, <1>3, <1>4, <1>5, <1>6, <1>7, ValueTypes DEF FirstValue, SecondValue, Sum
<1>10. ASSUME registers' = registers
       PROVE  FirstValue(e)' = v /\ SecondValue(e)' = w /\ Sum(e)' = sum
  BY <1>4, <1>5, <1>7, <1>10 DEF FirstValue, SecondValue, Sum
<1>11. ASSUME NEW place, NEW own, Runs(place, own)
       PROVE  Has(place, own)' /\ registers' = registers
  BY <1>11 DEF Runs, Has
<1>12. /\ Loads(r, s)
       /\ IsR3(e) \/ IsJump(e) => Loads(q, s + 4)
       /\ IsR3(e) => At(code, s + 8) = JVM_LADD
       /\ IsAddi(e) => /\ At(code, s + 4) = JVM_LDC_W /\ At(code, s + 7) = JVM_I2L
                       /\ At(code, s + 8) = JVM_LADD
       /\ IsJump(e) => At(code, s + 8) = JVM_LCMP
       /\ IsR3(e) \/ IsAddi(e) => Stores(e.rd, s + 9) /\ End(m) = s + 9 + StoreLength(e.rd)
  <2>1. CASE IsR3(e)
    BY <1>2, <1>3, <1>6, <2>1, R3Opcodes DEF FirstRegister, SecondRegister
  <2>2. CASE IsAddi(e)
    BY <1>2, <1>3, <2>2, AddiOpcodes DEF FirstRegister
  <2>3. CASE IsJump(e)
    BY <1>2, <1>3, <1>6, <2>3, JumpOpcodes DEF FirstRegister, SecondRegister
  <2>. QED  BY <1>1, <2>1, <2>2, <2>3 DEF WritesCode
<1>13. /\ s + 4 \in Nat /\ s + 7 \in Nat /\ s + 8 \in Nat /\ s + 9 \in Nat /\ s + 12 \in Nat
       /\ (s + 4) + 1 = s + 5 /\ (s + 4) + 3 = s + 7 /\ (s + 4) + 4 = s + 8
       /\ (s + 7) + 1 = s + 8 /\ (s + 8) + 1 = s + 9 /\ (s + 9) + 1 = s + 10
       /\ (s + 9) + 3 = s + 12 /\ (s + 12) + 1 = s + 13
  OBVIOUS
<1>14. CASE Has(s, << >>)
  <2>1. Runs(s + 1, << 0 >>)
    BY <1>3, <1>4, <1>9, <1>12, <1>14, LoadRuns
  <2>. QED  BY <1>1, <1>11, <2>1 DEF Computing
<1>15. CASE Has(s + 1, << 0 >>)
  <2>1. Runs(s + 3, << 0, r >>)
    BY <1>3, <1>4, <1>9, <1>12, <1>15, LoadRuns
  <2>. QED  BY <1>1, <1>3, <1>11, <2>1 DEF Computing
<1>16. CASE Has(s + 3, << 0, r >>)
  <2>1. Runs(s + 4, << v >>)
    BY <1>3, <1>4, <1>9, <1>12, <1>16, LoadRuns
  <2>. QED  BY <1>1, <1>10, <1>11, <2>1 DEF Computing
<1>17. CASE Has(s + 4, << v >>)
  <2>1. CASE IsR3(e) \/ IsJump(e)
    <3>1. Runs((s + 4) + 1, << v, 0 >>)
      BY <1>2, <1>6, <1>9, <1>12, <1>13, <1>17, <2>1, LoadRuns
    <3>. QED  BY <1>1, <1>10, <1>11, <1>13, <2>1, <3>1 DEF Computing
  <2>2. CASE IsAddi(e)
    <3>1. integers[U2At(code, s + 5) - FixedConstants] = w
      <4>1. ConstantsResolve
        BY ConstantsCorrect DEF Compiled
      <4>. QED  BY <1>2, <1>9, <2>2, <4>1 DEF ConstantsResolve, Compiled, ConstantsFit
    <3>2. Runs((s + 4) + 3, << v, w >>)
      BY <1>12, <1>13, <1>17, <2>2, <3>1, ComputeRuns
    <3>. QED  BY <1>10, <1>11, <1>13, <2>2, <3>2 DEF Computing
  <2>. QED  BY <1>1, <2>1, <2>2 DEF WritesCode
<1>18. CASE (IsR3(e) \/ IsJump(e)) /\ Has(s + 5, << v, 0 >>)
  <2>1. Runs((s + 4) + 3, << v, 0, q >>)
    BY <1>2, <1>9, <1>12, <1>13, <1>18, LoadRuns
  <2>. QED  BY <1>6, <1>10, <1>11, <1>13, <1>18, <2>1 DEF Computing
<1>19. CASE (IsR3(e) \/ IsJump(e)) /\ Has(s + 7, << v, 0, q >>)
  <2>1. Runs((s + 4) + 4, << v, w >>)
    BY <1>2, <1>9, <1>12, <1>13, <1>19, LoadRuns
  <2>. QED  BY <1>1, <1>10, <1>11, <1>13, <1>19, <2>1 DEF Computing
<1>20. CASE IsAddi(e) /\ Has(s + 7, << v, w >>)
  <2>1. Runs((s + 7) + 1, << v, w >>)
    BY <1>12, <1>13, <1>20, ComputeRuns
  <2>. QED  BY <1>1, <1>10, <1>11, <1>13, <2>1 DEF Computing
<1>21. CASE (IsR3(e) \/ IsAddi(e)) /\ Has(s + 8, << v, w >>)
  <2>1. Runs((s + 8) + 1, << sum >>)
    BY <1>9, <1>12, <1>13, <1>21, ComputeRuns
  <2>. QED  BY <1>10, <1>11, <1>13, <1>21, <2>1 DEF Computing, Storing
<1>22. CASE IsJump(e) /\ Has(s + 8, << v, w >>)
  <2>1. Runs((s + 8) + 1, << order >>)
    BY <1>8, <1>12, <1>13, <1>22, ComputeRuns
  <2>. QED  BY <1>8, <1>10, <1>11, <1>13, <1>22, <2>1 DEF Computing
<1>23. CASE (IsR3(e) \/ IsAddi(e)) /\ Storing(e.rd, s + 9, sum)
  <2>1. \/ Storing(e.rd, s + 9, sum)' /\ registers' = registers
        \/ /\ Has((s + 9) + StoreLength(e.rd), << >>)'
           /\ registers' = IF e.rd = X0 THEN registers ELSE [registers EXCEPT ![e.rd] = sum]
    <3>1. PICK rd \in Int : rd = e.rd
      BY <1>9
    <3>2. PICK place \in Nat : place = s + 9
      BY <1>13
    <3>3. Stores(rd, place) /\ Storing(rd, place, sum) /\ sum \in Int
      BY <1>12, <1>23, <3>1, <3>2
    <3>4. \/ Storing(rd, place, sum)' /\ registers' = registers
          \/ /\ Has(place + StoreLength(rd), << >>)'
             /\ registers' = IF rd = X0 THEN registers ELSE [registers EXCEPT ![rd] = sum]
      BY <3>3, StoreRuns
    <3>. QED  BY <3>1, <3>2, <3>4
  <2>2. CASE Storing(e.rd, s + 9, sum)' /\ registers' = registers
    BY <1>10, <1>23, <2>2 DEF Computing
  <2>3. CASE /\ Has((s + 9) + StoreLength(e.rd), << >>)'
             /\ registers' = IF e.rd = X0 THEN registers ELSE [registers EXCEPT ![e.rd] = sum]
    BY <1>2, <1>7, <1>12, <1>13, <1>23, <2>3 DEF Completes, Has, StoreLength
  <2>. QED  BY <2>1, <2>2, <2>3
<1>24. ASSUME IsJump(e)
       PROVE  /\ At(code, s + 9) = JVM_IFEQ /\ s + 9 + S2At(code, s + 10) = End(m)
              /\ At(code, s + 12) = JVM_GOTO_W
              /\ s + 12 + S4At(code, s + 13) = LabelStart(e.label)
  BY <1>2, <1>24, JumpOpcodes DEF SkipOpcode
<1>25. CASE IsJump(e) /\ Has(s + 9, << order >>)
  <2>1. Runs((s + 9) + (IF order = 0 THEN S2At(code, (s + 9) + 1) ELSE 3), << >>)
    BY <1>13, <1>24, <1>25, BranchRuns
  <2>2. order = 0 <=> v = w
    BY <1>8 DEF Order
  <2>3. CASE v = w
    <3>1. Runs(End(m), << >>)
      BY <1>13, <1>24, <1>25, <2>1, <2>2, <2>3
    <3>. QED  BY <1>2, <1>4, <1>5, <1>25, <2>3, <3>1 DEF Completes, Runs
  <2>4. CASE v # w
    <3>1. Runs(s + 12, << >>)
      BY <1>13, <2>1, <2>2, <2>4
    <3>. QED  BY <1>10, <1>11, <1>25, <2>4, <3>1 DEF Computing
  <2>. QED  BY <2>3, <2>4
<1>26. CASE IsJump(e) /\ v # w /\ Has(s + 12, << >>)
  <2>1. Runs((s + 12) + S4At(code, (s + 12) + 1), << >>)
    BY <1>9, <1>13, <1>24, <1>26, BranchRuns
  <2>2. Runs(LabelStart(e.label), << >>)
    BY <1>13, <1>24, <1>26, <2>1
  <2>. QED  BY <1>2, <1>4, <1>5, <1>26, <2>2 DEF Completes, Runs
<1>27. /\ FirstRegister(e) = r /\ FirstValue(e) = v /\ SecondValue(e) = w
       /\ SecondRegister(e) = q /\ Sum(e) = sum /\ Order(FirstValue(e), SecondValue(e)) = order
  BY <1>3, <1>4, <1>5, <1>6, <1>7, <1>8
<1>28. \/ Has(s, << >>) \/ Has(s + 1, << 0 >>) \/ Has(s + 3, << 0, r >>) \/ Has(s + 4, << v >>)
       \/ Has(s + 8, << v, w >>)
       \/ (IsR3(e) \/ IsJump(e)) /\ (Has(s + 5, << v, 0 >>) \/ Has(s + 7, << v, 0, q >>))
       \/ IsAddi(e) /\ Has(s + 7, << v, w >>)
       \/ (IsR3(e) \/ IsAddi(e)) /\ Storing(e.rd, s + 9, sum)
       \/ IsJump(e) /\ (Has(s + 9, << order >>) \/ (v # w /\ Has(s + 12, << >>)))
  BY <1>27, Zenon DEF Computing
<1>. QED
  BY <1>1, <1>14, <1>15, <1>16, <1>17, <1>18, <1>19, <1>20, <1>21, <1>22, <1>23, <1>25, <1>26,
     <1>28 DEF WritesCode

-----------------------------------------------------------------------------
(* Which instruction the JVM is in.                                         *)

(* All elements are faithful.                                               *)
AllFaithful == \A k \in DOMAIN ir : IsFaithful(ir[k])

(* Code takes room.                                                         *)
LEMMA CodeHasLength ==
  ASSUME Compiled, NEW m \in DOMAIN ir, IsFaithful(ir[m]), WritesCode(ir[m])
  PROVE  starts[m] < End(m)
<1>1. starts[m] \in Nat /\ ir[m] \in Elements
  BY CompiledTypes
<1>2. IsR3(ir[m]) => ir[m].mnemonic = "ADD"
  BY <1>1, FaithfulElement
<1>3. StoreLength(ir[m].rd) \in {1, 6}
  BY DEF StoreLength
<1>4. \/ End(m) = (starts[m] + 9) + StoreLength(ir[m].rd)
      \/ End(m) = starts[m] + 17
  BY <1>2, R3Opcodes, AddiOpcodes, JumpOpcodes DEF WritesCode
<1>. QED  BY <1>1, <1>3, <1>4

(* An element before another, that no label is, starts before it: only      *)
(* labels take no room.                                                     *)
LEMMA StartsBefore ==
  ASSUME Compiled, AllFaithful, NEW m \in DOMAIN ir, NEW k \in DOMAIN ir, m < k,
         ~IsLabel(ir[m])
  PROVE  starts[m] < starts[k]
<1>1. /\ starts[m] \in Nat /\ starts[k] \in Nat /\ End(m) \in Nat /\ m \in Nat /\ k \in Nat
      /\ m \in DOMAIN starts /\ k \in DOMAIN starts /\ Layout /\ k <= Len(ir) /\ Len(ir) \in Nat
      /\ ir[m] \in Elements
  BY CompiledTypes
<1>2. ~IsEof(ir[m])
  BY <1>1 DEF Compiled, TypeOK, IsProgram
<1>3. IsFaithful(ir[m]) /\ WritesCode(ir[m])
  <2>1. IsFaithful(ir[m])
    BY DEF AllFaithful
  <2>2. CASE IsInstruction(ir[m]) /\ ir[m].mnemonic = "BNE" /\ HasLabel(ir[m])
    <3>1. ir[m].format = "R2_OP"
      BY <1>1, <2>2 DEF Elements, InstructionElements, LabelElements, R3Elements,
         R2ImmElements, R2LabelElements, R1ImmElements, R1LabelElements, MemElements, Eof,
         IsInstruction, HasLabel, HasOperand, R1OpMnemonics
    <3>. QED  BY <2>1, <2>2, <3>1 DEF WritesCode, IsJump, IsConditional
  <2>. QED  BY <1>2, <2>1, <2>2 DEF IsFaithful, WritesCode
<1>4. starts[m] < End(m)
  BY <1>3, CodeHasLength
<1>5. End(m) <= starts[k]
  BY <1>1 DEF Layout, InOrder
<1>. QED  BY <1>1, <1>4, <1>5

(* The least element of a set.                                              *)
LEMMA FirstIs ==
  ASSUME NEW S \in SUBSET Nat, NEW k \in S, \A m \in S : k <= m
  PROVE  First(S) = k
<1>1. ASSUME NEW n \in S, \A m \in S : n <= m PROVE n = k
  BY <1>1
<1>. QED  BY <1>1 DEF First

(* From any element on there is a first one that is not a label.            *)
LEMMA InstructionFrom ==
  ASSUME IsProgram(ir), NEW k \in DOMAIN ir
  PROVE  \E n \in k .. Len(ir) :
           /\ RvMachine!InstructionAt(k) = n /\ n \in DOMAIN ir /\ ~IsLabel(ir[n])
           /\ \A m \in k .. n - 1 : IsLabel(ir[m])
<1>. DEFINE T == {n \in k .. Len(ir) : ~IsLabel(ir[n])}
<1>1. /\ k \in Nat /\ Len(ir) \in Nat /\ DOMAIN ir = 1 .. Len(ir) /\ k <= Len(ir) /\ 1 <= k
      /\ IsEof(ir[Len(ir)])
  BY DEF IsProgram
<1>2. ~IsLabel(ir[Len(ir)])
  BY <1>1 DEF IsLabel, IsEof
<1>3. T \subseteq Nat /\ Len(ir) \in T
  BY <1>1, <1>2
<1>4. PICK n \in T : \A m \in T : n <= m
  <2>. HIDE DEF T
  <2>. QED  BY <1>3, LeastNatural
<1>5. n \in k .. Len(ir) /\ ~IsLabel(ir[n]) /\ n \in DOMAIN ir
  BY <1>1, <1>4
<1>6. \A m \in k .. n - 1 : IsLabel(ir[m])
  BY <1>1, <1>4, <1>5
<1>7. ASSUME NEW m \in k .. Len(ir), ~IsLabel(ir[m]), \A o \in k .. m - 1 : IsLabel(ir[o])
      PROVE  m = n
  <2>1. m \in T /\ n <= m
    BY <1>4, <1>7
  <2>2. ~(n < m)
    BY <1>1, <1>5, <1>7
  <2>. QED  BY <1>1, <1>5, <2>1, <2>2
<1>8. RvMachine!InstructionAt(k) = n
  BY <1>5, <1>6, <1>7 DEF RvMachine!InstructionAt, IsLabel
<1>. QED  BY <1>5, <1>6, <1>8

(* The element the JVM is in when it is at an offset behind the prologue.   *)
PlaceOf(o) ==
  IF StartsAt(o) # {} THEN First(StartsAt(o)) ELSE First(Covering(o))

(* In the code of an element it is in that element.                         *)
LEMMA PlaceInside ==
  ASSUME Compiled, AllFaithful, NEW m \in DOMAIN ir, WritesCode(ir[m]), NEW o \in Nat,
         starts[m] <= o, o < End(m)
  PROVE  PlaceOf(o) = m
<1>1. /\ starts[m] \in Nat /\ End(m) \in Nat /\ m \in Nat /\ m \in DOMAIN starts /\ Layout
      /\ DOMAIN starts = DOMAIN ir /\ DOMAIN ir = 1 .. Len(ir) /\ Len(ir) \in Nat
      /\ IsProgram(ir) /\ StartsAt(o) \subseteq Nat /\ Covering(o) \subseteq Nat
  BY CompiledTypes DEF Compiled, TypeOK, StartsAt, Covering
<1>2. ~IsLabel(ir[m]) /\ ~IsEof(ir[m])
  BY DEF WritesCode, IsR3, IsAddi, IsJump, IsConditional, IsInstruction, IsLabel, IsEof
<1>3. CASE o = starts[m]
  <2>1. m \in StartsAt(o)
    BY <1>2, <1>3 DEF StartsAt
  <2>2. ASSUME NEW k \in StartsAt(o) PROVE m <= k
    <3>1. k \in DOMAIN ir /\ ~IsLabel(ir[k]) /\ starts[k] = starts[m] /\ k \in Nat
      BY <1>1, <1>3, <2>2 DEF StartsAt
    <3>2. ~(k < m)
      BY <1>1, <3>1, StartsBefore
    <3>. QED  BY <1>1, <3>1, <3>2
  <2>3. First(StartsAt(o)) = m
    BY <1>1, <2>1, <2>2, FirstIs
  <2>. QED  BY <2>1, <2>3 DEF PlaceOf
<1>4. CASE o # starts[m]
  <2>1. starts[m] < o
    BY <1>1, <1>4
  <2>2. StartsAt(o) = {}
    BY <2>1, StartsApart DEF StartsAt
  <2>3. m + 1 \in DOMAIN ir /\ m # Len(ir)
    BY <1>1, <1>2, NextElementExists DEF IsProgram
  <2>4. m \in Covering(o)
    BY <1>1, <2>1, <2>3 DEF Covering, End
  <2>5. ASSUME NEW k \in Covering(o) PROVE m <= k
    <3>1. k \in DOMAIN ir /\ k \in Nat /\ k + 1 \in DOMAIN ir /\ o < starts[k + 1]
      BY <1>1, <2>5 DEF Covering
    <3>2. End(k) = starts[k + 1] /\ starts[k + 1] \in Nat
      BY <1>1, <3>1, CompiledTypes DEF End
    <3>3. k < m => End(k) <= starts[m]
      BY <1>1, <3>1 DEF Layout, InOrder
    <3>. QED  BY <1>1, <2>1, <3>1, <3>2, <3>3
  <2>6. First(Covering(o)) = m
    BY <1>1, <2>4, <2>5, FirstIs
  <2>. QED  BY <2>2, <2>6 DEF PlaceOf
<1>. QED  BY <1>3, <1>4

(* Where an element starts it is at the next instruction.                   *)
LEMMA PlaceAtStart ==
  ASSUME Compiled, AllFaithful, NEW k \in DOMAIN ir
  PROVE  PlaceOf(starts[k]) = RvMachine!InstructionAt(k)
<1>1. /\ k \in Nat /\ starts[k] \in Nat /\ IsProgram(ir) /\ DOMAIN ir = 1 .. Len(ir)
      /\ Len(ir) \in Nat /\ DOMAIN starts = DOMAIN ir
  BY CompiledTypes DEF Compiled, TypeOK
<1>2. PICK n \in k .. Len(ir) :
        /\ RvMachine!InstructionAt(k) = n /\ n \in DOMAIN ir /\ ~IsLabel(ir[n])
        /\ \A m \in k .. n - 1 : IsLabel(ir[m])
  BY <1>1, InstructionFrom
<1>. DEFINE U == {m \in k .. n : starts[m] # starts[k]}
<1>3. ASSUME U # {} PROVE FALSE
  <2>1. U \subseteq Nat
    BY <1>1
  <2>2. PICK m \in U : \A o \in U : m <= o
    <3>. HIDE DEF U
    <3>. QED  BY <1>3, <2>1, LeastNatural
  <2>3. m \in k .. n /\ starts[m] # starts[k]
    BY <2>2
  <2>4. PICK p : p = m - 1
    OBVIOUS
  <2>5. p \in k .. n - 1 /\ p \in k .. n /\ p < m /\ p + 1 = m /\ p \in DOMAIN ir /\ m \in DOMAIN ir
    BY <1>1, <1>2, <2>3, <2>4
  <2>6. starts[p] = starts[k]
    BY <2>2, <2>5
  <2>7. ~WritesCode(ir[p]) /\ ~IsEof(ir[p])
    BY <1>2, <2>5 DEF WritesCode, IsR3, IsAddi, IsJump, IsConditional, IsInstruction, IsLabel,
                      IsEof
  <2>8. End(p) = starts[p]
    BY <2>5, <2>7, CompiledTypes DEF ElementAt
  <2>9. End(p) = starts[m]
    BY <1>1, <2>5 DEF End
  <2>. QED  BY <2>3, <2>6, <2>8, <2>9
<1>4. starts[n] = starts[k]
  BY <1>1, <1>2, <1>3
<1>5. n \in StartsAt(starts[k]) /\ StartsAt(starts[k]) \subseteq Nat
  BY <1>1, <1>2, <1>4 DEF StartsAt
<1>6. ASSUME NEW m \in StartsAt(starts[k]) PROVE n <= m
  <2>1. m \in DOMAIN ir /\ m \in Nat /\ ~IsLabel(ir[m]) /\ starts[m] = starts[n]
    BY <1>1, <1>4, <1>6 DEF StartsAt
  <2>2. starts[n] \in Nat
    BY <1>1, <1>4
  <2>3. ~(m < n)
    BY <1>2, <2>1, <2>2, StartsBefore
  <2>. QED  BY <1>1, <1>2, <2>1, <2>3
<1>7. First(StartsAt(starts[k])) = n
  BY <1>5, <1>6, FirstIs
<1>. QED  BY <1>2, <1>5, <1>7 DEF PlaceOf

(* Before the code of the first element it is at the first instruction.     *)
LEMMA FirstInstruction ==
  ASSUME IsProgram(ir)
  PROVE  First({k \in DOMAIN ir : ~IsLabel(ir[k])}) = RvMachine!InstructionAt(1)
<1>1. 1 \in DOMAIN ir /\ DOMAIN ir = 1 .. Len(ir) /\ Len(ir) \in Nat
  BY DEF IsProgram
<1>2. PICK n \in 1 .. Len(ir) :
        /\ RvMachine!InstructionAt(1) = n /\ n \in DOMAIN ir /\ ~IsLabel(ir[n])
        /\ \A m \in 1 .. n - 1 : IsLabel(ir[m])
  BY <1>1, InstructionFrom
<1>. DEFINE S == {k \in DOMAIN ir : ~IsLabel(ir[k])}
<1>3. S \in SUBSET Nat /\ n \in S /\ \A m \in S : n <= m
  BY <1>1, <1>2
<1>4. First(S) = n
  <2>. HIDE DEF S
  <2>. QED  BY <1>3, FirstIs
<1>. QED  BY <1>2, <1>4

-----------------------------------------------------------------------------
(* The invariant of the run: the values are those the program says.         *)

(* The prologue computes nothing and ends where the first element starts.   *)
LEMMA PreparingGoes ==
  ASSUME Compiled, Preparing, Execute
  PROVE  registers' = registers /\ (Preparing' \/ (offset' = starts[1] /\ values' = << >>))
<1>0. 0 \in Int /\ 3 \in Nat /\ 6 \in Nat /\ 9 \in Nat /\ 10 \in Nat
  OBVIOUS
<1>1. /\ At(code, 0) = JVM_GETSTATIC /\ At(code, 3) = JVM_INVOKEVIRTUAL
      /\ At(code, 6) = JVM_CHECKCAST /\ At(code, 9) = JVM_ASTORE_1 /\ starts[1] = 10
  BY PrologueOpcodes
<1>2. PICK none : none = << >>
  OBVIOUS
<1>3. PICK one : one = << 0 >>
  OBVIOUS
<1>4. none \in Seq(Int) /\ one \in Seq(Int) /\ Len(one) = 1 /\ Len(none) = 0
  BY <1>2, <1>3
<1>5. none \o one = one /\ none \o none = none
  BY <1>2, <1>4, IntStacks
<1>6. ASSUME NEW place \in Nat, Runs(place, one), place \in {3, 6, 9}
      PROVE  registers' = registers /\ Preparing'
  <2>1. offset' = place /\ values' = one /\ registers' = registers
    BY <1>6 DEF Runs
  <2>. QED  BY <1>3, <1>6, <2>1 DEF Preparing, Has
<1>7. CASE Has(0, << >>)
  <2>1. PICK place \in Nat : place = 0
    OBVIOUS
  <2>2. Has(place, none) /\ At(code, place) = JVM_GETSTATIC
    BY <1>1, <1>2, <1>7, <2>1
  <2>3. Runs(place + 3, none \o << 0 >>)
    BY <1>0, <1>4, <2>2, Quiet, PushRuns
  <2>4. Runs(place + 3, one)
    BY <1>3, <1>5, <2>3
  <2>5. place + 3 = 3
    BY <2>1
  <2>. QED  BY <1>6, <2>4, <2>5
<1>8. ASSUME NEW place \in Nat, Has(place, << 0 >>), NEW op,
             op \in {JVM_INVOKEVIRTUAL, JVM_CHECKCAST}, At(code, place) = op
      PROVE  Runs(place + 3, one)
  <2>1. Has(place, none \o one) /\ Len(one) = Len(Operands(op)) /\ IsQuiet(op, 3)
    BY <1>3, <1>4, <1>5, <1>8, OperandCount, Quiet
  <2>2. Runs(place + 3, none \o << 0 >>)
    BY <1>0, <1>4, <1>8, <2>1, QuietRuns
  <2>. QED  BY <1>3, <1>5, <2>2
<1>9. CASE Has(3, << 0 >>)
  <2>1. Runs(3 + 3, one)
    BY <1>0, <1>1, <1>8, <1>9
  <2>. QED  BY <1>6, <2>1
<1>10. CASE Has(6, << 0 >>)
  <2>1. Runs(6 + 3, one)
    BY <1>0, <1>1, <1>8, <1>10
  <2>. QED  BY <1>6, <2>1
<1>11. CASE Has(9, << 0 >>)
  <2>1. Has(9, none \o one) /\ Len(one) = Len(Operands(JVM_ASTORE_1))
    BY <1>3, <1>4, <1>5, <1>11, OperandCount
  <2>2. Runs(9 + 1, none \o << >>)
    BY <1>0, <1>1, <1>4, <2>1, Quiet, QuietRuns
  <2>3. Runs(10, none)
    BY <1>2, <1>5, <2>2
  <2>. QED  BY <1>1, <1>2, <2>3 DEF Runs, Has
<1>. QED  BY <1>7, <1>9, <1>10, <1>11 DEF Preparing

(* What executes is in the code of an element.                              *)
LEMMA WhereExecuting ==
  ASSUME Compiled, NEW m \in DOMAIN ir, Computing(ir[m], starts[m]), Execute
  PROVE  \E k \in DOMAIN ir : WritesCode(ir[k]) /\ Computing(ir[k], starts[k])
<1>1. CASE WritesCode(ir[m])
  BY <1>1
<1>2. CASE ~WritesCode(ir[m])
  <2>1. Has(starts[m], << >>)
    BY <1>2 DEF Computing, WritesCode
  <2>2. PICK k \in DOMAIN ir : starts[k] = starts[m] /\ (WritesCode(ir[k]) \/ IsEof(ir[k]))
    BY CodeAtStart
  <2>3. Computing(ir[k], starts[k])
    BY <2>1, <2>2 DEF Computing
  <2>4. ASSUME IsEof(ir[k]) PROVE FALSE
    <3>1. k = Len(ir)
      BY <2>4 DEF Compiled, TypeOK, IsProgram
    <3>2. At(code, starts[k]) = JVM_RETURN
      BY <3>1, CompiledTypes DEF Compiled, Shape
    <3>. QED  BY <2>1, <2>2, <3>2, ReturnStops DEF Has, Opcode
  <2>. QED  BY <2>2, <2>3, <2>4
<1>. QED  BY <1>1, <1>2

(* Where the JVM is while it computes.                                      *)
LEMMA ComputingPlace ==
  ASSUME Compiled, NEW m \in DOMAIN ir, IsFaithful(ir[m]), WritesCode(ir[m]),
         NEW e, e = ir[m], NEW s \in Nat, s = starts[m]
  PROVE  /\ Computing(e, s) => offset \in Nat /\ s <= offset /\ offset < End(m)
         /\ Computing(e, s)' => offset' \in Nat /\ s <= offset' /\ offset' < End(m)
<1>1. /\ IsR3(e) => e.mnemonic = "ADD" /\ ~IsJump(e)
      /\ IsAddi(e) => ~IsJump(e)
  BY CompiledTypes, FaithfulElement
<1>2. PICK end \in Nat : end = End(m)
  BY CompiledTypes
<1>3. /\ IsR3(e) \/ IsAddi(e) => end = (s + 9) + StoreLength(e.rd)
      /\ IsJump(e) => end = s + 17
      /\ StoreLength(e.rd) = IF e.rd = X0 THEN 1 ELSE 6
  BY <1>1, <1>2, R3Opcodes, AddiOpcodes, JumpOpcodes DEF StoreLength
<1>4. ASSUME NEW o,
             \/ o \in {s, s + 1, s + 3, s + 4, s + 5, s + 7, s + 8, s + 9}
             \/ /\ IsR3(e) \/ IsAddi(e)
                /\ e.rd # X0
                /\ o \in {(s + 9) + 1, (s + 9) + 2, (s + 9) + 4, (s + 9) + 5}
             \/ IsJump(e) /\ o = s + 12
      PROVE  o \in Nat /\ s <= o /\ o < end
  <2>1. CASE IsR3(e) \/ IsAddi(e)
    BY <1>1, <1>3, <1>4, <2>1
  <2>2. CASE IsJump(e)
    BY <1>1, <1>3, <1>4, <2>2
  <2>. QED  BY <2>1, <2>2 DEF WritesCode
<1>5. ASSUME Computing(e, s) PROVE offset \in Nat /\ s <= offset /\ offset < end
  BY <1>4, <1>5, Zenon DEF Computing, Storing, Has
<1>6. ASSUME Computing(e, s)' PROVE offset' \in Nat /\ s <= offset' /\ offset' < end
  BY <1>4, <1>6, Zenon DEF Computing, Storing, Has
<1>. QED  BY <1>2, <1>5, <1>6

(* What is known of a run that is about to execute an opcode.               *)
Executing ==
  /\ Compiled /\ AllFaithful /\ ConstantsFit
  /\ registers \in [Registers -> Int]
  /\ Execute /\ UNCHANGED vars

(* The completed code of an element leaves integers in the registers, and   *)
(* the JVM where some element starts.                                       *)
LEMMA CompletesTo ==
  ASSUME Executing, NEW m \in DOMAIN ir, WritesCode(ir[m]), Completes(ir[m], m)
  PROVE  /\ registers' \in [Registers -> Int]
         /\ m + 1 \in DOMAIN ir /\ End(m) = starts[m + 1]
         /\ IsJump(ir[m]) => /\ Declaration(ir, ir[m].label) \in DOMAIN ir
                             /\ LabelStart(ir[m].label) = starts[Declaration(ir, ir[m].label)]
         /\ \E k \in DOMAIN ir : offset' = starts[k]
<1>1. /\ TypeOK /\ ir[m] \in Elements /\ IsFaithful(ir[m]) /\ SemanAccepts(ir)
      /\ DOMAIN starts = DOMAIN ir
  BY CompiledTypes DEF Executing, Compiled, AllFaithful, LayoutInv
<1>2. Sum(ir[m]) \in Int
  BY <1>1, ValueTypes DEF Executing
<1>3. registers' \in [Registers -> Int]
  <2>1. CASE IsR3(ir[m]) \/ IsAddi(ir[m])
    BY <1>2, <2>1 DEF Completes, Executing
  <2>2. CASE IsJump(ir[m])
    BY <2>2 DEF Completes, Executing
  <2>. QED  BY <2>1, <2>2 DEF WritesCode
<1>4. m + 1 \in DOMAIN ir /\ End(m) = starts[m + 1]
  <2>1. ~IsEof(ir[m])
    BY DEF WritesCode, IsR3, IsAddi, IsJump, IsConditional, IsInstruction, IsEof
  <2>. QED  BY <1>1, <2>1, NextElementExists DEF TypeOK, End
<1>5. ASSUME IsJump(ir[m])
      PROVE  /\ Declaration(ir, ir[m].label) \in DOMAIN ir
             /\ LabelStart(ir[m].label) = starts[Declaration(ir, ir[m].label)]
  <2>1. HasLabel(ir[m])
    BY <1>1, <1>5, FaithfulElement
  <2>2. \E k \in DOMAIN ir : IsLabel(ir[k]) /\ ir[k].name = ir[m].label
    BY <1>1, <2>1 DEF SemanAccepts, ReferencedLabelsExist
  <2>. QED  BY <2>2 DEF Declaration, LabelStart
<1>6. \E k \in DOMAIN ir : offset' = starts[k]
  <2>1. CASE IsR3(ir[m]) \/ IsAddi(ir[m])
    BY <1>4, <2>1 DEF Completes
  <2>2. CASE IsJump(ir[m])
    BY <1>4, <1>5, <2>2 DEF Completes
  <2>. QED  BY <2>1, <2>2 DEF WritesCode
<1>. QED  BY <1>3, <1>4, <1>5, <1>6

(* Where an element starts with nothing on the stack nothing is computed.   *)
LEMMA ComputesNothing ==
  ASSUME UNCHANGED vars, NEW k \in DOMAIN ir, offset' = starts[k], values' = << >>
  PROVE  (\E m \in DOMAIN ir : Computing(ir[m], starts[m]))'
<1>1. k \in DOMAIN ir' /\ offset' = starts'[k]
  BY DEF vars
<1>2. Computing(ir[k], starts[k])'
  BY <1>1 DEF Computing, Has
<1>. QED  BY <1>1, <1>2

(* The run keeps the values.                                                *)
LEMMA ExecutingValues ==
  ASSUME Executing, Preparing \/ \E m \in DOMAIN ir : Computing(ir[m], starts[m])
  PROVE  /\ registers' \in [Registers -> Int]
         /\ Preparing' \/ (\E m \in DOMAIN ir : Computing(ir[m], starts[m]))'
<1>1. CASE Preparing
  <2>1. registers' = registers /\ (Preparing' \/ (offset' = starts[1] /\ values' = << >>))
    BY <1>1, PreparingGoes DEF Executing
  <2>2. 1 \in DOMAIN ir
    BY PrologueOpcodes DEF Executing
  <2>. QED  BY <2>1, <2>2, ComputesNothing DEF Executing
<1>2. ASSUME NEW n \in DOMAIN ir, Computing(ir[n], starts[n])
      PROVE  /\ registers' \in [Registers -> Int]
             /\ (\E m \in DOMAIN ir : Computing(ir[m], starts[m]))'
  <2>1. PICK m \in DOMAIN ir : WritesCode(ir[m]) /\ Computing(ir[m], starts[m])
    BY <1>2, WhereExecuting DEF Executing
  <2>2. PICK e : e = ir[m]
    OBVIOUS
  <2>3. PICK s \in Nat : s = starts[m]
    BY CompiledTypes DEF Executing
  <2>4. IsFaithful(ir[m]) /\ WritesCode(ir[m]) /\ Computing(e, s)
    BY <2>1, <2>2, <2>3 DEF Executing, AllFaithful
  <2>5. (Computing(e, s)' /\ registers' = registers) \/ Completes(e, m)
    BY <2>2, <2>3, <2>4, ComputeGoes DEF Executing
  <2>6. CASE Computing(e, s)' /\ registers' = registers
    <3>1. ir' = ir /\ starts' = starts
      BY DEF Executing, vars
    <3>2. m \in DOMAIN ir' /\ e = ir'[m] /\ s = starts'[m]
      BY <2>2, <2>3, <3>1
    <3>3. Computing(ir[m], starts[m])'
      BY <2>6, <3>2
    <3>. QED  BY <2>6, <3>2, <3>3 DEF Executing
  <2>7. CASE Completes(e, m)
    <3>1. Completes(ir[m], m) /\ values' = << >>
      BY <2>2, <2>7 DEF Completes
    <3>2. registers' \in [Registers -> Int] /\ \E k \in DOMAIN ir : offset' = starts[k]
      BY <2>4, <3>1, CompletesTo
    <3>. QED  BY <3>1, <3>2, ComputesNothing DEF Executing
  <2>. QED  BY <2>5, <2>6, <2>7
<1>. QED  BY <1>1, <1>2

(* A step that changes nothing.                                             *)
LEMMA SameValues ==
  ASSUME ValuesInv, UNCHANGED vars, UNCHANGED jvmVars
  PROVE  ValuesInv'
<1>1. /\ ir' = ir /\ starts' = starts /\ pc' = pc /\ code' = code /\ integers' = integers
      /\ offset' = offset /\ values' = values /\ local_2' = local_2 /\ registers' = registers
  BY DEF vars, jvmVars
<1>2. Faithful' <=> Faithful
  BY <1>1 DEF Faithful, CodeFits, ConstantsFit
<1>3. ASSUME Preparing PROVE Preparing'
  BY <1>1, <1>3 DEF Preparing, Has
<1>4. ASSUME NEW m \in DOMAIN ir, Computing(ir[m], starts[m])
      PROVE  (\E k \in DOMAIN ir : Computing(ir[k], starts[k]))'
  <2>1. PICK e : e = ir[m]
    OBVIOUS
  <2>2. PICK s : s = starts[m]
    OBVIOUS
  <2>3. FirstValue(e)' = FirstValue(e) /\ SecondValue(e)' = SecondValue(e) /\ Sum(e)' = Sum(e)
    BY <1>1 DEF FirstValue, SecondValue, Sum
  <2>4. Computing(e, s)
    BY <1>4, <2>1, <2>2
  <2>5. \A place, own : Has(place, own) => Has(place, own)'
    BY <1>1 DEF Has
  <2>6. Computing(e, s)'
    BY <1>1, <2>3, <2>4 DEF Computing, Storing, Has
  <2>7. m \in DOMAIN ir' /\ e = ir'[m] /\ s = starts'[m]
    BY <1>1, <1>4, <2>1, <2>2
  <2>8. Computing(ir[m], starts[m])'
    BY <2>6, <2>7
  <2>. QED  BY <2>7, <2>8
<1>. QED  BY <1>1, <1>2, <1>3, <1>4 DEF ValuesInv

(* While the code generator runs the JVM waits.                             *)
LEMMA NextRunsBefore == Next => pc # "done"
BY DEF Next, BeginMain, LoadConstant, WriteLabel, WriteR3, WriteAddi, WriteJump,
       WriteJumpUndefined, LabelOffsetMissing, WriteNothing, FirstPass, NextElement,
       EndFirstPass, UpdateLabelReference, EndMain

(* The values of the run are those the program says.                        *)
LEMMA ValuesStep ==
  ASSUME TypeOK, LayoutInv, ShapeInv, ValuesInv, [ExecutionNext]_allVars
  PROVE  ValuesInv'
<1>1. CASE UNCHANGED allVars
  <2>1. UNCHANGED vars /\ UNCHANGED jvmVars
    BY <1>1 DEF allVars
  <2>. QED  BY <2>1, SameValues
<1>2. CASE Next /\ UNCHANGED jvmVars
  <2>1. /\ offset' = 0 /\ values' = << >> /\ registers' = [r \in Registers |-> 0]
    BY <1>2, NextRunsBefore DEF ValuesInv, jvmVars
  <2>2. registers' \in [Registers -> Int]
    BY <2>1
  <2>3. Preparing'
    BY <2>1 DEF Preparing, Has
  <2>. QED  BY <2>1, <2>2, <2>3 DEF ValuesInv
<1>3. CASE pc = "done" /\ Execute /\ UNCHANGED vars
  <2>1. SUFFICES ASSUME Faithful'
                 PROVE  /\ registers' \in [Registers -> Int]
                        /\ Preparing' \/ (\E m \in DOMAIN ir : Computing(ir[m], starts[m]))'
    BY <1>3 DEF ValuesInv, vars
  <2>2. Faithful
    BY <1>3, <2>1 DEF Faithful, CodeFits, ConstantsFit, vars
  <2>3. Executing /\ (Preparing \/ \E m \in DOMAIN ir : Computing(ir[m], starts[m]))
    BY <1>3, <2>2 DEF Executing, Compiled, AllFaithful, Faithful, ValuesInv
  <2>. QED  BY <2>3, ExecutingValues
<1>. QED  BY <1>1, <1>2, <1>3 DEF ExecutionNext

(* The JVM computes what the program says, in every run.                    *)
LEMMA ValuesInvariance == ExecutionSpec => [](TypeOK /\ LayoutInv /\ ShapeInv /\ ValuesInv)
<1>1. ExecutionInit => ValuesInv
  BY DEF ExecutionInit, Init, JvmInit, ValuesInv
<1>2. TypeOK /\ LayoutInv /\ ShapeInv /\ ValuesInv /\ [ExecutionNext]_allVars => ValuesInv'
  BY ValuesStep
<1>. QED  BY <1>1, <1>2, RunKeepsMethod, PTL DEF ExecutionSpec

-----------------------------------------------------------------------------
(* The refinement.                                                          *)

(* Where the mapping puts the RISC-V machine, now and after a step of the   *)
(* run.                                                                     *)
LEMMA MappedPlace ==
  ASSUME pc = "done", IsProgram(ir), UNCHANGED vars, NEW o, o = offset'
  PROVE  /\ RvPc = IF offset < starts[1] THEN RvMachine!InstructionAt(1) ELSE PlaceOf(offset)
         /\ RvPc' = IF o < starts[1] THEN RvMachine!InstructionAt(1) ELSE PlaceOf(o)
<1>1. ir' = ir /\ starts' = starts /\ pc' = "done"
  BY DEF vars
<1>2. First({k \in DOMAIN ir : ~IsLabel(ir[k])}) = RvMachine!InstructionAt(1)
  BY FirstInstruction
<1>3. RvPc = IF offset < starts[1] THEN RvMachine!InstructionAt(1) ELSE PlaceOf(offset)
  BY <1>2 DEF RvPc, PlaceOf
<1>4. /\ StartsAt(offset)' = StartsAt(o)
      /\ Covering(offset)' = Covering(o)
  BY <1>1 DEF StartsAt, Covering
<1>5. RvPc' = IF o < starts[1] THEN First({k \in DOMAIN ir : ~IsLabel(ir[k])})
              ELSE IF StartsAt(o) # {} THEN First(StartsAt(o)) ELSE First(Covering(o))
  BY <1>1, <1>4 DEF RvPc
<1>. QED  BY <1>2, <1>3, <1>5 DEF PlaceOf

(* The code of the first element comes first.                               *)
LEMMA AfterPrologue ==
  ASSUME Compiled, NEW k \in DOMAIN ir
  PROVE  starts[1] = 10 /\ 1 \in DOMAIN ir /\ starts[k] \in Nat /\ starts[1] <= starts[k]
<1>1. starts[1] = 10 /\ 1 \in DOMAIN ir
  BY PrologueOpcodes
<1>2. /\ starts[k] \in Nat /\ k \in Nat /\ k >= 1 /\ k \in DOMAIN starts
      /\ 1 \in DOMAIN starts /\ Layout
  BY <1>1, CompiledTypes
<1>3. End(1) \in Nat /\ starts[1] <= End(1)
  BY <1>1, CompiledTypes
<1>4. 1 < k => End(1) <= starts[k]
  BY <1>2 DEF Layout, InOrder
<1>. QED  BY <1>1, <1>2, <1>3, <1>4

(* The registers of the RISC-V machine are what it computes with.           *)
LEMMA LowRegisters ==
  ASSUME registers \in [Registers -> Int], registers' \in [Registers -> Int],
         NEW r \in Registers, NEW v \in Int, NEW sum \in Int,
         registers' = [registers EXCEPT ![r] = sum], Low(sum) = RvMachine!Wrap(v)
  PROVE  RvRegisters' = [RvRegisters EXCEPT ![r] = RvMachine!Wrap(v)]
<1>1. RvRegisters' = [q \in Registers |-> Low(registers'[q])]
  BY DEF RvRegisters, Low, Wrapped
<1>2. \A q \in Registers : registers'[q] = IF q = r THEN sum ELSE registers[q]
  OBVIOUS
<1>. QED  BY <1>1, <1>2 DEF RvRegisters

(* Registers that stay the same.                                            *)
LEMMA SameRegisters ==
  ASSUME registers' = registers
  PROVE  RvRegisters' = RvRegisters
BY DEF RvRegisters, Low, Wrapped

(* Completing the code of an element is the step of the RISC-V machine, or  *)
(* the branch between longs that do not fit.                                *)
LEMMA CompletesImplements ==
  ASSUME Executing, NEW m \in DOMAIN ir, WritesCode(ir[m]), Completes(ir[m], m), RvPc = m
  PROVE  RvMachine!Step \/ ComparesOverflown
<1>. DEFINE e == ir[m]
<1>1. /\ TypeOK /\ IsProgram(ir) /\ e \in Elements /\ IsFaithful(e) /\ AllFaithful /\ Compiled
      /\ UNCHANGED vars /\ ir' = ir /\ pc = "done"
      /\ registers \in [Registers -> Int]
  BY CompiledTypes DEF Executing, Compiled, AllFaithful, TypeOK, vars
<1>2. /\ IsR3(e) => /\ e.mnemonic = "ADD" /\ ~IsAddi(e) /\ ~IsJump(e) /\ e.rs2 \in Registers
      /\ IsAddi(e) => e.mnemonic = "ADDI" /\ ~IsJump(e) /\ e.imm \in Int
      /\ IsJump(e) => e.mnemonic = "BNE" /\ ~IsAddi(e)
      /\ e.rd \in Registers /\ e.rs1 \in Registers /\ IsInstruction(e)
  BY <1>1, FaithfulElement
<1>3. /\ registers' \in [Registers -> Int]
      /\ m + 1 \in DOMAIN ir /\ End(m) = starts[m + 1]
      /\ IsJump(e) => /\ Declaration(ir, e.label) \in DOMAIN ir
                      /\ LabelStart(e.label) = starts[Declaration(ir, e.label)]
  BY CompletesTo
<1>4. ASSUME NEW k \in DOMAIN ir, offset' = starts[k]
      PROVE  RvPc' = RvMachine!InstructionAt(k)
  <2>1. PICK o : o = offset'
    OBVIOUS
  <2>2. RvPc' = IF o < starts[1] THEN RvMachine!InstructionAt(1) ELSE PlaceOf(o)
    BY <1>1, <2>1, MappedPlace
  <2>3. starts[k] \in Nat /\ starts[1] <= starts[k] /\ starts[1] = 10
    BY <1>1, AfterPrologue
  <2>4. PlaceOf(starts[k]) = RvMachine!InstructionAt(k)
    BY <1>1, PlaceAtStart
  <2>. QED  BY <1>4, <2>1, <2>2, <2>3, <2>4
<1>5. CASE IsR3(e) \/ IsAddi(e)
  <2>1. /\ offset' = starts[m + 1]
        /\ registers' = IF e.rd = X0 THEN registers ELSE [registers EXCEPT ![e.rd] = Sum(e)]
    BY <1>3, <1>5 DEF Completes
  <2>2. RvPc' = RvMachine!InstructionAt(m + 1)
    BY <1>3, <1>4, <2>1
  <2>3. PICK v \in Int :
          v = RvRegisters[e.rs1] + (IF IsAddi(e) THEN e.imm ELSE RvRegisters[e.rs2])
    <3>1. \A r \in Registers : RvRegisters[r] \in Int
      BY <1>1, LowSum DEF RvRegisters
    <3>. QED  BY <1>2, <1>5, <3>1
  <2>4. PICK sum \in Int : sum = Sum(e)
    BY <1>1, ValueTypes
  <2>5. Low(sum) = RvMachine!Wrap(v)
    <3>1. FirstValue(e) = registers[e.rs1] /\ RvRegisters[e.rs1] = Low(registers[e.rs1])
      BY <1>2, <1>5 DEF FirstValue, FirstRegister, RvRegisters
    <3>2. CASE IsAddi(e)
      <4>1. SecondValue(e) = e.imm /\ v = Low(registers[e.rs1]) + e.imm
        BY <2>3, <3>1, <3>2 DEF SecondValue
      <4>2. Low(Long(registers[e.rs1] + e.imm)) = Low(Low(registers[e.rs1]) + e.imm)
        BY <1>1, <1>2, <3>2, LowSum
      <4>. QED  BY <2>4, <3>1, <4>1, <4>2 DEF Sum, RvMachine!Wrap, Low, Wrapped
    <3>3. CASE ~IsAddi(e)
      <4>1. /\ SecondValue(e) = registers[e.rs2]
            /\ v = Low(registers[e.rs1]) + Low(registers[e.rs2])
        BY <1>2, <1>5, <2>3, <3>1, <3>3 DEF SecondValue, SecondRegister, RvRegisters
      <4>2. Low(Long(registers[e.rs1] + registers[e.rs2]))
              = Low(Low(registers[e.rs1]) + Low(registers[e.rs2]))
        BY <1>1, <1>2, <1>5, <3>3, LowSum
      <4>. QED  BY <2>4, <3>1, <4>1, <4>2 DEF Sum, RvMachine!Wrap, Low, Wrapped
    <3>. QED  BY <3>2, <3>3
  <2>6. RvRegisters' = IF e.rd = 0 THEN RvRegisters
                       ELSE [RvRegisters EXCEPT ![e.rd] = RvMachine!Wrap(v)]
    <3>1. CASE e.rd = X0
      BY <2>1, <3>1, SameRegisters DEF X0
    <3>2. CASE e.rd # X0
      <4>1. registers' = [registers EXCEPT ![e.rd] = sum]
        BY <2>1, <2>4, <3>2
      <4>2. RvRegisters' = [RvRegisters EXCEPT ![e.rd] = RvMachine!Wrap(v)]
        BY <1>1, <1>2, <1>3, <2>4, <2>5, <4>1, LowRegisters
      <4>. QED  BY <3>2, <4>2 DEF X0
    <3>. QED  BY <3>1, <3>2
  <2>7. RvMachine!WriteBack(e.rd, v)
    BY <2>2, <2>6 DEF RvMachine!WriteBack
  <2>. QED  BY <1>1, <1>2, <1>5, <2>3, <2>7 DEF RvMachine!Step, IsInstruction
<1>6. CASE IsJump(e)
  <2>1. /\ registers' = registers
        /\ offset' = IF FirstValue(e) = SecondValue(e) THEN End(m) ELSE LabelStart(e.label)
        /\ FirstValue(e) = registers[e.rd] /\ SecondValue(e) = registers[e.rs1]
    BY <1>2, <1>6
    DEF Completes, FirstValue, SecondValue, FirstRegister, SecondRegister
  <2>2. RvRegisters' = RvRegisters
    BY <2>1, SameRegisters
  <2>3. CASE registers[e.rd] = registers[e.rs1]
    <3>1. RvPc' = RvMachine!InstructionAt(m + 1)
      BY <1>3, <1>4, <2>1, <2>3
    <3>2. RvRegisters[e.rd] = RvRegisters[e.rs1]
      BY <1>2, <2>3 DEF RvRegisters
    <3>3. RvMachine!Branch(RvRegisters[e.rd] # RvRegisters[e.rs1], e.label)
      BY <2>2, <3>1, <3>2 DEF RvMachine!Branch
    <3>. QED  BY <1>1, <1>2, <1>6, <3>3 DEF RvMachine!Step, IsInstruction
  <2>4. CASE registers[e.rd] # registers[e.rs1]
    <3>1. RvPc' = RvMachine!InstructionAt(Declaration(ir, e.label))
      BY <1>3, <1>4, <1>6, <2>1, <2>4
    <3>2. RvPc' = RvMachine!TargetOf(e.label)
      BY <3>1 DEF RvMachine!TargetOf, Declaration, IsLabel
    <3>3. CASE RvRegisters[e.rd] # RvRegisters[e.rs1]
      <4>1. RvMachine!Branch(RvRegisters[e.rd] # RvRegisters[e.rs1], e.label)
        BY <2>2, <3>2, <3>3 DEF RvMachine!Branch
      <4>. QED  BY <1>1, <1>2, <1>6, <4>1 DEF RvMachine!Step, IsInstruction
    <3>4. CASE RvRegisters[e.rd] = RvRegisters[e.rs1]
      <4>1. ~(Fits(e.rd) /\ Fits(e.rs1))
        BY <2>4, <3>4 DEF Fits
      <4>2. RvMachine!Branch(TRUE, e.label)
        BY <2>2, <3>2 DEF RvMachine!Branch
      <4>. QED  BY <1>1, <1>2, <1>6, <4>1, <4>2
                DEF ComparesOverflown, IsInstruction, BranchMnemonics
    <3>. QED  BY <3>3, <3>4
  <2>. QED  BY <2>3, <2>4
<1>. QED  BY <1>5, <1>6 DEF WritesCode

(* Every opcode executed is part of an instruction, or completes it.        *)
LEMMA ExecutingImplements ==
  ASSUME Executing, Preparing \/ \E m \in DOMAIN ir : Computing(ir[m], starts[m])
  PROVE  \/ RvMachine!Step \/ ComparesOverflown
         \/ UNCHANGED RvMachine!rvVars
<1>1. /\ TypeOK /\ IsProgram(ir) /\ AllFaithful /\ Compiled
      /\ UNCHANGED vars /\ ir' = ir /\ pc = "done" /\ Execute
  BY DEF Executing, Compiled, TypeOK, vars
<1>2. ASSUME RvPc' = RvPc, registers' = registers PROVE UNCHANGED RvMachine!rvVars
  BY <1>1, <1>2, SameRegisters DEF RvMachine!rvVars
<1>3. PICK o : o = offset'
  OBVIOUS
<1>4. /\ RvPc = IF offset < starts[1] THEN RvMachine!InstructionAt(1) ELSE PlaceOf(offset)
      /\ RvPc' = IF o < starts[1] THEN RvMachine!InstructionAt(1) ELSE PlaceOf(o)
  BY <1>1, <1>3, MappedPlace
<1>5. CASE Preparing
  <2>1. starts[1] = 10 /\ 1 \in DOMAIN ir
    BY <1>1, PrologueOpcodes
  <2>2. PlaceOf(starts[1]) = RvMachine!InstructionAt(1)
    BY <1>1, <2>1, PlaceAtStart
  <2>3. registers' = registers /\ (Preparing' \/ (offset' = starts[1] /\ values' = << >>))
    BY <1>1, <1>5, PreparingGoes
  <2>4. offset < starts[1]
    BY <1>5, <2>1 DEF Preparing, Has
  <2>5. o < starts[1] \/ o = starts[1]
    BY <1>3, <2>1, <2>3 DEF Preparing, Has
  <2>6. RvPc' = RvPc
    BY <1>4, <2>2, <2>4, <2>5
  <2>. QED  BY <1>2, <2>3, <2>6
<1>6. ASSUME NEW n \in DOMAIN ir, Computing(ir[n], starts[n])
      PROVE  \/ RvMachine!Step \/ ComparesOverflown
             \/ UNCHANGED RvMachine!rvVars
  <2>1. PICK m \in DOMAIN ir : WritesCode(ir[m]) /\ Computing(ir[m], starts[m])
    BY <1>1, <1>6, WhereExecuting
  <2>2. PICK e : e = ir[m]
    OBVIOUS
  <2>3. PICK s \in Nat : s = starts[m]
    BY <1>1, CompiledTypes
  <2>4. IsFaithful(ir[m]) /\ WritesCode(ir[m]) /\ Computing(e, s)
    BY <1>1, <2>1, <2>2, <2>3 DEF AllFaithful
  <2>5. (Computing(e, s)' /\ registers' = registers) \/ Completes(e, m)
    BY <2>2, <2>3, <2>4, ComputeGoes DEF Executing
  <2>6. starts[1] = 10 /\ starts[1] <= s
    BY <1>1, <2>3, AfterPrologue
  <2>7. ASSUME NEW place \in Nat, s <= place, place < End(m)
        PROVE  ~(place < starts[1]) /\ PlaceOf(place) = m
    BY <1>1, <2>3, <2>4, <2>6, <2>7, PlaceInside
  <2>8. offset \in Nat /\ s <= offset /\ offset < End(m)
    BY <1>1, <2>2, <2>3, <2>4, ComputingPlace
  <2>9. RvPc = m
    BY <1>4, <2>7, <2>8
  <2>10. CASE Computing(e, s)' /\ registers' = registers
    <3>1. o \in Nat /\ s <= o /\ o < End(m)
      BY <1>1, <1>3, <2>2, <2>3, <2>4, <2>10, ComputingPlace
    <3>2. RvPc' = m
      BY <1>4, <2>7, <3>1
    <3>. QED  BY <1>2, <2>9, <2>10, <3>2
  <2>11. CASE Completes(e, m)
    BY <2>2, <2>4, <2>9, <2>11, CompletesImplements
  <2>. QED  BY <2>5, <2>10, <2>11
<1>. QED  BY <1>5, <1>6

(* Where the JVM starts.                                                    *)
FirstPlace == pc = "done" /\ CodeFits => starts[1] = 10

(* Every step of the code generator and of the run is one of the RISC-V     *)
(* machine, or changes nothing of it.                                       *)
LEMMA StepImplements ==
  ASSUME TypeOK, LayoutInv, ShapeInv, ValuesInv, Faithful, TypeOK', ValuesInv', Faithful',
         FirstPlace', [ExecutionNext]_allVars
  PROVE  \/ RvMachine!Step \/ ComparesOverflown
         \/ UNCHANGED RvMachine!rvVars
<1>1. CASE UNCHANGED allVars
  <2>1. /\ ir' = ir /\ starts' = starts /\ pc' = pc /\ offset' = offset
        /\ registers' = registers
    BY <1>1 DEF allVars, vars, jvmVars
  <2>2. StartsAt(offset)' = StartsAt(offset) /\ Covering(offset)' = Covering(offset)
    BY <2>1 DEF StartsAt, Covering
  <2>3. RvPc' = RvPc
    BY <2>1, <2>2 DEF RvPc
  <2>. QED  BY <2>1, <2>3, SameRegisters DEF RvMachine!rvVars
<1>2. CASE Next /\ UNCHANGED jvmVars
  <2>1. pc # "done" /\ offset = 0 /\ offset' = 0 /\ registers' = registers
    BY <1>2, NextRunsBefore DEF ValuesInv, jvmVars
  <2>2. ir' = ir
    BY <1>2 DEF Next, BeginMain, LoadConstant, WriteLabel, WriteR3, WriteAddi, WriteJump,
       WriteJumpUndefined, LabelOffsetMissing, WriteNothing, FirstPass, NextElement,
       EndFirstPass, UpdateLabelReference, EndMain
  <2>3. pc' # "done" \/ offset' < starts'[1]
    BY <2>1 DEF FirstPlace, Faithful
  <2>4. RvPc' = RvPc
    BY <2>1, <2>2, <2>3 DEF RvPc
  <2>. QED  BY <2>1, <2>2, <2>4, SameRegisters DEF RvMachine!rvVars
<1>3. CASE pc = "done" /\ Execute /\ UNCHANGED vars
  <2>1. Executing /\ (Preparing \/ \E m \in DOMAIN ir : Computing(ir[m], starts[m]))
    BY <1>3 DEF Executing, Compiled, AllFaithful, Faithful, ValuesInv
  <2>. QED  BY <2>1, ExecutingImplements
<1>. QED  BY <1>1, <1>2, <1>3 DEF ExecutionNext

(* The machine starts at the first instruction, all registers zero.         *)
LEMMA InitImplements == ExecutionInit => RvMachine!Init
<1>1. SUFFICES ASSUME ExecutionInit PROVE RvMachine!Init
  OBVIOUS
<1>2. IsProgram(ir) /\ pc # "done" /\ registers = [r \in Registers |-> 0]
  BY <1>1, ProgramsAssumption DEF ExecutionInit, Init, JvmInit
<1>3. RvPc = RvMachine!InstructionAt(1)
  BY <1>2, FirstInstruction DEF RvPc
<1>4. Low(0) = 0
  <2>1. XRange \in Nat \ {0}
    BY RangesAssumption
  <2>2. PICK half \in Int : half = XRange \div 2
    BY <2>1
  <2>3. half >= 0 /\ half < XRange
    BY <2>1, <2>2
  <2>4. half = XRange * 0 + half /\ 0 + half = half
    BY <2>1
  <2>5. (half % XRange) = half
    BY <2>1, <2>3
  <2>. QED  BY <2>2, <2>4, <2>5 DEF Low, Wrapped
<1>5. RvRegisters = [r \in Registers |-> 0]
  BY <1>2, <1>4 DEF RvRegisters
<1>. QED  BY <1>3, <1>5 DEF RvMachine!Init

(* The JVM that runs the compiled class is the RISC-V machine of module Rv, *)
(* for every program of additions and inequality branches whose method and  *)
(* constants a class file can hold: ImplementsRv.                           *)
THEOREM ImplementsRvCorrect == ExecutionSpec /\ []Faithful => ImplementsRv
<1>1. ExecutionInit => RvMachine!Init
  BY InitImplements
<1>2. TypeOK /\ LayoutInv /\ ShapeInv => FirstPlace
  BY PrologueOpcodes DEF FirstPlace, Compiled
<1>3. ASSUME TypeOK, LayoutInv, ShapeInv, ValuesInv, Faithful, TypeOK', ValuesInv', Faithful',
             FirstPlace', [ExecutionNext]_allVars
      PROVE  [RvMachine!Step \/ ComparesOverflown]_(RvMachine!rvVars)
  BY <1>3, StepImplements
<1>. QED  BY <1>1, <1>2, <1>3, ValuesInvariance, PTL DEF ExecutionSpec, ImplementsRv
=============================================================================
