---------------------------------- MODULE Jvm ---------------------------------
(***************************************************************************)
(* The bytes of a JVM method as codegen.c writes them: the opcodes it uses *)
(* (enum jvm_opcode), the big-endian operands of write_bytes, and what a   *)
(* JVM reads back from them.  A method body is a sequence of bytes; the    *)
(* byte at offset o of the code array is code[o + 1].                      *)
(***************************************************************************)
EXTENDS Integers, Sequences, FiniteSets

JVM_BIPUSH == 16
JVM_LDC_W == 19
JVM_LLOAD_2 == 32
JVM_ALOAD_1 == 43
JVM_LALOAD == 47
JVM_LSTORE_2 == 65
JVM_ASTORE_1 == 76
JVM_LASTORE == 80
JVM_POP2 == 88
JVM_LADD == 97
JVM_I2L == 133
JVM_LCMP == 148
JVM_IFEQ == 153
JVM_IFGT == 157
JVM_RETURN == 177
JVM_GETSTATIC == 178
JVM_INVOKEVIRTUAL == 182
JVM_CHECKCAST == 192
JVM_GOTO_W == 200

Opcodes ==
  {JVM_BIPUSH, JVM_LDC_W, JVM_LLOAD_2, JVM_ALOAD_1, JVM_LALOAD, JVM_LSTORE_2,
   JVM_ASTORE_1, JVM_LASTORE, JVM_POP2, JVM_LADD, JVM_I2L, JVM_LCMP, JVM_IFEQ,
   JVM_IFGT, JVM_RETURN, JVM_GETSTATIC, JVM_INVOKEVIRTUAL, JVM_CHECKCAST,
   JVM_GOTO_W}

Byte == 0 .. 255

(* A definition whose name ends in _mutant, here and in the other modules,  *)
(* is a plausible bug in the definition after it, for the checks to detect. *)
Bytes2_mutant(n) == << n \div 256, n >>
Bytes4_mutant(n) == << n \div 16777216, n \div 65536, n \div 256, n >>

(* write_bytes: two's complement, most significant byte first.              *)
Bytes2(n) == << (n \div 256) % 256, n % 256 >>
Bytes4(n) == << (n \div 16777216) % 256, (n \div 65536) % 256,
                (n \div 256) % 256, n % 256 >>

Overwrite_mutant(code, start, bytes) ==
  [k \in DOMAIN code |->
     IF k - start + 1 \in DOMAIN bytes THEN bytes[k - start + 1] ELSE code[k]]

(* overwrite_bytes: the same bytes over those already at offset start.      *)
Overwrite(code, start, bytes) ==
  [k \in DOMAIN code |->
     IF k - start \in DOMAIN bytes THEN bytes[k - start] ELSE code[k]]

(* What the JVM reads at an offset: an opcode or u1, a u2, an s2, an s4.    *)
At(code, offset) == code[offset + 1]
Signed(byte) == IF byte < 128 THEN byte ELSE byte - 256
U2At(code, offset) == At(code, offset) * 256 + At(code, offset + 1)
S2At(code, offset) == Signed(At(code, offset)) * 256 + At(code, offset + 1)
S4At(code, offset) ==
  ((Signed(At(code, offset)) * 256 + At(code, offset + 1)) * 256
    + At(code, offset + 2)) * 256 + At(code, offset + 3)

(* The length of an instruction, operands included.                         *)
Width(opcode) ==
  CASE opcode = JVM_BIPUSH -> 2
    [] opcode \in {JVM_LDC_W, JVM_IFEQ, JVM_IFGT, JVM_GETSTATIC,
                   JVM_INVOKEVIRTUAL, JVM_CHECKCAST} -> 3
    [] opcode = JVM_GOTO_W -> 5
    [] OTHER -> 1

(* The kinds of the values an instruction takes from the operand stack, the *)
(* top last, and of those it puts there: references, ints and longs.        *)
Operands(opcode) ==
  CASE opcode \in {JVM_ASTORE_1, JVM_INVOKEVIRTUAL, JVM_CHECKCAST} -> << "ref" >>
    [] opcode \in {JVM_IFEQ, JVM_IFGT, JVM_I2L} -> << "int" >>
    [] opcode \in {JVM_LSTORE_2, JVM_POP2} -> << "long" >>
    [] opcode \in {JVM_LADD, JVM_LCMP} -> << "long", "long" >>
    [] opcode = JVM_LALOAD -> << "ref", "int" >>
    [] opcode = JVM_LASTORE -> << "ref", "int", "long" >>
    [] OTHER -> << >>

Results(opcode) ==
  CASE opcode \in {JVM_ALOAD_1, JVM_GETSTATIC, JVM_INVOKEVIRTUAL,
                   JVM_CHECKCAST} -> << "ref" >>
    [] opcode \in {JVM_BIPUSH, JVM_LDC_W, JVM_LCMP} -> << "int" >>
    [] opcode \in {JVM_LALOAD, JVM_LLOAD_2, JVM_LADD, JVM_I2L} -> << "long" >>
    [] OTHER -> << >>

(* The stack slots a sequence of kinds takes: two for a long.               *)
Slots(kinds) == Len(kinds) + Cardinality({n \in DOMAIN kinds : kinds[n] = "long"})

(* Whether the operands of an opcode are the top of a stack of kinds, and   *)
(* what is below them.                                                      *)
Below(kinds, opcode) == SubSeq(kinds, 1, Len(kinds) - Len(Operands(opcode)))
OperandsOnTop(kinds, opcode) ==
  /\ Len(kinds) >= Len(Operands(opcode))
  /\ kinds = Below(kinds, opcode) \o Operands(opcode)

=============================================================================
