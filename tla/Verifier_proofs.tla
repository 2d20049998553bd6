--------------------------- MODULE Verifier_proofs ---------------------------
(***************************************************************************)
(* Proofs about CodeAttribute and the JVM that reads what it wrote: the    *)
(* lengths in the attribute are those of its parts, the code in it is the  *)
(* finished code, and the JVM accepts exactly the loadable programs.  The  *)
(* steps of the three parts of the attribute, head, code and table, are    *)
(* those of MainMethod and StackMapTable; their proofs are used for the    *)
(* states those modules see.                                               *)
(***************************************************************************)
EXTENDS Verifier, MainMethod_proofs

TableProofs == INSTANCE StackMapTable_proofs
                 WITH frames <- stack_map_frames, TargetLists <- {}, ResSizes <- {}

-----------------------------------------------------------------------------
(* The Code attribute.  The steps and types of its table are those the      *)
(* theorems about StackMapTable are about.                                  *)

(* add_stack_table_attribute's actions are the same under both names.       *)
LEMMA SameActions == Table!Next => TableProofs!Next
<1>. USE DEF Table!Truncated, TableProofs!Truncated, Table!Bytes2, TableProofs!Bytes2,
             Table!Bytes4, TableProofs!Bytes4, Table!Overwrite, TableProofs!Overwrite
<1>1. Table!BeginTable => TableProofs!BeginTable
  BY DEF Table!BeginTable, TableProofs!BeginTable,
         Table!STACK_MAP_TABLE, TableProofs!STACK_MAP_TABLE
<1>2. Table!CompareNeighbours => TableProofs!CompareNeighbours
  BY DEF Table!CompareNeighbours, TableProofs!CompareNeighbours, Table!OutOfOrder,
         TableProofs!OutOfOrder, Table!Exchanged, TableProofs!Exchanged
<1>3. Table!EndRound => TableProofs!EndRound
  BY DEF Table!EndRound, TableProofs!EndRound
<1>4. Table!WriteEntry => TableProofs!WriteEntry
  <2>1. Table!OffsetDelta = TableProofs!OffsetDelta
    BY DEF Table!OffsetDelta, TableProofs!OffsetDelta
  <2>2. Table!EntryLength = TableProofs!EntryLength
    BY DEF Table!EntryLength, TableProofs!EntryLength
  <2>3. \A delta : Table!Entry(delta) = TableProofs!Entry(delta)
    BY DEF Table!Entry, TableProofs!Entry, Table!FirstEntry, TableProofs!FirstEntry,
           Table!LaterEntry, TableProofs!LaterEntry,
           Table!APPEND_2_LOCALS, TableProofs!APPEND_2_LOCALS,
           Table!JVM_ITEM_OBJECT, TableProofs!JVM_ITEM_OBJECT,
           Table!JVM_ITEM_LONG, TableProofs!JVM_ITEM_LONG,
           Table!LONG_ARRAY_CLASS_INDEX, TableProofs!LONG_ARRAY_CLASS_INDEX,
           Table!JVM_SAME_FRAME_EXTENDED, TableProofs!JVM_SAME_FRAME_EXTENDED
  <2>. QED
    BY <2>1, <2>2, <2>3, Zenon DEF Table!WriteEntry, TableProofs!WriteEntry
<1>5. Table!EndTable => TableProofs!EndTable
  BY DEF Table!EndTable, TableProofs!EndTable
<1>. QED
  BY <1>1, <1>2, <1>3, <1>4, <1>5, Zenon DEF Table!Next, TableProofs!Next

(* And so is what is read back from it.                                     *)
LEMMA SameFrames == Table!FrameOffsets = TableProofs!FrameOffsets
<1>. USE DEF Table!U2At, TableProofs!U2At, Table!At, TableProofs!At
<1>1. Table!NumberOfEntries = TableProofs!NumberOfEntries
  BY DEF Table!NumberOfEntries, TableProofs!NumberOfEntries
<1>2. \A n : Table!EntryDelta(n) = TableProofs!EntryDelta(n)
  BY DEF Table!EntryDelta, TableProofs!EntryDelta, Table!EntryStart, TableProofs!EntryStart
<1>. QED  BY <1>1, <1>2 DEF Table!FrameOffsets, TableProofs!FrameOffsets

(* The types of the attribute's variables.                                  *)
AttributeType ==
  /\ step \in {"begin", "sort", "entries", "written", "complete"}
  /\ res \in Seq(Byte)
  /\ k \in Nat \ {0}
  /\ swapped \in BOOLEAN
  /\ previous_offset_deltas \in 0 .. U16Range - 1
  /\ attribute_length \in Nat
  /\ attribute_length_idx \in 0 .. U16Range - 1
  /\ start \in Nat
  /\ targets \in Seq(0 .. U16Range - 1)

(* They are the table's until the attribute is complete.                    *)
LEMMA TableTypes ==
  /\ TypeOK /\ AttributeType /\ step # "complete" => TableProofs!TypeOK
  /\ TableProofs!TypeOK => AttributeType
BY DEF TypeOK, AttributeType, TableProofs!TypeOK, Byte, TableProofs!Byte

(* The step of WriteTable is one of the table that has not been completed.  *)
LEMMA TableSteps ==
  ASSUME WriteTable
  PROVE  /\ TableProofs!Next /\ [TableProofs!Next]_(TableProofs!tableVars)
         /\ step # "complete" /\ step' # "complete"
         /\ res # << >>
         /\ UNCHANGED << ir, pc, i, j, integers, code, code_label_offsets,
                         label_references, starts >>
<1>1. TableProofs!Next
  BY SameActions DEF WriteTable
<1>2. step # "complete" /\ step' # "complete"
  BY <1>1 DEF TableProofs!Next, TableProofs!BeginTable, TableProofs!CompareNeighbours,
              TableProofs!EndRound, TableProofs!WriteEntry, TableProofs!EndTable
<1>. QED  BY <1>1, <1>2 DEF WriteTable

(* The types hold at the start.                                             *)
LEMMA AttributeTypeInit == AttributeInit => AttributeType
<1>1. 0 \in 0 .. U16Range - 1 /\ << >> \in Seq(0 .. U16Range - 1) /\ << >> \in Seq(Byte)
  BY U16RangeAssumption
<1>. SUFFICES ASSUME AttributeInit PROVE AttributeType
  OBVIOUS
<1>2. /\ step = "begin" /\ k = 1 /\ swapped = FALSE /\ previous_offset_deltas = 0
      /\ attribute_length = 2 /\ attribute_length_idx = 0 /\ start = 0
      /\ targets = << >> /\ res = << >>
  BY DEF AttributeInit, Table!TableInit
<1>3. swapped \in BOOLEAN
  BY <1>2
<1>. QED  BY <1>1, <1>2, <1>3 DEF AttributeType

(* What add_code_attribute writes before it knows its length.               *)
AttributeHead ==
  Bytes2(CODE) \o Bytes4(0) \o Bytes2(MaxStack) \o Bytes2(MaxLocals)
  \o Bytes4(Len(code)) \o code \o Bytes2(0) \o Bytes2(AttributesCount)

HeadLength == 18 + Len(code)

(* The parts of it that the JVM looks at.                                   *)
HeadWritten ==
  /\ BytesAt(res, 6, Bytes2(MaxStack))
  /\ BytesAt(res, 10, Bytes4(Len(code)))
  /\ BytesAt(res, 14, code)
  /\ BytesAt(res, 16 + Len(code), Bytes2(AttributesCount))

(* One part after the others.                                               *)
LEMMA PartAfter ==
  ASSUME NEW s \in Seq(Byte), NEW t \in Seq(Byte)
  PROVE  /\ s \o t \in Seq(Byte) /\ Len(s \o t) = Len(s) + Len(t)
         /\ BytesAt(s \o t, Len(s), t)
         /\ \A place \in Nat, bytes \in Seq(Byte) :
              BytesAt(s, place, bytes) => BytesAt(s \o t, place, bytes)
<1>1. s \o t \in Seq(Byte)
  BY ConcatType
<1>2. Len(s \o t) = Len(s) + Len(t)
  BY ConcatBytes
<1>. QED  BY <1>1, <1>2, BytesAtConcat

(* The head has them where the JVM looks for them.                          *)
LEMMA HeadFacts ==
  ASSUME TypeOK
  PROVE  /\ AttributeHead \in Seq(Byte) /\ Len(AttributeHead) = HeadLength
         /\ BytesAt(AttributeHead, 6, Bytes2(MaxStack))
         /\ BytesAt(AttributeHead, 10, Bytes4(Len(code)))
         /\ BytesAt(AttributeHead, 14, code)
         /\ BytesAt(AttributeHead, 16 + Len(code), Bytes2(AttributesCount))
<1>1. code \in Seq(Byte) /\ Len(code) \in Nat
  BY DEF TypeOK
<1>2. \A n \in Int : Len(Bytes2(n)) = 2 /\ Len(Bytes4(n)) = 4
  BY DEF Bytes2, Bytes4
<1>3. AttributesCount \in Int /\ CODE \in Int /\ MaxStack \in Int /\ MaxLocals \in Int
  BY DEF AttributesCount, CODE, MaxStack, MaxLocals
<1>4. PICK a : a = Bytes2(CODE)
  OBVIOUS
<1>5. PICK b : b = Bytes4(0)
  OBVIOUS
<1>6. PICK c : c = Bytes2(MaxStack)
  OBVIOUS
<1>7. PICK d : d = Bytes2(MaxLocals)
  OBVIOUS
<1>8. PICK e : e = Bytes4(Len(code))
  OBVIOUS
<1>9. PICK f : f = Bytes2(0)
  OBVIOUS
<1>10. PICK g : g = Bytes2(AttributesCount)
  OBVIOUS
<1>11. /\ a \in Seq(Byte) /\ b \in Seq(Byte) /\ c \in Seq(Byte) /\ d \in Seq(Byte)
       /\ e \in Seq(Byte) /\ f \in Seq(Byte) /\ g \in Seq(Byte)
       /\ Len(a) = 2 /\ Len(b) = 4 /\ Len(c) = 2 /\ Len(d) = 2 /\ Len(e) = 4
       /\ Len(f) = 2 /\ Len(g) = 2
  BY <1>1, <1>2, <1>3, <1>4, <1>5, <1>6, <1>7, <1>8, <1>9, <1>10, BytesAreBytes
<1>12. PICK ab : ab = a \o b
  OBVIOUS
<1>13. ab \in Seq(Byte) /\ Len(ab) = 6
  <2>1. ab \in Seq(Byte) /\ Len(ab) = Len(a) + Len(b)
    BY <1>11, <1>12, PartAfter
  <2>. QED  BY <1>11, <2>1
<1>14. PICK abc : abc = ab \o c
  OBVIOUS
<1>15. abc \in Seq(Byte) /\ Len(abc) = 8 /\ BytesAt(abc, 6, c)
  <2>1. abc \in Seq(Byte) /\ Len(abc) = Len(ab) + Len(c) /\ BytesAt(abc, Len(ab), c)
    BY <1>11, <1>13, <1>14, PartAfter
  <2>. QED  BY <1>11, <1>13, <2>1
<1>16. PICK abcd : abcd = abc \o d
  OBVIOUS
<1>17. abcd \in Seq(Byte) /\ Len(abcd) = 10 /\ BytesAt(abcd, 6, c)
  <2>1. abcd \in Seq(Byte) /\ Len(abcd) = Len(abc) + Len(d)
    BY <1>11, <1>15, <1>16, PartAfter
  <2>2. BytesAt(abcd, 6, c)
    BY <1>11, <1>15, <1>16, PartAfter
  <2>. QED  BY <1>11, <1>15, <2>1, <2>2
<1>18. PICK abcde : abcde = abcd \o e
  OBVIOUS
<1>19. /\ abcde \in Seq(Byte) /\ Len(abcde) = 14
       /\ BytesAt(abcde, 6, c) /\ BytesAt(abcde, 10, e)
  <2>1. abcde \in Seq(Byte) /\ Len(abcde) = Len(abcd) + Len(e) /\ BytesAt(abcde, Len(abcd), e)
    BY <1>11, <1>17, <1>18, PartAfter
  <2>2. BytesAt(abcde, 6, c)
    BY <1>11, <1>17, <1>18, PartAfter
  <2>. QED  BY <1>11, <1>17, <2>1, <2>2
<1>20. PICK body : body = abcde \o code
  OBVIOUS
<1>21. /\ body \in Seq(Byte) /\ Len(body) = 14 + Len(code)
       /\ BytesAt(body, 6, c) /\ BytesAt(body, 10, e) /\ BytesAt(body, 14, code)
  <2>1. body \in Seq(Byte) /\ Len(body) = Len(abcde) + Len(code) /\ BytesAt(body, Len(abcde), code)
    BY <1>1, <1>11, <1>19, <1>20, PartAfter
  <2>2. BytesAt(body, 6, c) /\ BytesAt(body, 10, e)
    BY <1>1, <1>11, <1>19, <1>20, PartAfter
  <2>. QED  BY <1>1, <1>11, <1>19, <2>1, <2>2
<1>22. PICK rest : rest = body \o f
  OBVIOUS
<1>23. /\ rest \in Seq(Byte) /\ Len(rest) = 16 + Len(code)
       /\ BytesAt(rest, 6, c) /\ BytesAt(rest, 10, e) /\ BytesAt(rest, 14, code)
  <2>1. Len(rest) = Len(body) + Len(f) /\ rest \in Seq(Byte)
    BY <1>11, <1>21, <1>22, PartAfter
  <2>2. BytesAt(rest, 6, c) /\ BytesAt(rest, 10, e) /\ BytesAt(rest, 14, code)
    BY <1>1, <1>11, <1>21, <1>22, PartAfter
  <2>. QED  BY <1>1, <1>11, <1>21, <2>1, <2>2
<1>24. /\ rest \o g \in Seq(Byte) /\ Len(rest \o g) = 18 + Len(code)
       /\ BytesAt(rest \o g, 6, c) /\ BytesAt(rest \o g, 10, e) /\ BytesAt(rest \o g, 14, code)
       /\ BytesAt(rest \o g, 16 + Len(code), g)
  <2>1. Len(rest \o g) = Len(rest) + Len(g) /\ rest \o g \in Seq(Byte)
        /\ BytesAt(rest \o g, Len(rest), g)
    BY <1>11, <1>23, PartAfter
  <2>2. BytesAt(rest \o g, 6, c) /\ BytesAt(rest \o g, 10, e) /\ BytesAt(rest \o g, 14, code)
    BY <1>1, <1>11, <1>23, PartAfter
  <2>. QED  BY <1>1, <1>11, <1>23, <2>1, <2>2
<1>25. AttributeHead = rest \o g
  BY <1>4, <1>5, <1>6, <1>7, <1>8, <1>9, <1>10, <1>12, <1>14, <1>16, <1>18, <1>20, <1>22
  DEF AttributeHead
<1>. QED  BY <1>6, <1>8, <1>10, <1>24, <1>25 DEF HeadLength

(* The offsets in the attribute are exact: that of the placeholder in the   *)
(* table too, which starts after the head.                                  *)
Exact ==
  /\ CodeFits
  /\ stack_map_frames # << >> =>
       HeadLength + 2 < U16Range /\ Len(stack_map_frames) < 65536

(* The attribute is empty until the method is done, then there is its head, *)
(* then for a method with frames the table after it, and at last its        *)
(* length.                                                                  *)
AttributeInv ==
  /\ res = << >> =>
       /\ step = "begin" /\ k = 1 /\ swapped = FALSE
       /\ previous_offset_deltas = 0 /\ attribute_length = 2
  /\ res # << >> => pc = "done" /\ HeadLength <= Len(res)
  /\ res # << >> /\ stack_map_frames = << >> =>
       step \in {"written", "complete"} /\ Len(res) = HeadLength
  /\ res # << >> /\ stack_map_frames # << >> =>
       /\ step = "begin" => Len(res) = HeadLength
       /\ step # "begin" => start = HeadLength
       /\ step # "complete" => TableProofs!SortInv /\ TableProofs!EntryInv
  /\ res # << >> /\ Exact => HeadWritten
  /\ step = "complete" /\ Exact =>
       /\ S4At(res, 2) = Len(res) - 6
       /\ stack_map_frames # << >> =>
            /\ TableProofs!TableWritten(Len(stack_map_frames))
            /\ TableProofs!Sorted(Len(stack_map_frames))

(* It is empty at the start.                                                *)
LEMMA AttributeStarts == AttributeInit => AttributeInv
BY DEF AttributeInit, Table!TableInit, AttributeInv

(* The code generator's steps come before the attribute's.                  *)
LEMMA CompilerSteps ==
  ASSUME AttributeInv, Next, UNCHANGED attributeVars
  PROVE  AttributeInv'
<1>1. pc # "done"
  BY DEF Next, LoadConstant, BeginMain, FirstPass, WriteLabel, WriteR3, WriteAddi, WriteJump,
         WriteJumpUndefined, WriteNothing, EndFirstPass, UpdateLabelReference,
         LabelOffsetMissing, NextElement, EndMain
<1>2. res = << >> /\ step = "begin"
  BY <1>1 DEF AttributeInv
<1>. QED  BY <1>2 DEF AttributeInv, attributeVars

(* add_code_attribute up to the table.                                      *)
LEMMA BeginCodeStep ==
  ASSUME TypeOK, AttributeType, AttributeInv, BeginCode
  PROVE  AttributeType' /\ AttributeInv'
<1>1. /\ pc = "done" /\ step = "begin" /\ res = << >> /\ res' = AttributeHead
      /\ step' = IF stack_map_frames = << >> THEN "written" ELSE "begin"
      /\ UNCHANGED << vars, k, swapped, previous_offset_deltas, attribute_length,
                      attribute_length_idx, start, targets >>
  BY DEF BeginCode, AttributeHead
<1>2. /\ AttributeHead \in Seq(Byte) /\ Len(AttributeHead) = HeadLength
      /\ BytesAt(AttributeHead, 6, Bytes2(MaxStack))
      /\ BytesAt(AttributeHead, 10, Bytes4(Len(code)))
      /\ BytesAt(AttributeHead, 14, code)
      /\ BytesAt(AttributeHead, 16 + Len(code), Bytes2(AttributesCount))
  BY HeadFacts
<1>3. AttributeType'
  BY <1>1, <1>2 DEF AttributeType
<1>4. UNCHANGED << pc, code, stack_map_frames >>
  BY <1>1 DEF vars
<1>5. HeadWritten' /\ HeadLength' = HeadLength /\ Len(res') = HeadLength
  BY <1>1, <1>2, <1>4 DEF HeadWritten, AttributesCount, HeadLength
<1>6. k = 1 /\ swapped = FALSE /\ previous_offset_deltas = 0 /\ attribute_length = 2
  BY <1>1 DEF AttributeInv
<1>7. stack_map_frames # << >> => TableProofs!SortInv' /\ TableProofs!EntryInv'
  BY <1>1, <1>4, <1>6 DEF TableProofs!SortInv, TableProofs!EntryInv
<1>8. HeadLength <= HeadLength
  <2>1. HeadLength \in Nat
    BY DEF HeadLength, TypeOK
  <2>. QED  BY <2>1
<1>9. res' # << >>
  <2>1. Len(res') # 0
    BY <1>5 DEF HeadLength, TypeOK
  <2>. QED  BY <2>1
<1>. QED
  BY <1>1, <1>3, <1>4, <1>5, <1>7, <1>8, <1>9 DEF AttributeInv

(* A place whose bytes are not written keeps them.                          *)
LEMMA BytesAtKept ==
  ASSUME NEW s \in Seq(Byte), NEW t \in Seq(Byte), NEW place \in Nat, NEW bytes \in Seq(Byte),
         BytesAt(s, place, bytes), Len(t) >= Len(s),
         \A n \in place + 1 .. place + Len(bytes) : t[n] = s[n]
  PROVE  BytesAt(t, place, bytes)
<1>1. Len(bytes) \in Nat /\ Len(s) \in Nat /\ Len(t) \in Nat /\ place + Len(bytes) <= Len(s)
  BY DEF BytesAt
<1>2. ASSUME NEW n \in 1 .. Len(bytes) PROVE t[place + n] = bytes[n]
  <2>1. place + n \in place + 1 .. place + Len(bytes)
    BY <1>1
  <2>. QED  BY <2>1 DEF BytesAt
<1>. QED  BY <1>1, <1>2 DEF BytesAt

(* The head stays when what is written is after it, or its length.          *)
LEMMA HeadKept ==
  ASSUME TypeOK, HeadWritten, res \in Seq(Byte), res' \in Seq(Byte), code' = code,
         AttributesCount' = AttributesCount, Len(res') >= Len(res),
         \A n \in 7 .. HeadLength : n <= Len(res) => res'[n] = res[n]
  PROVE  HeadWritten'
<1>1. code \in Seq(Byte) /\ Len(code) \in Nat /\ Len(res) \in Nat
  BY DEF TypeOK
<1>2. \A n \in Int : Len(Bytes2(n)) = 2 /\ Len(Bytes4(n)) = 4
  BY DEF Bytes2, Bytes4
<1>3. AttributesCount \in Int /\ MaxStack \in Int
  BY DEF AttributesCount, MaxStack
<1>4. ASSUME NEW place \in Nat, NEW bytes \in Seq(Byte), BytesAt(res, place, bytes),
             6 <= place, place + Len(bytes) <= HeadLength
      PROVE  BytesAt(res', place, bytes)
  <2>1. Len(bytes) \in Nat /\ place + Len(bytes) <= Len(res)
    BY <1>4 DEF BytesAt
  <2>2. ASSUME NEW n \in place + 1 .. place + Len(bytes) PROVE res'[n] = res[n]
    <3>1. n \in 7 .. HeadLength /\ n <= Len(res)
      BY <1>1, <1>4, <2>1 DEF HeadLength
    <3>. QED  BY <3>1
  <2>. QED  BY <1>4, <2>2, BytesAtKept
<1>5. BytesAt(res', 6, Bytes2(MaxStack))
  <2>1. Bytes2(MaxStack) \in Seq(Byte) /\ Len(Bytes2(MaxStack)) = 2 /\ 6 + 2 <= HeadLength
    BY <1>1, <1>2, <1>3, BytesAreBytes DEF HeadLength
  <2>2. 6 + Len(Bytes2(MaxStack)) <= HeadLength
    BY <2>1
  <2>3. BytesAt(res, 6, Bytes2(MaxStack))
    BY DEF HeadWritten
  <2>. QED  BY <1>4, <2>1, <2>2, <2>3, 6 \in Nat, 6 <= 6, Zenon
<1>6. BytesAt(res', 10, Bytes4(Len(code)))
  <2>1. Bytes4(Len(code)) \in Seq(Byte) /\ Len(Bytes4(Len(code))) = 4 /\ 10 + 4 <= HeadLength
    BY <1>1, <1>2, BytesAreBytes DEF HeadLength
  <2>2. 10 + Len(Bytes4(Len(code))) <= HeadLength
    BY <2>1
  <2>3. BytesAt(res, 10, Bytes4(Len(code)))
    BY DEF HeadWritten
  <2>. QED  BY <1>4, <2>1, <2>2, <2>3, 10 \in Nat, 6 <= 10, Zenon
<1>7. BytesAt(res', 14, code)
  <2>1. 14 + Len(code) <= HeadLength
    BY <1>1 DEF HeadLength
  <2>. QED  BY <1>1, <1>4, <2>1 DEF HeadWritten
<1>8. BytesAt(res', 16 + Len(code), Bytes2(AttributesCount))
  <2>1. /\ Bytes2(AttributesCount) \in Seq(Byte) /\ 16 + Len(code) \in Nat
        /\ 6 <= 16 + Len(code) /\ Len(Bytes2(AttributesCount)) = 2
        /\ 16 + Len(code) + 2 <= HeadLength
    BY <1>1, <1>2, <1>3, BytesAreBytes DEF HeadLength
  <2>2. BytesAt(res, 16 + Len(code), Bytes2(AttributesCount))
    BY DEF HeadWritten
  <2>. QED  BY <1>4, <2>1, <2>2
<1>. QED  BY <1>5, <1>6, <1>7, <1>8 DEF HeadWritten

(* A step of the table: the frames stay the same in another order.          *)
LEMMA FramesOfTable ==
  ASSUME TypeOK, AttributeType, AttributeInv, WriteTable
  PROVE  /\ TableProofs!TypeOK /\ TableProofs!SortInv /\ TableProofs!EntryInv
         /\ stack_map_frames # << >> /\ stack_map_frames' # << >>
         /\ stack_map_frames' \in Seq(0 .. U16Range - 1)
         /\ Len(stack_map_frames') = Len(stack_map_frames)
         /\ Range(stack_map_frames') = Range(stack_map_frames)
         /\ IsInjective(stack_map_frames') <=> IsInjective(stack_map_frames)
<1>1. TableProofs!Next /\ [TableProofs!Next]_(TableProofs!tableVars) /\ step # "complete"
      /\ res # << >>
  BY TableSteps
<1>2. TableProofs!TypeOK
  BY <1>1, TableTypes
<1>3. stack_map_frames # << >>
  <2>1. step # "written"
    BY <1>1 DEF TableProofs!Next, TableProofs!BeginTable, TableProofs!CompareNeighbours,
                TableProofs!EndRound, TableProofs!WriteEntry, TableProofs!EndTable
  <2>. QED  BY <1>1, <2>1 DEF AttributeInv
<1>4. TableProofs!SortInv /\ TableProofs!EntryInv
  BY <1>1, <1>3 DEF AttributeInv
<1>5. /\ stack_map_frames' \in Seq(0 .. U16Range - 1)
      /\ Len(stack_map_frames') = Len(stack_map_frames)
      /\ Range(stack_map_frames') = Range(stack_map_frames)
      /\ IsInjective(stack_map_frames') <=> IsInjective(stack_map_frames)
  <2>1. \A f : TableProofs!Range(f) = Range(f) /\ (TableProofs!IsInjective(f) <=> IsInjective(f))
    BY DEF Range, IsInjective, TableProofs!Range, TableProofs!IsInjective
  <2>2. /\ stack_map_frames' \in Seq(0 .. U16Range - 1)
        /\ Len(stack_map_frames') = Len(stack_map_frames)
        /\ TableProofs!Range(stack_map_frames') = TableProofs!Range(stack_map_frames)
        /\ TableProofs!IsInjective(stack_map_frames')
             <=> TableProofs!IsInjective(stack_map_frames)
    BY <1>1, <1>2, <1>4, U16RangeAssumption, TableProofs!FramesKept
  <2>. QED  BY <2>1, <2>2
<1>6. stack_map_frames' # << >>
  BY <1>3, <1>5 DEF TypeOK
<1>. QED  BY <1>2, <1>3, <1>4, <1>5, <1>6

(* Where it starts, and that nothing before it is written.                  *)
LEMMA WriteTableStep ==
  ASSUME TypeOK, AttributeType, AttributeInv, WriteTable
  PROVE  TypeOK' /\ AttributeType' /\ AttributeInv'
<1>1. /\ TableProofs!Next /\ [TableProofs!Next]_(TableProofs!tableVars)
      /\ step # "complete" /\ step' # "complete"
      /\ res # << >>
      /\ UNCHANGED << ir, pc, i, j, integers, code, code_label_offsets,
                      label_references, starts >>
  BY TableSteps
<1>2. /\ TableProofs!TypeOK /\ TableProofs!SortInv /\ TableProofs!EntryInv
      /\ stack_map_frames # << >> /\ stack_map_frames' # << >>
      /\ stack_map_frames' \in Seq(0 .. U16Range - 1)
      /\ Len(stack_map_frames') = Len(stack_map_frames)
  BY FramesOfTable
<1>3. TableProofs!TypeOK'
  BY <1>1, <1>2, U16RangeAssumption, TableProofs!TypeStep
<1>4. TableProofs!SortInv' /\ TableProofs!EntryInv'
  <2>1. TableProofs!SortInv'
    BY <1>1, <1>2, U16RangeAssumption, TableProofs!SortStep
  <2>2. TableProofs!EntryInv'
    BY <1>1, <1>2, U16RangeAssumption, TableProofs!EntryStep
  <2>. QED  BY <2>1, <2>2
<1>5. TypeOK'
  BY <1>1, <1>2 DEF TypeOK
<1>6. AttributeType'
  BY <1>3, TableTypes, PTL
<1>7. res \in Seq(Byte) /\ res' \in Seq(Byte) /\ Len(code) \in Nat
      /\ HeadLength \in Nat /\ HeadLength' = HeadLength
  BY <1>1, <1>6, SMTT(30) DEF AttributeType, TypeOK, HeadLength
<1>8. /\ Len(res') >= Len(res)
      /\ TableProofs!IndexFits' => \A n \in DOMAIN res :
           res'[n] # res[n] => step = "entries" /\ n - 1 \in start + 2 .. start + 5
  BY <1>1, <1>2, U16RangeAssumption, TableProofs!BytesKept
<1>9. HeadLength <= Len(res)
  BY <1>1 DEF AttributeInv
<1>10. step' # "begin" /\ start' = HeadLength
  <2>1. CASE TableProofs!BeginTable
    <3>1. step = "begin" /\ step' = "sort" /\ start' = Len(res)
      BY <2>1 DEF TableProofs!BeginTable
    <3>. QED  BY <1>1, <1>2, <3>1 DEF AttributeInv
  <2>2. CASE ~TableProofs!BeginTable
    <3>1. step # "begin" /\ step' # "begin" /\ start' = start
      BY <1>1, <2>2
      DEF TableProofs!Next, TableProofs!CompareNeighbours, TableProofs!EndRound,
          TableProofs!WriteEntry, TableProofs!EndTable
    <3>. QED  BY <1>1, <1>2, <3>1 DEF AttributeInv
  <2>. QED  BY <2>1, <2>2
<1>11. HeadLength <= Len(res') /\ res' # << >>
  <2>1. HeadLength <= Len(res')
    BY <1>7, <1>8, <1>9
  <2>2. Len(res') # 0
    BY <1>7, <2>1 DEF HeadLength
  <2>. QED  BY <2>1, <2>2
<1>12. ASSUME Exact' PROVE HeadWritten'
  <2>1. Exact
    BY <1>1, <1>2, <1>7, <1>12 DEF Exact, CodeFits
  <2>2. HeadWritten
    BY <1>1, <2>1 DEF AttributeInv
  <2>3. TableProofs!IndexFits'
    BY <1>2, <1>7, <1>10, <1>12 DEF Exact, TableProofs!IndexFits
  <2>4. ASSUME NEW n \in 7 .. HeadLength, n <= Len(res) PROVE res'[n] = res[n]
    <3>1. n \in DOMAIN res
      BY <1>7, <2>4
    <3>2. ASSUME step = "entries" PROVE ~(n - 1 \in start + 2 .. start + 5)
      <4>1. start = HeadLength
        BY <1>1, <1>2, <3>2 DEF AttributeInv
      <4>. QED  BY <1>7, <4>1
    <3>. QED  BY <1>8, <2>3, <3>1, <3>2
  <2>5. AttributesCount' = AttributesCount
    BY <1>2 DEF AttributesCount
  <2>6. code' = code
    BY <1>1
  <2>. QED  BY <1>7, <1>8, <2>2, <2>4, <2>5, <2>6, HeadKept
<1>13. AttributeInv'
  <2>1. pc' = "done" /\ HeadLength' <= Len(res')
    BY <1>1, <1>7, <1>11 DEF AttributeInv
  <2>2. start' = HeadLength'
    BY <1>7, <1>10
  <2>. QED  BY <1>1, <1>2, <1>4, <1>10, <1>11, <1>12, <2>1, <2>2 DEF AttributeInv
<1>. QED  BY <1>5, <1>6, <1>13

(* The length of the attribute, as EndCode computes it.                     *)
LEMMA CodeLengthFacts ==
  ASSUME TypeOK, AttributeType, AttributeInv, step = "written"
  PROVE  /\ res # << >> /\ HeadLength <= Len(res) /\ CodeLength \in Int
         /\ Exact => /\ CodeLength = Len(res) - 6 /\ CodeLength < 2147483648
                     /\ HeadWritten
                     /\ stack_map_frames # << >> =>
                          /\ start = HeadLength
                          /\ TableProofs!TableWritten(Len(stack_map_frames))
                          /\ TableProofs!Sorted(Len(stack_map_frames))
<1>1. /\ Len(code) \in Nat /\ attribute_length \in Nat /\ Len(stack_map_frames) \in Nat
      /\ Len(res) \in Nat /\ U16Range \in Nat /\ U16Range <= 65536
  BY U16RangeAssumption DEF TypeOK, AttributeType
<1>2. res # << >> /\ HeadLength <= Len(res)
  BY DEF AttributeInv
<1>3. CodeLength \in Int
  BY <1>1 DEF CodeLength
<1>4. ASSUME Exact
      PROVE  /\ CodeLength = Len(res) - 6 /\ CodeLength < 2147483648 /\ HeadWritten
             /\ stack_map_frames # << >> =>
                  /\ start = HeadLength
                  /\ TableProofs!TableWritten(Len(stack_map_frames))
                  /\ TableProofs!Sorted(Len(stack_map_frames))
  <2>1. HeadWritten /\ Len(code) < U16Range
    BY <1>2, <1>4 DEF AttributeInv, Exact, CodeFits
  <2>2. CASE stack_map_frames = << >>
    <3>1. Len(res) = HeadLength /\ CodeLength = Len(code) + 12
      BY <1>1, <1>2, <2>2 DEF AttributeInv, CodeLength
    <3>. QED  BY <1>1, <2>1, <2>2, <3>1 DEF HeadLength
  <2>3. CASE stack_map_frames # << >>
    <3>1. start = HeadLength /\ TableProofs!SortInv /\ TableProofs!EntryInv
      BY <1>2, <2>3 DEF AttributeInv
    <3>2. TableProofs!IndexFits /\ Len(stack_map_frames) < 65536
      BY <1>4, <2>3, <3>1 DEF Exact, TableProofs!IndexFits
    <3>3. TableProofs!TableWritten(Len(stack_map_frames))
      BY <3>1, <3>2 DEF TableProofs!EntryInv
    <3>4. TableProofs!Sorted(Len(stack_map_frames))
      BY <3>1 DEF TableProofs!SortInv
    <3>5. /\ Len(res) = TableProofs!EntryStart(Len(stack_map_frames) + 1)
          /\ attribute_length = Len(res) - start - 6
      BY <3>3 DEF TableProofs!TableWritten
    <3>6. CodeLength = Len(code) + 12 + (attribute_length + 6)
      BY <2>3 DEF CodeLength
    <3>7. CodeLength = Len(res) - 6
      BY <1>1, <3>1, <3>5, <3>6, SMTT(30) DEF HeadLength
    <3>8. Len(res) <= start + 15 + 3 * 65536
      BY <1>1, <3>1, <3>2, <3>5 DEF HeadLength, TableProofs!EntryStart
    <3>9. CodeLength < 2147483648
      BY <1>1, <2>1, <3>1, <3>7, <3>8 DEF HeadLength
    <3>. QED  BY <2>1, <3>1, <3>3, <3>4, <3>7, <3>9
  <2>. QED  BY <2>2, <2>3
<1>. QED  BY <1>2, <1>3, <1>4

(* Filling in the length touches nothing after it.                          *)
LEMMA EndCodeStep ==
  ASSUME TypeOK, AttributeType, AttributeInv, EndCode
  PROVE  AttributeType' /\ AttributeInv'
<1>1. /\ step = "written" /\ step' = "complete"
      /\ res' = Overwrite(res, 2, Bytes4(CodeLength))
      /\ UNCHANGED << vars, k, swapped, previous_offset_deltas, attribute_length,
                      attribute_length_idx, start, targets >>
  BY DEF EndCode
<1>2. UNCHANGED << pc, code, stack_map_frames >>
  BY <1>1 DEF vars
<1>3. /\ res # << >> /\ HeadLength <= Len(res) /\ CodeLength \in Int
      /\ Exact => /\ CodeLength = Len(res) - 6 /\ CodeLength < 2147483648
                  /\ HeadWritten
                  /\ stack_map_frames # << >> =>
                       /\ start = HeadLength
                       /\ TableProofs!TableWritten(Len(stack_map_frames))
                       /\ TableProofs!Sorted(Len(stack_map_frames))
  BY <1>1, CodeLengthFacts
<1>4. /\ res \in Seq(Byte) /\ Len(code) \in Nat /\ Len(res) \in Nat /\ start \in Nat
      /\ Len(stack_map_frames) \in Nat
  BY DEF TypeOK, AttributeType
<1>5. 2 + 4 <= Len(res) /\ HeadLength \in Nat /\ 18 <= HeadLength
  BY <1>3, <1>4 DEF HeadLength
<1>6. res' \in Seq(Byte) /\ Len(res') = Len(res) /\ BytesAt(res', 2, Bytes4(CodeLength))
  BY <1>1, <1>3, <1>4, <1>5, BytesAtOverwrite
<1>7. \A n \in 1 .. Len(res) : n \notin 2 + 1 .. 2 + 4 => res'[n] = res[n]
  BY <1>1, <1>3, <1>4, <1>5, OverwriteBytes
<1>8. AttributeType'
  BY <1>1, <1>6 DEF AttributeType
<1>9. HeadLength' = HeadLength /\ (Exact' => Exact) /\ pc' = "done"
  BY <1>2, <1>3 DEF HeadLength, Exact, CodeFits, AttributeInv
<1>10. ASSUME Exact PROVE HeadWritten' /\ S4At(res', 2) = Len(res') - 6
  <2>1. HeadWritten'
    <3>1. \A n \in 7 .. HeadLength : n <= Len(res) => res'[n] = res[n]
      BY <1>4, <1>5, <1>7
    <3>2. AttributesCount' = AttributesCount /\ code' = code /\ Len(res') >= Len(res)
      BY <1>2, <1>4, <1>6 DEF AttributesCount
    <3>. QED  BY <1>3, <1>4, <1>6, <1>10, <3>1, <3>2, HeadKept
  <2>2. -2147483648 <= CodeLength /\ CodeLength < 2147483648
    BY <1>3, <1>4, <1>5, <1>10
  <2>3. S4At(res', 2) = CodeLength
    BY <1>3, <1>6, <2>2, ReadPlaced
  <2>. QED  BY <1>3, <1>6, <1>10, <2>1, <2>3
<1>11. ASSUME Exact, stack_map_frames # << >>
       PROVE  /\ TableProofs!TableWritten(Len(stack_map_frames))'
              /\ TableProofs!Sorted(Len(stack_map_frames))'
  <2>. DEFINE N == Len(stack_map_frames)
  <2>1. TableProofs!TableWritten(N) /\ TableProofs!Sorted(N) /\ start = HeadLength
    BY <1>3, <1>11
  <2>2. /\ Len(res) = TableProofs!EntryStart(N + 1) /\ attribute_length = Len(res) - start - 6
        /\ TableProofs!WrittenAt(start + 6, N)
        /\ \A m \in 1 .. N :
             TableProofs!WrittenAt(TableProofs!EntryStart(m) + 1, TableProofs!Delta(m))
    BY <2>1 DEF TableProofs!TableWritten
  <2>3. \A m : TableProofs!EntryStart(m)' = TableProofs!EntryStart(m)
               /\ TableProofs!Delta(m)' = TableProofs!Delta(m)
    BY <1>1, <1>2 DEF TableProofs!EntryStart, TableProofs!Delta
  <2>4. ASSUME NEW place \in Nat, NEW n, 6 <= place, place + 2 <= Len(res),
               TableProofs!WrittenAt(place, n)
        PROVE  res'[place + 1] = TableProofs!Bytes2(n)[1]
               /\ res'[place + 2] = TableProofs!Bytes2(n)[2]
    <3>1. /\ place + 1 \in 1 .. Len(res) /\ place + 2 \in 1 .. Len(res)
          /\ place + 1 \notin 2 + 1 .. 2 + 4 /\ place + 2 \notin 2 + 1 .. 2 + 4
      BY <1>4, <2>4
    <3>2. res[place + 1] = TableProofs!Bytes2(n)[1]
          /\ res[place + 2] = TableProofs!Bytes2(n)[2]
      BY <2>4 DEF TableProofs!WrittenAt
    <3>. QED  BY <1>7, <3>1, <3>2
  <2>5. /\ start + 8 <= TableProofs!EntryStart(N + 1)
        /\ \A m \in 1 .. N : /\ TableProofs!EntryStart(m) \in Nat
                             /\ start + 8 <= TableProofs!EntryStart(m)
                             /\ TableProofs!EntryStart(m) + 3 <= TableProofs!EntryStart(N + 1)
    <3>1. N + 1 \in Nat \ {0} /\ \A m \in 1 .. N : m \in Nat \ {0} /\ m \in 1 .. N + 1 - 1
      BY <1>4
    <3>. QED  BY <1>4, <3>1, U16RangeAssumption, TableProofs!EntryStarts
  <2>6. TableProofs!WrittenAt(start + 6, N)'
    <3>1. start + 6 \in Nat /\ 6 <= start + 6 /\ start + 6 + 2 <= Len(res)
      BY <1>4, <2>2, <2>5
    <3>2. res'[start + 6 + 1] = TableProofs!Bytes2(N)[1]
          /\ res'[start + 6 + 2] = TableProofs!Bytes2(N)[2]
      BY <2>2, <2>4, <3>1
    <3>. QED  BY <1>1, <1>2, <3>2 DEF TableProofs!WrittenAt
  <2>7. ASSUME NEW m \in 1 .. N
        PROVE  TableProofs!WrittenAt(TableProofs!EntryStart(m) + 1, TableProofs!Delta(m))'
    <3>. DEFINE place == TableProofs!EntryStart(m) + 1
                delta == TableProofs!Delta(m)
    <3>1. place \in Nat /\ 6 <= place /\ place + 2 <= Len(res)
          /\ TableProofs!WrittenAt(place, delta)
      BY <1>4, <2>2, <2>5, SMTT(30)
    <3>2. place' = place /\ delta' = delta
      BY <2>3
    <3>. HIDE DEF place, delta
    <3>3. res'[place + 1] = TableProofs!Bytes2(delta)[1]
          /\ res'[place + 2] = TableProofs!Bytes2(delta)[2]
      BY <2>4, <3>1
    <3>4. TableProofs!WrittenAt(place, delta)'
      BY <3>2, <3>3 DEF TableProofs!WrittenAt
    <3>. QED  BY <3>4 DEF place, delta
  <2>8. N' = N
    BY <1>2
  <2>9. TableProofs!TableWritten(N)'
    BY <1>1, <1>6, <2>2, <2>3, <2>6, <2>7, <2>8 DEF TableProofs!TableWritten
  <2>10. TableProofs!Sorted(N)'
    BY <1>2, <2>1 DEF TableProofs!Sorted
  <2>. QED  BY <2>9, <2>10
<1>12. res' # << >>
  BY <1>4, <1>5, <1>6
<1>13. stack_map_frames = << >> => Len(res') = HeadLength
  BY <1>1, <1>3, <1>6 DEF AttributeInv
<1>14. stack_map_frames # << >> => start = HeadLength
  BY <1>1, <1>3 DEF AttributeInv
<1>15. AttributeInv'
  BY <1>1, <1>2, <1>3, <1>6, <1>9, <1>10, <1>11, <1>12, <1>13, <1>14 DEF AttributeInv
<1>. QED  BY <1>8, <1>15

(* Every step keeps the types and the invariant of the attribute.           *)
LEMMA AttributeStep ==
  ASSUME TypeOK, AttributeType, AttributeInv, [VerifierNext]_allVars
  PROVE  TypeOK' /\ AttributeType' /\ AttributeInv'
<1>1. CASE Next /\ UNCHANGED attributeVars
  <2>1. TypeOK'
    BY <1>1, TypeStep
  <2>2. AttributeInv'
    BY <1>1, CompilerSteps
  <2>. QED  BY <1>1, <2>1, <2>2 DEF attributeVars, AttributeType
<1>2. CASE BeginCode
  BY <1>2, BeginCodeStep DEF BeginCode, vars, TypeOK
<1>3. CASE WriteTable
  BY <1>3, WriteTableStep
<1>4. CASE EndCode
  BY <1>4, EndCodeStep DEF EndCode, vars, TypeOK
<1>5. CASE UNCHANGED << vars, attributeVars >>
  <2>1. UNCHANGED vars /\ UNCHANGED attributeVars
    BY <1>5
  <2>2. TypeOK' /\ AttributeType'
    BY <2>1 DEF vars, attributeVars, TypeOK, AttributeType
  <2>3. AttributeInv'
    <3>1. [TableProofs!Next]_(TableProofs!tableVars)
      BY <2>1 DEF vars, attributeVars, TableProofs!tableVars
    <3>. QED
      BY <2>1 DEF vars, attributeVars, AttributeInv, HeadLength, Exact, CodeFits, HeadWritten,
           AttributesCount, TableProofs!SortInv, TableProofs!EntryInv, TableProofs!Sorted,
           TableProofs!TableWritten, TableProofs!EntryStart, TableProofs!WrittenAt,
           TableProofs!Delta, TableProofs!IndexFits
  <2>. QED  BY <2>2, <2>3
<1>. QED
  BY <1>1, <1>2, <1>3, <1>4, <1>5
  DEF VerifierNext, AttributeNext, CheckInstruction, Conclude, allVars

(* What a JVM reads from the attribute.                                     *)
LEMMA ReadAttribute ==
  ASSUME TypeOK, AttributeType, AttributeInv, step = "complete", AttributeFits
  PROVE  /\ pc = "done" /\ CodeFits /\ Exact
         /\ S4At(res, 2) = Len(res) - 6
         /\ Method = code
         /\ StackLimit = MaxStack
         /\ U2At(res, 16 + Len(code)) = AttributesCount
         /\ stack_map_frames # << >> =>
              /\ TableProofs!TableWritten(Len(stack_map_frames))
              /\ TableProofs!Sorted(Len(stack_map_frames))
              /\ Len(stack_map_frames) < 65536
<1>1. res # << >> /\ pc = "done" /\ HeadLength <= Len(res)
  BY DEF AttributeInv
<1>2. Exact
  <2>1. stack_map_frames # << >> => start = HeadLength
    BY <1>1 DEF AttributeInv
  <2>. QED  BY <2>1 DEF AttributeFits, Exact, Table!TableFits, Table!IndexFits
<1>3. HeadWritten
  BY <1>1, <1>2 DEF AttributeInv
<1>4. /\ res \in Seq(Byte) /\ code \in Seq(Byte) /\ Len(code) \in Nat /\ Len(res) \in Nat
      /\ Len(code) < 65536
  BY <1>2, U16RangeAssumption DEF TypeOK, AttributeType, Exact, CodeFits
<1>5. S4At(res, 10) = Len(code)
  <2>1. BytesAt(res, 10, Bytes4(Len(code)))
    BY <1>3 DEF HeadWritten
  <2>2. -2147483648 <= Len(code) /\ Len(code) < 2147483648 /\ Len(code) \in Int
    BY <1>4
  <2>. QED  BY <1>4, <2>1, <2>2, ReadPlaced
<1>6. SubSeq(res, 15, 14 + Len(code)) = code
  <2>. DEFINE s == SubSeq(res, 15, 14 + Len(code))
  <2>1. 14 + Len(code) <= Len(res)
    BY <1>1, <1>4 DEF HeadLength
  <2>2. Len(s) = Len(code) /\ s \in Seq(Byte)
    BY <1>4, <2>1
  <2>3. ASSUME NEW n \in 1 .. Len(code) PROVE s[n] = code[n]
    <3>1. s[n] = res[14 + n]
      BY <1>4, <2>1
    <3>2. res[14 + n] = code[n]
      BY <1>3 DEF HeadWritten, BytesAt
    <3>. QED  BY <3>1, <3>2
  <2>. HIDE DEF s
  <2>4. s = code
    BY <1>4, <2>2, <2>3
  <2>. QED  BY <2>4 DEF s
<1>7. Method = code
  BY <1>5, <1>6 DEF Method
<1>8. StackLimit = MaxStack
  <2>1. BytesAt(res, 6, Bytes2(MaxStack)) /\ MaxStack \in Nat /\ MaxStack < 65536
    BY <1>3 DEF HeadWritten, MaxStack
  <2>. QED  BY <1>4, <2>1, ReadPlaced DEF StackLimit
<1>9. U2At(res, 16 + Len(code)) = AttributesCount
  <2>1. /\ BytesAt(res, 16 + Len(code), Bytes2(AttributesCount))
        /\ AttributesCount \in Nat /\ AttributesCount < 65536 /\ 16 + Len(code) \in Nat
    BY <1>3, <1>4 DEF HeadWritten, AttributesCount
  <2>. QED  BY <1>4, <2>1, ReadPlaced
<1>10. S4At(res, 2) = Len(res) - 6
       /\ (stack_map_frames # << >> =>
             /\ TableProofs!TableWritten(Len(stack_map_frames))
             /\ TableProofs!Sorted(Len(stack_map_frames)))
  BY <1>2 DEF AttributeInv
<1>11. stack_map_frames # << >> => Len(stack_map_frames) < 65536
  BY <1>2 DEF Exact
<1>. QED
  BY <1>1, <1>2, <1>7, <1>8, <1>9, <1>10, <1>11 DEF Exact

(* The attribute's invariant holds throughout.                              *)
LEMMA AttributeInvariance == VerifierSpec => [](TypeOK /\ AttributeType /\ AttributeInv)
<1>1. VerifierAllInit => TypeOK /\ AttributeType /\ AttributeInv
  BY TypeInit, AttributeTypeInit, AttributeStarts DEF VerifierAllInit
<1>2. TypeOK /\ AttributeType /\ AttributeInv /\ [VerifierNext]_allVars
        => (TypeOK /\ AttributeType /\ AttributeInv)'
  BY AttributeStep
<1>. QED  BY <1>1, <1>2, PTL DEF VerifierSpec

(* Whatever the program, the length in the attribute is that of what        *)
(* follows it, with a table and without one, and the code in it is the      *)
(* method's.                                                                *)
THEOREM CodeIsExactCorrect == VerifierSpec => []CodeIsExact
<1>1. TypeOK /\ AttributeType /\ AttributeInv => CodeIsExact
  BY ReadAttribute DEF CodeIsExact, Method
<1>. QED  BY <1>1, AttributeInvariance, PTL

-----------------------------------------------------------------------------
(* The JVM that verifies the method.  What is proved of the method stays    *)
(* while the attribute is written, though its table puts the frames into    *)
(* another order.                                                           *)
MethodInv == LayoutInv /\ ShapeInv /\ DistinctInv

(* Nothing in it depends on the order of the frames.                        *)
LEMMA FramesReordered ==
  ASSUME MethodInv, pc = "done", Range(stack_map_frames') = Range(stack_map_frames),
         IsInjective(stack_map_frames') <=> IsInjective(stack_map_frames),
         UNCHANGED << ir, pc, i, j, integers, code, code_label_offsets,
                      label_references, starts >>
  PROVE  MethodInv'
<1>1. ShapeInv'
  BY SameShape DEF MethodInv
<1>2. LayoutInv'
  <2>. SUFFICES ASSUME CodeFits' PROVE Layout'
    BY DEF MethodInv, LayoutInv, Untouched
  <2>1. Layout
    BY DEF MethodInv, LayoutInv, CodeFits
  <2>2. InOrder'
    BY <2>1 DEF Layout, InOrder, End
  <2>3. CodePlaced'
    BY <2>1 DEF Layout, CodePlaced, JumpAt, AddiAt, CodeAt, End, JumpOpcode, GotoOf,
                BranchOffset, AddiOf, ConstantIndex, Range
  <2>4. ReferencesKept' /\ OffsetsKept'
    BY <2>1 DEF Layout, ReferencesKept, OffsetsKept, ReferenceTo, JumpOpcode
  <2>5. Updated'
    BY <2>1 DEF Layout, Updated, UpdatedAt, Visited, CodeAt
  <2>6. FramesKept'
    <3>1. VisitedLabels' = VisitedLabels
      BY DEF VisitedLabels, Visited
    <3>2. \A m \in DOMAIN starts : End(m)' = End(m)
      BY DEF End
    <3>3. {End(m)' : m \in {o \in DOMAIN starts : IsConditional(ir[o])}}
            = {End(m) : m \in {o \in DOMAIN starts : IsConditional(ir[o])}}
      BY <3>2
    <3>4. {code_label_offsets'[ir'[d].name] : d \in VisitedLabels'}
            = {code_label_offsets[ir[d].name] : d \in VisitedLabels}
      BY <3>1
    <3>5. Range(stack_map_frames)' = Range(stack_map_frames)
      BY DEF Range
    <3>6. FramesKept
      BY <2>1 DEF Layout
    <3>. QED  BY <3>3, <3>4, <3>5, <3>6 DEF FramesKept
  <2>. QED  BY <2>2, <2>3, <2>4, <2>5, <2>6 DEF Layout
<1>3. DistinctInv'
  <2>1. \A m : End(m)' = End(m)
    BY DEF End
  <2>2. \A d, p : Visited(d, p)' <=> Visited(d, p)
    BY DEF Visited
  <2>3. FramesOnce' <=> FramesOnce
    BY <2>1, <2>2, SameVisits
  <2>4. IsInjective(stack_map_frames)' <=> IsInjective(stack_map_frames)
    BY DEF IsInjective
  <2>5. \A label \in Labels : IsInjective(label_references[label])' <=> IsInjective(label_references[label])
    BY DEF IsInjective
  <2>. QED  BY <2>3, <2>4, <2>5 DEF MethodInv, DistinctInv, CodeFits
<1>. QED  BY <1>1, <1>2, <1>3 DEF MethodInv

(* Every step keeps it.                                                     *)
LEMMA MethodStep ==
  ASSUME TypeOK, AttributeType, AttributeInv, MethodInv, [VerifierNext]_allVars
  PROVE  MethodInv'
<1>1. CASE [Next]_vars
  BY <1>1, LayoutStep, ShapeStep, DistinctStep DEF MethodInv
<1>2. CASE WriteTable
  <2>1. /\ res # << >>
        /\ UNCHANGED << ir, pc, i, j, integers, code, code_label_offsets,
                        label_references, starts >>
    BY <1>2, TableSteps
  <2>2. pc = "done"
    BY <2>1 DEF AttributeInv
  <2>3. /\ Range(stack_map_frames') = Range(stack_map_frames)
        /\ IsInjective(stack_map_frames') <=> IsInjective(stack_map_frames)
    BY <1>2, FramesOfTable
  <2>. QED  BY <2>1, <2>2, <2>3, FramesReordered
<1>3. CASE BeginCode \/ EndCode \/ CheckInstruction \/ Conclude
  <2>1. UNCHANGED vars
    BY <1>3 DEF BeginCode, EndCode, CheckInstruction, Conclude
  <2>. QED  BY <1>1, <2>1
<1>4. CASE UNCHANGED allVars
  BY <1>1, <1>4 DEF allVars
<1>. QED  BY <1>1, <1>2, <1>3, <1>4 DEF VerifierNext, AttributeNext

(* It holds throughout.                                                     *)
LEMMA MethodInvariance ==
  VerifierSpec => [](TypeOK /\ AttributeType /\ AttributeInv /\ MethodInv)
<1>1. VerifierAllInit => MethodInv
  <2>1. Init => LayoutInv
    BY LayoutInit
  <2>2. Init => ShapeInv /\ DistinctInv
    BY DEF Init, ShapeInv, DistinctInv
  <2>. QED  BY <2>1, <2>2 DEF VerifierAllInit, MethodInv
<1>2. TypeOK /\ AttributeType /\ AttributeInv /\ MethodInv /\ [VerifierNext]_allVars
        => MethodInv'
  BY MethodStep
<1>. QED  BY <1>1, <1>2, AttributeInvariance, PTL DEF VerifierSpec

(* What the JVM reads: the code, its stack, and the places branches go to,  *)
(* each once and in order.                                                  *)
Reads ==
  /\ Compiled /\ Method = code /\ StackLimit = 5
  /\ TargetsDistinct /\ Frames \in Seq(Nat) /\ Range(Frames) = BranchTargets
  /\ \A n \in 2 .. Len(Frames) : Frames[n - 1] < Frames[n]

(* Unless some places are the same: then it reads a frame that is nowhere   *)
(* in the code.                                                             *)
LEMMA ReadMethod ==
  ASSUME TypeOK, AttributeType, AttributeInv, MethodInv, step = "complete", AttributeFits
  PROVE  /\ Method = code /\ CodeFits /\ Len(code) \in Nat /\ Frames \in Seq(Nat)
         /\ TargetsDistinct => Reads
         /\ ~TargetsDistinct => \E n \in 1 .. Len(Frames) : Frames[n] >= U16Range
<1>1. /\ pc = "done" /\ CodeFits /\ Method = code /\ StackLimit = MaxStack
      /\ U2At(res, 16 + Len(code)) = AttributesCount
      /\ stack_map_frames # << >> =>
           /\ TableProofs!TableWritten(Len(stack_map_frames))
           /\ TableProofs!Sorted(Len(stack_map_frames))
           /\ Len(stack_map_frames) < 65536
  BY ReadAttribute
<1>2. Compiled /\ StackLimit = 5
  BY <1>1 DEF MethodInv, Compiled, MaxStack
<1>3. Frames = IF stack_map_frames = << >> THEN << >> ELSE TableProofs!FrameOffsets
  BY <1>1, SameFrames DEF Frames, AttributesCount
<1>4. IsInjective(stack_map_frames) <=> TargetsDistinct
  BY <1>1, FramesDistinct DEF MethodInv, OneBranchEach, TargetsDistinct
<1>5. Range(stack_map_frames) = BranchTargets
  BY <1>1, FramesCorrect DEF MethodInv, FramesAreTargets
<1>6. stack_map_frames \in Seq(0 .. U16Range - 1) /\ start \in Nat /\ code \in Seq(Byte)
      /\ Len(stack_map_frames) \in Nat /\ DOMAIN stack_map_frames = 1 .. Len(stack_map_frames)
  BY DEF TypeOK, AttributeType
<1>7. CASE stack_map_frames = << >>
  <2>1. Frames = << >> /\ Frames \in Seq(Nat) /\ Len(Frames) = 0
    BY <1>3, <1>7
  <2>2. IsInjective(stack_map_frames)
    BY <1>7 DEF IsInjective
  <2>3. Range(Frames) = BranchTargets
    BY <1>5, <1>7, <2>1
  <2>4. Len(code) \in Nat
    BY <1>6
  <2>. QED  BY <1>1, <1>2, <1>4, <2>1, <2>2, <2>3, <2>4 DEF Reads
<1>8. CASE stack_map_frames # << >>
  <2>1. Frames = TableProofs!FrameOffsets
    BY <1>3, <1>8
  <2>5. /\ TableProofs!FrameOffsets \in Seq(Nat)
        /\ Len(TableProofs!FrameOffsets) = Len(stack_map_frames)
        /\ DOMAIN TableProofs!FrameOffsets = 1 .. Len(stack_map_frames)
        /\ TableProofs!IsInjective(stack_map_frames) =>
             /\ \A n \in 1 .. Len(stack_map_frames) :
                  TableProofs!FrameOffsets[n] = stack_map_frames[n]
             /\ \A n \in 2 .. Len(stack_map_frames) :
                  stack_map_frames[n - 1] < stack_map_frames[n]
        /\ ~TableProofs!IsInjective(stack_map_frames) =>
             \E n \in 1 .. Len(stack_map_frames) : TableProofs!FrameOffsets[n] >= U16Range
    BY <1>1, <1>6, <1>8, TableProofs!Decoded, U16RangeAssumption
  <2>2. /\ TableProofs!FrameOffsets \in Seq(Nat)
        /\ Len(TableProofs!FrameOffsets) = Len(stack_map_frames)
        /\ DOMAIN TableProofs!FrameOffsets = 1 .. Len(stack_map_frames)
        /\ IsInjective(stack_map_frames) =>
             /\ \A n \in 1 .. Len(stack_map_frames) :
                  TableProofs!FrameOffsets[n] = stack_map_frames[n]
             /\ \A n \in 2 .. Len(stack_map_frames) :
                  stack_map_frames[n - 1] < stack_map_frames[n]
        /\ ~IsInjective(stack_map_frames) =>
             \E n \in 1 .. Len(stack_map_frames) : TableProofs!FrameOffsets[n] >= U16Range
    <3>1. TableProofs!IsInjective(stack_map_frames) <=> IsInjective(stack_map_frames)
      BY DEF IsInjective, TableProofs!IsInjective
    <3>. QED  BY <2>5, <3>1
  <2>3. ASSUME TargetsDistinct
        PROVE  /\ Range(Frames) = BranchTargets
               /\ \A n \in 2 .. Len(Frames) : Frames[n - 1] < Frames[n]
    <3>1. \A n \in 1 .. Len(stack_map_frames) : Frames[n] = stack_map_frames[n]
      BY <1>4, <2>1, <2>2, <2>3
    <3>2. Range(Frames) = Range(stack_map_frames)
      BY <1>6, <2>1, <2>2, <3>1 DEF Range
    <3>3. ASSUME NEW n \in 2 .. Len(Frames) PROVE Frames[n - 1] < Frames[n]
      <4>1. n \in 1 .. Len(stack_map_frames) /\ n - 1 \in 1 .. Len(stack_map_frames)
            /\ n \in 2 .. Len(stack_map_frames)
        BY <1>6, <2>1, <2>2
      <4>2. stack_map_frames[n - 1] < stack_map_frames[n]
        BY <1>4, <2>2, <2>3, <4>1
      <4>. QED  BY <3>1, <4>1, <4>2
    <3>. QED  BY <1>5, <3>2, <3>3
  <2>4. Len(code) \in Nat
    BY <1>6
  <2>. QED  BY <1>1, <1>2, <1>4, <2>1, <2>2, <2>3, <2>4 DEF Reads
<1>. QED  BY <1>7, <1>8

-----------------------------------------------------------------------------
(* The scan.  Which programs are loadable, said of the places the JVM comes *)
(* by one after the other, instead of the elements all at once.             *)

(* A long has been stored by the code before a place.                       *)
LongStored(place) ==
  \E n \in DOMAIN ir : StoresLong(ir[n]) /\ starts[n + 1] <= place

(* What the code before a place leaves on the stack.                        *)
Left(place) ==
  IF \E n \in DOMAIN ir : LeavesLong(ir[n]) /\ starts[n] < place THEN << "long" >> ELSE << >>

(* What a frame says holds where it is.                                     *)
TargetClear(target) == LongStored(target) /\ Left(target) = << >>

(* An element finds the stack empty, and what it leaves is not stored.      *)
ElementClear(m) == Left(starts[m]) = << >> /\ (LeavesLong(ir[m]) => ir[m].rd = X0)

(* All is well before one place, for frames, and another, for elements.     *)
ClearUpTo(frame, element) ==
  /\ \A target \in BranchTargets : target < frame => TargetClear(target)
  /\ \A m \in DOMAIN ir : WritesCode(ir[m]) /\ End(m) <= element => ElementClear(m)

AllClear == ClearUpTo(Len(code), Len(code))

(* The only jumps are conditions.                                           *)
LEMMA JumpsAreConditions ==
  ASSUME NEW e \in Elements, IsJump(e)
  PROVE  IsConditional(e)
<1>. SUFFICES ASSUME IsInstruction(e), e.format = "R1_OP", e.mnemonic = "J" PROVE FALSE
  BY DEF IsJump
<1>. QED  BY DEF Elements, InstructionElements, R3Elements, R2ImmElements, R2LabelElements,
                 R1ImmElements, R1LabelElements, MemElements, LabelElements, Eof, IsInstruction,
                 R1OpMnemonics

(* An element is of one kind.                                               *)
LEMMA OneKind ==
  ASSUME NEW e
  PROVE  /\ ~(IsR3(e) /\ IsAddi(e)) /\ ~(IsR3(e) /\ IsJump(e)) /\ ~(IsAddi(e) /\ IsJump(e))
         /\ IsEof(e) => ~WritesCode(e)
         /\ StoresLong(e) \/ LeavesLong(e) => WritesCode(e)
BY DEF IsR3, IsAddi, IsJump, IsConditional, IsEof, IsInstruction, WritesCode, StoresLong,
       LeavesLong

(* An element with code ends after it starts, where the next one starts.    *)
LEMMA Grows ==
  ASSUME Compiled, NEW m \in DOMAIN ir, WritesCode(ir[m])
  PROVE  /\ starts[m] + 9 <= End(m) /\ End(m) = starts[m + 1] /\ m + 1 \in DOMAIN ir
         /\ starts[m] \in Nat /\ End(m) \in Nat /\ End(m) <= Len(code)
<1>1. /\ starts[m] \in Nat /\ End(m) \in Nat /\ End(m) <= Len(code)
      /\ DOMAIN starts = DOMAIN ir
  BY CompiledTypes
<1>2. ~IsEof(ir[m])
  BY OneKind
<1>3. m + 1 \in DOMAIN ir
  BY <1>2, CompiledTypes, NextElementExists DEF Compiled, TypeOK
<1>4. End(m) = starts[m + 1]
  BY <1>1, <1>3 DEF End
<1>5. \A r : StoreLength(r) \in Nat /\ StoreLength(r) >= 1
  BY DEF StoreLength
<1>6. starts[m] + 9 <= End(m)
  <2>1. CASE IsR3(ir[m])
    BY <1>1, <1>5, <2>1, R3Opcodes
  <2>2. CASE IsAddi(ir[m])
    BY <1>1, <1>5, <2>2, AddiOpcodes
  <2>3. CASE IsJump(ir[m])
    BY <1>1, <2>3, JumpOpcodes
  <2>. QED  BY <2>1, <2>2, <2>3 DEF WritesCode
<1>. QED  BY <1>1, <1>3, <1>4, <1>6

(* Of two elements with code, the first is before the other.                *)
LEMMA CodeOrder ==
  ASSUME Compiled, NEW m \in DOMAIN ir, NEW n \in DOMAIN ir
  PROVE  /\ m < n => starts[m] <= End(m) /\ End(m) <= starts[n]
         /\ starts[m] < starts[n] => m < n
         /\ WritesCode(ir[m]) /\ m < n => starts[m] < starts[n]
<1>1. /\ starts[m] \in Nat /\ starts[n] \in Nat /\ End(m) \in Nat /\ End(n) \in Nat
      /\ m \in Nat /\ n \in Nat /\ starts[n] <= End(n) /\ starts[m] <= End(m)
      /\ m \in DOMAIN starts /\ n \in DOMAIN starts /\ Layout
  BY CompiledTypes
<1>2. m < n => End(m) <= starts[n]
  BY <1>1 DEF Layout, InOrder
<1>3. n < m => End(n) <= starts[m]
  BY <1>1 DEF Layout, InOrder
<1>4. WritesCode(ir[m]) => starts[m] < End(m)
  BY <1>1, Grows
<1>. QED  BY <1>1, <1>2, <1>3, <1>4

(* Branches go to where elements start.                                     *)
LEMMA TargetsAreStarts ==
  ASSUME Compiled, NEW target \in BranchTargets
  PROVE  /\ \E n \in DOMAIN ir : target = starts[n]
         /\ target \in Nat /\ 10 <= target /\ target < Len(code)
<1>1. \E n \in DOMAIN ir : target = starts[n]
  <2>1. CASE \E m \in DOMAIN ir : IsJump(ir[m]) /\ target = LabelStart(ir[m].label)
    <3>1. PICK m \in DOMAIN ir : IsJump(ir[m]) /\ target = LabelStart(ir[m].label)
      BY <2>1
    <3>. QED  BY <3>1, JumpOpcodes
  <2>2. CASE \E m \in DOMAIN ir : IsConditional(ir[m]) /\ target = starts[m + 1]
    <3>1. PICK m \in DOMAIN ir : IsConditional(ir[m]) /\ target = starts[m + 1]
      BY <2>2
    <3>2. WritesCode(ir[m])
      BY <3>1 DEF WritesCode, IsJump
    <3>. QED  BY <3>1, <3>2, Grows
  <2>. QED  BY <2>1, <2>2 DEF BranchTargets
<1>2. PICK n \in DOMAIN ir : target = starts[n]
  BY <1>1
<1>3. 1 \in DOMAIN ir /\ starts[1] = 10
  BY PrologueOpcodes
<1>4. n \in Nat /\ starts[n] \in Nat /\ n <= Len(ir) /\ Len(ir) \in DOMAIN ir /\ 1 <= n
      /\ Len(ir) \in Nat /\ starts[Len(ir)] \in Nat /\ Len(code) = starts[Len(ir)] + 1
  BY CompiledTypes DEF Shape, Compiled
<1>5. 10 <= starts[n]
  <2>1. 1 < n => starts[1] <= End(1) /\ End(1) <= starts[n]
    BY <1>3, CodeOrder
  <2>2. End(1) \in Nat
    BY <1>3, CompiledTypes
  <2>. QED  BY <1>3, <1>4, <2>1, <2>2
<1>6. starts[n] <= starts[Len(ir)]
  <2>1. n < Len(ir) => starts[n] <= End(n) /\ End(n) <= starts[Len(ir)]
    BY <1>4, CodeOrder
  <2>2. End(n) \in Nat
    BY CompiledTypes
  <2>. QED  BY <1>4, <2>1, <2>2
<1>. QED  BY <1>1, <1>2, <1>4, <1>5, <1>6

(* The loadable programs are those all places of which are clear.           *)
LEMMA LoadableScan ==
  ASSUME Compiled
  PROVE  Loadable <=> TargetsDistinct /\ AllClear
<1>1. \A target \in BranchTargets : target < Len(code) /\ target \in Nat
  BY TargetsAreStarts
<1>2. \A m \in DOMAIN ir : End(m) <= Len(code) /\ starts[m] \in Nat
  BY CompiledTypes
<1>3. << "long" >> # << >>
  OBVIOUS
<1>4. \A place : Left(place) = << >>
        <=> \A n \in DOMAIN ir : LeavesLong(ir[n]) => ~(starts[n] < place)
  BY <1>3 DEF Left
<1>5. (\A target \in BranchTargets : LongStored(target)) <=> LongAssignedFirst
  BY DEF LongStored, LongAssignedFirst
<1>6. (\A target \in BranchTargets : Left(target) = << >>)
        <=> \A n \in DOMAIN ir : LeavesLong(ir[n]) =>
              \A target \in BranchTargets : target <= starts[n]
  BY <1>1, <1>2, <1>4
<1>7. (\A m \in DOMAIN ir : WritesCode(ir[m]) => Left(starts[m]) = << >>)
        <=> \A n \in DOMAIN ir : LeavesLong(ir[n]) =>
              \A m \in n + 1 .. Len(ir) : ~WritesCode(ir[m])
  <2>1. ASSUME \A m \in DOMAIN ir : WritesCode(ir[m]) => Left(starts[m]) = << >>,
               NEW n \in DOMAIN ir, LeavesLong(ir[n]), NEW m \in n + 1 .. Len(ir),
               WritesCode(ir[m])
        PROVE  FALSE
    <3>1. m \in DOMAIN ir /\ n < m
      BY <2>1, CompiledTypes
    <3>2. WritesCode(ir[n])
      BY <2>1, OneKind
    <3>3. starts[n] < starts[m]
      BY <3>1, <3>2, CodeOrder
    <3>. QED  BY <1>4, <2>1, <3>1, <3>3
  <2>2. ASSUME \A n \in DOMAIN ir : LeavesLong(ir[n]) =>
                 \A m \in n + 1 .. Len(ir) : ~WritesCode(ir[m]),
               NEW m \in DOMAIN ir, WritesCode(ir[m]), NEW n \in DOMAIN ir,
               LeavesLong(ir[n]), starts[n] < starts[m]
        PROVE  FALSE
    <3>1. n < m
      BY <2>2, CodeOrder
    <3>2. m \in n + 1 .. Len(ir)
      BY <3>1, CompiledTypes
    <3>. QED  BY <2>2, <3>2
  <2>. QED  BY <1>4, <2>1, <2>2
<1>8. (\A m \in DOMAIN ir : WritesCode(ir[m]) => (LeavesLong(ir[m]) => ir[m].rd = X0))
        <=> \A n \in DOMAIN ir : LeavesLong(ir[n]) => ir[n].rd = X0
  BY OneKind
<1>9. AllClear <=> /\ \A target \in BranchTargets : LongStored(target)
                   /\ \A target \in BranchTargets : Left(target) = << >>
                   /\ \A m \in DOMAIN ir : WritesCode(ir[m]) => Left(starts[m]) = << >>
                   /\ \A m \in DOMAIN ir : WritesCode(ir[m]) =>
                        (LeavesLong(ir[m]) => ir[m].rd = X0)
  BY <1>1, <1>2 DEF AllClear, ClearUpTo, TargetClear, ElementClear
<1>10. (\A n \in DOMAIN ir : LoadableAround(n))
        <=> /\ \A n \in DOMAIN ir : LeavesLong(ir[n]) => ir[n].rd = X0
            /\ \A n \in DOMAIN ir : LeavesLong(ir[n]) =>
                 \A m \in n + 1 .. Len(ir) : ~WritesCode(ir[m])
            /\ \A n \in DOMAIN ir : LeavesLong(ir[n]) =>
                 \A target \in BranchTargets : target <= starts[n]
  BY DEF LoadableAround
<1>. QED  BY <1>5, <1>6, <1>7, <1>8, <1>9, <1>10 DEF Loadable

(* An element with code adds to what is stored before a place, and to what  *)
(* is left there, what it stores and leaves itself.                         *)
LEMMA BehindElement ==
  ASSUME Compiled, NEW m \in DOMAIN ir, WritesCode(ir[m])
  PROVE  /\ LongStored(End(m)) <=> LongStored(starts[m]) \/ StoresLong(ir[m])
         /\ Left(End(m)) = IF LeavesLong(ir[m]) THEN << "long" >> ELSE Left(starts[m])
<1>1. starts[m] < End(m) /\ End(m) = starts[m + 1] /\ starts[m] \in Nat /\ End(m) \in Nat
  BY Grows
<1>2. ASSUME NEW n \in DOMAIN ir, WritesCode(ir[n])
      PROVE  /\ starts[n + 1] <= End(m) <=> starts[n + 1] <= starts[m] \/ n = m
             /\ starts[n] < End(m) <=> starts[n] < starts[m] \/ n = m
  <2>1. starts[n] < End(n) /\ End(n) = starts[n + 1] /\ starts[n] \in Nat /\ End(n) \in Nat
    BY <1>2, Grows
  <2>2. n < m => End(n) <= starts[m]
    BY CodeOrder
  <2>3. m < n => End(m) <= starts[n]
    BY CodeOrder
  <2>4. m \in Nat /\ n \in Nat
    BY CompiledTypes
  <2>. QED  BY <1>1, <2>1, <2>2, <2>3, <2>4
<1>3. LongStored(End(m)) <=> LongStored(starts[m]) \/ StoresLong(ir[m])
  <2>1. \A n \in DOMAIN ir : StoresLong(ir[n]) =>
          (starts[n + 1] <= End(m) <=> starts[n + 1] <= starts[m] \/ n = m)
    BY <1>2, OneKind
  <2>. QED  BY <2>1 DEF LongStored
<1>4. Left(End(m)) = IF LeavesLong(ir[m]) THEN << "long" >> ELSE Left(starts[m])
  <2>1. \A n \in DOMAIN ir : LeavesLong(ir[n]) =>
          (starts[n] < End(m) <=> starts[n] < starts[m] \/ n = m)
    BY <1>2, OneKind
  <2>. QED  BY <2>1 DEF Left
<1>. QED  BY <1>3, <1>4

(* Behind a clear element everything is clear if it was before.             *)
LEMMA ClearBehind ==
  ASSUME Compiled, NEW m \in DOMAIN ir, WritesCode(ir[m]), ElementClear(m),
         ClearUpTo(starts[m] + 1, starts[m])
  PROVE  ClearUpTo(End(m), End(m))
<1>1. starts[m] < End(m) /\ starts[m] \in Nat /\ End(m) \in Nat
  BY Grows
<1>2. ASSUME NEW target \in BranchTargets, target < End(m) PROVE TargetClear(target)
  <2>1. PICK n \in DOMAIN ir : target = starts[n] /\ target \in Nat
    BY TargetsAreStarts
  <2>2. ~(starts[m] < starts[n])
    BY <1>2, <2>1, StartsApart
  <2>3. target < starts[m] + 1
    BY <1>1, <2>1, <2>2
  <2>. QED  BY <2>3 DEF ClearUpTo
<1>3. ASSUME NEW n \in DOMAIN ir, WritesCode(ir[n]), End(n) <= End(m) PROVE ElementClear(n)
  <2>1. starts[n] < End(n) /\ starts[n] \in Nat /\ End(n) \in Nat
    BY <1>3, Grows
  <2>2. n < m => End(n) <= starts[m]
    BY CodeOrder
  <2>3. m < n => End(m) <= starts[n]
    BY CodeOrder
  <2>4. m \in Nat /\ n \in Nat
    BY CompiledTypes
  <2>5. n = m \/ End(n) <= starts[m]
    BY <1>1, <1>3, <2>1, <2>2, <2>3, <2>4
  <2>. QED  BY <1>3, <2>5 DEF ClearUpTo
<1>. QED  BY <1>2, <1>3 DEF ClearUpTo

(* The first element finds everything clear.                                *)
LEMMA ClearAtFirst ==
  ASSUME Compiled
  PROVE  ClearUpTo(10, 10) /\ Left(10) = << >> /\ ~LongStored(10)
<1>1. ASSUME NEW n \in DOMAIN ir PROVE 10 <= starts[n]
  <2>1. 1 \in DOMAIN ir /\ starts[1] = 10
    BY PrologueOpcodes
  <2>2. 1 < n => starts[1] <= End(1) /\ End(1) <= starts[n]
    BY <2>1, CodeOrder
  <2>3. n \in Nat /\ starts[n] \in Nat /\ End(1) \in Nat /\ DOMAIN ir = 1 .. Len(ir) /\ 1 <= n
    BY <2>1, CompiledTypes
  <2>. QED  BY <2>1, <2>2, <2>3
<1>2. \A n \in DOMAIN ir : ~(starts[n] < 10)
  BY <1>1, CompiledTypes
<1>3. ASSUME NEW n \in DOMAIN ir, WritesCode(ir[n]) PROVE ~(End(n) <= 10) /\ ~(starts[n + 1] <= 10)
  BY <1>1, <1>3, Grows
<1>4. ~LongStored(10)
  BY <1>3, OneKind DEF LongStored
<1>5. Left(10) = << >>
  BY <1>2 DEF Left
<1>6. \A target \in BranchTargets : ~(target < 10)
  BY TargetsAreStarts
<1>. QED  BY <1>3, <1>4, <1>5, <1>6 DEF ClearUpTo

-----------------------------------------------------------------------------
(* One instruction.                                                         *)

(* What the JVM knows in front of an instruction that can be reached.       *)
TypeState(kinds, array, long) ==
  [reachable |-> TRUE, kinds |-> kinds, local_1 |-> array, local_2 |-> long]

(* The state with other values on the stack.                                *)
LEMMA OtherKinds ==
  ASSUME NEW kinds, NEW array, NEW long, NEW rest
  PROVE  [TypeState(kinds, array, long) EXCEPT !.kinds = rest] = TypeState(rest, array, long)
<1>1. PICK reached : reached = TRUE
  OBVIOUS
<1>2. PICK f : f = [reachable |-> reached, kinds |-> kinds, local_1 |-> array, local_2 |-> long]
  OBVIOUS
<1>3. PICK g : g = [reachable |-> reached, kinds |-> rest, local_1 |-> array, local_2 |-> long]
  OBVIOUS
<1>4. [f EXCEPT !.kinds = rest] = g
  <2>. HIDE <1>1
  <2>1. DOMAIN f = {"reachable", "kinds", "local_1", "local_2"}
    BY <1>2
  <2>2. [f EXCEPT !.kinds = rest] = [x \in DOMAIN f |-> IF x = "kinds" THEN rest ELSE f[x]]
    BY <2>1
  <2>3. [x \in DOMAIN f |-> IF x = "kinds" THEN rest ELSE f[x]] = g
    BY <1>2, <1>3
  <2>. QED  BY <2>2, <2>3
<1>5. f = TypeState(kinds, array, long) /\ g = TypeState(rest, array, long)
  BY <1>1, <1>2, <1>3 DEF TypeState
<1>. QED  BY <1>4, <1>5

(* It is at a place, with values of its own above those it leaves alone.    *)
StateAt(o, c, place, below, own, array, long) ==
  o = place /\ c = TypeState(below \o own, array, long)

(* The JVM checks the instruction there.                                    *)
ChecksAt(place, below, own, array, long) ==
  IncomingFits /\ StateAt(offset, Incoming, place, below, own, array, long)

(* The instruction passes, and the next one is checked there.               *)
Passes(place, below, own, array, long) ==
  /\ InstructionFits
  /\ StateAt(offset + Width(Opcode), Outgoing, place, below, own, array, long)

(* There is room for what an instruction puts on the stack.                 *)
HasRoom(below, own) == Slots(below \o own) <= 5

(* What is below the operands of an opcode, and that they are on top.       *)
LEMMA OperandsFound ==
  ASSUME NEW op, NEW before, NEW after, Moves(op, before, after), NEW below \in Seq(Kinds)
  PROVE  /\ OperandsOnTop(below \o before, op)
         /\ Below(below \o before, op) \o Results(op) = below \o after
<1>2. PICK rest \in Seq(Kinds) : before = rest \o Operands(op) /\ after = rest \o Results(op)
  BY DEF Moves
<1>3. PICK t : t = Operands(op)
  OBVIOUS
<1>4. PICK u : u = Results(op)
  OBVIOUS
<1>5. PICK s : s = below \o rest
  OBVIOUS
<1>6. t \in Seq(Kinds) /\ u \in Seq(Kinds) /\ s \in Seq(Kinds)
  BY <1>2, <1>3, <1>4, <1>5, OperandTypes, ConcatProperties
<1>7. below \o before = s \o t /\ below \o after = s \o u
  <2>1. (below \o rest) \o t = below \o (rest \o t)
    BY <1>6, ConcatAssociative, SMTT(30)
  <2>2. (below \o rest) \o u = below \o (rest \o u)
    BY <1>6, ConcatAssociative, SMTT(30)
  <2>. QED  BY <1>2, <1>3, <1>4, <1>5, <2>1, <2>2
<1>8. Below(s \o t, op) = s
  BY <1>3, <1>6, WithoutLast DEF Below
<1>9. OperandsOnTop(s \o t, op)
  <2>1. Len(s \o t) = Len(s) + Len(t) /\ Len(s) \in Nat /\ Len(t) \in Nat
    BY <1>6, ConcatProperties
  <2>2. Len(s \o t) >= Len(Operands(op))
    BY <1>3, <2>1
  <2>. QED  BY <1>3, <1>8, <2>2 DEF OperandsOnTop
<1>. QED  BY <1>4, <1>7, <1>8, <1>9

(* Checking an opcode that is no branch: it passes if there is room for its *)
(* results.                                                                 *)
LEMMA CheckStraight ==
  ASSUME Reads, NEW op, NEW width \in Nat, IsStraight(op, width), op # JVM_RETURN,
         NEW before, NEW after, Moves(op, before, after), NEW below \in Seq(Kinds),
         NEW place \in Nat, NEW array \in BOOLEAN, NEW long \in BOOLEAN,
         ChecksAt(place, below, before, array, long), At(code, place) = op,
         op = JVM_ALOAD_1 => array, op = JVM_LLOAD_2 => long
  PROVE  IF HasRoom(below, after)
         THEN Passes(place + width, below, after,
                     array \/ op = JVM_ASTORE_1, long \/ op = JVM_LSTORE_2)
         ELSE ~InstructionFits
<1>1. /\ op \in Opcodes /\ Width(op) = width /\ op \notin {JVM_IFEQ, JVM_IFGT, JVM_GOTO_W}
      /\ Opcode = op /\ offset = place /\ StackLimit = 5
  BY DEF IsStraight, ChecksAt, StateAt, Reads, Opcode
<1>2. PICK s : s = below \o before
  OBVIOUS
<1>3. PICK t : t = below \o after
  OBVIOUS
<1>4. OperandsOnTop(s, op) /\ Below(s, op) \o Results(op) = t
  <2>1. /\ OperandsOnTop(below \o before, op)
        /\ Below(below \o before, op) \o Results(op) = below \o after
    BY OperandsFound
  <2>. QED  BY <1>2, <1>3, <2>1
<1>5. Incoming = TypeState(s, array, long) /\ IncomingFits
  BY <1>2 DEF ChecksAt, StateAt
<1>6. Incoming.kinds = s /\ Incoming.local_1 = array /\ Incoming.local_2 = long
  BY <1>5 DEF TypeState
<1>7. AfterOperands = TypeState(Below(s, op), array, long)
  <2>1. PICK rest : rest = Below(s, op)
    OBVIOUS
  <2>2. AfterOperands = [Incoming EXCEPT !.kinds = rest]
    BY <1>1, <1>6, <2>1 DEF AfterOperands
  <2>3. [Incoming EXCEPT !.kinds = rest] = TypeState(rest, array, long)
    BY <1>5, OtherKinds
  <2>. QED  BY <2>1, <2>2, <2>3
<1>8. Outgoing = TypeState(t, array \/ op = JVM_ASTORE_1, long \/ op = JVM_LSTORE_2)
  <2>1. Opcode \notin {JVM_GOTO_W, JVM_RETURN}
    BY <1>1
  <2>2. Outgoing = [AfterOperands EXCEPT
                      !.kinds = @ \o Results(Opcode),
                      !.local_1 = @ \/ Opcode = JVM_ASTORE_1,
                      !.local_2 = @ \/ Opcode = JVM_LSTORE_2]
    BY <2>1 DEF Outgoing
  <2>. QED  BY <1>1, <1>4, <1>7, <2>2 DEF TypeState
<1>9. Outgoing.kinds = t
  BY <1>8 DEF TypeState
<1>10. LocalsFit /\ BranchFits
  BY <1>1, <1>6 DEF LocalsFit, BranchFits
<1>11. InstructionFits <=> Slots(t) <= 5
  BY <1>1, <1>4, <1>5, <1>6, <1>9, <1>10 DEF InstructionFits
<1>. QED  BY <1>1, <1>3, <1>8, <1>11 DEF Passes, StateAt, HasRoom

-----------------------------------------------------------------------------
(* Which stacks there is room for.                                          *)

(* Twice a long is among the values of a stack.                             *)
TwoLongs(s) ==
  \E a, b \in DOMAIN s : a # b /\ s[a] = "long" /\ s[b] = "long"

(* A stack of three values, one of which is no long, is small.              *)
LEMMA ThreeFit ==
  ASSUME NEW s \in Seq(Kinds), Len(s) = 3, s[3] # "long"
  PROVE  Slots(s) <= 5
<1>. DEFINE L == {n \in DOMAIN s : s[n] = "long"}
<1>1. DOMAIN s = 1 .. 3
  <2>. HIDE DEF L
  <2>. QED  OBVIOUS
<1>2. PICK a \in Int : a = 1
  OBVIOUS
<1>3. PICK b \in Int : b = 2
  OBVIOUS
<1>4. L \in SUBSET {a, b}
  BY <1>1, <1>2, <1>3
<1>5. Slots(s) = Len(s) + Cardinality(L)
  BY DEF Slots
<1>. HIDE DEF L
<1>6. IsFiniteSet(a .. b) /\ Cardinality(a .. b) = 2 /\ {a, b} = a .. b
  <2>1. IsFiniteSet(a .. b) /\ Cardinality(a .. b) = IF a > b THEN 0 ELSE b - a + 1
    BY FS_Interval
  <2>2. (IF a > b THEN 0 ELSE b - a + 1) = 2
    BY <1>2, <1>3
  <2>3. {a, b} = a .. b
    BY <1>2, <1>3
  <2>. QED  BY <2>1, <2>2, <2>3
<1>7. Cardinality(L) <= 2 /\ Cardinality(L) \in Nat
  BY <1>4, <1>6, FS_Subset, FS_CardinalityType
<1>. QED  BY <1>5, <1>7

(* A stack of four values, two of them longs, is not.                       *)
LEMMA FourDoNot ==
  ASSUME NEW s \in Seq(Kinds), Len(s) = 4, TwoLongs(s)
  PROVE  ~(Slots(s) <= 5)
<1>. DEFINE L == {n \in DOMAIN s : s[n] = "long"}
<1>1. DOMAIN s = 1 .. 4
  <2>. HIDE DEF L
  <2>. QED  OBVIOUS
<1>2. PICK a \in DOMAIN s, b \in DOMAIN s : a # b /\ s[a] = "long" /\ s[b] = "long"
  BY DEF TwoLongs
<1>3. {a, b} \in SUBSET L /\ L \in SUBSET (1 .. 4)
  BY <1>1, <1>2
<1>4. Slots(s) = Len(s) + Cardinality(L)
  BY DEF Slots
<1>. HIDE DEF L
<1>5. IsFiniteSet(L) /\ Cardinality(L) \in Nat
  <2>1. PICK c \in Int : c = 1
    OBVIOUS
  <2>2. PICK d \in Int : d = 4
    OBVIOUS
  <2>3. IsFiniteSet(c .. d)
    BY FS_Interval
  <2>4. L \in SUBSET (c .. d)
    BY <1>3, <2>1, <2>2
  <2>. QED  BY <2>3, <2>4, FS_Subset, FS_CardinalityType
<1>6. Cardinality({a, b}) = 2
  <2>1. PICK A : A = {a}
    OBVIOUS
  <2>2. IsFiniteSet(A) /\ Cardinality(A) = 1
    BY <2>1, FS_Singleton
  <2>3. Cardinality(A \cup {b}) = IF b \in A THEN Cardinality(A) ELSE Cardinality(A) + 1
    BY <2>2, FS_AddElement
  <2>4. A \cup {b} = {a, b} /\ b \notin A
    BY <1>2, <2>1
  <2>5. Cardinality(A \cup {b}) = 2
    BY <2>2, <2>3, <2>4
  <2>. QED  BY <2>4, <2>5, Zenon
<1>7. 2 <= Cardinality(L)
  BY <1>3, <1>5, <1>6, FS_Subset
<1>. QED  BY <1>4, <1>5, <1>7

(* Nor is one of three longs.                                               *)
LEMMA ThreeLongsDoNot ==
  ASSUME NEW s \in Seq(Kinds), Len(s) = 3, \A n \in 1 .. 3 : s[n] = "long"
  PROVE  ~(Slots(s) <= 5)
<1>. DEFINE L == {n \in DOMAIN s : s[n] = "long"}
<1>1. DOMAIN s = 1 .. 3
  <2>. HIDE DEF L
  <2>. QED  OBVIOUS
<1>2. L = 1 .. 3
  BY <1>1
<1>3. Slots(s) = Len(s) + Cardinality(L)
  BY DEF Slots
<1>. HIDE DEF L
<1>4. Cardinality(L) = 3
  <2>1. PICK a \in Int : a = 1
    OBVIOUS
  <2>2. PICK b \in Int : b = 3
    OBVIOUS
  <2>3. Cardinality(a .. b) = IF a > b THEN 0 ELSE b - a + 1
    BY FS_Interval
  <2>4. (IF a > b THEN 0 ELSE b - a + 1) = 3
    BY <2>1, <2>2
  <2>. QED  BY <1>2, <2>1, <2>2, <2>3, <2>4
<1>. QED  BY <1>3, <1>4

(* Above nothing there is room for all that an element puts on the stack.   *)
LEMMA RoomAboveNothing ==
  ASSUME NEW own \in Stacks
  PROVE  HasRoom(<< >>, own) /\ << >> \o own = own
<1>1. own \in Seq(Kinds) /\ Slots(own) <= 5
  BY StacksAreSmall
<1>2. << >> \o own = own
  BY <1>1
<1>. QED  BY <1>1, <1>2 DEF HasRoom

(* A stack above a long.                                                    *)
LEMMA AboveLong ==
  ASSUME NEW own \in Seq(Kinds)
  PROVE  /\ << "long" >> \o own \in Seq(Kinds) /\ Len(<< "long" >> \o own) = Len(own) + 1
         /\ (<< "long" >> \o own)[1] = "long"
         /\ \A n \in 1 .. Len(own) : (<< "long" >> \o own)[n + 1] = own[n]
<1>1. "long" \in Kinds
  BY DEF Kinds
<1>2. PICK one : one = << "long" >>
  OBVIOUS
<1>3. one \in Seq(Kinds) /\ Len(one) = 1 /\ one[1] = "long"
  BY <1>1, <1>2
<1>4. /\ one \o own \in Seq(Kinds) /\ Len(one \o own) = Len(one) + Len(own)
      /\ \A n \in 1 .. Len(one) + Len(own) :
           (one \o own)[n] = IF n <= Len(one) THEN one[n] ELSE own[n - Len(one)]
  BY <1>3, ConcatProperties
<1>5. Len(own) \in Nat
  OBVIOUS
<1>6. (one \o own)[1] = "long"
  BY <1>3, <1>4, <1>5
<1>7. \A n \in 1 .. Len(own) : (one \o own)[n + 1] = own[n]
  BY <1>3, <1>4, <1>5
<1>. QED  BY <1>2, <1>3, <1>4, <1>5, <1>6, <1>7

(* There is room for one value, and for two unless the second is a long.    *)
LEMMA RoomForTwo ==
  ASSUME NEW own \in Seq(Kinds), Len(own) <= 2, Len(own) = 2 => own[2] # "long"
  PROVE  HasRoom(<< "long" >>, own)
<1>1. PICK s : s = << "long" >> \o own
  OBVIOUS
<1>2. s \in Seq(Kinds) /\ Len(s) = Len(own) + 1 /\ Len(own) \in Nat
      /\ \A n \in 1 .. Len(own) : s[n + 1] = own[n]
  BY <1>1, AboveLong
<1>3. CASE Len(own) = 2
  <2>1. Len(s) = 3 /\ s[3] = own[2]
    BY <1>2, <1>3
  <2>. QED  BY <1>1, <1>2, <1>3, <2>1, ThreeFit DEF HasRoom
<1>4. CASE Len(own) # 2
  <2>1. Len(s) <= 3 /\ Len(s) # 3
    <3>1. PICK length \in Nat : length = Len(own)
      BY <1>2
    <3>2. Len(s) = length + 1 /\ length <= 2 /\ length # 2
      BY <1>2, <1>4, <3>1
    <3>. QED  BY <3>2
  <2>. QED  BY <1>1, <1>2, <2>1, SlotsBound DEF HasRoom
<1>. QED  BY <1>3, <1>4

(* There is none for two longs, nor for three values with a long.           *)
LEMMA NoRoomForThree ==
  ASSUME NEW own \in Seq(Kinds),
         \/ Len(own) = 2 /\ own[1] = "long" /\ own[2] = "long"
         \/ Len(own) = 3 /\ \E n \in 1 .. 3 : own[n] = "long"
  PROVE  ~HasRoom(<< "long" >>, own)
<1>1. PICK s : s = << "long" >> \o own
  OBVIOUS
<1>2. s \in Seq(Kinds) /\ Len(s) = Len(own) + 1 /\ s[1] = "long"
      /\ \A n \in 1 .. Len(own) : s[n + 1] = own[n]
  BY <1>1, AboveLong
<1>3. CASE Len(own) = 2 /\ own[1] = "long" /\ own[2] = "long"
  <2>1. Len(s) = 3 /\ s[1 + 1] = "long" /\ s[2 + 1] = "long"
    BY <1>2, <1>3
  <2>2. \A n \in 1 .. 3 : s[n] = "long"
    BY <1>2, <2>1
  <2>. QED  BY <1>1, <1>2, <2>1, <2>2, ThreeLongsDoNot DEF HasRoom
<1>4. CASE Len(own) = 3 /\ \E n \in 1 .. 3 : own[n] = "long"
  <2>1. PICK n \in 1 .. 3 : own[n] = "long"
    BY <1>4
  <2>2. Len(s) = 4 /\ DOMAIN s = 1 .. 4 /\ 1 \in DOMAIN s /\ n + 1 \in DOMAIN s
        /\ 1 # n + 1 /\ s[n + 1] = "long"
    BY <1>2, <1>4, <2>1
  <2>3. TwoLongs(s)
    BY <1>2, <2>2 DEF TwoLongs
  <2>. QED  BY <1>1, <1>2, <2>2, <2>3, FourDoNot DEF HasRoom
<1>. QED  BY <1>3, <1>4

(* Above a long there is room for one register's value, and for another one *)
(* if it is not loaded.                                                     *)
LEMMA RoomAboveLong ==
  ASSUME NEW own
  PROVE  /\ own \in {<< >>, << "ref" >>, << "long" >>, << "ref", "int" >>, << "long", "ref" >>,
                     << "long", "int" >>} => HasRoom(<< "long" >>, own)
         /\ own \in {<< "long", "ref", "int" >>, << "long", "long" >>,
                     << "ref", "int", "long" >>} => ~HasRoom(<< "long" >>, own)
<1>1. "ref" \in Kinds /\ "int" \in Kinds /\ "long" \in Kinds /\ "ref" # "long" /\ "int" # "long"
  BY DEF Kinds
<1>2. ASSUME own = << >> PROVE HasRoom(<< "long" >>, own)
  <2>1. own \in Seq(Kinds) /\ Len(own) = 0
    BY <1>2
  <2>2. Len(own) <= 2 /\ Len(own) # 2
    BY <2>1
  <2>. QED  BY <2>1, <2>2, RoomForTwo
<1>3. ASSUME NEW x \in Kinds, own = << x >> PROVE HasRoom(<< "long" >>, own)
  <2>1. own \in Seq(Kinds) /\ Len(own) = 1
    BY <1>3
  <2>2. Len(own) <= 2 /\ Len(own) # 2
    BY <2>1
  <2>. QED  BY <2>1, <2>2, RoomForTwo
<1>7. ASSUME NEW x \in Kinds, NEW y \in Kinds, own = << x, y >>, y # "long"
      PROVE  HasRoom(<< "long" >>, own)
  <2>1. own \in Seq(Kinds) /\ Len(own) = 2 /\ own[2] = y
    BY <1>7
  <2>2. Len(own) <= 2
    BY <2>1
  <2>3. own[2] # "long"
    BY <1>7, <2>1
  <2>. QED  BY <2>1, <2>2, <2>3, RoomForTwo
<1>4. ASSUME own = << "long", "long" >> PROVE ~HasRoom(<< "long" >>, own)
  <2>1. own \in Seq(Kinds) /\ Len(own) = 2 /\ own[1] = "long" /\ own[2] = "long"
    BY <1>1, <1>4
  <2>. QED  BY <2>1, NoRoomForThree
<1>5. ASSUME own = << "long", "ref", "int" >> PROVE ~HasRoom(<< "long" >>, own)
  <2>1. own \in Seq(Kinds) /\ Len(own) = 3 /\ own[1] = "long"
    BY <1>1, <1>5
  <2>. QED  BY <2>1, NoRoomForThree
<1>6. ASSUME own = << "ref", "int", "long" >> PROVE ~HasRoom(<< "long" >>, own)
  <2>1. own \in Seq(Kinds) /\ Len(own) = 3 /\ own[3] = "long"
    BY <1>1, <1>6
  <2>. QED  BY <2>1, NoRoomForThree
<1>. QED  BY <1>1, <1>2, <1>3, <1>4, <1>5, <1>6, <1>7

-----------------------------------------------------------------------------
(* The instructions of an element.                                          *)

(* From a place with a stack the JVM gets to another place with another     *)
(* stack, if there is room, and rejects the method if not.                  *)
Does(place, below, own, long, next, after) ==
  ChecksAt(place, below, own, TRUE, long) =>
    IF HasRoom(below, after) THEN Passes(next, below, after, TRUE, long) ELSE ~InstructionFits

(* What a straight opcode does, unless it stores the long.                  *)
LEMMA StraightDoes ==
  ASSUME Reads, NEW op, NEW width \in Nat, IsStraight(op, width), op # JVM_RETURN,
         NEW before, NEW after, Moves(op, before, after), NEW below \in Seq(Kinds),
         NEW place \in Nat, NEW long \in BOOLEAN, At(code, place) = op,
         op = JVM_LLOAD_2 => long, op # JVM_LSTORE_2
  PROVE  Does(place, below, before, long, place + width, after)
<1>. SUFFICES ASSUME ChecksAt(place, below, before, TRUE, long)
              PROVE  IF HasRoom(below, after)
                     THEN Passes(place + width, below, after, TRUE, long)
                     ELSE ~InstructionFits
  BY DEF Does
<1>1. PICK array \in BOOLEAN : array = TRUE
  OBVIOUS
<1>2. ChecksAt(place, below, before, array, long) /\ (op = JVM_ALOAD_1 => array)
  BY <1>1
<1>3. IF HasRoom(below, after)
      THEN Passes(place + width, below, after,
                  array \/ op = JVM_ASTORE_1, long \/ op = JVM_LSTORE_2)
      ELSE ~InstructionFits
  BY <1>2, CheckStraight
<1>4. (array \/ op = JVM_ASTORE_1) = TRUE /\ (long \/ op = JVM_LSTORE_2) = long
  BY <1>1
<1>. QED  BY <1>3, <1>4

(* Opcodes are different from each other.                                   *)
LEMMA OtherOpcodes ==
  /\ {JVM_RETURN, JVM_LSTORE_2, JVM_LLOAD_2} \cap
       {JVM_ALOAD_1, JVM_BIPUSH, JVM_LALOAD, JVM_LDC_W, JVM_I2L, JVM_LADD, JVM_LCMP,
        JVM_POP2, JVM_LASTORE} = {}
  /\ JVM_RETURN # JVM_LSTORE_2 /\ JVM_RETURN # JVM_LLOAD_2 /\ JVM_LSTORE_2 # JVM_LLOAD_2
  /\ {JVM_RETURN, JVM_ALOAD_1, JVM_LLOAD_2, JVM_LSTORE_2} \cap
       {JVM_GETSTATIC, JVM_INVOKEVIRTUAL, JVM_CHECKCAST, JVM_ASTORE_1} = {}
  /\ JVM_ASTORE_1 \notin {JVM_GETSTATIC, JVM_INVOKEVIRTUAL, JVM_CHECKCAST, JVM_LSTORE_2}
  /\ JVM_ALOAD_1 # JVM_LSTORE_2
BY DEF JVM_BIPUSH, JVM_LDC_W, JVM_LLOAD_2, JVM_ALOAD_1, JVM_LALOAD, JVM_LSTORE_2,
       JVM_ASTORE_1, JVM_LASTORE, JVM_POP2, JVM_LADD, JVM_I2L, JVM_LCMP, JVM_RETURN,
       JVM_GETSTATIC, JVM_INVOKEVIRTUAL, JVM_CHECKCAST

(* Loading a register puts its value on top of what there is.               *)
LEMMA LoadDoes ==
  ASSUME Reads, NEW below \in Seq(Kinds), NEW place \in Nat, NEW r, Loads(r, place),
         NEW long \in BOOLEAN
  PROVE  /\ Does(place, below, << >>, long, place + 1, << "ref" >>)
         /\ Does(place + 1, below, << "ref" >>, long, place + 3, << "ref", "int" >>)
         /\ Does(place + 3, below, << "ref", "int" >>, long, place + 4, << "long" >>)
         /\ Does(place, below, << "long" >>, long, place + 1, << "long", "ref" >>)
         /\ Does(place + 1, below, << "long", "ref" >>, long,
                 place + 3, << "long", "ref", "int" >>)
         /\ Does(place + 3, below, << "long", "ref", "int" >>, long,
                 place + 4, << "long", "long" >>)
<1>1. /\ place + 1 \in Nat /\ place + 3 \in Nat
      /\ (place + 1) + 2 = place + 3 /\ (place + 3) + 1 = place + 4
  OBVIOUS
<1>2. /\ IsStraight(JVM_ALOAD_1, 1) /\ IsStraight(JVM_BIPUSH, 2) /\ IsStraight(JVM_LALOAD, 1)
      /\ 1 \in Nat /\ 2 \in Nat
  BY Straight
<1>3. /\ JVM_RETURN \notin {JVM_ALOAD_1, JVM_BIPUSH, JVM_LALOAD}
      /\ JVM_LLOAD_2 \notin {JVM_ALOAD_1, JVM_BIPUSH, JVM_LALOAD}
      /\ JVM_LSTORE_2 \notin {JVM_ALOAD_1, JVM_BIPUSH, JVM_LALOAD}
  BY OtherOpcodes
<1>4. /\ At(code, place) = JVM_ALOAD_1 /\ At(code, place + 1) = JVM_BIPUSH
      /\ At(code, place + 3) = JVM_LALOAD
  BY DEF Loads
<1>5. ASSUME NEW before, NEW after, Moves(JVM_ALOAD_1, before, after)
      PROVE  Does(place, below, before, long, place + 1, after)
  BY <1>1, <1>2, <1>3, <1>4, <1>5, StraightDoes
<1>6. ASSUME NEW before, NEW after, Moves(JVM_BIPUSH, before, after)
      PROVE  Does(place + 1, below, before, long, place + 3, after)
  <2>1. Does(place + 1, below, before, long, (place + 1) + 2, after)
    BY <1>1, <1>2, <1>3, <1>4, <1>6, StraightDoes
  <2>. QED  BY <1>1, <2>1
<1>7. ASSUME NEW before, NEW after, Moves(JVM_LALOAD, before, after)
      PROVE  Does(place + 3, below, before, long, place + 4, after)
  <2>1. Does(place + 3, below, before, long, (place + 3) + 1, after)
    BY <1>1, <1>2, <1>3, <1>4, <1>7, StraightDoes
  <2>. QED  BY <1>1, <2>1
<1>. QED  BY <1>5, <1>6, <1>7, MoveTable

(* What an element ends up leaving on the stack, if it began with nothing.  *)
Spare(e) == IF LeavesLong(e) THEN << "long" >> ELSE << >>

(* In the code of an element that starts at s: loading what it works on,    *)
Loading(e, s, below, long, o, c) ==
  \/ StateAt(o, c, s + 1, below, << "ref" >>, TRUE, long)
  \/ StateAt(o, c, s + 3, below, << "ref", "int" >>, TRUE, long)
  \/ StateAt(o, c, s + 4, below, << "long" >>, TRUE, long)
  \/ ~IsAddi(e) /\ StateAt(o, c, s + 5, below, << "long", "ref" >>, TRUE, long)
  \/ IsAddi(e) /\ StateAt(o, c, s + 7, below, << "long", "int" >>, TRUE, long)

(* computing, which only goes well if the element found the stack empty,    *)
Computing(e, s, long, o, c) ==
  \/ ~IsAddi(e) /\ StateAt(o, c, s + 7, << >>, << "long", "ref", "int" >>, TRUE, long)
  \/ ~LeavesLong(e) /\ StateAt(o, c, s + 8, << >>, << "long", "long" >>, TRUE, long)

(* storing what it computed, for which only an empty stack has room,        *)
Storing(e, place, long, o, c) ==
  /\ ~IsJump(e)
  /\ \/ StateAt(o, c, place, Spare(e), << "long" >>, TRUE, long)
     \/ /\ e.rd # X0
        /\ \/ StateAt(o, c, place + 1, Spare(e), << >>, TRUE, TRUE)
           \/ StateAt(o, c, place + 2, Spare(e), << "ref" >>, TRUE, TRUE)
           \/ StateAt(o, c, place + 4, Spare(e), << "ref", "int" >>, TRUE, TRUE)
           \/ /\ ~LeavesLong(e)
              /\ StateAt(o, c, place + 5, << >>, << "ref", "int", "long" >>, TRUE, TRUE)

(* jumping, for which the frames have it that a long has been stored.       *)
Jumping(e, s, long, o, c) ==
  /\ IsJump(e)
  /\ \/ StateAt(o, c, s + 9, << >>, << "int" >>, TRUE, long)
     \/ long /\ StateAt(o, c, s + 12, << >>, << >>, TRUE, TRUE)

InElement(m, o, c) ==
  /\ WritesCode(ir[m]) /\ ClearUpTo(starts[m] + 1, starts[m])
  /\ \/ Loading(ir[m], starts[m], Left(starts[m]), LongStored(starts[m]), o, c)
     \/ /\ Left(starts[m]) = << >>
        /\ \/ Computing(ir[m], starts[m], LongStored(starts[m]), o, c)
           \/ Storing(ir[m], StorePlace(ir[m], starts[m]), LongStored(starts[m]), o, c)
           \/ Jumping(ir[m], starts[m], LongStored(starts[m]), o, c)

(* At the end of an element: behind it, or nowhere after a goto_w, which    *)
(* has a frame behind it.                                                   *)
Leaves(m, o, c) ==
  /\ o = End(m) /\ ElementClear(m)
  /\ \/ StateAt(o, c, End(m), Left(End(m)), << >>, TRUE, LongStored(End(m)))
     \/ IsJump(ir[m]) /\ c = Unreachable /\ TargetClear(End(m))

(* A loadable program passes, and what passes goes on in the element or     *)
(* leaves it.                                                               *)
Checked(m) ==
  /\ AllClear => InstructionFits
  /\ InstructionFits =>
       \/ InElement(m, offset + Width(Opcode), Outgoing)
       \/ Leaves(m, offset + Width(Opcode), Outgoing)

(* What is left on the stack is a long or nothing.                          *)
LEMMA LeftTypes ==
  ASSUME NEW place
  PROVE  Left(place) \in {<< >>, << "long" >>} /\ LongStored(place) \in BOOLEAN
BY DEF Left, LongStored

(* Above either there is room for two values; only above nothing for more.  *)
LEMMA RoomAbove ==
  ASSUME NEW below \in {<< >>, << "long" >>}, NEW own
  PROVE  /\ below \in Seq(Kinds)
         /\ own \in {<< >>, << "ref" >>, << "long" >>, << "ref", "int" >>, << "long", "ref" >>,
                     << "long", "int" >>} => HasRoom(below, own)
         /\ own \in {<< "long", "ref", "int" >>, << "long", "long" >>,
                     << "ref", "int", "long" >>} => (HasRoom(below, own) <=> below = << >>)
<1>1. "long" \in Kinds
  BY DEF Kinds
<1>2. << >> \in Seq(Kinds) /\ << "long" >> \in Seq(Kinds) /\ << "long" >> # << >>
  BY <1>1
<1>3. own \in {<< >>, << "ref" >>, << "long" >>, << "ref", "int" >>, << "long", "ref" >>,
               << "long", "int" >>, << "long", "ref", "int" >>, << "long", "long" >>,
               << "ref", "int", "long" >>} => own \in Stacks
  BY DEF Stacks
<1>4. own \in Stacks => HasRoom(<< >>, own)
  BY RoomAboveNothing
<1>5. CASE below = << >>
  BY <1>2, <1>3, <1>4, <1>5
<1>6. CASE below = << "long" >>
  BY <1>2, <1>6, RoomAboveLong
<1>. QED  BY <1>5, <1>6

(* Loading the first register an element works on.                          *)
LEMMA FirstLoadChecked ==
  ASSUME Reads, NEW m \in DOMAIN ir, WritesCode(ir[m]), ClearUpTo(starts[m] + 1, starts[m]),
         NEW s \in Nat, s = starts[m], NEW below, below = Left(s),
         NEW long, long = LongStored(s),
         \/ ChecksAt(s, below, << >>, TRUE, long)
         \/ ChecksAt(s + 1, below, << "ref" >>, TRUE, long)
         \/ ChecksAt(s + 3, below, << "ref", "int" >>, TRUE, long)
  PROVE  Checked(m)
<1>1. below \in {<< >>, << "long" >>} /\ long \in BOOLEAN /\ below \in Seq(Kinds)
  BY LeftTypes, RoomAbove
<1>2. \E r : Loads(r, s)
  BY R3Opcodes, AddiOpcodes, JumpOpcodes DEF Reads, WritesCode
<1>3. /\ Does(s, below, << >>, long, s + 1, << "ref" >>)
      /\ Does(s + 1, below, << "ref" >>, long, s + 3, << "ref", "int" >>)
      /\ Does(s + 3, below, << "ref", "int" >>, long, s + 4, << "long" >>)
  BY <1>1, <1>2, LoadDoes
<1>4. /\ HasRoom(below, << "ref" >>) /\ HasRoom(below, << "ref", "int" >>)
      /\ HasRoom(below, << "long" >>)
  BY <1>1, RoomAbove
<1>5. \/ Passes(s + 1, below, << "ref" >>, TRUE, long)
      \/ Passes(s + 3, below, << "ref", "int" >>, TRUE, long)
      \/ Passes(s + 4, below, << "long" >>, TRUE, long)
  BY <1>3, <1>4 DEF Does
<1>6. InstructionFits /\ Loading(ir[m], s, below, long, offset + Width(Opcode), Outgoing)
  BY <1>5 DEF Passes, Loading
<1>. QED  BY <1>6 DEF Checked, InElement

(* In a loadable program every element and every target is clear.           *)
LEMMA AllClearMeans ==
  ASSUME Compiled, AllClear
  PROVE  /\ \A m \in DOMAIN ir : WritesCode(ir[m]) => ElementClear(m)
         /\ \A target \in BranchTargets : TargetClear(target)
<1>1. \A target \in BranchTargets : target < Len(code)
  BY TargetsAreStarts
<1>2. \A m \in DOMAIN ir : End(m) <= Len(code)
  BY CompiledTypes
<1>. QED  BY <1>1, <1>2 DEF AllClear, ClearUpTo

(* Loading the second register, on top of the first one's value.            *)
LEMMA SecondLoadChecked ==
  ASSUME Reads, NEW m \in DOMAIN ir, WritesCode(ir[m]), ~IsAddi(ir[m]),
         ClearUpTo(starts[m] + 1, starts[m]),
         NEW s \in Nat, s = starts[m], NEW below, below = Left(s),
         NEW long, long = LongStored(s),
         \/ ChecksAt(s + 4, below, << "long" >>, TRUE, long)
         \/ ChecksAt(s + 5, below, << "long", "ref" >>, TRUE, long)
         \/ below = << >> /\ ChecksAt(s + 7, << >>, << "long", "ref", "int" >>, TRUE, long)
  PROVE  Checked(m)
<1>1. below \in {<< >>, << "long" >>} /\ long \in BOOLEAN /\ below \in Seq(Kinds)
  BY LeftTypes, RoomAbove
<1>2. \E r : Loads(r, s + 4)
  BY R3Opcodes, JumpOpcodes DEF Reads, WritesCode
<1>3. s + 4 \in Nat /\ (s + 4) + 1 = s + 5 /\ (s + 4) + 3 = s + 7 /\ (s + 4) + 4 = s + 8
  OBVIOUS
<1>4. /\ Does(s + 4, below, << "long" >>, long, s + 5, << "long", "ref" >>)
      /\ Does(s + 5, below, << "long", "ref" >>, long, s + 7, << "long", "ref", "int" >>)
      /\ Does(s + 7, below, << "long", "ref", "int" >>, long, s + 8, << "long", "long" >>)
  <2>1. /\ Does(s + 4, below, << "long" >>, long, (s + 4) + 1, << "long", "ref" >>)
        /\ Does((s + 4) + 1, below, << "long", "ref" >>, long,
                (s + 4) + 3, << "long", "ref", "int" >>)
        /\ Does((s + 4) + 3, below, << "long", "ref", "int" >>, long,
                (s + 4) + 4, << "long", "long" >>)
    BY <1>1, <1>2, <1>3, LoadDoes
  <2>. QED  BY <1>3, <2>1
<1>5. /\ HasRoom(below, << "long", "ref" >>)
      /\ HasRoom(below, << "long", "ref", "int" >>) <=> below = << >>
      /\ HasRoom(below, << "long", "long" >>) <=> below = << >>
  BY <1>1, RoomAbove
<1>6. AllClear => below = << >>
  BY AllClearMeans DEF Reads, ElementClear
<1>7. CASE ChecksAt(s + 4, below, << "long" >>, TRUE, long)
  <2>1. Passes(s + 5, below, << "long", "ref" >>, TRUE, long)
    BY <1>4, <1>5, <1>7 DEF Does
  <2>2. InstructionFits /\ Loading(ir[m], s, below, long, offset + Width(Opcode), Outgoing)
    BY <2>1 DEF Passes, Loading
  <2>. QED  BY <2>2 DEF Checked, InElement
<1>8. CASE ChecksAt(s + 5, below, << "long", "ref" >>, TRUE, long)
  <2>1. IF below = << >> THEN Passes(s + 7, below, << "long", "ref", "int" >>, TRUE, long)
        ELSE ~InstructionFits
    BY <1>4, <1>5, <1>8 DEF Does
  <2>2. below = << >> => /\ InstructionFits
                         /\ Computing(ir[m], s, long, offset + Width(Opcode), Outgoing)
    BY <2>1 DEF Passes, Computing
  <2>. QED  BY <1>6, <2>1, <2>2 DEF Checked, InElement
<1>9. CASE below = << >> /\ ChecksAt(s + 7, << >>, << "long", "ref", "int" >>, TRUE, long)
  <2>1. Passes(s + 8, below, << "long", "long" >>, TRUE, long)
    BY <1>4, <1>5, <1>9 DEF Does
  <2>2. InstructionFits /\ StateAt(offset + Width(Opcode), Outgoing, s + 8,
                                   << >>, << "long", "long" >>, TRUE, long)
    BY <1>9, <2>1 DEF Passes
  <2>3. CASE ~LeavesLong(ir[m])
    BY <1>9, <2>2, <2>3 DEF Checked, InElement, Computing
  <2>4. CASE LeavesLong(ir[m])
    <3>1. IsR3(ir[m]) /\ ir[m].mnemonic # "ADD" /\ ~IsJump(ir[m])
      BY <2>4, OneKind DEF LeavesLong
    <3>2. StorePlace(ir[m], s) = s + 8
      BY <3>1, R3Opcodes DEF Reads
    <3>3. << >> \o << "long", "long" >> = Spare(ir[m]) \o << "long" >>
      <4>1. "long" \in Kinds
        BY DEF Kinds
      <4>2. << "long" >> \o << "long" >> = << "long", "long" >>
        BY <4>1, SmallStacks
      <4>3. << >> \o << "long", "long" >> = << "long", "long" >>
        BY <4>1
      <4>. QED  BY <2>4, <4>2, <4>3 DEF Spare
    <3>4. StateAt(offset + Width(Opcode), Outgoing, StorePlace(ir[m], s),
                  Spare(ir[m]), << "long" >>, TRUE, long)
      BY <2>2, <3>2, <3>3 DEF StateAt
    <3>5. Storing(ir[m], StorePlace(ir[m], s), long, offset + Width(Opcode), Outgoing)
      BY <3>1, <3>4 DEF Storing
    <3>. QED  BY <1>9, <2>2, <3>5 DEF Checked, InElement
  <2>. QED  BY <2>3, <2>4
<1>. QED  BY <1>7, <1>8, <1>9

(* Loading a constant.                                                      *)
LEMMA ConstantChecked ==
  ASSUME Reads, NEW m \in DOMAIN ir, IsAddi(ir[m]), ClearUpTo(starts[m] + 1, starts[m]),
         NEW s \in Nat, s = starts[m], NEW below, below = Left(s),
         NEW long, long = LongStored(s),
         \/ ChecksAt(s + 4, below, << "long" >>, TRUE, long)
         \/ ChecksAt(s + 7, below, << "long", "int" >>, TRUE, long)
  PROVE  Checked(m)
<1>1. below \in {<< >>, << "long" >>} /\ long \in BOOLEAN /\ below \in Seq(Kinds)
  BY LeftTypes, RoomAbove
<1>2. At(code, s + 4) = JVM_LDC_W /\ At(code, s + 7) = JVM_I2L
  BY AddiOpcodes DEF Reads
<1>3. s + 4 \in Nat /\ s + 7 \in Nat /\ (s + 4) + 3 = s + 7 /\ (s + 7) + 1 = s + 8
  OBVIOUS
<1>4. IsStraight(JVM_LDC_W, 3) /\ IsStraight(JVM_I2L, 1) /\ 3 \in Nat /\ 1 \in Nat
  BY Straight
<1>5. /\ JVM_RETURN \notin {JVM_LDC_W, JVM_I2L} /\ JVM_LLOAD_2 \notin {JVM_LDC_W, JVM_I2L}
      /\ JVM_LSTORE_2 \notin {JVM_LDC_W, JVM_I2L}
  BY OtherOpcodes
<1>6. /\ Moves(JVM_LDC_W, << "long" >>, << "long", "int" >>)
      /\ Moves(JVM_I2L, << "long", "int" >>, << "long", "long" >>)
  BY MoveTable
<1>7. Does(s + 4, below, << "long" >>, long, s + 7, << "long", "int" >>)
  <2>1. Does(s + 4, below, << "long" >>, long, (s + 4) + 3, << "long", "int" >>)
    BY <1>1, <1>2, <1>3, <1>4, <1>5, <1>6, StraightDoes, SMTT(30)
  <2>. QED  BY <1>3, <2>1
<1>8. Does(s + 7, below, << "long", "int" >>, long, s + 8, << "long", "long" >>)
  <2>1. Does(s + 7, below, << "long", "int" >>, long, (s + 7) + 1, << "long", "long" >>)
    BY <1>1, <1>2, <1>3, <1>4, <1>5, <1>6, StraightDoes, SMTT(30)
  <2>. QED  BY <1>3, <2>1
<1>9. /\ HasRoom(below, << "long", "int" >>)
      /\ HasRoom(below, << "long", "long" >>) <=> below = << >>
  BY <1>1, RoomAbove
<1>10. AllClear => below = << >>
  BY AllClearMeans DEF Reads, ElementClear, WritesCode
<1>11. WritesCode(ir[m]) /\ ~LeavesLong(ir[m])
  BY OneKind DEF WritesCode, LeavesLong
<1>12. CASE ChecksAt(s + 4, below, << "long" >>, TRUE, long)
  <2>1. Passes(s + 7, below, << "long", "int" >>, TRUE, long)
    BY <1>7, <1>9, <1>12 DEF Does
  <2>2. InstructionFits /\ Loading(ir[m], s, below, long, offset + Width(Opcode), Outgoing)
    BY <2>1 DEF Passes, Loading
  <2>. QED  BY <1>11, <2>2 DEF Checked, InElement
<1>13. CASE ChecksAt(s + 7, below, << "long", "int" >>, TRUE, long)
  <2>1. IF below = << >> THEN Passes(s + 8, below, << "long", "long" >>, TRUE, long)
        ELSE ~InstructionFits
    BY <1>8, <1>9, <1>13 DEF Does
  <2>2. below = << >> => /\ InstructionFits
                         /\ Computing(ir[m], s, long, offset + Width(Opcode), Outgoing)
    BY <1>11, <2>1 DEF Passes, Computing
  <2>. QED  BY <1>10, <1>11, <2>1, <2>2 DEF Checked, InElement
<1>. QED  BY <1>12, <1>13

(* Adding or comparing the two values.                                      *)
LEMMA ResultChecked ==
  ASSUME Reads, NEW m \in DOMAIN ir, WritesCode(ir[m]), ~LeavesLong(ir[m]),
         ClearUpTo(starts[m] + 1, starts[m]), Left(starts[m]) = << >>,
         NEW s \in Nat, s = starts[m], NEW long, long = LongStored(s),
         ChecksAt(s + 8, << >>, << "long", "long" >>, TRUE, long)
  PROVE  Checked(m)
<1>1. long \in BOOLEAN /\ << >> \in Seq(Kinds)
  BY LeftTypes
<1>2. s + 8 \in Nat /\ (s + 8) + 1 = s + 9 /\ 1 \in Nat
  OBVIOUS
<1>3. << "long" >> \in Stacks /\ << "int" >> \in Stacks
  BY DEF Stacks
<1>4. HasRoom(<< >>, << "long" >>) /\ HasRoom(<< >>, << "int" >>)
  BY <1>3, RoomAboveNothing
<1>5. CASE ~IsJump(ir[m])
  <2>1. At(code, s + 8) = JVM_LADD /\ StorePlace(ir[m], s) = s + 9
    BY <1>5, R3Opcodes, AddiOpcodes DEF Reads, WritesCode, LeavesLong
  <2>2. /\ IsStraight(JVM_LADD, 1) /\ Moves(JVM_LADD, << "long", "long" >>, << "long" >>)
        /\ JVM_LADD # JVM_RETURN /\ JVM_LADD # JVM_LLOAD_2 /\ JVM_LADD # JVM_LSTORE_2
    BY Straight, MoveTable, OtherOpcodes
  <2>3. Does(s + 8, << >>, << "long", "long" >>, long, (s + 8) + 1, << "long" >>)
    BY <1>1, <1>2, <2>1, <2>2, StraightDoes
  <2>4. Passes(s + 9, << >>, << "long" >>, TRUE, long)
    BY <1>2, <1>4, <2>3 DEF Does
  <2>5. Spare(ir[m]) = << >>
    BY DEF Spare
  <2>6. /\ InstructionFits
        /\ Storing(ir[m], StorePlace(ir[m], s), long, offset + Width(Opcode), Outgoing)
    BY <1>5, <2>1, <2>4, <2>5 DEF Passes, Storing
  <2>. QED  BY <2>6 DEF Checked, InElement
<1>6. CASE IsJump(ir[m])
  <2>1. At(code, s + 8) = JVM_LCMP
    BY <1>6, JumpOpcodes DEF Reads
  <2>2. /\ IsStraight(JVM_LCMP, 1) /\ Moves(JVM_LCMP, << "long", "long" >>, << "int" >>)
        /\ JVM_LCMP # JVM_RETURN /\ JVM_LCMP # JVM_LLOAD_2 /\ JVM_LCMP # JVM_LSTORE_2
    BY Straight, MoveTable, OtherOpcodes
  <2>3. Does(s + 8, << >>, << "long", "long" >>, long, (s + 8) + 1, << "int" >>)
    BY <1>1, <1>2, <2>1, <2>2, StraightDoes
  <2>4. Passes(s + 9, << >>, << "int" >>, TRUE, long)
    BY <1>2, <1>4, <2>3 DEF Does
  <2>5. InstructionFits /\ Jumping(ir[m], s, long, offset + Width(Opcode), Outgoing)
    BY <1>6, <2>4 DEF Passes, Jumping
  <2>. QED  BY <2>5 DEF Checked, InElement
<1>. QED  BY <1>5, <1>6

(* What storing to X0, throwing the value away, leaves.                     *)
LEMMA DiscardChecked ==
  ASSUME Reads, NEW m \in DOMAIN ir, IsR3(ir[m]) \/ IsAddi(ir[m]), ir[m].rd = X0,
         ClearUpTo(starts[m] + 1, starts[m]), Left(starts[m]) = << >>,
         NEW s \in Nat, s = starts[m], NEW long, long = LongStored(s),
         NEW place \in Nat, place = StorePlace(ir[m], s),
         NEW spare, spare = Spare(ir[m]),
         ChecksAt(place, spare, << "long" >>, TRUE, long)
  PROVE  Checked(m)
<1>1. long \in BOOLEAN /\ spare \in {<< >>, << "long" >>} /\ spare \in Seq(Kinds)
  <2>1. spare \in {<< >>, << "long" >>}
    BY DEF Spare
  <2>. QED  BY <2>1, LeftTypes, RoomAbove
<1>2. Stores(ir[m].rd, place) /\ End(m) = place + StoreLength(ir[m].rd)
  BY R3Opcodes, AddiOpcodes DEF Reads
<1>3. At(code, place) = JVM_POP2 /\ End(m) = place + 1 /\ 1 \in Nat
  BY <1>2 DEF Stores, StoreLength
<1>4. /\ IsStraight(JVM_POP2, 1) /\ Moves(JVM_POP2, << "long" >>, << >>)
      /\ JVM_POP2 # JVM_RETURN /\ JVM_POP2 # JVM_LLOAD_2 /\ JVM_POP2 # JVM_LSTORE_2
  BY Straight, MoveTable, OtherOpcodes
<1>5. Does(place, spare, << "long" >>, long, place + 1, << >>)
  BY <1>1, <1>3, <1>4, StraightDoes
<1>6. HasRoom(spare, << >>)
  BY <1>1, RoomAbove
<1>7. Passes(place + 1, spare, << >>, TRUE, long)
  BY <1>5, <1>6 DEF Does
<1>8. WritesCode(ir[m]) /\ ~StoresLong(ir[m])
  BY DEF WritesCode, StoresLong
<1>9. LongStored(End(m)) = long /\ Left(End(m)) = spare
  <2>1. /\ LongStored(End(m)) <=> LongStored(s) \/ StoresLong(ir[m])
        /\ Left(End(m)) = IF LeavesLong(ir[m]) THEN << "long" >> ELSE Left(s)
    BY <1>8, BehindElement DEF Reads
  <2>2. LongStored(End(m)) \in BOOLEAN
    BY LeftTypes
  <2>. QED  BY <1>1, <1>8, <2>1, <2>2 DEF Spare
<1>10. InstructionFits /\ Leaves(m, offset + Width(Opcode), Outgoing)
  BY <1>3, <1>7, <1>9 DEF Passes, Leaves, ElementClear, StateAt
<1>. QED  BY <1>10 DEF Checked

(* Storing to another register, by way of local variable 2.                 *)
LEMMA StoreChecked ==
  ASSUME Reads, NEW m \in DOMAIN ir, IsR3(ir[m]) \/ IsAddi(ir[m]), ir[m].rd # X0,
         ClearUpTo(starts[m] + 1, starts[m]), Left(starts[m]) = << >>,
         NEW s \in Nat, s = starts[m], NEW long, long = LongStored(s),
         NEW place \in Nat, place = StorePlace(ir[m], s),
         NEW spare, spare = Spare(ir[m]),
         \/ ChecksAt(place, spare, << "long" >>, TRUE, long)
         \/ ChecksAt(place + 1, spare, << >>, TRUE, TRUE)
         \/ ChecksAt(place + 2, spare, << "ref" >>, TRUE, TRUE)
         \/ ChecksAt(place + 4, spare, << "ref", "int" >>, TRUE, TRUE)
         \/ spare = << >> /\ ChecksAt(place + 5, << >>, << "ref", "int", "long" >>, TRUE, TRUE)
  PROVE  Checked(m)
<1>1. long \in BOOLEAN /\ spare \in {<< >>, << "long" >>} /\ spare \in Seq(Kinds)
      /\ (spare = << >> <=> ~LeavesLong(ir[m]))
  <2>1. spare \in {<< >>, << "long" >>} /\ (spare = << >> <=> ~LeavesLong(ir[m]))
    BY DEF Spare
  <2>. QED  BY <2>1, LeftTypes, RoomAbove
<1>2. Stores(ir[m].rd, place) /\ End(m) = place + StoreLength(ir[m].rd)
  BY R3Opcodes, AddiOpcodes DEF Reads
<1>3. /\ At(code, place) = JVM_LSTORE_2 /\ At(code, place + 1) = JVM_ALOAD_1
      /\ At(code, place + 2) = JVM_BIPUSH /\ At(code, place + 4) = JVM_LLOAD_2
      /\ At(code, place + 5) = JVM_LASTORE /\ End(m) = place + 6
  BY <1>2 DEF Stores, StoreLength
<1>4. /\ place + 1 \in Nat /\ place + 2 \in Nat /\ place + 4 \in Nat /\ place + 5 \in Nat
      /\ (place + 1) + 1 = place + 2 /\ (place + 2) + 2 = place + 4
      /\ (place + 4) + 1 = place + 5 /\ (place + 5) + 1 = place + 6 /\ 1 \in Nat /\ 2 \in Nat
  BY SMTT(30)
<1>5. WritesCode(ir[m]) /\ StoresLong(ir[m]) /\ ~IsJump(ir[m])
  BY OneKind DEF WritesCode, StoresLong
<1>6. AllClear => spare = << >>
  BY <1>1, <1>5, AllClearMeans DEF Reads, ElementClear
<1>7. PICK yes \in BOOLEAN : yes = TRUE
  OBVIOUS
<1>8. /\ JVM_RETURN \notin {JVM_LSTORE_2, JVM_ALOAD_1, JVM_BIPUSH, JVM_LLOAD_2, JVM_LASTORE}
      /\ JVM_LSTORE_2 \notin {JVM_ALOAD_1, JVM_BIPUSH, JVM_LLOAD_2, JVM_LASTORE}
      /\ JVM_LSTORE_2 # JVM_ASTORE_1
  BY OtherOpcodes
<1>9. /\ IsStraight(JVM_LSTORE_2, 1) /\ IsStraight(JVM_ALOAD_1, 1) /\ IsStraight(JVM_BIPUSH, 2)
      /\ IsStraight(JVM_LLOAD_2, 1) /\ IsStraight(JVM_LASTORE, 1)
  BY Straight
<1>10. CASE ChecksAt(place, spare, << "long" >>, TRUE, long)
  <2>1. PICK op : op = JVM_LSTORE_2
    OBVIOUS
  <2>2. /\ ChecksAt(place, spare, << "long" >>, yes, long) /\ At(code, place) = op
        /\ op # JVM_RETURN /\ IsStraight(op, 1) /\ Moves(op, << "long" >>, << >>)
        /\ op = JVM_ALOAD_1 => yes
        /\ op = JVM_LLOAD_2 => long
    BY <1>3, <1>7, <1>8, <1>9, <1>10, <2>1, MoveTable
  <2>3. IF HasRoom(spare, << >>)
        THEN Passes(place + 1, spare, << >>, yes \/ op = JVM_ASTORE_1,
                    long \/ op = JVM_LSTORE_2)
        ELSE ~InstructionFits
    <3>1. PICK before : before = << "long" >>
      OBVIOUS
    <3>2. PICK after : after = << >>
      OBVIOUS
    <3>3. ChecksAt(place, spare, before, yes, long) /\ Moves(op, before, after)
      BY <2>2, <3>1, <3>2
    <3>4. IF HasRoom(spare, after)
          THEN Passes(place + 1, spare, after, yes \/ op = JVM_ASTORE_1,
                      long \/ op = JVM_LSTORE_2)
          ELSE ~InstructionFits
      <4>1. yes \in BOOLEAN /\ long \in BOOLEAN /\ spare \in Seq(Kinds) /\ 1 \in Nat
        BY <1>1, <1>4, <1>7
      <4>. QED  BY <2>2, <3>3, <4>1, CheckStraight
    <3>. QED  BY <3>2, <3>4
  <2>4. (yes \/ op = JVM_ASTORE_1) = TRUE /\ (long \/ op = JVM_LSTORE_2) = TRUE
    BY <1>7, <2>1
  <2>5. HasRoom(spare, << >>)
    BY <1>1, RoomAbove
  <2>6. Passes(place + 1, spare, << >>, TRUE, TRUE)
    BY <2>3, <2>4, <2>5
  <2>7. /\ InstructionFits
        /\ Storing(ir[m], StorePlace(ir[m], s), long, offset + Width(Opcode), Outgoing)
    BY <1>5, <2>6 DEF Passes, Storing
  <2>. QED  BY <1>5, <2>7 DEF Checked, InElement
<1>11. CASE ChecksAt(place + 1, spare, << >>, TRUE, TRUE)
  <2>1. Moves(JVM_ALOAD_1, << >>, << "ref" >>)
    BY MoveTable
  <2>2. Does(place + 1, spare, << >>, yes, (place + 1) + 1, << "ref" >>)
    BY <1>1, <1>3, <1>4, <1>7, <1>8, <1>9, <2>1, StraightDoes
  <2>3. HasRoom(spare, << "ref" >>)
    BY <1>1, RoomAbove
  <2>4. Passes(place + 2, spare, << "ref" >>, TRUE, TRUE)
    BY <1>4, <1>7, <1>11, <2>2, <2>3 DEF Does
  <2>5. /\ InstructionFits
        /\ Storing(ir[m], StorePlace(ir[m], s), long, offset + Width(Opcode), Outgoing)
    BY <1>5, <2>4 DEF Passes, Storing
  <2>. QED  BY <1>5, <2>5 DEF Checked, InElement
<1>12. CASE ChecksAt(place + 2, spare, << "ref" >>, TRUE, TRUE)
  <2>1. Moves(JVM_BIPUSH, << "ref" >>, << "ref", "int" >>)
    BY MoveTable
  <2>2. Does(place + 2, spare, << "ref" >>, yes, (place + 2) + 2, << "ref", "int" >>)
    BY <1>1, <1>3, <1>4, <1>7, <1>8, <1>9, <2>1, StraightDoes
  <2>3. HasRoom(spare, << "ref", "int" >>)
    BY <1>1, RoomAbove
  <2>4. Passes(place + 4, spare, << "ref", "int" >>, TRUE, TRUE)
    BY <1>4, <1>7, <1>12, <2>2, <2>3 DEF Does
  <2>5. /\ InstructionFits
        /\ Storing(ir[m], StorePlace(ir[m], s), long, offset + Width(Opcode), Outgoing)
    BY <1>5, <2>4 DEF Passes, Storing
  <2>. QED  BY <1>5, <2>5 DEF Checked, InElement
<1>13. CASE ChecksAt(place + 4, spare, << "ref", "int" >>, TRUE, TRUE)
  <2>1. Moves(JVM_LLOAD_2, << "ref", "int" >>, << "ref", "int", "long" >>)
    BY MoveTable
  <2>2. Does(place + 4, spare, << "ref", "int" >>, yes, (place + 4) + 1, << "ref", "int", "long" >>)
    BY <1>1, <1>3, <1>4, <1>7, <1>8, <1>9, <2>1, StraightDoes
  <2>3. HasRoom(spare, << "ref", "int", "long" >>) <=> spare = << >>
    BY <1>1, RoomAbove
  <2>4. IF spare = << >> THEN Passes(place + 5, spare, << "ref", "int", "long" >>, TRUE, TRUE)
        ELSE ~InstructionFits
    BY <1>4, <1>7, <1>13, <2>2, <2>3 DEF Does
  <2>5. spare = << >> =>
          /\ InstructionFits
          /\ Storing(ir[m], StorePlace(ir[m], s), long, offset + Width(Opcode), Outgoing)
    BY <1>1, <1>5, <2>4 DEF Passes, Storing
  <2>. QED  BY <1>5, <1>6, <2>4, <2>5 DEF Checked, InElement
<1>14. CASE spare = << >> /\ ChecksAt(place + 5, << >>, << "ref", "int", "long" >>, TRUE, TRUE)
  <2>1. Moves(JVM_LASTORE, << "ref", "int", "long" >>, << >>)
    BY MoveTable
  <2>2. Does(place + 5, spare, << "ref", "int", "long" >>, yes, (place + 5) + 1, << >>)
    BY <1>1, <1>3, <1>4, <1>7, <1>8, <1>9, <2>1, StraightDoes
  <2>3. HasRoom(spare, << >>)
    BY <1>1, RoomAbove
  <2>4. Passes(place + 6, spare, << >>, TRUE, TRUE)
    BY <1>4, <1>7, <1>14, <2>2, <2>3 DEF Does
  <2>5. LongStored(End(m)) = TRUE /\ Left(End(m)) = spare
    <3>1. /\ LongStored(End(m)) <=> LongStored(s) \/ StoresLong(ir[m])
          /\ Left(End(m)) = IF LeavesLong(ir[m]) THEN << "long" >> ELSE Left(s)
      BY <1>5, BehindElement DEF Reads
    <3>2. LongStored(End(m)) \in BOOLEAN
      BY LeftTypes
    <3>. QED  BY <1>1, <1>5, <1>14, <3>1, <3>2
  <2>6. InstructionFits /\ Leaves(m, offset + Width(Opcode), Outgoing)
    BY <1>1, <1>3, <1>14, <2>4, <2>5 DEF Passes, Leaves, ElementClear, StateAt
  <2>. QED  BY <2>6 DEF Checked
<1>. QED  BY <1>10, <1>11, <1>12, <1>13, <1>14

(* A frame's state has nothing on the stack and both locals.                *)
LEMMA FrameIsClear ==
  ASSUME NEW long \in BOOLEAN
  PROVE  /\ FrameState = TypeState(<< >>, TRUE, TRUE)
         /\ Assignable(TypeState(<< >>, TRUE, long)) <=> long
         /\ << >> \o << >> = << >> /\ Slots(<< >>) <= 5
         /\ Unreachable.kinds = << >> /\ ~Unreachable.reachable
<1>1. FrameState = TypeState(<< >>, TRUE, TRUE)
  BY DEF FrameState, TypeState
<1>2. Assignable(TypeState(<< >>, TRUE, long)) <=> long
  <2>1. TypeState(<< >>, TRUE, long).reachable = TRUE
        /\ TypeState(<< >>, TRUE, long).local_2 = long
        /\ FrameState.local_2 = TRUE
    BY DEF FrameState, TypeState
  <2>2. TypeState(<< >>, TRUE, long) = FrameState => long = TRUE
    BY <2>1
  <2>3. long = TRUE => TypeState(<< >>, TRUE, long) = FrameState
    BY <1>1
  <2>. QED  BY <2>1, <2>2, <2>3 DEF Assignable
<1>3. << >> \o << >> = << >>
  OBVIOUS
<1>4. Slots(<< >>) <= 5
  <2>1. << >> \in Stacks
    BY DEF Stacks
  <2>. QED  BY <2>1, StacksAreSmall
<1>5. Unreachable.kinds = << >> /\ ~Unreachable.reachable
  BY DEF Unreachable, FrameState
<1>. QED  BY <1>1, <1>2, <1>3, <1>4, <1>5

(* Checking a branch that takes all that is on the stack and goes to where  *)
(* a frame is: it passes if a long has been stored.                         *)
LEMMA CheckBranch ==
  ASSUME Reads, NEW op \in {JVM_IFEQ, JVM_IFGT, JVM_GOTO_W}, NEW before,
         Moves(op, before, << >>), NEW place \in Nat, NEW long \in BOOLEAN,
         ChecksAt(place, << >>, before, TRUE, long), At(code, place) = op,
         BranchTarget \in BranchTargets
  PROVE  /\ InstructionFits <=> long
         /\ op # JVM_GOTO_W =>
              StateAt(offset + Width(Opcode), Outgoing, place + 3, << >>, << >>, TRUE, long)
         /\ op = JVM_GOTO_W => offset + Width(Opcode) = place + 5 /\ Outgoing = Unreachable
<1>1. Opcode = op /\ offset = place /\ StackLimit = 5 /\ BranchTarget \in Range(Frames)
  BY DEF ChecksAt, StateAt, Reads, Opcode
<1>2. /\ op \in Opcodes /\ op \notin {JVM_ALOAD_1, JVM_LLOAD_2, JVM_RETURN}
      /\ op \notin {JVM_ASTORE_1, JVM_LSTORE_2} /\ (op # JVM_GOTO_W => Width(op) = 3)
      /\ (op = JVM_GOTO_W => Width(op) = 5)
  BY DEF Opcodes, Width, JVM_BIPUSH, JVM_LDC_W, JVM_LLOAD_2, JVM_ALOAD_1, JVM_LALOAD,
         JVM_LSTORE_2, JVM_ASTORE_1, JVM_LASTORE, JVM_POP2, JVM_LADD, JVM_I2L, JVM_LCMP,
         JVM_IFEQ, JVM_IFGT, JVM_RETURN, JVM_GETSTATIC, JVM_INVOKEVIRTUAL, JVM_CHECKCAST,
         JVM_GOTO_W
<1>3. PICK s : s = << >> \o before
  OBVIOUS
<1>4. Results(op) = << >>
  BY DEF Results, JVM_BIPUSH, JVM_LDC_W, JVM_LLOAD_2, JVM_ALOAD_1, JVM_LALOAD,
         JVM_LADD, JVM_I2L, JVM_LCMP, JVM_IFEQ, JVM_IFGT, JVM_GETSTATIC, JVM_INVOKEVIRTUAL,
         JVM_CHECKCAST, JVM_GOTO_W
<1>5. OperandsOnTop(s, op) /\ Below(s, op) = << >> /\ Below(s, op) \o Results(op) = << >>
  <2>1. << >> \in Seq(Kinds)
    OBVIOUS
  <2>2. OperandsOnTop(s, op) /\ Below(s, op) \o Results(op) = << >> \o << >>
    <3>1. PICK b : b = << >>
      OBVIOUS
    <3>2. /\ OperandsOnTop(b \o before, op)
          /\ Below(b \o before, op) \o Results(op) = b \o b
      <4>1. b \in Seq(Kinds) /\ Moves(op, before, b)
        BY <2>1, <3>1
      <4>. QED  BY <4>1, OperandsFound
    <3>. QED  BY <1>3, <3>1, <3>2
  <2>3. PICK rest \in Seq(Kinds) : before = rest \o Operands(op) /\ << >> = rest \o Results(op)
    BY DEF Moves
  <2>4. rest \o << >> = rest
    BY <2>3, ConcatEmptySeq
  <2>5. rest = << >>
    BY <1>4, <2>3, <2>4
  <2>6. << >> \o Operands(op) = Operands(op) /\ Operands(op) \in Seq(Kinds)
    BY OperandTypes, ConcatEmptySeq
  <2>7. s = << >> \o Operands(op)
    BY <1>3, <2>3, <2>5, <2>6
  <2>8. Below(s, op) = << >>
    BY <2>1, <2>6, <2>7, WithoutLast DEF Below
  <2>. QED  BY <2>2, <2>8, FrameIsClear
<1>6. Incoming = TypeState(s, TRUE, long) /\ IncomingFits
  BY <1>3 DEF ChecksAt, StateAt
<1>7. Incoming.kinds = s
  BY <1>6 DEF TypeState
<1>8. AfterOperands = TypeState(<< >>, TRUE, long)
  <2>1. PICK rest : rest = << >>
    OBVIOUS
  <2>2. PICK yes : yes = TRUE
    OBVIOUS
  <2>3. AfterOperands = [Incoming EXCEPT !.kinds = rest]
    BY <1>1, <1>5, <1>7, <2>1 DEF AfterOperands
  <2>4. Incoming = TypeState(s, yes, long)
    BY <1>6, <2>2
  <2>5. AfterOperands = TypeState(rest, yes, long)
    BY <2>3, <2>4, OtherKinds
  <2>. QED  BY <2>1, <2>2, <2>5
<1>9. Assignable(AfterOperands) <=> long
  BY <1>8, FrameIsClear
<1>10. LocalsFit
  BY <1>1, <1>2 DEF LocalsFit
<1>11. op = JVM_GOTO_W => Outgoing = Unreachable
  BY <1>1 DEF Outgoing
<1>12. op # JVM_GOTO_W => Outgoing = TypeState(<< >>, TRUE, long)
  <2>. SUFFICES ASSUME op # JVM_GOTO_W PROVE Outgoing = TypeState(<< >>, TRUE, long)
    OBVIOUS
  <2>1. Opcode \notin {JVM_GOTO_W, JVM_RETURN}
    BY <1>1, <1>2
  <2>2. Outgoing = [AfterOperands EXCEPT
                      !.kinds = @ \o Results(Opcode),
                      !.local_1 = @ \/ Opcode = JVM_ASTORE_1,
                      !.local_2 = @ \/ Opcode = JVM_LSTORE_2]
    BY <2>1 DEF Outgoing
  <2>3. << >> \o Results(op) = << >>
    BY <1>4, FrameIsClear
  <2>. QED  BY <1>1, <1>2, <1>8, <2>2, <2>3 DEF TypeState
<1>13. Slots(Outgoing.kinds) <= StackLimit
  <2>1. Outgoing.kinds = << >>
    <3>1. TypeState(<< >>, TRUE, long).kinds = << >>
      BY DEF TypeState
    <3>. QED  BY <1>11, <1>12, <3>1, FrameIsClear
  <2>. QED  BY <1>1, <2>1, FrameIsClear
<1>14. InstructionFits <=> long
  BY <1>1, <1>2, <1>5, <1>6, <1>7, <1>9, <1>10, <1>13 DEF InstructionFits, BranchFits
<1>. QED  BY <1>1, <1>2, <1>11, <1>12, <1>14, FrameIsClear DEF StateAt

(* A conditional jump: its own frame and that of its label both say that a  *)
(* long has been stored, and so do the programs that pass.                  *)
LEMMA JumpChecked ==
  ASSUME Reads, NEW m \in DOMAIN ir, IsJump(ir[m]),
         ClearUpTo(starts[m] + 1, starts[m]), Left(starts[m]) = << >>,
         NEW s \in Nat, s = starts[m], NEW long, long = LongStored(s),
         \/ ChecksAt(s + 9, << >>, << "int" >>, TRUE, long)
         \/ long /\ ChecksAt(s + 12, << >>, << >>, TRUE, TRUE)
  PROVE  Checked(m)
<1>1. /\ At(code, s + 9) \in {JVM_IFEQ, JVM_IFGT}
      /\ s + 9 + S2At(code, s + 10) = End(m)
      /\ At(code, s + 12) = JVM_GOTO_W
      /\ s + 12 + S4At(code, s + 13) = LabelStart(ir[m].label)
      /\ End(m) = s + 17
  BY JumpOpcodes DEF Reads
<1>2. long \in BOOLEAN /\ WritesCode(ir[m]) /\ ~LeavesLong(ir[m]) /\ ~StoresLong(ir[m])
  BY LeftTypes, OneKind DEF WritesCode, LeavesLong, StoresLong
<1>3. IsConditional(ir[m])
  BY CompiledTypes, JumpsAreConditions DEF Reads
<1>4. End(m) \in BranchTargets /\ LabelStart(ir[m].label) \in BranchTargets
  <2>1. End(m) = starts[m + 1]
    BY <1>2, Grows DEF Reads
  <2>. QED  BY <1>3, <2>1 DEF BranchTargets
<1>5. (LongStored(End(m)) <=> long) /\ Left(End(m)) = << >>
  BY <1>2, BehindElement DEF Reads
<1>6. ElementClear(m)
  BY <1>2 DEF ElementClear
<1>7. /\ s + 9 \in Nat /\ s + 12 \in Nat /\ (s + 9) + 1 = s + 10 /\ (s + 12) + 1 = s + 13
      /\ (s + 9) + 3 = s + 12 /\ (s + 12) + 5 = s + 17
  BY SMTT(30)
<1>8. CASE ChecksAt(s + 9, << >>, << "int" >>, TRUE, long)
  <2>1. PICK op : op = At(code, s + 9)
    OBVIOUS
  <2>2. op \in {JVM_IFEQ, JVM_IFGT, JVM_GOTO_W} /\ op # JVM_GOTO_W
        /\ Moves(op, << "int" >>, << >>)
    <3>1. op \in {JVM_IFEQ, JVM_IFGT}
      BY <1>1, <2>1
    <3>2. JVM_GOTO_W \notin {JVM_IFEQ, JVM_IFGT}
      BY DEF JVM_IFEQ, JVM_IFGT, JVM_GOTO_W
    <3>. QED  BY <3>1, <3>2, MoveTable
  <2>3. BranchTarget \in BranchTargets
    <3>1. Opcode = op /\ offset = s + 9 /\ Method = code
      BY <1>8, <2>1 DEF ChecksAt, StateAt, Reads, Opcode
    <3>2. BranchTarget = (s + 9) + S2At(code, (s + 9) + 1)
      BY <2>2, <3>1 DEF BranchTarget
    <3>. QED  BY <1>1, <1>4, <1>7, <3>2
  <2>4. /\ InstructionFits <=> long
        /\ StateAt(offset + Width(Opcode), Outgoing, (s + 9) + 3, << >>, << >>, TRUE, long)
    <3>1. PICK before : before = << "int" >>
      OBVIOUS
    <3>2. ChecksAt(s + 9, << >>, before, TRUE, long) /\ Moves(op, before, << >>)
      BY <1>8, <2>2, <3>1
    <3>. QED  BY <1>2, <1>7, <2>1, <2>2, <2>3, <3>2, CheckBranch, ZenonT(60)
  <2>5. long => Jumping(ir[m], s, long, offset + Width(Opcode), Outgoing)
    <3>1. long => long = TRUE
      BY <1>2
    <3>. QED  BY <1>7, <2>4, <3>1 DEF Jumping
  <2>6. AllClear => long
    BY <1>4, <1>5, AllClearMeans DEF Reads, TargetClear
  <2>. QED  BY <1>2, <2>4, <2>5, <2>6 DEF Checked, InElement
<1>9. CASE long /\ ChecksAt(s + 12, << >>, << >>, TRUE, TRUE)
  <2>1. PICK op : op = JVM_GOTO_W
    OBVIOUS
  <2>2. op \in {JVM_IFEQ, JVM_IFGT, JVM_GOTO_W} /\ Moves(op, << >>, << >>)
    BY <2>1, MoveTable
  <2>3. BranchTarget \in BranchTargets
    <3>1. Opcode = JVM_GOTO_W /\ offset = s + 12 /\ Method = code
      BY <1>1, <1>9 DEF ChecksAt, StateAt, Reads, Opcode
    <3>2. BranchTarget = (s + 12) + S4At(code, (s + 12) + 1)
      BY <3>1 DEF BranchTarget
    <3>. QED  BY <1>1, <1>4, <1>7, <3>2
  <2>4. InstructionFits /\ offset + Width(Opcode) = (s + 12) + 5 /\ Outgoing = Unreachable
    <3>1. PICK before : before = << >>
      OBVIOUS
    <3>2. PICK yes \in BOOLEAN : yes = TRUE
      OBVIOUS
    <3>3. ChecksAt(s + 12, << >>, before, TRUE, yes) /\ Moves(op, before, << >>)
          /\ At(code, s + 12) = op /\ s + 12 \in Nat
      BY <1>1, <1>7, <1>9, <2>1, <2>2, <3>1, <3>2
    <3>4. InstructionFits <=> yes
      BY <2>2, <2>3, <3>2, <3>3, CheckBranch
    <3>5. op = JVM_GOTO_W => offset + Width(Opcode) = (s + 12) + 5 /\ Outgoing = Unreachable
      BY <2>2, <2>3, <3>2, <3>3, CheckBranch
    <3>. QED  BY <2>1, <3>2, <3>4, <3>5
  <2>5. Leaves(m, offset + Width(Opcode), Outgoing)
    BY <1>1, <1>5, <1>6, <1>7, <1>9, <2>4 DEF Leaves, TargetClear
  <2>. QED  BY <2>4, <2>5 DEF Checked
<1>. QED  BY <1>8, <1>9

-----------------------------------------------------------------------------
(* The elements of the method, one after the other.                         *)

(* In an element is between where it starts and where it ends.              *)
LEMMA InsideElement ==
  ASSUME Compiled, NEW m \in DOMAIN ir, NEW o, NEW c, InElement(m, o, c)
  PROVE  starts[m] < o /\ o < End(m) /\ o \in Nat
<1>1. PICK s : s = starts[m]
  OBVIOUS
<1>2. WritesCode(ir[m])
  BY DEF InElement
<1>3. s \in Nat /\ End(m) \in Nat /\ s + 9 <= End(m)
  BY <1>1, <1>2, Grows
<1>4. CASE Loading(ir[m], starts[m], Left(starts[m]), LongStored(starts[m]), o, c)
  <2>1. o \in {s + 1, s + 3, s + 4, s + 5, s + 7}
    BY <1>1, <1>4 DEF Loading, StateAt
  <2>. QED  BY <1>1, <1>3, <2>1
<1>5. CASE Computing(ir[m], starts[m], LongStored(starts[m]), o, c)
  <2>1. o \in {s + 7, s + 8}
    BY <1>1, <1>5 DEF Computing, StateAt
  <2>. QED  BY <1>1, <1>3, <2>1
<1>6. CASE Storing(ir[m], StorePlace(ir[m], starts[m]), LongStored(starts[m]), o, c)
  <2>1. PICK place : place = StorePlace(ir[m], s)
    OBVIOUS
  <2>2. IsR3(ir[m]) \/ IsAddi(ir[m])
    BY <1>2, <1>6 DEF Storing, WritesCode
  <2>3. place \in {s + 8, s + 9} /\ End(m) = place + StoreLength(ir[m].rd)
    BY <1>1, <2>1, <2>2, R3Opcodes, AddiOpcodes
  <2>4. \/ o = place
        \/ ir[m].rd # X0 /\ o \in {place + 1, place + 2, place + 4, place + 5}
    BY <1>1, <1>6, <2>1 DEF Storing, StateAt
  <2>5. StoreLength(ir[m].rd) = IF ir[m].rd = X0 THEN 1 ELSE 6
    BY DEF StoreLength
  <2>. QED  BY <1>1, <1>3, <2>3, <2>4, <2>5
<1>7. CASE Jumping(ir[m], starts[m], LongStored(starts[m]), o, c)
  <2>1. o \in {s + 9, s + 12} /\ IsJump(ir[m])
    BY <1>1, <1>7 DEF Jumping, StateAt
  <2>2. End(m) = s + 17
    BY <1>1, <2>1, JumpOpcodes
  <2>. QED  BY <1>1, <1>3, <2>1, <2>2
<1>. QED  BY <1>4, <1>5, <1>6, <1>7 DEF InElement

(* Where no frame is, the JVM checks in the state it is in.                 *)
LEMMA NoFrameHere ==
  ASSUME ~AtFrame, ~FrameMissed, NEW place, NEW below, NEW own, NEW array, NEW long,
         StateAt(offset, current, place, below, own, array, long)
  PROVE  ChecksAt(place, below, own, array, long)
<1>1. Incoming = current
  BY DEF Incoming
<1>2. current.reachable = TRUE
  BY DEF StateAt, TypeState
<1>. QED  BY <1>1, <1>2 DEF ChecksAt, IncomingFits

(* In an element a loadable program passes.                                 *)
LEMMA ElementChecked ==
  ASSUME Reads, NEW m \in DOMAIN ir, InElement(m, offset, current), ~AtFrame, ~FrameMissed
  PROVE  Checked(m)
<1>1. PICK s : s = starts[m]
  OBVIOUS
<1>2. PICK below : below = Left(s)
  OBVIOUS
<1>3. PICK long : long = LongStored(s)
  OBVIOUS
<1>4. PICK place : place = StorePlace(ir[m], s)
  OBVIOUS
<1>5. PICK spare : spare = Spare(ir[m])
  OBVIOUS
<1>6. /\ WritesCode(ir[m]) /\ ClearUpTo(starts[m] + 1, starts[m])
      /\ \/ Loading(ir[m], s, below, long, offset, current)
         \/ /\ below = << >>
            /\ \/ Computing(ir[m], s, long, offset, current)
               \/ Storing(ir[m], place, long, offset, current)
               \/ Jumping(ir[m], s, long, offset, current)
  BY <1>1, <1>2, <1>3, <1>4 DEF InElement
<1>7. s \in Nat
  BY <1>1, <1>6, Grows DEF Reads
<1>8. CASE Loading(ir[m], s, below, long, offset, current)
  <2>1. \/ ChecksAt(s + 1, below, << "ref" >>, TRUE, long)
        \/ ChecksAt(s + 3, below, << "ref", "int" >>, TRUE, long)
        \/ ChecksAt(s + 4, below, << "long" >>, TRUE, long)
        \/ ~IsAddi(ir[m]) /\ ChecksAt(s + 5, below, << "long", "ref" >>, TRUE, long)
        \/ IsAddi(ir[m]) /\ ChecksAt(s + 7, below, << "long", "int" >>, TRUE, long)
    BY <1>8, NoFrameHere DEF Loading
  <2>2. CASE ChecksAt(s + 1, below, << "ref" >>, TRUE, long)
             \/ ChecksAt(s + 3, below, << "ref", "int" >>, TRUE, long)
    BY <1>1, <1>2, <1>3, <1>6, <1>7, <2>2, FirstLoadChecked
  <2>3. CASE ~IsAddi(ir[m]) /\ (ChecksAt(s + 4, below, << "long" >>, TRUE, long)
                                \/ ChecksAt(s + 5, below, << "long", "ref" >>, TRUE, long))
    BY <1>1, <1>2, <1>3, <1>6, <1>7, <2>3, SecondLoadChecked
  <2>4. CASE IsAddi(ir[m]) /\ (ChecksAt(s + 4, below, << "long" >>, TRUE, long)
                               \/ ChecksAt(s + 7, below, << "long", "int" >>, TRUE, long))
    BY <1>1, <1>2, <1>3, <1>6, <1>7, <2>4, ConstantChecked
  <2>. QED  BY <2>1, <2>2, <2>3, <2>4
<1>9. CASE below = << >> /\ Computing(ir[m], s, long, offset, current)
  <2>1. \/ ~IsAddi(ir[m]) /\ ChecksAt(s + 7, << >>, << "long", "ref", "int" >>, TRUE, long)
        \/ ~LeavesLong(ir[m]) /\ ChecksAt(s + 8, << >>, << "long", "long" >>, TRUE, long)
    BY <1>9, NoFrameHere DEF Computing
  <2>2. CASE ~IsAddi(ir[m]) /\ ChecksAt(s + 7, << >>, << "long", "ref", "int" >>, TRUE, long)
    BY <1>1, <1>2, <1>3, <1>6, <1>7, <1>9, <2>2, SecondLoadChecked
  <2>3. CASE ~LeavesLong(ir[m]) /\ ChecksAt(s + 8, << >>, << "long", "long" >>, TRUE, long)
    <3>1. Left(starts[m]) = << >>
      BY <1>1, <1>2, <1>9
    <3>. QED  BY <1>1, <1>3, <1>6, <1>7, <2>3, <3>1, ResultChecked
  <2>. QED  BY <2>1, <2>2, <2>3
<1>10. CASE below = << >> /\ Storing(ir[m], place, long, offset, current)
  <2>1. /\ IsR3(ir[m]) \/ IsAddi(ir[m])
        /\ Left(starts[m]) = << >>
    BY <1>1, <1>2, <1>6, <1>10 DEF Storing, WritesCode
  <2>2. place \in Nat
    <3>1. place \in {s + 8, s + 9}
      BY <1>1, <1>4, <2>1, R3Opcodes, AddiOpcodes DEF Reads
    <3>. QED  BY <1>7, <3>1
  <2>3. spare = << >> <=> ~LeavesLong(ir[m])
    BY <1>5 DEF Spare
  <2>4. \/ ChecksAt(place, spare, << "long" >>, TRUE, long)
        \/ /\ ir[m].rd # X0
           /\ \/ ChecksAt(place + 1, spare, << >>, TRUE, TRUE)
              \/ ChecksAt(place + 2, spare, << "ref" >>, TRUE, TRUE)
              \/ ChecksAt(place + 4, spare, << "ref", "int" >>, TRUE, TRUE)
              \/ spare = << >> /\ ChecksAt(place + 5, << >>, << "ref", "int", "long" >>, TRUE, TRUE)
    BY <1>5, <1>10, <2>3, NoFrameHere DEF Storing
  <2>5. CASE ir[m].rd = X0
    BY <1>1, <1>3, <1>4, <1>5, <1>6, <1>7, <2>1, <2>2, <2>4, <2>5, DiscardChecked
  <2>6. CASE ir[m].rd # X0
    BY <1>1, <1>3, <1>4, <1>5, <1>6, <1>7, <2>1, <2>2, <2>4, <2>6, StoreChecked
  <2>. QED  BY <2>5, <2>6
<1>11. CASE below = << >> /\ Jumping(ir[m], s, long, offset, current)
  <2>1. /\ IsJump(ir[m]) /\ Left(starts[m]) = << >>
        /\ \/ ChecksAt(s + 9, << >>, << "int" >>, TRUE, long)
           \/ long /\ ChecksAt(s + 12, << >>, << >>, TRUE, TRUE)
    BY <1>1, <1>2, <1>11, NoFrameHere DEF Jumping
  <2>. QED  BY <1>1, <1>3, <1>6, <1>7, <2>1, JumpChecked
<1>. QED  BY <1>6, <1>8, <1>9, <1>10, <1>11

(* Where an element with code, or IR_EOF, starts: after the element before  *)
(* it, or after a goto_w, where there is a frame.                           *)
AtElement(m, o, c) ==
  /\ WritesCode(ir[m]) \/ IsEof(ir[m])
  /\ o = starts[m] /\ ClearUpTo(starts[m], starts[m])
  /\ \/ StateAt(o, c, starts[m], Left(starts[m]), << >>, TRUE, LongStored(starts[m]))
     \/ c = Unreachable /\ starts[m] \in BranchTargets /\ TargetClear(starts[m])

(* In the code that puts the register array into local variable 1.          *)
InPrologue(o, c) ==
  \/ StateAt(o, c, 0, << >>, << >>, FALSE, FALSE)
  \/ \E place \in {3, 6, 9} : StateAt(o, c, place, << >>, << "ref" >>, FALSE, FALSE)

(* Behind the return instruction.                                           *)
AtEnd(o, c) == o = Len(code) /\ ~c.reachable /\ AllClear

(* How far the JVM can have come in a method, and what it then knows.       *)
Position(o, c) ==
  \/ InPrologue(o, c)
  \/ \E m \in DOMAIN ir : AtElement(m, o, c) \/ InElement(m, o, c)
  \/ AtEnd(o, c)

(* The frames behind it are those of the targets behind it.                 *)
FramesBehind(o, u) ==
  u \in 0 .. Len(Frames) /\ \A n \in 1 .. Len(Frames) : n <= u <=> Frames[n] < o

(* Its next frame is the next target, if it goes on past none.              *)
LEMMA FramesHere ==
  ASSUME Reads, offset \in Nat, FramesBehind(offset, frames_used)
  PROVE  /\ AtFrame <=> offset \in BranchTargets
         /\ ~FrameMissed
         /\ \A o \in Nat :
              offset < o /\ (\A target \in BranchTargets : ~(offset < target /\ target < o))
                => FramesBehind(o, IF AtFrame THEN frames_used + 1 ELSE frames_used)
<1>1. PICK u : u = frames_used
  OBVIOUS
<1>2. PICK f : f = Frames
  OBVIOUS
<1>3. /\ f \in Seq(Nat) /\ Len(f) \in Nat /\ Range(f) = BranchTargets
      /\ DOMAIN f = 1 .. Len(f) /\ \A n \in 1 .. Len(f) : f[n] \in Nat
      /\ \A n \in 2 .. Len(f) : f[n - 1] < f[n]
  BY <1>2 DEF Reads
<1>4. u \in Nat /\ u <= Len(f) /\ \A n \in 1 .. Len(f) : n <= u <=> f[n] < offset
  BY <1>1, <1>2, <1>3 DEF FramesBehind
<1>5. AtFrame <=> u < Len(f) /\ f[u + 1] = offset
  BY <1>1, <1>2 DEF AtFrame
<1>6. ASSUME NEW n \in 1 .. Len(f), ~(n <= u) PROVE n = u + 1 \/ offset < f[n]
  <2>1. CASE n # u + 1
    <3>1. n \in 2 .. Len(f) /\ n - 1 \in 1 .. Len(f) /\ ~(n - 1 <= u)
      BY <1>3, <1>4, <1>6, <2>1
    <3>2. ~(f[n - 1] < offset)
      BY <1>4, <3>1
    <3>3. f[n - 1] < f[n] /\ f[n - 1] \in Nat /\ f[n] \in Nat
      BY <1>3, <3>1
    <3>. QED  BY <3>2, <3>3
  <2>. QED  BY <2>1
<1>7. \A n \in 1 .. Len(f) : f[n] \in BranchTargets
  BY <1>3 DEF Range
<1>8. AtFrame <=> offset \in BranchTargets
  <2>1. ASSUME AtFrame PROVE offset \in BranchTargets
    <3>1. u + 1 \in 1 .. Len(f)
      BY <1>3, <1>4, <1>5, <2>1
    <3>. QED  BY <1>5, <1>7, <2>1, <3>1
  <2>2. ASSUME offset \in BranchTargets PROVE AtFrame
    <3>1. PICK n \in 1 .. Len(f) : f[n] = offset
      BY <1>3, <2>2 DEF Range
    <3>2. ~(n <= u)
      BY <1>4, <3>1
    <3>3. n = u + 1
      BY <1>6, <3>1, <3>2
    <3>. QED  BY <1>3, <1>4, <1>5, <3>1, <3>3
  <2>. QED  BY <2>1, <2>2
<1>9. ~FrameMissed
  <2>. SUFFICES ASSUME u < Len(f), f[u + 1] < offset PROVE FALSE
    BY <1>1, <1>2 DEF FrameMissed
  <2>1. u + 1 \in 1 .. Len(f) /\ ~(u + 1 <= u)
    BY <1>3, <1>4
  <2>. QED  BY <1>4, <2>1
<1>10. ASSUME NEW o \in Nat, offset < o,
              \A target \in BranchTargets : ~(offset < target /\ target < o),
              NEW v, v = IF AtFrame THEN u + 1 ELSE u
       PROVE  FramesBehind(o, v)
  <2>1. v \in 0 .. Len(f)
    BY <1>3, <1>4, <1>5, <1>10
  <2>2. ASSUME NEW n \in 1 .. Len(f) PROVE n <= v <=> f[n] < o
    <3>1. f[n] \in Nat /\ ~(offset < f[n] /\ f[n] < o)
      BY <1>3, <1>7, <1>10
    <3>2. CASE n <= u
      <4>1. f[n] < offset
        BY <1>4, <3>2
      <4>. QED  BY <1>4, <1>10, <3>1, <3>2, <4>1
    <3>3. CASE ~(n <= u) /\ n # u + 1
      <4>1. offset < f[n]
        BY <1>6, <3>3
      <4>. QED  BY <1>4, <1>10, <3>1, <3>3, <4>1
    <3>4. CASE n = u + 1 /\ AtFrame
      BY <1>4, <1>5, <1>10, <3>4
    <3>5. CASE n = u + 1 /\ ~AtFrame
      <4>1. f[n] # offset /\ ~(f[n] < offset)
        BY <1>3, <1>4, <1>5, <3>5
      <4>. QED  BY <1>4, <1>10, <3>1, <3>5, <4>1
    <3>. QED  BY <3>2, <3>3, <3>4, <3>5
  <2>. QED  BY <1>2, <2>1, <2>2 DEF FramesBehind
<1>. QED  BY <1>1, <1>8, <1>9, <1>10

(* The first instruction of an element, and the return instruction, are     *)
(* checked in the state the frame there has, if there is one.               *)
LEMMA Arrived ==
  ASSUME Reads, NEW m \in DOMAIN ir, AtElement(m, offset, current),
         AtFrame <=> offset \in BranchTargets, ~FrameMissed
  PROVE  /\ AllClear => IncomingFits
         /\ IncomingFits =>
              /\ ClearUpTo(starts[m] + 1, starts[m])
              /\ ChecksAt(starts[m], Left(starts[m]), << >>, TRUE, LongStored(starts[m]))
<1>1. PICK s : s = starts[m]
  OBVIOUS
<1>2. PICK below : below = Left(s)
  OBVIOUS
<1>3. PICK long : long = LongStored(s)
  OBVIOUS
<1>4. /\ offset = s /\ ClearUpTo(s, s) /\ s \in Nat
      /\ below \in {<< >>, << "long" >>} /\ long \in BOOLEAN
      /\ \/ StateAt(offset, current, s, below, << >>, TRUE, long)
         \/ current = Unreachable /\ s \in BranchTargets /\ TargetClear(s)
  BY <1>1, <1>2, <1>3, CompiledTypes, LeftTypes DEF AtElement, Reads
<1>5. ASSUME s \in BranchTargets => TargetClear(s) PROVE ClearUpTo(s + 1, s)
  <2>1. \A target \in BranchTargets : target < s + 1 => target < s \/ target = s
    BY <1>4, TargetsAreStarts DEF Reads
  <2>. QED  BY <1>4, <1>5, <2>1 DEF ClearUpTo
<1>6. CASE s \notin BranchTargets
  <2>1. StateAt(offset, current, s, below, << >>, TRUE, long) /\ ~AtFrame
    BY <1>4, <1>6
  <2>2. ChecksAt(s, below, << >>, TRUE, long)
    BY <2>1, NoFrameHere
  <2>. QED  BY <1>1, <1>2, <1>3, <1>5, <1>6, <2>2 DEF ChecksAt
<1>7. CASE s \in BranchTargets
  <2>1. /\ AtFrame /\ Incoming = FrameState
        /\ IncomingFits <=> Assignable(current)
    BY <1>4, <1>7 DEF Incoming, IncomingFits
  <2>2. below \o << >> = below
    <3>1. below \in Seq(Kinds)
      BY <1>4, RoomAbove
    <3>. QED  BY <3>1, ConcatEmptySeq
  <2>3. TargetClear(s) <=> long /\ below = << >>
    BY <1>2, <1>3 DEF TargetClear
  <2>4. Assignable(Unreachable)
    BY FrameIsClear DEF Assignable
  <2>5. ASSUME TargetClear(s)
        PROVE  IncomingFits /\ ChecksAt(s, below, << >>, TRUE, long)
    <3>1. long = TRUE /\ below = << >>
      BY <1>4, <2>3, <2>5
    <3>2. FrameState = TypeState(below \o << >>, TRUE, long)
      BY <2>2, <3>1, FrameIsClear
    <3>3. IncomingFits
      <4>1. CASE current = Unreachable
        BY <2>1, <2>4, <4>1
      <4>2. CASE StateAt(offset, current, s, below, << >>, TRUE, long)
        <5>1. current = FrameState
          BY <3>2, <4>2 DEF StateAt
        <5>. QED  BY <2>1, <5>1 DEF Assignable
      <4>. QED  BY <1>4, <4>1, <4>2
    <3>. QED  BY <1>4, <2>1, <3>2, <3>3 DEF ChecksAt, StateAt
  <2>6. ASSUME ~TargetClear(s) PROVE ~IncomingFits
    <3>1. current = TypeState(below, TRUE, long)
      BY <1>4, <2>2, <2>6 DEF StateAt
    <3>2. current.reachable = TRUE /\ current.kinds = below /\ current.local_2 = long
      BY <3>1 DEF TypeState
    <3>3. FrameState.kinds = << >> /\ FrameState.local_2 = TRUE
      BY DEF FrameState
    <3>4. current # FrameState
      BY <2>3, <2>6, <3>2, <3>3
    <3>. QED  BY <2>1, <3>2, <3>4 DEF Assignable
  <2>7. AllClear => TargetClear(s)
    BY <1>7, AllClearMeans DEF Reads
  <2>. QED  BY <1>1, <1>2, <1>3, <1>5, <2>5, <2>6, <2>7
<1>. QED  BY <1>6, <1>7

(* What leaves an element arrives at the next one.                          *)
LEMMA LeavesArrives ==
  ASSUME Compiled, NEW m \in DOMAIN ir, WritesCode(ir[m]),
         ClearUpTo(starts[m] + 1, starts[m]), NEW o, NEW c, Leaves(m, o, c)
  PROVE  \E n \in DOMAIN ir : AtElement(n, o, c)
<1>1. ~IsEof(ir[m])
  BY OneKind
<1>2. PICK p \in DOMAIN ir : starts[p] = End(m)
  BY <1>1, EndIsStart
<1>3. PICK n \in DOMAIN ir : starts[n] = starts[p] /\ (WritesCode(ir[n]) \/ IsEof(ir[n]))
  BY CodeAtStart
<1>4. ClearUpTo(End(m), End(m))
  BY ClearBehind DEF Leaves
<1>5. IsJump(ir[m]) => End(m) \in BranchTargets
  <2>. SUFFICES ASSUME IsJump(ir[m]) PROVE End(m) \in BranchTargets
    OBVIOUS
  <2>1. IsConditional(ir[m])
    BY CompiledTypes, JumpsAreConditions
  <2>2. End(m) = starts[m + 1]
    BY Grows
  <2>. QED  BY <2>1, <2>2 DEF BranchTargets
<1>6. starts[n] = End(m) /\ o = End(m)
  BY <1>2, <1>3 DEF Leaves
<1>7. AtElement(n, o, c)
  BY <1>3, <1>4, <1>5, <1>6 DEF AtElement, Leaves
<1>. QED  BY <1>7

(* The prologue passes, whatever the program.                               *)
LEMMA PrologueChecked ==
  ASSUME Reads, InPrologue(offset, current), ~AtFrame, ~FrameMissed
  PROVE  /\ InstructionFits
         /\ \/ InPrologue(offset + Width(Opcode), Outgoing)
            \/ \E m \in DOMAIN ir : AtElement(m, offset + Width(Opcode), Outgoing)
         /\ offset \in Nat /\ offset + Width(Opcode) \in Nat
         /\ offset < offset + Width(Opcode) /\ offset + Width(Opcode) <= 10
<1>1. /\ At(code, 0) = JVM_GETSTATIC /\ At(code, 3) = JVM_INVOKEVIRTUAL
      /\ At(code, 6) = JVM_CHECKCAST /\ At(code, 9) = JVM_ASTORE_1
      /\ 1 \in DOMAIN ir /\ starts[1] = 10
  BY PrologueOpcodes DEF Reads
<1>2. PICK no \in BOOLEAN : no = FALSE
  OBVIOUS
<1>3. /\ JVM_GETSTATIC \notin {JVM_RETURN, JVM_ALOAD_1, JVM_LLOAD_2, JVM_LSTORE_2, JVM_ASTORE_1}
      /\ JVM_INVOKEVIRTUAL \notin {JVM_RETURN, JVM_ALOAD_1, JVM_LLOAD_2, JVM_LSTORE_2, JVM_ASTORE_1}
      /\ JVM_CHECKCAST \notin {JVM_RETURN, JVM_ALOAD_1, JVM_LLOAD_2, JVM_LSTORE_2, JVM_ASTORE_1}
      /\ JVM_ASTORE_1 \notin {JVM_RETURN, JVM_ALOAD_1, JVM_LLOAD_2, JVM_LSTORE_2}
  BY OtherOpcodes
<1>4. HasRoom(<< >>, << "ref" >>) /\ HasRoom(<< >>, << >>) /\ << >> \in Seq(Kinds)
  <2>1. << "ref" >> \in Stacks /\ << >> \in Stacks
    BY DEF Stacks
  <2>. QED  BY <2>1, RoomAboveNothing
<1>5. ASSUME NEW op, IsStraight(op, 3),
             op \notin {JVM_RETURN, JVM_ALOAD_1, JVM_LLOAD_2, JVM_LSTORE_2, JVM_ASTORE_1},
             NEW before, NEW after, Moves(op, before, after), HasRoom(<< >>, after),
             NEW place \in Nat, At(code, place) = op,
             StateAt(offset, current, place, << >>, before, FALSE, FALSE)
      PROVE  Passes(place + 3, << >>, after, FALSE, FALSE)
  <2>1. PICK width \in Nat : width = 3
    OBVIOUS
  <2>2. ChecksAt(place, << >>, before, no, no)
    BY <1>2, <1>5, NoFrameHere
  <2>3. /\ op # JVM_RETURN /\ (op = JVM_ALOAD_1 => no) /\ (op = JVM_LLOAD_2 => no)
        /\ IsStraight(op, width)
    BY <1>5, <2>1
  <2>4. IF HasRoom(<< >>, after)
        THEN Passes(place + width, << >>, after, no \/ op = JVM_ASTORE_1, no \/ op = JVM_LSTORE_2)
        ELSE ~InstructionFits
    BY <1>4, <1>2, <1>5, <2>2, <2>3, CheckStraight
  <2>5. (no \/ op = JVM_ASTORE_1) = FALSE /\ (no \/ op = JVM_LSTORE_2) = FALSE
    BY <1>2, <1>5
  <2>. QED  BY <1>5, <2>1, <2>4, <2>5
<1>6. /\ IsStraight(JVM_GETSTATIC, 3) /\ IsStraight(JVM_INVOKEVIRTUAL, 3)
      /\ IsStraight(JVM_CHECKCAST, 3) /\ IsStraight(JVM_ASTORE_1, 1)
  BY Straight
<1>7. /\ Moves(JVM_GETSTATIC, << >>, << "ref" >>)
      /\ Moves(JVM_INVOKEVIRTUAL, << "ref" >>, << "ref" >>)
      /\ Moves(JVM_CHECKCAST, << "ref" >>, << "ref" >>)
      /\ Moves(JVM_ASTORE_1, << "ref" >>, << >>)
  BY MoveTable
<1>8. ASSUME NEW place \in {0, 3, 6}, offset = place,
             Passes(place + 3, << >>, << "ref" >>, FALSE, FALSE)
      PROVE  /\ InstructionFits /\ InPrologue(offset + Width(Opcode), Outgoing)
             /\ offset + Width(Opcode) = offset + 3 /\ offset \in {0, 3, 6}
  <2>1. place + 3 \in {3, 6, 9}
    BY <1>8
  <2>2. /\ InstructionFits
        /\ StateAt(offset + Width(Opcode), Outgoing, place + 3, << >>, << "ref" >>, FALSE, FALSE)
    BY <1>8 DEF Passes
  <2>3. InPrologue(offset + Width(Opcode), Outgoing)
    BY <2>1, <2>2 DEF InPrologue
  <2>. QED  BY <1>8, <2>2, <2>3 DEF StateAt
<1>9. CASE StateAt(offset, current, 0, << >>, << >>, FALSE, FALSE)
  <2>1. PICK place \in Nat : place = 0
    OBVIOUS
  <2>2. StateAt(offset, current, place, << >>, << >>, FALSE, FALSE)
        /\ At(code, place) = JVM_GETSTATIC
    BY <1>1, <1>9, <2>1
  <2>3. Passes(place + 3, << >>, << "ref" >>, FALSE, FALSE)
    BY <1>3, <1>4, <1>5, <1>6, <1>7, <2>2
  <2>4. offset = place /\ place \in {0, 3, 6}
    BY <2>1, <2>2 DEF StateAt
  <2>5. /\ InstructionFits /\ InPrologue(offset + Width(Opcode), Outgoing)
        /\ offset + Width(Opcode) = offset + 3 /\ offset \in {0, 3, 6}
    BY <1>8, <2>3, <2>4
  <2>. QED  BY <2>5
<1>10. CASE StateAt(offset, current, 3, << >>, << "ref" >>, FALSE, FALSE)
  <2>1. PICK place \in Nat : place = 3
    OBVIOUS
  <2>2. StateAt(offset, current, place, << >>, << "ref" >>, FALSE, FALSE)
        /\ At(code, place) = JVM_INVOKEVIRTUAL
    BY <1>1, <1>10, <2>1
  <2>3. Passes(place + 3, << >>, << "ref" >>, FALSE, FALSE)
    BY <1>3, <1>4, <1>5, <1>6, <1>7, <2>2
  <2>4. offset = place /\ place \in {0, 3, 6}
    BY <2>1, <2>2 DEF StateAt
  <2>5. /\ InstructionFits /\ InPrologue(offset + Width(Opcode), Outgoing)
        /\ offset + Width(Opcode) = offset + 3 /\ offset \in {0, 3, 6}
    BY <1>8, <2>3, <2>4
  <2>. QED  BY <2>5
<1>11. CASE StateAt(offset, current, 6, << >>, << "ref" >>, FALSE, FALSE)
  <2>1. PICK place \in Nat : place = 6
    OBVIOUS
  <2>2. StateAt(offset, current, place, << >>, << "ref" >>, FALSE, FALSE)
        /\ At(code, place) = JVM_CHECKCAST
    BY <1>1, <1>11, <2>1
  <2>3. Passes(place + 3, << >>, << "ref" >>, FALSE, FALSE)
    BY <1>3, <1>4, <1>5, <1>6, <1>7, <2>2
  <2>4. offset = place /\ place \in {0, 3, 6}
    BY <2>1, <2>2 DEF StateAt
  <2>5. /\ InstructionFits /\ InPrologue(offset + Width(Opcode), Outgoing)
        /\ offset + Width(Opcode) = offset + 3 /\ offset \in {0, 3, 6}
    BY <1>8, <2>3, <2>4
  <2>. QED  BY <2>5
<1>12. CASE StateAt(offset, current, 9, << >>, << "ref" >>, FALSE, FALSE)
  <2>1. PICK op : op = JVM_ASTORE_1
    OBVIOUS
  <2>2. PICK place \in Nat : place = 9
    OBVIOUS
  <2>3. PICK before : before = << "ref" >>
    OBVIOUS
  <2>4. PICK after : after = << >>
    OBVIOUS
  <2>5. ChecksAt(place, << >>, before, no, no) /\ offset = place
    BY <1>2, <1>12, <2>2, <2>3, NoFrameHere DEF StateAt
  <2>6. /\ op # JVM_RETURN /\ (op = JVM_ALOAD_1 => no) /\ (op = JVM_LLOAD_2 => no)
        /\ IsStraight(op, 1) /\ At(code, place) = op /\ Moves(op, before, after) /\ 1 \in Nat
    BY <1>1, <1>3, <1>6, <1>7, <2>1, <2>2, <2>3, <2>4
  <2>7. IF HasRoom(<< >>, after)
        THEN Passes(place + 1, << >>, after, no \/ op = JVM_ASTORE_1, no \/ op = JVM_LSTORE_2)
        ELSE ~InstructionFits
    BY <1>4, <1>2, <2>5, <2>6, CheckStraight
  <2>8. (no \/ op = JVM_ASTORE_1) = TRUE /\ (no \/ op = JVM_LSTORE_2) = FALSE
    BY <1>2, <1>3, <2>1
  <2>9. Passes(place + 1, << >>, << >>, TRUE, FALSE)
    BY <1>4, <2>4, <2>7, <2>8
  <2>10. PICK m \in DOMAIN ir : starts[m] = starts[1] /\ (WritesCode(ir[m]) \/ IsEof(ir[m]))
    BY <1>1, CodeAtStart DEF Reads
  <2>11. ClearUpTo(10, 10) /\ Left(10) = << >> /\ LongStored(10) = FALSE
    BY ClearAtFirst, LeftTypes DEF Reads
  <2>12. place + 1 = 10 /\ starts[m] = 10
    BY <1>1, <2>2, <2>10
  <2>13. StateAt(offset + Width(Opcode), Outgoing, 10, << >>, << >>, TRUE, FALSE)
    BY <2>9, <2>12 DEF Passes
  <2>14. AtElement(m, offset + Width(Opcode), Outgoing)
    BY <2>10, <2>11, <2>12, <2>13 DEF AtElement, StateAt
  <2>15. offset + Width(Opcode) = 10 /\ offset = 9 /\ InstructionFits
    BY <2>2, <2>5, <2>9, <2>13 DEF StateAt, Passes
  <2>. QED  BY <2>14, <2>15
<1>13. \/ StateAt(offset, current, 0, << >>, << >>, FALSE, FALSE)
       \/ StateAt(offset, current, 3, << >>, << "ref" >>, FALSE, FALSE)
       \/ StateAt(offset, current, 6, << >>, << "ref" >>, FALSE, FALSE)
       \/ StateAt(offset, current, 9, << >>, << "ref" >>, FALSE, FALSE)
  BY DEF InPrologue
<1>. QED  BY <1>9, <1>10, <1>11, <1>12, <1>13

(* The return instruction passes if its frame does, and all is over.        *)
LEMMA ReturnChecked ==
  ASSUME Reads, NEW m \in DOMAIN ir, IsEof(ir[m]), AtElement(m, offset, current),
         AtFrame <=> offset \in BranchTargets, ~FrameMissed
  PROVE  /\ AllClear => InstructionFits
         /\ InstructionFits => AtEnd(offset + Width(Opcode), Outgoing)
         /\ offset + Width(Opcode) = offset + 1 /\ offset + 1 = Len(code) /\ offset \in Nat
<1>1. /\ m = Len(ir) /\ starts[m] \in Nat /\ Len(code) = starts[m] + 1
      /\ At(code, starts[m]) = JVM_RETURN
  <2>1. m = Len(ir)
    BY DEF Reads, Compiled, TypeOK, IsProgram
  <2>. QED  BY <2>1, CompiledTypes DEF Reads, Compiled, Shape
<1>2. offset = starts[m] /\ ClearUpTo(starts[m], starts[m])
  BY DEF AtElement
<1>3. Opcode = JVM_RETURN /\ StackLimit = 5
  BY <1>1, <1>2 DEF Opcode, Reads
<1>4. /\ JVM_RETURN \in Opcodes /\ Width(JVM_RETURN) = 1 /\ Operands(JVM_RETURN) = << >>
      /\ JVM_RETURN \notin {JVM_ALOAD_1, JVM_LLOAD_2, JVM_IFEQ, JVM_IFGT, JVM_GOTO_W}
  BY DEF Opcodes, Width, Operands, JVM_BIPUSH, JVM_LDC_W, JVM_LLOAD_2, JVM_ALOAD_1, JVM_LALOAD,
         JVM_LSTORE_2, JVM_ASTORE_1, JVM_LASTORE, JVM_POP2, JVM_LADD, JVM_I2L, JVM_LCMP,
         JVM_IFEQ, JVM_IFGT, JVM_RETURN, JVM_GETSTATIC, JVM_INVOKEVIRTUAL, JVM_CHECKCAST,
         JVM_GOTO_W
<1>5. Outgoing = Unreachable
  BY <1>3 DEF Outgoing
<1>6. Slots(Outgoing.kinds) <= StackLimit
  BY <1>3, <1>5, FrameIsClear
<1>7. IncomingFits => OperandsOnTop(Incoming.kinds, JVM_RETURN)
  <2>. SUFFICES ASSUME IncomingFits PROVE OperandsOnTop(Incoming.kinds, JVM_RETURN)
    OBVIOUS
  <2>1. ChecksAt(starts[m], Left(starts[m]), << >>, TRUE, LongStored(starts[m]))
    BY Arrived
  <2>2. PICK below : below = Left(starts[m])
    OBVIOUS
  <2>3. Incoming.kinds = below \o << >>
    BY <2>1, <2>2 DEF ChecksAt, StateAt, TypeState
  <2>4. Moves(JVM_RETURN, << >>, << >>)
    BY MoveTable
  <2>5. below \in Seq(Kinds)
    BY <2>2, LeftTypes, RoomAbove
  <2>6. OperandsOnTop(below \o << >>, JVM_RETURN)
    <3>1. PICK before : before = << >>
      OBVIOUS
    <3>2. Moves(JVM_RETURN, before, before)
      BY <2>4, <3>1
    <3>3. OperandsOnTop(below \o before, JVM_RETURN)
      BY <2>5, <3>2, OperandsFound
    <3>. QED  BY <3>1, <3>3
  <2>. QED  BY <2>3, <2>6
<1>8. InstructionFits <=> IncomingFits
  BY <1>3, <1>4, <1>6, <1>7 DEF InstructionFits, LocalsFit, BranchFits
<1>9. AllClear => IncomingFits
  BY Arrived
<1>10. ASSUME IncomingFits PROVE AllClear
  <2>1. ClearUpTo(starts[m] + 1, starts[m])
    BY <1>10, Arrived
  <2>2. ASSUME NEW n \in DOMAIN ir, WritesCode(ir[n]) PROVE End(n) <= starts[m]
    <3>1. n < m
      <4>1. n # m
        BY <2>2, OneKind
      <4>2. n <= Len(ir) /\ n \in Nat /\ Len(ir) \in Nat
        BY CompiledTypes DEF Reads
      <4>. QED  BY <1>1, <4>1, <4>2
    <3>. QED  BY <3>1, CodeOrder DEF Reads
  <2>. QED  BY <1>1, <2>1, <2>2 DEF AllClear, ClearUpTo
<1>11. offset + Width(Opcode) = offset + 1 /\ offset + 1 = Len(code) /\ offset \in Nat
  BY <1>1, <1>2, <1>3, <1>4
<1>. QED  BY <1>5, <1>8, <1>9, <1>10, <1>11, FrameIsClear DEF AtEnd

(* What starts an element passes in a loadable program, and nothing passes  *)
(* without the frame there.                                                 *)
LEMMA StartChecked ==
  ASSUME Reads, NEW m \in DOMAIN ir, WritesCode(ir[m]), AtElement(m, offset, current),
         AtFrame <=> offset \in BranchTargets, ~FrameMissed
  PROVE  Checked(m) /\ (InstructionFits => ClearUpTo(starts[m] + 1, starts[m]))
<1>1. PICK s : s = starts[m]
  OBVIOUS
<1>2. PICK below : below = Left(s)
  OBVIOUS
<1>3. PICK long : long = LongStored(s)
  OBVIOUS
<1>4. s \in Nat
  BY <1>1, Grows DEF Reads
<1>5. CASE IncomingFits
  <2>1. ClearUpTo(starts[m] + 1, starts[m]) /\ ChecksAt(s, below, << >>, TRUE, long)
    BY <1>1, <1>2, <1>3, <1>5, Arrived
  <2>. QED  BY <1>1, <1>2, <1>3, <1>4, <2>1, FirstLoadChecked
<1>6. CASE ~IncomingFits
  <2>1. ~AllClear
    BY <1>6, Arrived
  <2>. QED  BY <1>6, <2>1 DEF InstructionFits, Checked
<1>. QED  BY <1>5, <1>6

(* No branch goes into the code of an element.                              *)
LEMMA NoTargetInside ==
  ASSUME Compiled, NEW m \in DOMAIN ir, NEW target \in BranchTargets,
         starts[m] < target, target < End(m)
  PROVE  FALSE
<1>1. PICK n \in DOMAIN ir : target = starts[n]
  BY TargetsAreStarts
<1>. QED  BY <1>1, StartsApart

(* An instruction has a length.                                             *)
LEMMA Advances ==
  ASSUME NEW op
  PROVE  Width(op) \in {1, 2, 3, 5}
BY DEF Width

(* What the next position is like.                                          *)
NextPosition ==
  /\ Position(offset + Width(Opcode), Outgoing)
  /\ offset + Width(Opcode) \in Nat
  /\ FramesBehind(offset + Width(Opcode), IF AtFrame THEN frames_used + 1 ELSE frames_used)

(* An instruction of an element leads to a position too.                    *)
LEMMA ElementStep ==
  ASSUME Reads, offset \in Nat, FramesBehind(offset, frames_used), NEW m \in DOMAIN ir,
         WritesCode(ir[m]), AtElement(m, offset, current) \/ InElement(m, offset, current)
  PROVE  (AllClear => InstructionFits) /\ (InstructionFits => NextPosition)
<1>1. PICK o : o = offset + Width(Opcode)
  OBVIOUS
<1>2. PICK c : c = Outgoing
  OBVIOUS
<1>3. Compiled /\ starts[m] \in Nat /\ End(m) \in Nat /\ starts[m] + 9 <= End(m)
  BY Grows DEF Reads
<1>4. /\ AtFrame <=> offset \in BranchTargets
      /\ ~FrameMissed
      /\ offset < o
  <2>1. Width(Opcode) \in {1, 2, 3, 5}
    BY Advances
  <2>2. offset < o
    BY <1>1, <2>1
  <2>. QED  BY <2>2, FramesHere
<1>5. /\ Checked(m) /\ starts[m] <= offset /\ offset < End(m)
      /\ InstructionFits => ClearUpTo(starts[m] + 1, starts[m])
  <2>1. CASE AtElement(m, offset, current)
    <3>1. offset = starts[m]
      BY <2>1 DEF AtElement
    <3>. QED  BY <1>3, <1>4, <2>1, <3>1, StartChecked
  <2>2. CASE InElement(m, offset, current)
    <3>1. starts[m] < offset /\ offset < End(m)
      BY <1>3, <2>2, InsideElement
    <3>2. ~AtFrame
      BY <1>3, <1>4, <3>1, NoTargetInside
    <3>3. ClearUpTo(starts[m] + 1, starts[m])
      BY <2>2 DEF InElement
    <3>. QED  BY <1>3, <1>4, <2>2, <3>1, <3>2, <3>3, ElementChecked
  <2>. QED  BY <2>1, <2>2
<1>6. ASSUME InstructionFits PROVE Position(o, c) /\ o \in Nat /\ offset < o /\ o <= End(m)
  <2>1. InElement(m, o, c) \/ Leaves(m, o, c)
    BY <1>1, <1>2, <1>5, <1>6 DEF Checked
  <2>2. CASE InElement(m, o, c)
    <3>1. o < End(m) /\ o \in Nat
      BY <1>3, <2>2, InsideElement
    <3>. QED  BY <1>3, <1>4, <2>2, <3>1 DEF Position
  <2>3. CASE Leaves(m, o, c)
    <3>1. o = End(m)
      BY <2>3 DEF Leaves
    <3>2. \E n \in DOMAIN ir : AtElement(n, o, c)
      BY <1>3, <1>5, <1>6, <2>3, LeavesArrives
    <3>. QED  BY <1>3, <1>4, <3>1, <3>2 DEF Position
  <2>. QED  BY <2>1, <2>2, <2>3
<1>7. ASSUME InstructionFits
      PROVE  FramesBehind(o, IF AtFrame THEN frames_used + 1 ELSE frames_used)
  <2>1. o \in Nat /\ offset < o /\ o <= End(m)
    BY <1>6, <1>7
  <2>2. \A target \in BranchTargets : ~(offset < target /\ target < o)
    <3>. SUFFICES ASSUME NEW target \in BranchTargets, offset < target, target < o
                  PROVE  FALSE
      OBVIOUS
    <3>1. target \in Nat
      BY <1>3, TargetsAreStarts
    <3>2. starts[m] < target /\ target < End(m)
      BY <1>3, <1>5, <2>1, <3>1
    <3>. QED  BY <1>3, <3>2, NoTargetInside
  <2>. QED  BY <2>1, <2>2, FramesHere
<1>. QED  BY <1>1, <1>2, <1>5, <1>6, <1>7 DEF Checked, NextPosition

(* So does every other instruction.                                         *)
LEMMA PositionStep ==
  ASSUME Reads, offset \in Nat, FramesBehind(offset, frames_used),
         Position(offset, current), offset < Len(code)
  PROVE  (AllClear => InstructionFits) /\ (InstructionFits => NextPosition)
<1>1. PICK o : o = offset + Width(Opcode)
  OBVIOUS
<1>2. /\ AtFrame <=> offset \in BranchTargets
      /\ ~FrameMissed
      /\ Compiled
  BY FramesHere DEF Reads
<1>3. \A target \in BranchTargets : target \in Nat /\ 10 <= target /\ target < Len(code)
  BY <1>2, TargetsAreStarts
<1>4. ASSUME o \in Nat, offset < o, o <= 10 \/ offset >= Len(code) - 1
      PROVE  FramesBehind(o, IF AtFrame THEN frames_used + 1 ELSE frames_used)
  <2>1. Len(code) \in Nat
    BY <1>2 DEF Compiled, TypeOK
  <2>2. \A target \in BranchTargets : ~(offset < target /\ target < o)
    BY <1>3, <1>4, <2>1
  <2>. QED  BY <1>4, <2>2, FramesHere
<1>5. CASE InPrologue(offset, current)
  <2>1. offset \in {0, 3, 6, 9}
    BY <1>5 DEF InPrologue, StateAt
  <2>2. offset \notin BranchTargets
    BY <1>3, <2>1
  <2>3. /\ InstructionFits
        /\ \/ InPrologue(o, Outgoing)
           \/ \E m \in DOMAIN ir : AtElement(m, o, Outgoing)
        /\ o \in Nat /\ offset < o /\ o <= 10
    BY <1>1, <1>2, <1>5, <2>2, PrologueChecked
  <2>4. Position(o, Outgoing)
    BY <2>3 DEF Position
  <2>. QED  BY <1>1, <1>4, <2>3, <2>4 DEF NextPosition
<1>6. ASSUME NEW m \in DOMAIN ir, IsEof(ir[m]), AtElement(m, offset, current)
      PROVE  (AllClear => InstructionFits) /\ (InstructionFits => NextPosition)
  <2>1. /\ AllClear => InstructionFits
        /\ InstructionFits => AtEnd(o, Outgoing)
        /\ o = offset + 1 /\ offset + 1 = Len(code)
    BY <1>1, <1>2, <1>6, ReturnChecked
  <2>2. o \in Nat /\ offset < o /\ offset >= Len(code) - 1
    BY <2>1
  <2>3. InstructionFits => Position(o, Outgoing)
    BY <2>1 DEF Position
  <2>. QED  BY <1>1, <1>4, <2>1, <2>2, <2>3 DEF NextPosition
<1>7. ASSUME NEW m \in DOMAIN ir, WritesCode(ir[m]),
             AtElement(m, offset, current) \/ InElement(m, offset, current)
      PROVE  (AllClear => InstructionFits) /\ (InstructionFits => NextPosition)
  BY <1>7, ElementStep
<1>8. \A m \in DOMAIN ir :
        /\ AtElement(m, offset, current) => WritesCode(ir[m]) \/ IsEof(ir[m])
        /\ InElement(m, offset, current) => WritesCode(ir[m])
  BY DEF AtElement, InElement
<1>9. ~AtEnd(offset, current)
  <2>1. Len(code) \in Nat
    BY <1>2 DEF Compiled, TypeOK
  <2>. QED  BY <2>1 DEF AtEnd
<1>. QED  BY <1>5, <1>6, <1>7, <1>8, <1>9 DEF Position

(* The JVM begins in the prologue.                                          *)
LEMMA PositionStart ==
  ASSUME Reads, offset = 0, frames_used = 0,
         current = [FrameState EXCEPT !.local_1 = FALSE, !.local_2 = FALSE]
  PROVE  FramesBehind(offset, frames_used) /\ Position(offset, current)
<1>1. current = TypeState(<< >>, FALSE, FALSE)
  BY DEF FrameState, TypeState
<1>2. << >> \o << >> = << >>
  BY FrameIsClear
<1>3. Position(offset, current)
  BY <1>1, <1>2 DEF Position, InPrologue, StateAt
<1>4. Len(Frames) \in Nat /\ \A n \in 1 .. Len(Frames) : Frames[n] \in Nat
  BY DEF Reads
<1>5. FramesBehind(offset, frames_used)
  BY <1>4 DEF FramesBehind
<1>. QED  BY <1>3, <1>5

(* Where no instruction is left, all was well and no frame is left either.  *)
LEMMA PositionEnd ==
  ASSUME Reads, offset \in Nat, FramesBehind(offset, frames_used),
         Position(offset, current), ~(offset < Len(code))
  PROVE  offset = Len(code) /\ MethodFits /\ AllClear
<1>1. Compiled /\ Len(code) \in Nat /\ 10 <= Len(code)
  <2>1. Compiled
    BY DEF Reads
  <2>. QED  BY <2>1, PrologueOpcodes DEF Compiled, TypeOK
<1>2. ~InPrologue(offset, current)
  <2>. SUFFICES ASSUME InPrologue(offset, current) PROVE FALSE
    OBVIOUS
  <2>1. offset \in {0, 3, 6, 9}
    BY DEF InPrologue, StateAt
  <2>. QED  BY <1>1, <2>1
<1>3. ASSUME NEW m \in DOMAIN ir, InElement(m, offset, current) PROVE FALSE
  <2>1. offset < End(m) /\ WritesCode(ir[m])
    BY <1>1, <1>3, InsideElement DEF InElement
  <2>2. End(m) <= Len(code) /\ End(m) \in Nat
    BY <1>1, CompiledTypes
  <2>. QED  BY <1>1, <2>1, <2>2
<1>4. ASSUME NEW m \in DOMAIN ir, AtElement(m, offset, current) PROVE FALSE
  <2>1. offset = starts[m] /\ (WritesCode(ir[m]) \/ IsEof(ir[m]))
    BY <1>4 DEF AtElement
  <2>2. CASE WritesCode(ir[m])
    <3>1. starts[m] + 9 <= End(m) /\ End(m) <= Len(code) /\ End(m) \in Nat
      BY <1>1, <2>2, Grows
    <3>. QED  BY <1>1, <2>1, <3>1
  <2>3. CASE IsEof(ir[m])
    <3>1. m = Len(ir)
      BY <1>1, <2>3 DEF Compiled, TypeOK, IsProgram
    <3>2. Len(code) = starts[m] + 1
      BY <1>1, <3>1, CompiledTypes DEF Shape, Compiled
    <3>. QED  BY <1>1, <2>1, <3>2
  <2>. QED  BY <2>1, <2>2, <2>3
<1>5. offset = Len(code) /\ ~current.reachable /\ AllClear
  BY <1>2, <1>3, <1>4 DEF Position, AtEnd
<1>6. frames_used = Len(Frames)
  <2>1. Len(Frames) \in Nat /\ frames_used \in 0 .. Len(Frames)
    BY DEF Reads, FramesBehind
  <2>. SUFFICES ASSUME frames_used < Len(Frames) PROVE FALSE
    BY <2>1
  <2>2. frames_used + 1 \in 1 .. Len(Frames) /\ ~(frames_used + 1 <= frames_used)
    BY <2>1
  <2>3. ~(Frames[frames_used + 1] < Len(code))
    BY <1>5, <2>2 DEF FramesBehind
  <2>4. Frames[frames_used + 1] \in BranchTargets
    BY <2>2 DEF Reads, Range
  <2>. QED  BY <1>1, <2>3, <2>4, TargetsAreStarts
<1>. QED  BY <1>5, <1>6 DEF MethodFits

-----------------------------------------------------------------------------
(* The verdict.  Where frames share a place the JVM reads one that is       *)
(* nowhere in the code and never gets past it; where they do not, it is at  *)
(* a position, until it knows.                                              *)
Verifies ==
  /\ verdict = "none" /\ TargetsDistinct =>
       offset \in Nat /\ FramesBehind(offset, frames_used) /\ Position(offset, current)
  /\ verdict = "none" /\ ~TargetsDistinct =>
       frames_used \in Nat /\ \A n \in 1 .. frames_used : Frames[n] < Len(code)
  /\ verdict # "none" => (verdict = "accepted" <=> Loadable)

VerdictInv ==
  /\ step # "complete" => VerifierInit
  /\ step = "complete" /\ AttributeFits => Verifies

(* The frames stay the same while the attribute does,                       *)
LEMMA FramesStay ==
  ASSUME UNCHANGED << vars, attributeVars >>
  PROVE  Frames' = Frames
<1>1. res' = res /\ start' = start
  BY DEF attributeVars
<1>2. Method' = Method
  BY <1>1 DEF Method
<1>3. /\ Table!NumberOfEntries' = Table!NumberOfEntries
      /\ \A n : Table!EntryDelta(n)' = Table!EntryDelta(n)
  BY <1>1 DEF Table!NumberOfEntries, Table!EntryDelta, Table!EntryStart, Table!U2At, Table!At
<1>4. Table!FrameOffsets' = Table!FrameOffsets
  BY <1>3 DEF Table!FrameOffsets
<1>. QED  BY <1>1, <1>2, <1>4 DEF Frames

(* and so does the JVM's position if nothing moves it,                      *)
LEMMA PositionStays ==
  ASSUME UNCHANGED << vars, attributeVars >>, NEW o, NEW c, o = offset', c = current',
         Position(o, c)
  PROVE  Position(offset, current)'
<1>1. ir' = ir /\ starts' = starts /\ code' = code
  BY DEF vars
<1>2. BranchTargets' = BranchTargets /\ \A m : End(m)' = End(m)
  BY <1>1 DEF End, BranchTargets, LabelStart
<1>3. \A place : (LongStored(place)' <=> LongStored(place)) /\ Left(place)' = Left(place)
  BY <1>1 DEF LongStored, Left
<1>4. \A f, e : ClearUpTo(f, e)' <=> ClearUpTo(f, e)
  BY <1>1, <1>2, <1>3 DEF ClearUpTo, TargetClear, ElementClear
<1>5. CASE InPrologue(o, c)
  BY <1>5 DEF Position, InPrologue
<1>6. ASSUME NEW m \in DOMAIN ir, AtElement(m, o, c) PROVE Position(offset, current)'
  BY <1>1, <1>2, <1>3, <1>4, <1>6 DEF Position, AtElement, TargetClear
<1>7. ASSUME NEW m \in DOMAIN ir, InElement(m, o, c) PROVE Position(offset, current)'
  BY <1>1, <1>3, <1>4, <1>7 DEF Position, InElement
<1>8. CASE AtEnd(o, c)
  BY <1>1, <1>4, <1>8 DEF Position, AtEnd, AllClear
<1>. QED
  BY <1>5, <1>6, <1>7, <1>8 DEF Position

(* and what is said of the program.                                         *)
LEMMA ProgramStays ==
  ASSUME UNCHANGED << vars, attributeVars >>
  PROVE  /\ TargetsDistinct' <=> TargetsDistinct
         /\ Loadable' <=> Loadable
         /\ AttributeFits' <=> AttributeFits
<1>1. TargetsDistinct' <=> TargetsDistinct
  BY DEF vars, TargetsDistinct, LabelStart
<1>2. LongAssignedFirst' <=> LongAssignedFirst
  BY DEF vars, LongAssignedFirst, BranchTargets, LabelStart
<1>3. (\A n \in DOMAIN ir : LoadableAround(n))' <=> \A n \in DOMAIN ir : LoadableAround(n)
  BY DEF vars, LoadableAround, BranchTargets, LabelStart
<1>4. AttributeFits' <=> AttributeFits
  BY DEF vars, attributeVars, AttributeFits, CodeFits, Table!TableFits, Table!IndexFits
<1>. QED  BY <1>1, <1>2, <1>3, <1>4 DEF Loadable

(* The JVM begins when the attribute is complete.                           *)
LEMMA VerdictStarts ==
  ASSUME TypeOK, AttributeType, AttributeInv, MethodInv, VerifierInit
  PROVE  VerdictInv
<1>. SUFFICES ASSUME step = "complete", AttributeFits PROVE Verifies
  BY DEF VerdictInv
<1>1. TargetsDistinct => Reads
  BY ReadMethod
<1>2. /\ offset = 0 /\ frames_used = 0 /\ verdict = "none"
      /\ current = [FrameState EXCEPT !.local_1 = FALSE, !.local_2 = FALSE]
  BY DEF VerifierInit
<1>3. TargetsDistinct => FramesBehind(offset, frames_used) /\ Position(offset, current)
  BY <1>1, <1>2, PositionStart
<1>. QED  BY <1>2, <1>3 DEF Verifies

(* Checking an instruction takes it to the next position.                   *)
LEMMA CheckStep ==
  ASSUME TypeOK, AttributeType, AttributeInv, MethodInv, AttributeFits, Verifies,
         CheckInstruction
  PROVE  Verifies'
<1>1. /\ step = "complete" /\ verdict = "none" /\ offset < Len(Method) /\ InstructionFits
      /\ offset' = offset + Width(Opcode) /\ current' = Outgoing
      /\ frames_used' = IF AtFrame THEN frames_used + 1 ELSE frames_used
      /\ UNCHANGED << vars, attributeVars, verdict >>
  BY DEF CheckInstruction, Verifying
<1>2. Method = code /\ (TargetsDistinct => Reads)
  BY <1>1, ReadMethod
<1>3. /\ code' = code /\ Frames' = Frames /\ verdict' = "none"
      /\ TargetsDistinct' <=> TargetsDistinct
  BY <1>1, FramesStay, ProgramStays DEF vars
<1>4. ASSUME TargetsDistinct
      PROVE  /\ offset' \in Nat /\ FramesBehind(offset, frames_used)'
             /\ Position(offset, current)'
  <2>1. NextPosition
    BY <1>1, <1>2, <1>4, PositionStep DEF Verifies
  <2>2. PICK o : o = offset'
    OBVIOUS
  <2>3. PICK c : c = current'
    OBVIOUS
  <2>4. Position(o, c) /\ offset' \in Nat /\ FramesBehind(offset', frames_used')
    BY <1>1, <2>1, <2>2, <2>3 DEF NextPosition
  <2>5. Position(offset, current)'
    BY <1>1, <2>2, <2>3, <2>4, PositionStays
  <2>. QED  BY <1>3, <2>4, <2>5 DEF FramesBehind
<1>5. ASSUME ~TargetsDistinct
      PROVE  frames_used' \in Nat /\ \A n \in 1 .. frames_used' : Frames[n] < Len(code)
  <2>1. /\ frames_used \in Nat /\ \A n \in 1 .. frames_used : Frames[n] < Len(code)
        /\ AtFrame => Frames[frames_used + 1] < Len(code)
    BY <1>1, <1>2, <1>5 DEF Verifies, AtFrame
  <2>. QED  BY <1>1, <2>1
<1>. QED  BY <1>3, <1>4, <1>5 DEF Verifies

(* The JVM concludes as the program is.                                     *)
LEMMA ConcludeStep ==
  ASSUME TypeOK, AttributeType, AttributeInv, MethodInv, AttributeFits, Verifies, Conclude
  PROVE  Verifies'
<1>1. /\ step = "complete" /\ verdict = "none"
      /\ offset < Len(Method) => ~InstructionFits
      /\ verdict' = IF offset = Len(Method) /\ MethodFits THEN "accepted" ELSE "rejected"
      /\ UNCHANGED << vars, attributeVars, offset, current, frames_used >>
  BY DEF Conclude, Verifying
<1>2. /\ Method = code /\ Len(code) \in Nat /\ CodeFits
      /\ TargetsDistinct => Reads
      /\ ~TargetsDistinct => \E n \in 1 .. Len(Frames) : Frames[n] >= U16Range
      /\ Frames \in Seq(Nat)
  BY <1>1, ReadMethod
<1>3. verdict' # "none" /\ (Loadable' <=> Loadable)
  BY <1>1, ProgramStays
<1>4. CASE TargetsDistinct
  <2>1. Reads /\ Compiled /\ offset \in Nat /\ FramesBehind(offset, frames_used)
        /\ Position(offset, current)
    BY <1>1, <1>2, <1>4 DEF Verifies, Reads
  <2>2. Loadable <=> AllClear
    BY <1>4, <2>1, LoadableScan
  <2>3. CASE offset < Len(code)
    <3>1. ~AllClear
      BY <1>1, <1>2, <2>1, <2>3, PositionStep
    <3>2. verdict' = "rejected"
      BY <1>1, <1>2, <2>1, <2>3
    <3>. QED  BY <1>3, <2>2, <3>1, <3>2 DEF Verifies
  <2>4. CASE ~(offset < Len(code))
    <3>1. offset = Len(code) /\ MethodFits /\ AllClear
      BY <2>1, <2>4, PositionEnd
    <3>. QED  BY <1>1, <1>2, <1>3, <2>2, <3>1 DEF Verifies
  <2>. QED  BY <2>3, <2>4
<1>5. CASE ~TargetsDistinct
  <2>1. ~Loadable
    BY <1>5 DEF Loadable
  <2>2. frames_used # Len(Frames)
    <3>1. PICK n \in 1 .. Len(Frames) : Frames[n] >= U16Range
      BY <1>2, <1>5
    <3>2. Frames[n] \in Nat /\ Len(code) < U16Range /\ U16Range \in Nat
      BY <1>2, U16RangeAssumption DEF CodeFits
    <3>3. \A f \in 1 .. frames_used : Frames[f] < Len(code)
      BY <1>1, <1>5 DEF Verifies
    <3>. QED  BY <1>2, <3>1, <3>2, <3>3
  <2>3. verdict' = "rejected"
    BY <1>1, <2>2 DEF MethodFits
  <2>. QED  BY <1>3, <2>1, <2>3 DEF Verifies
<1>. QED  BY <1>4, <1>5

(* Every step keeps the verdict's invariant.                                *)
LEMMA VerdictStep ==
  ASSUME TypeOK, AttributeType, AttributeInv, MethodInv, VerdictInv,
         (VerifierInit => VerdictInv)',
         [VerifierNext]_allVars
  PROVE  VerdictInv'
<1>1. CASE CheckInstruction \/ Conclude
  <2>1. step = "complete" /\ UNCHANGED << vars, attributeVars >>
    BY <1>1 DEF CheckInstruction, Conclude, Verifying
  <2>2. step' = step /\ (AttributeFits' <=> AttributeFits)
    BY <2>1, ProgramStays DEF attributeVars
  <2>3. AttributeFits => Verifies'
    BY <1>1, <2>1, CheckStep, ConcludeStep DEF VerdictInv
  <2>. QED  BY <2>1, <2>2, <2>3 DEF VerdictInv
<1>2. CASE UNCHANGED allVars
  <2>1. UNCHANGED << vars, attributeVars, verifierVars >>
    BY <1>2 DEF allVars
  <2>2. /\ Frames' = Frames /\ code' = code /\ step' = step
        /\ AttributeFits' <=> AttributeFits
        /\ TargetsDistinct' <=> TargetsDistinct
        /\ Loadable' <=> Loadable
    BY <2>1, FramesStay, ProgramStays DEF vars, attributeVars
  <2>3. Position(offset, current) => Position(offset, current)'
    <3>1. PICK o : o = offset
      OBVIOUS
    <3>2. PICK c : c = current
      OBVIOUS
    <3>3. o = offset' /\ c = current'
      BY <2>1, <3>1, <3>2 DEF verifierVars
    <3>. QED  BY <2>1, <3>1, <3>2, <3>3, PositionStays
  <2>4. Verifies => Verifies'
    BY <2>1, <2>2, <2>3 DEF Verifies, FramesBehind, verifierVars
  <2>. QED  BY <2>1, <2>2, <2>4 DEF VerdictInv, VerifierInit, verifierVars
<1>3. CASE AttributeNext /\ UNCHANGED verifierVars
  <2>1. CASE step # "complete"
    <3>1. VerifierInit'
      BY <1>3, <2>1 DEF VerdictInv, VerifierInit, verifierVars
    <3>. QED  BY <3>1
  <2>2. ~(step = "complete" /\ WriteTable) /\ ~(step = "complete" /\ (BeginCode \/ EndCode))
    BY TableSteps DEF BeginCode, EndCode
  <2>3. ASSUME step = "complete" PROVE FALSE
    <3>1. Next
      BY <1>3, <2>2, <2>3 DEF AttributeNext
    <3>2. pc = "done"
      BY <2>3 DEF AttributeInv
    <3>. QED  BY <3>1, <3>2
      DEF Next, LoadConstant, BeginMain, FirstPass, WriteLabel, WriteR3, WriteAddi, WriteJump,
          WriteJumpUndefined, WriteNothing, EndFirstPass, UpdateLabelReference,
          LabelOffsetMissing, NextElement, EndMain
  <2>. QED  BY <2>1, <2>3
<1>. QED  BY <1>1, <1>2, <1>3 DEF VerifierNext

(* Whatever the program, the JVM accepts the method that comes out exactly  *)
(* if its jumps have places of their own, none of them comes before a long  *)
(* is stored, and what an unsupported instruction leaves on the stack does  *)
(* no harm: code, branch offsets, max_stack and the frames fit together.    *)
THEOREM AcceptedIffLoadableCorrect == VerifierSpec => []AcceptedIffLoadable
<1>1. TypeOK /\ AttributeType /\ AttributeInv /\ MethodInv => (VerifierInit => VerdictInv)
  BY VerdictStarts
<1>2. /\ TypeOK /\ AttributeType /\ AttributeInv /\ MethodInv
      /\ (VerifierInit => VerdictInv)'
      /\ VerdictInv /\ [VerifierNext]_allVars
      => VerdictInv'
  BY VerdictStep
<1>3. VerdictInv => AcceptedIffLoadable
  BY DEF VerdictInv, Verifies, AcceptedIffLoadable, VerifierInit
<1>4. VerifierAllInit => VerifierInit
  BY DEF VerifierAllInit
<1>. QED  BY <1>1, <1>2, <1>3, <1>4, MethodInvariance, PTL DEF VerifierSpec
=============================================================================
