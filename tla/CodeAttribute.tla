----------------------------- MODULE CodeAttribute ----------------------------
(***************************************************************************)
(* add_code_attribute of codegen.c for the method main: the bytes of the   *)
(* finished method become a Code attribute, with a StackMapTable of its    *)
(* own when the method has branches.  res holds the attribute only, not    *)
(* the part of the class file before it.                                   *)
(***************************************************************************)
EXTENDS MainMethod

VARIABLES
  res, step, k, swapped, previous_offset_deltas, attribute_length,
  attribute_length_idx, start, targets    (* those of StackMapTable           *)

attributeVars == << res, step, k, swapped, previous_offset_deltas,
                    attribute_length, attribute_length_idx, start, targets >>

Table == INSTANCE StackMapTable
           WITH frames <- stack_map_frames, TargetLists <- {}, ResSizes <- {}

CODE == 23      (* its index in the constant pool, as the next two           *)
MaxStack == 5
MaxLocals == 4

AttributesCount == IF stack_map_frames = << >> THEN 0 ELSE 1

AttributeInit == Table!TableInit /\ res = << >>

(* add_code_attribute up to the call of add_stack_table_attribute, which it *)
(* makes only for a method with frames.                                     *)
BeginCode ==
  /\ pc = "done"
  /\ step = "begin"
  /\ res = << >>
  /\ res' = Bytes2(CODE) \o Bytes4(0) \o Bytes2(MaxStack) \o Bytes2(MaxLocals)
            \o Bytes4(Len(code)) \o code \o Bytes2(0) \o Bytes2(AttributesCount)
  /\ step' = IF stack_map_frames = << >> THEN "written" ELSE "begin"
  /\ UNCHANGED << vars, k, swapped, previous_offset_deltas, attribute_length,
                  attribute_length_idx, start, targets >>

WriteTable ==
  /\ res # << >>
  /\ Table!Next
  /\ UNCHANGED << ir, pc, i, j, integers, code, code_label_offsets,
                  label_references, starts >>

(* What add_stack_table_attribute returns is its own length and header.     *)
CodeLength_mutant ==
  Len(code) + 12 + IF stack_map_frames = << >> THEN 0 ELSE attribute_length
CodeLength ==
  Len(code) + 12 + IF stack_map_frames = << >> THEN 0 ELSE attribute_length + 6

EndCode ==
  /\ step = "written"
  /\ res' = Overwrite(res, 2, Bytes4(CodeLength))
  /\ step' = "complete"
  /\ UNCHANGED << vars, k, swapped, previous_offset_deltas, attribute_length,
                  attribute_length_idx, start, targets >>

AttributeNext ==
  \/ Next /\ UNCHANGED attributeVars
  \/ BeginCode \/ WriteTable \/ EndCode

-----------------------------------------------------------------------------
(* The offsets in the attribute are exact: those of the method, and the one *)
(* of the placeholder in the table of a method that has frames.             *)
AttributeFits ==
  CodeFits /\ (stack_map_frames # << >> => Table!TableFits)

(* The attribute's length is the number of bytes after its header, with a   *)
(* StackMapTable and without one, and the code in it is the finished code:  *)
(* the JVM finds the table after it, and the end of the class after that.   *)
CodeIsExact ==
  step = "complete" /\ AttributeFits =>
    /\ S4At(res, 2) = Len(res) - 6
    /\ SubSeq(res, 15, 14 + S4At(res, 10)) = code
=============================================================================
