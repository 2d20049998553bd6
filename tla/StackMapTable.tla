----------------------------- MODULE StackMapTable ----------------------------
(***************************************************************************)
(* add_stack_table_attribute of codegen.c: the frames of a method, noted in *)
(* the order its branches were found, are sorted by offset and written as   *)
(* a StackMapTable attribute.  The attribute_length is a placeholder until  *)
(* the entries are known.  Each iteration of the sort and of the entry loop *)
(* is one action.                                                           *)
(***************************************************************************)
EXTENDS Jvm, Functions

CONSTANTS
  TargetLists, (* the lists of target offsets a method may have             *)
  ResSizes,    (* how long the class file may be before the attribute       *)
  U16Range     (* how many values a uint16_t has: 65536 in the code         *)

(* Any value it has can be written in two bytes.                            *)
ASSUME U16RangeAssumption == U16Range \in Nat \ {0} /\ U16Range <= 65536
(* The function is called with at least one target, each of them a          *)
(* uint16_t.                                                                *)
ASSUME TargetListsAssumption ==
  \A targets \in TargetLists :
    targets # << >> /\ targets \in Seq(0 .. U16Range - 1)
(* How much of the class file is written before the attribute.              *)
ASSUME ResSizesAssumption == ResSizes \subseteq Nat

VARIABLES
  frames,                  (* the target offsets of the frames                *)
  res,                     (* the bytes of the class file                     *)
  step,                    (* the part of the function being executed         *)
  k,                       (* the index of its loop, plus one                 *)
  swapped,                 (* sort_stack_map_frames: this round swapped a pair *)
  previous_offset_deltas,
  attribute_length,
  attribute_length_idx,    (* where the placeholder is                        *)
  start,                   (* auxiliary: where the attribute starts           *)
  targets                  (* auxiliary: the frames as they were on entry     *)

tableVars == << frames, res, step, k, swapped, previous_offset_deltas,
                attribute_length, attribute_length_idx, start, targets >>

Truncated(n) == n % U16Range

STACK_MAP_TABLE == 24      (* its index in the constant pool, as is           *)
LONG_ARRAY_CLASS_INDEX == 8
JVM_SAME_FRAME_EXTENDED == 251
APPEND_2_LOCALS == 253
JVM_ITEM_OBJECT == 7
JVM_ITEM_LONG == 4

TableInit ==
  /\ step = "begin"
  /\ k = 1
  /\ swapped = FALSE
  /\ previous_offset_deltas = 0
  /\ attribute_length = 2
  /\ attribute_length_idx = 0
  /\ start = 0
  /\ targets = << >>

(* The function is called for a method that has at least one frame.         *)
Init ==
  /\ frames \in TargetLists
  /\ \E size \in ResSizes : res = [n \in 1 .. size |-> 0]
  /\ TableInit

BeginTable ==
  /\ step = "begin"
  /\ step' = "sort"
  /\ attribute_length_idx' = Truncated(Len(res) + 2)
  /\ res' = res \o Bytes2(STACK_MAP_TABLE) \o Bytes4(0) \o Bytes2(Len(frames))
  /\ start' = Len(res)
  /\ targets' = frames
  /\ UNCHANGED << frames, k, swapped, previous_offset_deltas, attribute_length >>

-----------------------------------------------------------------------------
(* sort_stack_map_frames: rounds over the neighbours until one swaps none.  *)
Exchanged(s, n) == [s EXCEPT ![n] = s[n + 1], ![n + 1] = s[n]]

OutOfOrder_mutant(n) == frames[n] >= frames[n + 1]
OutOfOrder(n) == frames[n] > frames[n + 1]

CompareNeighbours ==
  /\ step = "sort"
  /\ k < Len(frames)
  /\ \/ /\ OutOfOrder(k)
        /\ frames' = Exchanged(frames, k)
        /\ swapped' = TRUE
     \/ /\ ~OutOfOrder(k)
        /\ UNCHANGED << frames, swapped >>
  /\ k' = k + 1
  /\ UNCHANGED << res, step, previous_offset_deltas, attribute_length,
                  attribute_length_idx, start, targets >>

EndRound ==
  /\ step = "sort"
  /\ k >= Len(frames)
  /\ step' = IF swapped THEN "sort" ELSE "entries"
  /\ swapped' = FALSE
  /\ k' = 1
  /\ UNCHANGED << frames, res, previous_offset_deltas, attribute_length,
                  attribute_length_idx, start, targets >>

-----------------------------------------------------------------------------
(* One entry: what the JVM adds to the offset of the previous one, less one. *)
OffsetDelta_mutant == Truncated(frames[k] - previous_offset_deltas)
OffsetDelta == Truncated(frames[k] - previous_offset_deltas - (k - 1))

(* The first entry adds the register array and the spare long to the locals *)
(* that main starts with; it says so whether or not they are assigned.      *)
FirstEntry(delta) ==
  << APPEND_2_LOCALS >> \o Bytes2(delta)
  \o << JVM_ITEM_OBJECT >> \o Bytes2(LONG_ARRAY_CLASS_INDEX) \o << JVM_ITEM_LONG >>

LaterEntry(delta) == << JVM_SAME_FRAME_EXTENDED >> \o Bytes2(delta)

Entry(delta) == IF k = 1 THEN FirstEntry(delta) ELSE LaterEntry(delta)

(* What the code adds to the attribute length for it.                       *)
EntryLength_mutant == IF k = 1 THEN 1 + (2 + 1 + 2) ELSE 1 + 2
EntryLength == IF k = 1 THEN 1 + (2 + 1 + 2 + 1) ELSE 1 + 2

WriteEntry ==
  /\ step = "entries"
  /\ k <= Len(frames)
  /\ res' = res \o Entry(OffsetDelta)
  /\ attribute_length' = attribute_length + EntryLength
  /\ previous_offset_deltas' = Truncated(previous_offset_deltas + OffsetDelta)
  /\ k' = k + 1
  /\ UNCHANGED << frames, step, swapped, attribute_length_idx, start, targets >>

EndTable ==
  /\ step = "entries"
  /\ k > Len(frames)
  /\ res' = Overwrite(res, attribute_length_idx, Bytes4(attribute_length))
  /\ step' = "written"
  /\ UNCHANGED << frames, k, swapped, previous_offset_deltas, attribute_length,
                  attribute_length_idx, start, targets >>

Next == BeginTable \/ CompareNeighbours \/ EndRound \/ WriteEntry \/ EndTable

Spec == Init /\ [][Next]_tableVars

(* The compiler is one sequential process: while it can step, it does.      *)
FairSpec == Spec /\ WF_tableVars(Next)

-----------------------------------------------------------------------------
(* What the JVM reads back from the attribute.                              *)
NumberOfEntries == U2At(res, start + 6)
EntryStart(n) == IF n = 1 THEN start + 8 ELSE start + 15 + 3 * (n - 2)
EntryDelta(n) == U2At(res, EntryStart(n) + 1)

FrameOffsets ==
  LET offset[n \in 1 .. NumberOfEntries] ==
        IF n = 1 THEN EntryDelta(1) ELSE offset[n - 1] + EntryDelta(n) + 1
  IN  offset

-----------------------------------------------------------------------------
(* Properties.                                                              *)
TypeOK ==
  /\ frames \in Seq(0 .. U16Range - 1)
  /\ res \in Seq(Byte)
  /\ step \in {"begin", "sort", "entries", "written"}
  /\ k \in Nat \ {0}
  /\ swapped \in BOOLEAN
  /\ previous_offset_deltas \in 0 .. U16Range - 1
  /\ attribute_length \in Nat
  /\ attribute_length_idx \in 0 .. U16Range - 1
  /\ start \in Nat
  /\ targets \in Seq(0 .. U16Range - 1)

(* The placeholder is where attribute_length_idx, a uint16_t, says it is.   *)
IndexFits == start + 2 < U16Range

(* And number_of_entries, two bytes, is the number of frames.               *)
TableFits == IndexFits /\ Len(frames) < 65536

(* When the targets of a method are all different, what the JVM reads back  *)
(* is exactly them in increasing order: sorting loses none, and the deltas, *)
(* which are relative to a running sum of earlier deltas and to the number  *)
(* of entries, add up to the offsets again.                                 *)
DecodesToTargets ==
  step = "written" /\ TableFits /\ IsInjective(targets) =>
    /\ Range(FrameOffsets) = Range(targets)
    /\ \A n \in 2 .. NumberOfEntries : FrameOffsets[n - 1] < FrameOffsets[n]

(* The length in the attribute's header is the number of bytes after the    *)
(* header, so that the JVM finds what follows the attribute.                *)
LengthIsExact ==
  step = "written" /\ TableFits => S4At(res, start + 2) = Len(res) - start - 6

(* Filling in the length touches the placeholder and no byte before it.     *)
ClassFileKept ==
  [][\A n \in DOMAIN res :
       IndexFits' /\ res'[n] # res[n] => n - 1 \in start + 2 .. start + 5]_tableVars

(* The rounds of the sort come to an end, for equal targets too.            *)
TableFinishes == <>(step = "written")
=============================================================================
