-------------------------- MODULE StackMapTable_proofs -------------------------
(***************************************************************************)
(* Theorems about StackMapTable, for frame lists of any length and class   *)
(* files of any size.                                                      *)
(***************************************************************************)
EXTENDS StackMapTable, Jvm_proofs

(* A conversion to uint16_t gives a uint16_t.                               *)
LEMMA TruncatedType ==
  ASSUME NEW n \in Int
  PROVE  Truncated(n) \in 0 .. U16Range - 1
BY U16RangeAssumption DEF Truncated

(* It does not change a number that is one.                                 *)
LEMMA TruncatedFits ==
  ASSUME NEW n \in 0 .. U16Range - 1
  PROVE  Truncated(n) = n
<1>1. U16Range \in Nat \ {0}
  BY U16RangeAssumption
<1>. QED  BY <1>1 DEF Truncated

(* The number before 0 is the greatest.                                     *)
LEMMA TruncatedMinusOne == Truncated(-1) = U16Range - 1
<1>1. U16Range \in Nat \ {0} /\ U16Range - 1 \in 0 .. U16Range - 1
  BY U16RangeAssumption
<1>2. ASSUME NEW q \in Int
      PROVE  (U16Range * q + (U16Range - 1)) % U16Range = U16Range - 1
  BY <1>1, ModUnique
<1>3. U16Range * (-1) + (U16Range - 1) = -1 /\ -1 \in Int
  BY <1>1
<1>4. (U16Range * (-1) + (U16Range - 1)) % U16Range = U16Range - 1
  BY <1>2, <1>3
<1>. QED  BY <1>3, <1>4 DEF Truncated

(* An entry is three bytes, the first one seven; its delta is in the second *)
(* and the third.                                                           *)
LEMMA EntryBytes ==
  ASSUME NEW delta \in Int
  PROVE  /\ Entry(delta) \in Seq(Byte)
         /\ Len(Entry(delta)) = IF k = 1 THEN 7 ELSE 3
         /\ Entry(delta)[2] = Bytes2(delta)[1]
         /\ Entry(delta)[3] = Bytes2(delta)[2]
<1>. DEFINE a == Bytes2(delta)[1]
            b == Bytes2(delta)[2]
<1>1. Bytes2(delta) = << a, b >> /\ a \in Byte /\ b \in Byte
  BY DEF Bytes2, Byte
<1>. HIDE DEF a, b
<1>2. Bytes2(LONG_ARRAY_CLASS_INDEX) = << 0, 8 >>
  BY DEF Bytes2, LONG_ARRAY_CLASS_INDEX
<1>3. /\ LaterEntry(delta) \in Seq(Byte)
      /\ Len(LaterEntry(delta)) = 3
      /\ LaterEntry(delta)[2] = a
      /\ LaterEntry(delta)[3] = b
  BY <1>1 DEF LaterEntry, JVM_SAME_FRAME_EXTENDED, Byte
<1>4. /\ FirstEntry(delta) \in Seq(Byte)
      /\ Len(FirstEntry(delta)) = 7
      /\ FirstEntry(delta)[2] = a
      /\ FirstEntry(delta)[3] = b
  <2>. DEFINE head == << APPEND_2_LOCALS >> \o Bytes2(delta)
              rest == << 0, 8 >> \o << JVM_ITEM_LONG >>
              tail == << JVM_ITEM_OBJECT >> \o rest
  <2>1. head \in Seq(Byte) /\ Len(head) = 3 /\ head[2] = a /\ head[3] = b
    BY <1>1 DEF APPEND_2_LOCALS, Byte
  <2>2. rest \in Seq(Byte) /\ Len(rest) = 3
    BY DEF JVM_ITEM_LONG, Byte
  <2>3. tail \in Seq(Byte) /\ Len(tail) = 4
    BY <2>2 DEF JVM_ITEM_OBJECT, Byte
  <2>. HIDE DEF head, rest, tail
  <2>4. FirstEntry(delta) = head \o tail
    BY <1>2, <2>1, <2>2, <2>3 DEF FirstEntry, head, tail, rest, Byte
  <2>5. head \in Seq(Byte) /\ tail \in Seq(Byte)
    BY <2>1, <2>3
  <2>6. /\ head \o tail \in Seq(Byte)
        /\ Len(head \o tail) = Len(head) + Len(tail)
        /\ \A m \in 1 .. Len(head) : (head \o tail)[m] = head[m]
    BY <2>5, ConcatBytes
  <2>. QED  BY <2>1, <2>3, <2>4, <2>6
<1>. QED  BY <1>3, <1>4 DEF Entry, a, b

(* Exchanging two neighbours of a sequence.                                 *)
LEMMA ExchangedElements ==
  ASSUME NEW S, NEW s \in Seq(S), NEW n \in 1 .. Len(s) - 1
  PROVE  /\ Exchanged(s, n) \in Seq(S)
         /\ Len(Exchanged(s, n)) = Len(s)
         /\ Exchanged(s, n)[n] = s[n + 1]
         /\ Exchanged(s, n)[n + 1] = s[n]
         /\ \A m \in 1 .. Len(s) : m # n /\ m # n + 1 => Exchanged(s, n)[m] = s[m]
<1>. DEFINE t == Exchanged(s, n)
<1>1. DOMAIN s = 1 .. Len(s) /\ n \in 1 .. Len(s) /\ n + 1 \in 1 .. Len(s)
  OBVIOUS
<1>2. t = [m \in 1 .. Len(s) |-> IF m = n + 1 THEN s[n] ELSE IF m = n THEN s[n + 1] ELSE s[m]]
  BY <1>1 DEF Exchanged
<1>. HIDE DEF t
<1>3. t \in [1 .. Len(s) -> S]
  BY <1>1, <1>2
<1>4. t \in Seq(S) /\ Len(t) = Len(s)
  BY <1>3
<1>5. t[n] = s[n + 1] /\ t[n + 1] = s[n]
      /\ \A m \in 1 .. Len(s) : m # n /\ m # n + 1 => t[m] = s[m]
  BY <1>1, <1>2
<1>. QED  BY <1>4, <1>5 DEF t

-----------------------------------------------------------------------------
(* Types.                                                                   *)

(* The types hold at the start: no frames are sorted, nothing is written.   *)
LEMMA TypeInit == Init => TypeOK
<1>1. \A size \in ResSizes : [n \in 1 .. size |-> 0] \in Seq(Byte)
  BY ResSizesAssumption DEF Byte
<1>2. << >> \in Seq(0 .. U16Range - 1) /\ 0 \in 0 .. U16Range - 1
  BY U16RangeAssumption
<1>. SUFFICES ASSUME Init PROVE TypeOK
  OBVIOUS
<1>3. frames \in Seq(0 .. U16Range - 1)
  BY TargetListsAssumption DEF Init
<1>4. res \in Seq(Byte)
  BY <1>1 DEF Init
<1>5. swapped \in BOOLEAN
  BY DEF Init, TableInit
<1>6. /\ step \in {"begin", "sort", "entries", "written"} /\ k \in Nat \ {0}
      /\ previous_offset_deltas \in 0 .. U16Range - 1
      /\ attribute_length \in Nat
      /\ attribute_length_idx \in 0 .. U16Range - 1
      /\ start \in Nat
      /\ targets \in Seq(0 .. U16Range - 1)
  BY <1>2 DEF Init, TableInit
<1>. QED  BY <1>3, <1>4, <1>5, <1>6 DEF TypeOK

(* Every step keeps them: what is emitted are bytes, and indices stay in    *)
(* range.                                                                   *)
LEMMA TypeStep ==
  ASSUME TypeOK, [Next]_tableVars
  PROVE  TypeOK'
<1>. USE DEF TypeOK
<1>1. CASE BeginTable
  <2>1. res' \in Seq(Byte)
    BY <1>1, BytesAreBytes, ConcatType DEF BeginTable, STACK_MAP_TABLE
  <2>2. attribute_length_idx' \in 0 .. U16Range - 1
    BY <1>1, TruncatedType DEF BeginTable
  <2>. QED  BY <1>1, <2>1, <2>2 DEF BeginTable
<1>2. CASE CompareNeighbours
  <2>1. frames' \in Seq(0 .. U16Range - 1)
    <3>1. k \in 1 .. Len(frames) - 1
      BY <1>2 DEF CompareNeighbours
    <3>. QED  BY <1>2, <3>1, ExchangedElements DEF CompareNeighbours
  <2>2. swapped' \in BOOLEAN
    BY <1>2 DEF CompareNeighbours
  <2>3. k' \in Nat \ {0}
    BY <1>2 DEF CompareNeighbours
  <2>4. UNCHANGED << res, step, previous_offset_deltas, attribute_length,
                  attribute_length_idx, start, targets >>
    BY <1>2 DEF CompareNeighbours
  <2>. QED  BY <2>1, <2>2, <2>3, <2>4
<1>3. CASE EndRound
  <2>1. step' \in {"begin", "sort", "entries", "written"}
    BY <1>3 DEF EndRound
  <2>2. swapped' \in BOOLEAN
    BY <1>3 DEF EndRound
  <2>3. k' \in Nat \ {0}
    BY <1>3 DEF EndRound
  <2>4. UNCHANGED << frames, res, previous_offset_deltas, attribute_length,
                  attribute_length_idx, start, targets >>
    BY <1>3 DEF EndRound
  <2>. QED  BY <2>1, <2>2, <2>3, <2>4
<1>4. CASE WriteEntry
  <2>1. frames[k] \in Int /\ previous_offset_deltas \in Int
    BY <1>4, U16RangeAssumption, SMTT(30) DEF WriteEntry
  <2>2. OffsetDelta \in 0 .. U16Range - 1 /\ OffsetDelta \in Int
    <3>1. frames[k] - previous_offset_deltas - (k - 1) \in Int
      BY <2>1
    <3>. QED  BY <3>1, TruncatedType, U16RangeAssumption DEF OffsetDelta
  <2>3. res' \in Seq(Byte)
    BY <1>4, <2>2, EntryBytes, ConcatType DEF WriteEntry
  <2>4. previous_offset_deltas' \in 0 .. U16Range - 1
    BY <1>4, <2>1, <2>2, TruncatedType DEF WriteEntry
  <2>5. attribute_length' \in Nat
    BY <1>4 DEF WriteEntry, EntryLength
  <2>. QED  BY <1>4, <2>3, <2>4, <2>5 DEF WriteEntry
<1>5. CASE EndTable
  <2>1. res' \in Seq(Byte)
    BY <1>5, U16RangeAssumption, BytesAreBytes, OverwriteType DEF EndTable
  <2>. QED  BY <1>5, <2>1 DEF EndTable
<1>6. CASE UNCHANGED tableVars
  BY <1>6 DEF tableVars
<1>. QED  BY <1>1, <1>2, <1>3, <1>4, <1>5, <1>6 DEF Next

(* Sorting and encoding keep the types: offsets stay in their uint16_t, and *)
(* what is written is bytes.                                                *)
THEOREM TypeCorrect == Spec => []TypeOK
BY TypeInit, TypeStep, PTL DEF Spec
-----------------------------------------------------------------------------
(* The sort and the entries.                                                *)

Sorted(n) == \A m \in 2 .. n : frames[m - 1] <= frames[m]

(* A round that has swapped nothing so far leaves order behind; rounds only *)
(* exchange frames.                                                         *)
SortInv ==
  /\ frames # << >>
  /\ step # "begin" =>
       /\ Len(frames) = Len(targets)
       /\ Range(frames) = Range(targets)
       /\ IsInjective(targets) <=> IsInjective(frames)
  /\ step = "sort" => k <= Len(frames) /\ (swapped = FALSE => Sorted(k))
  /\ step \in {"entries", "written"} => Sorted(Len(frames))

WrittenAt(place, n) ==
  res[place + 1] = Bytes2(n)[1] /\ res[place + 2] = Bytes2(n)[2]

(* The delta of the entry of frames[n]: as the JVM wants it, whatever       *)
(* previous_offset_deltas was truncated to.                                 *)
Delta(n) ==
  IF n = 1 THEN frames[1] ELSE Truncated(frames[n] - frames[n - 1] - 1)

(* The table has its number of entries and the first n of them, and the     *)
(* length counted is the length there is.                                   *)
TableWritten(n) ==
  /\ Len(res) = EntryStart(n + 1)
  /\ attribute_length = Len(res) - start - 6
  /\ WrittenAt(start + 6, Len(frames))
  /\ \A m \in 1 .. n : WrittenAt(EntryStart(m) + 1, Delta(m))

EntryInv ==
  /\ step = "begin" =>
       k = 1 /\ attribute_length = 2 /\ previous_offset_deltas = 0 /\ swapped = FALSE
  /\ step # "begin" => attribute_length_idx = Truncated(start + 2)
  /\ step = "sort" => TableWritten(0) /\ previous_offset_deltas = 0
  /\ step = "entries" =>
       /\ k <= Len(frames) + 1
       /\ TableWritten(k - 1)
       /\ previous_offset_deltas =
            IF k = 1 THEN 0 ELSE Truncated(frames[k - 1] - (k - 2))
  /\ step = "written" /\ IndexFits =>
       /\ TableWritten(Len(frames))
       /\ \A m \in 1 .. 4 : res[start + 2 + m] = Bytes4(attribute_length)[m]

-----------------------------------------------------------------------------
(* The sort has done nothing.                                               *)
LEMMA SortInit == Init => SortInv
<1>1. Init => frames # << >> /\ step = "begin"
  BY TargetListsAssumption DEF Init, TableInit
<1>. QED  BY <1>1 DEF SortInv

(* An exchange keeps what there is and whether it is there once.            *)
LEMMA ExchangedRange ==
  ASSUME NEW S, NEW s \in Seq(S), NEW n \in 1 .. Len(s) - 1
  PROVE  /\ Range(Exchanged(s, n)) = Range(s)
         /\ IsInjective(s) <=> IsInjective(Exchanged(s, n))
<1>. DEFINE t == Exchanged(s, n)
            from(m) == IF m = n THEN n + 1 ELSE IF m = n + 1 THEN n ELSE m
<1>1. DOMAIN s = 1 .. Len(s) /\ DOMAIN t = 1 .. Len(s)
  BY ExchangedElements
<1>2. \A m \in 1 .. Len(s) :
        from(m) \in 1 .. Len(s) /\ from(from(m)) = m /\ t[m] = s[from(m)]
  <2>. SUFFICES ASSUME NEW m \in 1 .. Len(s)
                PROVE  from(m) \in 1 .. Len(s) /\ from(from(m)) = m /\ t[m] = s[from(m)]
    OBVIOUS
  <2>1. from(m) \in 1 .. Len(s) /\ from(from(m)) = m
    OBVIOUS
  <2>2. /\ t[n] = s[n + 1] /\ t[n + 1] = s[n]
        /\ m # n /\ m # n + 1 => t[m] = s[m]
    BY ExchangedElements
  <2>. QED  BY <2>1, <2>2
<1>. HIDE DEF t, from
<1>3. \A m \in 1 .. Len(s) : s[m] = t[from(m)]
  BY <1>2
<1>4. Range(t) = Range(s)
  BY <1>1, <1>2, <1>3 DEF Range
<1>5. ASSUME IsInjective(s) PROVE IsInjective(t)
  <2>. SUFFICES ASSUME NEW a \in 1 .. Len(s), NEW b \in 1 .. Len(s), t[a] = t[b]
                PROVE  a = b
    BY <1>1 DEF IsInjective
  <2>1. from(a) = from(b)
    BY <1>1, <1>2, <1>5 DEF IsInjective
  <2>. QED  BY <1>2, <2>1
<1>6. ASSUME IsInjective(t) PROVE IsInjective(s)
  <2>. SUFFICES ASSUME NEW a \in 1 .. Len(s), NEW b \in 1 .. Len(s), s[a] = s[b]
                PROVE  a = b
    BY <1>1 DEF IsInjective
  <2>1. from(a) = from(b)
    BY <1>1, <1>2, <1>3, <1>6 DEF IsInjective
  <2>. QED  BY <1>2, <2>1
<1>. QED  BY <1>4, <1>5, <1>6 DEF t

(* Every step keeps the sort's part of the invariant: the targets stay the  *)
(* ones given, and those after the current round's end are in place.        *)
LEMMA SortStep ==
  ASSUME TypeOK, EntryInv, SortInv, [Next]_tableVars
  PROVE  SortInv'
<1>0. frames \in Seq(Int) /\ Len(frames) \in Nat \ {0} /\ k \in Nat \ {0}
  BY U16RangeAssumption DEF TypeOK, SortInv
<1>1. CASE BeginTable
  <2>1. k = 1
    BY <1>1 DEF BeginTable, EntryInv
  <2>. QED  BY <1>0, <1>1, <2>1 DEF BeginTable, SortInv, Sorted
<1>2. CASE CompareNeighbours
  <2>1. k \in 1 .. Len(frames) - 1 /\ k' = k + 1 /\ step = "sort" /\ step' = "sort"
        /\ targets' = targets
    BY <1>0, <1>2 DEF CompareNeighbours
  <2>2. CASE OutOfOrder(k) /\ frames' = Exchanged(frames, k) /\ swapped' = TRUE
    <3>1. Len(frames') = Len(frames)
      BY <1>0, <2>1, <2>2, ExchangedElements
    <3>2. frames' # << >>
      BY <1>0, <3>1
    <3>3. /\ Range(frames') = Range(frames)
          /\ IsInjective(frames) <=> IsInjective(frames')
      BY <1>0, <2>1, <2>2, ExchangedRange
    <3>4. k' <= Len(frames')
      BY <1>0, <2>1, <3>1
    <3>5. swapped' # FALSE
      BY <2>2
    <3>. QED  BY <1>0, <2>1, <3>1, <3>2, <3>3, <3>4, <3>5 DEF SortInv
  <2>3. CASE ~OutOfOrder(k) /\ UNCHANGED << frames, swapped >>
    <3>1. frames[k] <= frames[k + 1]
      BY <1>0, <2>1, <2>3 DEF OutOfOrder
    <3>2. Sorted(k) => Sorted(k + 1)
      BY <1>0, <2>1, <3>1 DEF Sorted
    <3>3. Sorted(k + 1) => Sorted(k)'
      BY <2>1, <2>3 DEF Sorted
    <3>. QED  BY <2>1, <2>3, <3>2, <3>3 DEF SortInv
  <2>. QED  BY <1>2, <2>2, <2>3 DEF CompareNeighbours
<1>3. CASE EndRound
  <2>1. k = Len(frames) /\ step = "sort" /\ k' = 1 /\ UNCHANGED << frames, targets >>
    BY <1>0, <1>3 DEF EndRound, SortInv
  <2>2. Sorted(1)
    BY DEF Sorted
  <2>3. CASE swapped = FALSE
    <3>1. Sorted(Len(frames))
      BY <2>1, <2>3 DEF SortInv
    <3>2. step' = "entries"
      BY <1>3, <2>3 DEF EndRound
    <3>. QED  BY <2>1, <3>1, <3>2 DEF SortInv, Sorted
  <2>4. CASE swapped = TRUE
    <3>1. step' = "sort"
      BY <1>3, <2>4 DEF EndRound
    <3>. QED  BY <1>0, <2>1, <2>2, <3>1 DEF SortInv, Sorted
  <2>. QED  BY <2>3, <2>4 DEF TypeOK
<1>4. CASE WriteEntry
  BY <1>4 DEF WriteEntry, SortInv, Sorted
<1>5. CASE EndTable
  BY <1>5 DEF EndTable, SortInv, Sorted
<1>6. CASE UNCHANGED tableVars
  BY <1>6 DEF tableVars, SortInv, Sorted
<1>. QED  BY <1>1, <1>2, <1>3, <1>4, <1>5, <1>6 DEF Next

-----------------------------------------------------------------------------
(* No entry is written at the start.                                        *)
LEMMA EntryInit == Init => EntryInv
BY DEF Init, TableInit, EntryInv

(* What the sum of the deltas so far was truncated to cancels out.          *)
LEMMA DeltaWritten ==
  ASSUME TypeOK, k \in 1 .. Len(frames),
         previous_offset_deltas =
           IF k = 1 THEN 0 ELSE Truncated(frames[k - 1] - (k - 2))
  PROVE  /\ OffsetDelta = Delta(k)
         /\ Truncated(previous_offset_deltas + OffsetDelta)
              = Truncated(frames[k] - (k - 1))
<1>1. U16Range \in Nat \ {0} /\ frames[k] \in 0 .. U16Range - 1
  BY U16RangeAssumption, SMTT(30) DEF TypeOK
<1>. DEFINE x == frames[k] - (k - 1)
<1>2. x \in Int /\ frames[k] \in Int /\ k \in Int
  BY <1>1
<1>3. CASE k = 1
  <2>1. OffsetDelta = Truncated(frames[1])
    BY <1>2, <1>3 DEF OffsetDelta
  <2>2. Truncated(frames[1]) = frames[1]
    BY <1>1, <1>3, TruncatedFits
  <2>. QED  BY <1>2, <1>3, <2>1, <2>2 DEF Delta
<1>4. CASE k # 1
  <2>. DEFINE y == frames[k - 1] - (k - 2)
  <2>1. y \in Int /\ frames[k - 1] \in Int
    BY <1>1, <1>4, SMTT(30) DEF TypeOK
  <2>2. previous_offset_deltas = y % U16Range
    BY <1>4 DEF Truncated
  <2>3. y % U16Range \in Int
    BY <1>1, <2>1
  <2>4. frames[k] - (y % U16Range) - (k - 1) = x - (y % U16Range)
    BY <1>2, <2>3
  <2>5. OffsetDelta = (x - y) % U16Range
    <3>1. (x - (y % U16Range)) % U16Range = (x - y) % U16Range
      <4>. HIDE DEF x, y
      <4>. QED  BY <1>1, <1>2, <2>1, ModSum
    <3>2. OffsetDelta = (x - (y % U16Range)) % U16Range
      BY <2>2, <2>4 DEF OffsetDelta, Truncated
    <3>. QED  BY <3>1, <3>2
  <2>6. x - y = frames[k] - frames[k - 1] - 1
    <3>1. \A u, v, n \in Int : (u - (n - 1)) - (v - (n - 2)) = u - v - 1
      OBVIOUS
    <3>. QED  BY <1>2, <2>1, <3>1
  <2>7. ((x - y) % U16Range) \in Int /\ x - y \in Int
    BY <1>1, <1>2, <2>1, SMTT(30)
  <2>8. ((y % U16Range) + ((x - y) % U16Range)) % U16Range = x % U16Range
    <3>1. ((y % U16Range) + ((x - y) % U16Range)) % U16Range
            = (y + ((x - y) % U16Range)) % U16Range
      BY <1>1, <2>1, <2>7, ModSum
    <3>2. (((x - y) % U16Range) + y) % U16Range = ((x - y) + y) % U16Range
      BY <1>1, <2>1, <2>7, ModSum
    <3>3. y + ((x - y) % U16Range) = ((x - y) % U16Range) + y /\ (x - y) + y = x
      BY <1>2, <2>1, <2>7, SMTT(60)
    <3>. QED  BY <3>1, <3>2, <3>3
  <2>. QED  BY <1>4, <2>2, <2>5, <2>6, <2>8 DEF Delta, Truncated
<1>. QED  BY <1>3, <1>4

(* Where the entries start: the first one of seven bytes, the others of     *)
(* three, none overlapping an earlier one.                                  *)
LEMMA EntryStarts ==
  ASSUME start \in Nat, NEW m \in Nat \ {0}
  PROVE  /\ EntryStart(m) \in Nat
         /\ start + 8 <= EntryStart(m)
         /\ EntryStart(m + 1) = EntryStart(m) + IF m = 1 THEN 7 ELSE 3
         /\ \A n \in 1 .. m - 1 : EntryStart(n) + 3 <= EntryStart(m)
BY DEF EntryStart

(* After the attribute's head is written, the table is written up to entry  *)
(* 0.                                                                       *)
LEMMA BeginTableEntries ==
  ASSUME TypeOK, EntryInv, BeginTable
  PROVE  TableWritten(0)'
<1>. DEFINE a == res \o Bytes2(STACK_MAP_TABLE)
            b == a \o Bytes4(0)
            count == Bytes2(Len(frames))
<1>1. res \in Seq(Byte) /\ a \in Seq(Byte) /\ b \in Seq(Byte) /\ count \in Seq(Byte)
  BY BytesAreBytes, ConcatType DEF TypeOK, STACK_MAP_TABLE
<1>2. /\ Len(Bytes2(STACK_MAP_TABLE)) = 2 /\ Len(Bytes4(0)) = 4
      /\ Len(count) = 2
  BY DEF Bytes2, Bytes4
<1>3. Len(a) = Len(res) + Len(Bytes2(STACK_MAP_TABLE)) /\ Len(b) = Len(a) + Len(Bytes4(0))
  BY <1>1, BytesAreBytes, ConcatBytes DEF STACK_MAP_TABLE
<1>. HIDE DEF a, b, count
<1>4. Len(b) = Len(res) + 6 /\ Len(res) \in Nat
  <2>1. Len(res) \in Nat
    BY <1>1
  <2>2. Len(a) = Len(res) + 2 /\ Len(b) = Len(a) + 4
    BY <1>2, <1>3
  <2>. QED  BY <2>1, <2>2
<1>5. /\ Len(b \o count) = Len(b) + Len(count)
      /\ \A m \in 1 .. Len(count) : (b \o count)[Len(b) + m] = count[m]
  BY <1>1, ConcatBytes
<1>6. res' = b \o count
  BY DEF BeginTable, a, b, count
<1>7. start' = Len(res) /\ attribute_length' = 2 /\ frames' = frames
  BY DEF BeginTable, EntryInv
<1>8. Len(res') = Len(res) + 8
  BY <1>2, <1>4, <1>5, <1>6
<1>9. res'[Len(res) + 6 + 1] = count[1] /\ res'[Len(res) + 6 + 2] = count[2]
  BY <1>2, <1>4, <1>5, <1>6
<1>. QED
  BY <1>4, <1>7, <1>8, <1>9 DEF TableWritten, EntryStart, WrittenAt, count

(* A round of the loop writes the next entry, and what it carries to the    *)
(* next round is the target it stands for.                                  *)
LEMMA WriteEntryEntries ==
  ASSUME TypeOK, EntryInv, WriteEntry, NEW n, n = k
  PROVE  /\ TableWritten(n)'
         /\ k' = n + 1 /\ n \in 1 .. Len(frames)
         /\ previous_offset_deltas' = Truncated(frames[n] - (n - 1))
<1>1. /\ n \in 1 .. Len(frames) /\ k' = n + 1 /\ UNCHANGED << frames, start >>
      /\ start \in Nat /\ Len(frames) \in Nat /\ n \in Nat \ {0}
  BY DEF TypeOK, WriteEntry
<1>2. TableWritten(n - 1) /\ Len(res) = EntryStart(n)
  <2>1. TableWritten(n - 1) /\ n - 1 + 1 = n
    BY <1>1 DEF EntryInv, WriteEntry
  <2>. QED  BY <2>1 DEF TableWritten
<1>3. OffsetDelta = Delta(n)
      /\ previous_offset_deltas' = Truncated(frames[n] - (n - 1))
  BY <1>1, DeltaWritten DEF EntryInv, WriteEntry
<1>4. OffsetDelta \in Int
  <2>1. frames[k] - previous_offset_deltas - (k - 1) \in Int
    BY <1>1, U16RangeAssumption DEF TypeOK
  <2>. QED  BY <2>1, TruncatedType, U16RangeAssumption DEF OffsetDelta
<1>. DEFINE entry == Entry(OffsetDelta)
<1>5. /\ entry \in Seq(Byte) /\ Len(entry) = IF n = 1 THEN 7 ELSE 3
      /\ entry[2] = Bytes2(Delta(n))[1] /\ entry[3] = Bytes2(Delta(n))[2]
  BY <1>3, <1>4, EntryBytes
<1>6. /\ EntryStart(n) \in Nat /\ start + 8 <= EntryStart(n)
      /\ EntryStart(n + 1) = EntryStart(n) + IF n = 1 THEN 7 ELSE 3
      /\ \A m \in 1 .. n - 1 : EntryStart(m) + 3 <= EntryStart(n)
  BY <1>1, EntryStarts
<1>7. /\ res \in Seq(Byte) /\ Len(res) \in Nat /\ res' = res \o entry
      /\ attribute_length' = attribute_length + IF n = 1 THEN 7 ELSE 3
  BY DEF TypeOK, WriteEntry, EntryLength
<1>. HIDE DEF entry
<1>8. /\ Len(res') = Len(res) + Len(entry)
      /\ \A m \in 1 .. Len(res) : res'[m] = res[m]
      /\ \A m \in 1 .. Len(entry) : res'[Len(res) + m] = entry[m]
  <2>1. entry \in Seq(Byte)
    BY <1>5
  <2>. QED  BY <1>7, <2>1, ConcatBytes
<1>9. Len(res') = EntryStart(n + 1)'
  <2>1. Len(res') = EntryStart(n + 1)
    BY <1>2, <1>5, <1>6, <1>8
  <2>. QED  BY <1>1, <2>1 DEF EntryStart
<1>10. attribute_length' = Len(res') - start' - 6
  <2>1. attribute_length = Len(res) - start - 6
    BY <1>2 DEF TableWritten
  <2>2. Len(res') = Len(res) + IF n = 1 THEN 7 ELSE 3
    BY <1>5, <1>8
  <2>. QED  BY <1>1, <1>7, <2>1, <2>2
<1>11. WrittenAt(start + 6, Len(frames))'
  <2>1. start + 8 <= Len(res)
    BY <1>2, <1>6
  <2>2. res'[start + 7] = res[start + 7] /\ res'[start + 8] = res[start + 8]
    BY <1>1, <1>7, <1>8, <2>1
  <2>3. WrittenAt(start + 6, Len(frames))
    BY <1>2 DEF TableWritten
  <2>. QED  BY <1>1, <2>2, <2>3 DEF WrittenAt
<1>12. ASSUME NEW m \in 1 .. n PROVE WrittenAt(EntryStart(m) + 1, Delta(m))'
  <2>1. EntryStart(m)' = EntryStart(m) /\ Delta(m)' = Delta(m)
    BY <1>1 DEF EntryStart, Delta
  <2>2. EntryStart(m) \in Nat
    <3>1. m \in Nat \ {0}
      BY <1>1
    <3>. QED  BY <1>1, <3>1, EntryStarts
  <2>3. CASE m = n
    <3>1. 2 \in 1 .. Len(entry) /\ 3 \in 1 .. Len(entry)
      BY <1>5
    <3>2. res'[Len(res) + 2] = entry[2] /\ res'[Len(res) + 3] = entry[3]
      BY <1>8, <3>1
    <3>3. EntryStart(m) + 1 + 1 = Len(res) + 2 /\ EntryStart(m) + 1 + 2 = Len(res) + 3
      BY <1>2, <1>6, <2>3
    <3>. QED  BY <1>5, <2>1, <2>3, <3>2, <3>3 DEF WrittenAt
  <2>4. CASE m # n
    <3>1. m \in 1 .. n - 1
      BY <1>1, <2>4
    <3>2. EntryStart(m) + 3 <= Len(res)
      BY <1>2, <1>6, <3>1
    <3>3. WrittenAt(EntryStart(m) + 1, Delta(m))
      BY <1>2, <3>1 DEF TableWritten
    <3>4. /\ EntryStart(m) + 1 + 1 \in 1 .. Len(res)
          /\ EntryStart(m) + 1 + 2 \in 1 .. Len(res)
      BY <1>7, <2>2, <3>2
    <3>. QED  BY <1>8, <2>1, <3>3, <3>4 DEF WrittenAt
  <2>. QED  BY <2>3, <2>4
<1>. QED
  BY <1>1, <1>3, <1>9, <1>10, <1>11, <1>12 DEF TableWritten

(* The length goes where the placeholder is, and nothing else changes.      *)
LEMMA EndTableEntries ==
  ASSUME TypeOK, EntryInv, EndTable, IndexFits
  PROVE  /\ TableWritten(Len(frames))'
         /\ \A m \in 1 .. 4 : res'[start + 2 + m] = Bytes4(attribute_length)[m]
         /\ \A m \in 1 .. Len(res) :
              m \notin start + 3 .. start + 6 => res'[m] = res[m]
<1>1. /\ start \in Nat /\ Len(frames) \in Nat /\ attribute_length \in Nat
      /\ res \in Seq(Byte) /\ Len(res) \in Nat
      /\ UNCHANGED << frames, start, attribute_length >>
  BY DEF TypeOK, EndTable
<1>2. k = Len(frames) + 1 /\ TableWritten(Len(frames))
  <2>1. k = Len(frames) + 1
    BY <1>1 DEF TypeOK, EndTable, EntryInv
  <2>2. TableWritten(k - 1) /\ k - 1 = Len(frames)
    BY <1>1, <2>1 DEF EndTable, EntryInv
  <2>. QED  BY <2>1, <2>2
<1>3. attribute_length_idx = start + 2
  <2>1. start + 2 \in 0 .. U16Range - 1
    BY <1>1, U16RangeAssumption DEF IndexFits
  <2>. QED  BY <2>1, TruncatedFits DEF EntryInv, EndTable
<1>4. /\ Len(res) = EntryStart(Len(frames) + 1)
      /\ start + 8 <= Len(res)
      /\ \A m \in 1 .. Len(frames) :
            start + 8 <= EntryStart(m) /\ EntryStart(m) + 3 <= Len(res)
  <2>1. Len(res) = EntryStart(Len(frames) + 1)
    BY <1>2 DEF TableWritten
  <2>. DEFINE last == Len(frames) + 1
  <2>2. last \in Nat \ {0} /\ last - 1 = Len(frames)
    BY <1>1
  <2>. HIDE DEF last
  <2>3. /\ start + 8 <= EntryStart(last)
        /\ \A m \in 1 .. last - 1 : EntryStart(m) + 3 <= EntryStart(last)
    BY <1>1, <2>2, EntryStarts
  <2>4. ASSUME NEW m \in 1 .. Len(frames)
        PROVE  start + 8 <= EntryStart(m) /\ EntryStart(m) + 3 <= EntryStart(last)
    <3>1. m \in Nat \ {0}
      BY <1>1
    <3>. QED  BY <1>1, <2>2, <2>3, <3>1, EntryStarts
  <2>5. Len(res) = EntryStart(last)
    BY <2>1 DEF last
  <2>. QED  BY <2>1, <2>3, <2>4, <2>5
<1>5. /\ res' \in Seq(Byte) /\ Len(res') = Len(res)
      /\ res' = Overwrite(res, start + 2, Bytes4(attribute_length))
  BY <1>1, <1>3, BytesAreBytes, OverwriteType DEF EndTable
<1>6. /\ \A m \in 1 .. 4 : res'[start + 2 + m] = Bytes4(attribute_length)[m]
      /\ \A m \in 1 .. Len(res) : m \notin start + 3 .. start + 6 => res'[m] = res[m]
  <2>1. start + 2 \in Nat /\ start + 2 + 4 <= Len(res)
    BY <1>1, <1>4
  <2>2. /\ \A m \in 1 .. 4 : res'[start + 2 + m] = Bytes4(attribute_length)[m]
        /\ \A m \in 1 .. Len(res) :
             m \notin start + 2 + 1 .. start + 2 + 4 => res'[m] = res[m]
    BY <1>1, <1>5, <2>1, OverwriteBytes
  <2>3. start + 2 + 1 = start + 3 /\ start + 2 + 4 = start + 6
    BY <1>1
  <2>. QED  BY <2>2, <2>3
<1>8. WrittenAt(start + 6, Len(frames))'
  <2>1. WrittenAt(start + 6, Len(frames))
    BY <1>2 DEF TableWritten
  <2>2. start + 6 \in Nat /\ start + 6 + 2 <= Len(res)
    BY <1>1, <1>4
  <2>3. res'[start + 6 + 1] = res[start + 6 + 1] /\ res'[start + 6 + 2] = res[start + 6 + 2]
    <3>1. /\ start + 6 + 1 \in 1 .. Len(res) /\ start + 6 + 1 \notin start + 3 .. start + 6
          /\ start + 6 + 2 \in 1 .. Len(res) /\ start + 6 + 2 \notin start + 3 .. start + 6
      BY <1>1, <2>2
    <3>. QED  BY <1>6, <3>1
  <2>. QED  BY <1>1, <2>1, <2>3 DEF WrittenAt
<1>9. ASSUME NEW m \in 1 .. Len(frames) PROVE WrittenAt(EntryStart(m) + 1, Delta(m))'
  <2>1. EntryStart(m)' = EntryStart(m) /\ Delta(m)' = Delta(m)
    BY <1>1 DEF EntryStart, Delta
  <2>2. WrittenAt(EntryStart(m) + 1, Delta(m))
    BY <1>2 DEF TableWritten
  <2>3. start + 8 <= EntryStart(m) /\ EntryStart(m) + 3 <= Len(res) /\ EntryStart(m) \in Nat
    BY <1>1, <1>4, EntryStarts
  <2>. DEFINE place == EntryStart(m) + 1
  <2>4. /\ place + 1 \in 1 .. Len(res) /\ place + 1 \notin start + 3 .. start + 6
        /\ place + 2 \in 1 .. Len(res) /\ place + 2 \notin start + 3 .. start + 6
    BY <1>1, <2>3
  <2>5. res'[place + 1] = res[place + 1] /\ res'[place + 2] = res[place + 2]
    BY <1>6, <2>4
  <2>. QED  BY <2>1, <2>2, <2>5 DEF WrittenAt
<1>10. /\ Len(res') = EntryStart(Len(frames) + 1)'
       /\ attribute_length' = Len(res') - start' - 6
  BY <1>1, <1>2, <1>4, <1>5 DEF TableWritten, EntryStart
<1>. QED
  BY <1>1, <1>6, <1>8, <1>9, <1>10 DEF TableWritten

(* Every step keeps the entries' part of the invariant.                     *)
LEMMA EntryStep ==
  ASSUME TypeOK, SortInv, EntryInv, [Next]_tableVars
  PROVE  EntryInv'
<1>1. CASE BeginTable
  <2>1. TableWritten(0)'
    BY <1>1, BeginTableEntries
  <2>. QED  BY <1>1, <2>1 DEF BeginTable, EntryInv
<1>2. CASE CompareNeighbours
  <2>1. Len(frames') = Len(frames)
    <3>1. k \in 1 .. Len(frames) - 1
      BY <1>2 DEF CompareNeighbours, TypeOK
    <3>. QED  BY <1>2, <3>1, ExchangedElements DEF CompareNeighbours, TypeOK
  <2>2. TableWritten(0) => TableWritten(0)'
    BY <1>2, <2>1 DEF CompareNeighbours, TableWritten, EntryStart, WrittenAt
  <2>. QED  BY <1>2, <2>2 DEF CompareNeighbours, EntryInv
<1>3. CASE EndRound
  <2>1. TableWritten(0) => TableWritten(0)'
    BY <1>3 DEF EndRound, TableWritten, EntryStart, WrittenAt
  <2>2. k' - 1 = 0 /\ k' = 1
    BY <1>3 DEF EndRound
  <2>3. TableWritten(0)' /\ UNCHANGED << previous_offset_deltas, attribute_length_idx, start, frames >>
    BY <1>3, <2>1 DEF EndRound, EntryInv
  <2>4. TableWritten(k - 1)'
    BY <2>2, <2>3 DEF TableWritten
  <2>5. step = "sort" /\ step' \in {"sort", "entries"} /\ Len(frames') \in Nat
    BY <1>3 DEF EndRound, TypeOK
  <2>. QED  BY <2>2, <2>3, <2>4, <2>5 DEF EntryInv
<1>4. CASE WriteEntry
  <2>1. PICK n : n = k
    OBVIOUS
  <2>2. /\ TableWritten(n)' /\ k' = n + 1 /\ n \in 1 .. Len(frames)
        /\ previous_offset_deltas' = Truncated(frames[n] - (n - 1))
    BY <1>4, <2>1, WriteEntryEntries
  <2>3. step = "entries" /\ step' = "entries" /\ UNCHANGED << frames, start, attribute_length_idx >>
    BY <1>4 DEF WriteEntry
  <2>4. Len(frames) \in Nat
    BY DEF TypeOK
  <2>5. k' - 1 = n /\ k' - 2 = n - 1 /\ k' # 1 /\ k' <= Len(frames) + 1
    BY <2>2, <2>4
  <2>6. TableWritten(k - 1)'
    BY <2>2, <2>5 DEF TableWritten
  <2>7. previous_offset_deltas' = Truncated(frames'[k' - 1] - (k' - 2))
    BY <2>2, <2>3, <2>5
  <2>. QED  BY <2>3, <2>5, <2>6, <2>7 DEF EntryInv, Truncated
<1>5. CASE EndTable
  <2>1. step = "entries" /\ step' = "written" /\ UNCHANGED << frames, attribute_length, attribute_length_idx, start >>
    BY <1>5 DEF EndTable
  <2>2. CASE ~IndexFits
    BY <2>1, <2>2 DEF EntryInv, IndexFits
  <2>3. CASE IndexFits
    <3>1. /\ TableWritten(Len(frames))'
          /\ \A m \in 1 .. 4 : res'[start + 2 + m] = Bytes4(attribute_length)[m]
      BY <1>5, <2>3, EndTableEntries
    <3>. QED  BY <2>1, <3>1 DEF EntryInv, TableWritten
  <2>. QED  BY <2>2, <2>3
<1>6. CASE UNCHANGED tableVars
  BY <1>6 DEF tableVars, EntryInv, TableWritten, EntryStart, WrittenAt, Delta, IndexFits
<1>. QED  BY <1>1, <1>2, <1>3, <1>4, <1>5, <1>6 DEF Next

(* The types, the sort and the entries written so far, throughout.          *)
LEMMA Invariance == Spec => [](TypeOK /\ SortInv /\ EntryInv)
<1>1. Init => TypeOK /\ SortInv /\ EntryInv
  BY TypeInit, SortInit, EntryInit
<1>2. TypeOK /\ SortInv /\ EntryInv /\ [Next]_tableVars => (TypeOK /\ SortInv /\ EntryInv)'
  BY TypeStep, SortStep, EntryStep
<1>. QED  BY <1>1, <1>2, PTL DEF Spec
-----------------------------------------------------------------------------
(* The attribute that comes out.                                            *)

(* The length in the header counts the bytes after it, however many frames  *)
(* there are: the placeholder is found again and four bytes hold it.        *)
THEOREM LengthCorrect == Spec => []LengthIsExact
<1>1. ASSUME TypeOK, EntryInv PROVE LengthIsExact
  <2>. SUFFICES ASSUME step = "written", TableFits
                PROVE  S4At(res, start + 2) = Len(res) - start - 6
    BY DEF LengthIsExact
  <2>1. start \in Nat /\ Len(frames) \in Nat /\ attribute_length \in Nat
    BY <1>1 DEF TypeOK
  <2>2. /\ TableWritten(Len(frames))
        /\ \A m \in 1 .. 4 : res[start + 2 + m] = Bytes4(attribute_length)[m]
    BY <1>1 DEF EntryInv, TableFits
  <2>3. attribute_length = Len(res) - start - 6 /\ Len(res) = EntryStart(Len(frames) + 1)
    BY <2>2 DEF TableWritten
  <2>4. attribute_length < 2147483648
    BY <2>1, <2>3 DEF EntryStart, TableFits
  <2>5. Value4(Bytes4(attribute_length)) = attribute_length
    BY <2>1, <2>4, Bytes4Read
  <2>6. /\ At(res, start + 2) = Bytes4(attribute_length)[1]
        /\ At(res, start + 2 + 1) = Bytes4(attribute_length)[2]
        /\ At(res, start + 2 + 2) = Bytes4(attribute_length)[3]
        /\ At(res, start + 2 + 3) = Bytes4(attribute_length)[4]
    BY <2>1, <2>2 DEF At
  <2>7. S4At(res, start + 2) = Value4(Bytes4(attribute_length))
    BY <2>6 DEF S4At, Value4
  <2>. QED  BY <2>3, <2>5, <2>7
<1>. QED  BY <1>1, Invariance, PTL

(* A step of the table writes at the end, or puts the length over the four  *)
(* bytes of the placeholder.                                                *)
LEMMA BytesKept ==
  ASSUME TypeOK, EntryInv, [Next]_tableVars
  PROVE  /\ Len(res') >= Len(res)
         /\ IndexFits' => \A n \in DOMAIN res :
              res'[n] # res[n] => step = "entries" /\ n - 1 \in start + 2 .. start + 5
<1>0. res \in Seq(Byte) /\ Len(res) \in Nat /\ DOMAIN res = 1 .. Len(res) /\ start \in Nat
  BY DEF TypeOK
<1>1. ASSUME NEW added \in Seq(Byte), res' = res \o added
      PROVE  Len(res') >= Len(res) /\ \A n \in DOMAIN res : res'[n] = res[n]
  BY <1>0, <1>1, ConcatBytes
<1>2. CASE BeginTable
  <2>. DEFINE a == Bytes2(STACK_MAP_TABLE)
              b == Bytes4(0)
              c == Bytes2(Len(frames))
  <2>1. a \in Seq(Byte) /\ b \in Seq(Byte) /\ c \in Seq(Byte)
    BY BytesAreBytes DEF STACK_MAP_TABLE, TypeOK
  <2>2. res' = res \o a \o b \o c
    BY <1>2 DEF BeginTable
  <2>. HIDE DEF a, b, c
  <2>3. res \o a \o b \o c = res \o (a \o b \o c) /\ a \o b \o c \in Seq(Byte)
    BY <1>0, <2>1, SMTT(60)
  <2>. QED  BY <1>1, <2>2, <2>3
<1>3. CASE WriteEntry
  <2>1. frames[k] - previous_offset_deltas - (k - 1) \in Int
    BY <1>3, U16RangeAssumption, SMTT(30) DEF TypeOK, WriteEntry
  <2>2. OffsetDelta \in Int
    BY <2>1, TruncatedType, U16RangeAssumption DEF OffsetDelta
  <2>3. Entry(OffsetDelta) \in Seq(Byte)
    BY <2>2, EntryBytes
  <2>. QED  BY <1>1, <1>3, <2>3 DEF WriteEntry
<1>4. CASE EndTable
  <2>1. Len(res') = Len(res) /\ step = "entries"
    <3>1. attribute_length \in Int /\ attribute_length_idx \in Int
      BY U16RangeAssumption DEF TypeOK
    <3>2. Bytes4(attribute_length) \in Seq(Byte)
      BY <3>1, BytesAreBytes
    <3>. QED  BY <1>0, <1>4, <3>1, <3>2, OverwriteType DEF EndTable
  <2>2. ASSUME IndexFits', NEW n \in DOMAIN res, res'[n] # res[n]
        PROVE  n - 1 \in start + 2 .. start + 5
    <3>1. IndexFits
      BY <1>4, <2>2 DEF EndTable, IndexFits
    <3>2. \A m \in 1 .. Len(res) : m \notin start + 3 .. start + 6 => res'[m] = res[m]
      BY <1>4, <3>1, EndTableEntries
    <3>3. n \in start + 3 .. start + 6
      BY <1>0, <2>2, <3>2
    <3>. QED  BY <1>0, <3>3
  <2>. QED  BY <1>0, <2>1, <2>2
<1>5. CASE CompareNeighbours \/ EndRound \/ UNCHANGED tableVars
  BY <1>0, <1>5 DEF CompareNeighbours, EndRound, tableVars
<1>. QED  BY <1>2, <1>3, <1>4, <1>5 DEF Next

(* No step changes what targets the frames are or whether they are all      *)
(* different.                                                               *)
LEMMA FramesKept ==
  ASSUME TypeOK, SortInv, [Next]_tableVars
  PROVE  /\ frames' \in Seq(0 .. U16Range - 1)
         /\ Len(frames') = Len(frames) /\ Range(frames') = Range(frames)
         /\ IsInjective(frames') <=> IsInjective(frames)
<1>0. frames \in Seq(0 .. U16Range - 1) /\ Len(frames) \in Nat
  BY DEF TypeOK
<1>1. CASE UNCHANGED frames
  BY <1>0, <1>1
<1>2. CASE CompareNeighbours /\ frames' = Exchanged(frames, k)
  <2>1. k \in 1 .. Len(frames) - 1
    BY <1>0, <1>2 DEF TypeOK, CompareNeighbours
  <2>. QED  BY <1>0, <1>2, <2>1, ExchangedElements, ExchangedRange
<1>. QED
  BY <1>1, <1>2
  DEF Next, BeginTable, CompareNeighbours, EndRound, WriteEntry, EndTable, tableVars

(* No byte of the class file that is already there changes, but the four of *)
(* the placeholder.                                                         *)
THEOREM ClassFileIsKept == Spec => ClassFileKept
<1>1. ASSUME TypeOK, EntryInv, [Next]_tableVars
      PROVE  [\A n \in DOMAIN res :
                IndexFits' /\ res'[n] # res[n] => n - 1 \in start + 2 .. start + 5]_tableVars
  BY <1>1, BytesKept
<1>. QED  BY <1>1, Invariance, PTL DEF Spec, ClassFileKept

(* What a reader of a table of N deltas makes of it, entry after entry.     *)
Summed(N, d) ==
  CHOOSE g : g = [n \in 1 .. N |-> IF n = 1 THEN d[1] ELSE g[n - 1] + d[n] + 1]

AddsUp(N, d, s) ==
  \A n \in 1 .. N : s[n] = IF n = 1 THEN d[1] ELSE s[n - 1] + d[n] + 1

(* There is one sequence that adds up that way.                             *)
LEMMA ReadBack ==
  ASSUME NEW N \in Nat, NEW d, NEW s, AddsUp(N, d, s)
  PROVE  /\ DOMAIN Summed(N, d) = 1 .. N /\ \A n \in 1 .. N : Summed(N, d)[n] = s[n]
         /\ Summed(N, d) = [n \in 1 .. N |-> s[n]]
<1>. USE DEF AddsUp
<1>. DEFINE f == Summed(N, d)
<1>. DEFINE w == [n \in 1 .. N |-> s[n]]
<1>2. w = [n \in 1 .. N |-> IF n = 1 THEN d[1] ELSE w[n - 1] + d[n] + 1]
  <2>1. ASSUME NEW n \in 1 .. N
        PROVE  w[n] = IF n = 1 THEN d[1] ELSE w[n - 1] + d[n] + 1
    <3>1. n # 1 => n - 1 \in 1 .. N
      OBVIOUS
    <3>. QED  BY <3>1
  <2>2. w = [n \in 1 .. N |-> w[n]]
    OBVIOUS
  <2>. HIDE DEF w
  <2>. QED  BY <2>1, <2>2
<1>. HIDE DEF w
<1>3. f = [n \in 1 .. N |-> IF n = 1 THEN d[1] ELSE f[n - 1] + d[n] + 1]
  BY <1>2 DEF Summed
<1>4. /\ DOMAIN f = 1 .. N /\ f = [n \in 1 .. N |-> f[n]]
      /\ \A n \in 1 .. N : f[n] = IF n = 1 THEN d[1] ELSE f[n - 1] + d[n] + 1
  <2>. DEFINE F == [n \in 1 .. N |-> IF n = 1 THEN d[1] ELSE f[n - 1] + d[n] + 1]
  <2>1. /\ DOMAIN F = 1 .. N /\ F = [n \in 1 .. N |-> F[n]]
        /\ \A n \in 1 .. N : F[n] = IF n = 1 THEN d[1] ELSE f[n - 1] + d[n] + 1
    OBVIOUS
  <2>2. f = F
    BY <1>3
  <2>. HIDE DEF F
  <2>. QED  BY <2>1, <2>2
<1>. HIDE DEF f
<1>. DEFINE Wrong == {n \in 1 .. N : f[n] # s[n]}
<1>5. ASSUME Wrong # {} PROVE FALSE
  <2>1. Wrong \subseteq Nat
    OBVIOUS
  <2>2. PICK n \in Wrong : \A m \in Wrong : n <= m
    <3>. HIDE DEF Wrong
    <3>. QED  BY <1>5, <2>1, LeastNatural
  <2>3. n \in 1 .. N /\ f[n] # s[n]
    BY <2>2
  <2>4. CASE n = 1
    <3>1. f[1] = d[1] /\ s[1] = d[1]
      BY <1>4, <2>3, <2>4
    <3>. QED  BY <2>3, <2>4, <3>1
  <2>5. CASE n # 1
    <3>1. n - 1 \in 1 .. N /\ ~(n <= n - 1)
      BY <2>3, <2>5
    <3>2. n - 1 \notin Wrong
      BY <2>2, <3>1
    <3>3. f[n - 1] = s[n - 1]
      BY <3>1, <3>2
    <3>4. f[n] = f[n - 1] + d[n] + 1
      BY <1>4, <2>3, <2>5
    <3>5. s[n] = s[n - 1] + d[n] + 1
      BY <2>3, <2>5
    <3>. QED  BY <2>3, <3>3, <3>4, <3>5
  <2>. QED  BY <2>4, <2>5
<1>6. \A n \in 1 .. N : f[n] = s[n]
  BY <1>5
<1>7. f = [n \in 1 .. N |-> s[n]]
  <2>1. [n \in 1 .. N |-> f[n]] = [n \in 1 .. N |-> s[n]]
    BY <1>6
  <2>. QED  BY <1>4, <2>1
<1>. QED  BY <1>4, <1>6, <1>7 DEF f

(* Every list of deltas adds up to something.                               *)
LEMMA SumsExist ==
  ASSUME NEW N \in Nat, NEW d \in [1 .. N -> Nat]
  PROVE  \E s \in [1 .. N -> Nat] : AddsUp(N, d, s)
<1>. USE DEF AddsUp
<1>. DEFINE Wrong == {n \in 0 .. N : ~ \E s \in [1 .. n -> Nat] : AddsUp(n, d, s)}
<1>1. ASSUME Wrong # {} PROVE FALSE
  <2>1. Wrong \subseteq Nat
    OBVIOUS
  <2>2. PICK n \in Wrong : \A m \in Wrong : n <= m
    <3>. HIDE DEF Wrong
    <3>. QED  BY <1>1, <2>1, LeastNatural
  <2>3. n \in 0 .. N /\ ~ \E s \in [1 .. n -> Nat] : AddsUp(n, d, s)
    BY <2>2
  <2>4. CASE n = 0
    <3>. DEFINE none == [m \in 1 .. 0 |-> 0]
    <3>1. none \in [1 .. 0 -> Nat] /\ \A m \in 1 .. 0 : FALSE
      OBVIOUS
    <3>2. AddsUp(0, d, none)
      BY <3>1
    <3>. HIDE DEF none, AddsUp
    <3>. QED  BY <2>3, <2>4, <3>1, <3>2
  <2>5. CASE n # 0
    <3>1. n - 1 \in 0 .. N /\ ~(n <= n - 1) /\ n \in 1 .. N
      BY <2>3, <2>5
    <3>2. n - 1 \notin Wrong
      <4>. HIDE DEF Wrong
      <4>. QED  BY <2>2, <3>1
    <3>3. PICK s \in [1 .. n - 1 -> Nat] : AddsUp(n - 1, d, s)
      <4>. HIDE DEF AddsUp
      <4>. QED  BY <3>1, <3>2
    <3>. DEFINE last == IF n = 1 THEN d[1] ELSE s[n - 1] + d[n] + 1
                t == [m \in 1 .. n |-> IF m = n THEN last ELSE s[m]]
    <3>4. last \in Nat
      <4>1. d[n] \in Nat /\ (n # 1 => s[n - 1] \in Nat)
        BY <3>1, <3>3
      <4>. QED  BY <4>1
    <3>5. t \in [1 .. n -> Nat]
      BY <3>3, <3>4
    <3>6. ASSUME NEW m \in 1 .. n
          PROVE  t[m] = IF m = 1 THEN d[1] ELSE t[m - 1] + d[m] + 1
      <4>1. CASE m = n
        BY <3>1, <4>1
      <4>2. CASE m # n
        <5>1. m \in 1 .. n - 1 /\ m - 1 # n /\ (m # 1 => m - 1 \in 1 .. n - 1)
          BY <3>1, <4>2
        <5>. QED  BY <3>3, <5>1
      <4>. QED  BY <4>1, <4>2
    <3>. QED  BY <2>3, <3>5, <3>6
  <2>. QED  BY <2>4, <2>5
<1>2. N \in 0 .. N /\ N \notin Wrong
  <2>. HIDE DEF Wrong
  <2>. QED  BY <1>1
<1>. HIDE DEF AddsUp
<1>. QED  BY <1>2

(* Numbers in order, each once, are in strictly increasing order.           *)
LEMMA InOrderOnce ==
  ASSUME frames \in Seq(Int), Sorted(Len(frames))
  PROVE  IsInjective(frames) <=> \A n \in 2 .. Len(frames) : frames[n - 1] < frames[n]
<1>1. Len(frames) \in Nat /\ DOMAIN frames = 1 .. Len(frames)
      /\ \A n \in 1 .. Len(frames) : frames[n] \in Int
  OBVIOUS
<1>2. ASSUME IsInjective(frames), NEW n \in 2 .. Len(frames)
      PROVE  frames[n - 1] < frames[n]
  <2>1. n \in 1 .. Len(frames) /\ n - 1 \in 1 .. Len(frames) /\ n # n - 1
    BY <1>1
  <2>2. frames[n - 1] <= frames[n]
    BY DEF Sorted
  <2>3. frames[n - 1] # frames[n]
    BY <1>1, <1>2, <2>1 DEF IsInjective
  <2>. QED  BY <1>1, <2>1, <2>2, <2>3
<1>3. ASSUME \A n \in 2 .. Len(frames) : frames[n - 1] < frames[n]
      PROVE  IsInjective(frames)
  <2>1. ASSUME NEW a \in 1 .. Len(frames), NEW b \in 1 .. Len(frames), a < b
        PROVE  frames[a] < frames[b]
    <3>. DEFINE Wrong == {n \in a + 1 .. b : ~(frames[a] < frames[n])}
    <3>1. ASSUME Wrong # {} PROVE FALSE
      <4>1. Wrong \subseteq Nat
        OBVIOUS
      <4>2. PICK n \in Wrong : \A m \in Wrong : n <= m
        <5>. HIDE DEF Wrong
        <5>. QED  BY <3>1, <4>1, LeastNatural
      <4>3. n \in a + 1 .. b /\ ~(frames[a] < frames[n]) /\ n \in 2 .. Len(frames)
            /\ n - 1 \in 1 .. Len(frames) /\ n \in 1 .. Len(frames)
        BY <1>1, <4>2
      <4>4. frames[n - 1] < frames[n]
        BY <1>3, <4>3
      <4>5. n - 1 \notin Wrong
        BY <4>2, <4>3
      <4>6. n - 1 = a \/ frames[a] < frames[n - 1]
        BY <4>3, <4>5
      <4>7. frames[a] \in Int /\ frames[n] \in Int /\ frames[n - 1] \in Int
        BY <1>1, <4>3
      <4>. QED  BY <4>3, <4>4, <4>6, <4>7, SMTT(30)
    <3>2. b \in a + 1 .. b
      BY <2>1
    <3>. QED  BY <3>1, <3>2
  <2>2. ASSUME NEW a \in 1 .. Len(frames), NEW b \in 1 .. Len(frames), frames[a] = frames[b]
        PROVE  a = b
    <3>1. ~(a < b) /\ ~(b < a)
      BY <1>1, <2>1, <2>2
    <3>. QED  BY <3>1
  <2>. QED  BY <1>1, <2>2 DEF IsInjective
<1>. QED  BY <1>2, <1>3

(* That is what the frames are read back as.                                *)
LEMMA FramesSummed ==
  ASSUME NEW N \in Nat, NumberOfEntries = N
  PROVE  FrameOffsets = Summed(N, [n \in 1 .. N |-> EntryDelta(n)])
<1>. DEFINE d == [n \in 1 .. N |-> EntryDelta(n)]
<1>1. ASSUME NEW g
      PROVE  [n \in 1 .. N |-> IF n = 1 THEN d[1] ELSE g[n - 1] + d[n] + 1]
               = [n \in 1 .. NumberOfEntries |->
                    IF n = 1 THEN EntryDelta(1) ELSE g[n - 1] + EntryDelta(n) + 1]
  <2>1. \A n \in 1 .. N : d[n] = EntryDelta(n)
    OBVIOUS
  <2>2. 1 .. N # {} => 1 \in 1 .. N
    OBVIOUS
  <2>. HIDE DEF d
  <2>. QED  BY <2>1, <2>2
<1>. HIDE DEF d
<1>2. FrameOffsets = Summed(N, d)
  BY <1>1 DEF FrameOffsets, Summed
<1>. QED  BY <1>2 DEF d

(* What a reader of a complete table finds: the frames, when they are all   *)
(* different; and a frame that is no offset of the code when two are equal, *)
(* for the difference less one is truncated.                                *)
LEMMA Decoded ==
  ASSUME start \in Nat, frames \in Seq(0 .. U16Range - 1), Len(frames) < 65536,
         TableWritten(Len(frames)), Sorted(Len(frames))
  PROVE  /\ NumberOfEntries = Len(frames)
         /\ FrameOffsets \in Seq(Nat) /\ Len(FrameOffsets) = Len(frames)
         /\ DOMAIN FrameOffsets = 1 .. Len(frames)
         /\ IsInjective(frames) =>
              /\ \A n \in 1 .. Len(frames) : FrameOffsets[n] = frames[n]
              /\ \A n \in 2 .. Len(frames) : frames[n - 1] < frames[n]
         /\ ~IsInjective(frames) => \E n \in 1 .. Len(frames) : FrameOffsets[n] >= U16Range
<1>1. /\ start \in Nat /\ Len(frames) \in Nat
      /\ U16Range <= 65536 /\ U16Range \in Nat \ {0}
      /\ frames \in Seq(Int) /\ \A n \in 1 .. Len(frames) : frames[n] \in 0 .. U16Range - 1
  BY U16RangeAssumption
<1>2. ASSUME NEW place \in Nat, NEW n \in Nat, n < 65536, WrittenAt(place, n)
      PROVE  U2At(res, place) = n
  BY <1>2, Bytes2Read DEF U2At, At, WrittenAt
<1>3. NumberOfEntries = Len(frames)
  <2>1. WrittenAt(start + 6, Len(frames)) /\ start + 6 \in Nat
    BY DEF TableWritten
  <2>. QED  BY <1>1, <1>2, <2>1 DEF NumberOfEntries
<1>. DEFINE N == Len(frames)
            d == [n \in 1 .. N |-> EntryDelta(n)]
<1>4. ASSUME NEW n \in 1 .. N
      PROVE  Delta(n) \in 0 .. U16Range - 1 /\ d[n] = Delta(n)
  <2>1. Delta(n) \in 0 .. U16Range - 1
    <3>1. CASE n = 1
      BY <1>1, <3>1 DEF Delta
    <3>2. CASE n # 1
      <4>1. frames[n] - frames[n - 1] - 1 \in Int
        BY <1>1, <3>2
      <4>. QED  BY <3>2, <4>1, TruncatedType DEF Delta
    <3>. QED  BY <3>1, <3>2
  <2>2. WrittenAt(EntryStart(n) + 1, Delta(n))
    BY DEF TableWritten
  <2>3. EntryStart(n) + 1 \in Nat
    <3>1. n \in Nat \ {0}
      BY <1>1
    <3>2. EntryStart(n) \in Nat
      BY <1>1, <3>1, EntryStarts
    <3>. QED  BY <3>2
  <2>4. Delta(n) \in Nat /\ Delta(n) < 65536
    BY <1>1, <2>1
  <2>5. EntryDelta(n) = Delta(n)
    BY <1>2, <2>2, <2>3, <2>4 DEF EntryDelta
  <2>. QED  BY <2>1, <2>5
<1>5. FrameOffsets = Summed(N, d)
  BY <1>1, <1>3, FramesSummed
<1>6. N \in Nat /\ N = Len(frames) /\ d \in [1 .. N -> Nat]
  <2>1. \A n \in 1 .. N : EntryDelta(n) \in Nat
    BY <1>1, <1>4
  <2>. QED  BY <1>1, <2>1
<1>. HIDE DEF d, N
<1>7. PICK s \in [1 .. N -> Nat] : AddsUp(N, d, s)
  BY <1>6, SumsExist, SMTT(30)
<1>8. /\ DOMAIN FrameOffsets = 1 .. N /\ \A n \in 1 .. N : FrameOffsets[n] = s[n]
      /\ FrameOffsets = [n \in 1 .. N |-> s[n]]
  BY <1>5, <1>6, <1>7, ReadBack
<1>11. FrameOffsets \in Seq(Nat) /\ Len(FrameOffsets) = N
  <2>. DEFINE t == [n \in 1 .. N |-> s[n]]
  <2>1. t \in Seq(Nat) /\ Len(t) = N
    BY <1>6, <1>7
  <2>2. FrameOffsets = t
    BY <1>8
  <2>. HIDE DEF t
  <2>. QED  BY <2>1, <2>2
<1>9. ASSUME IsInjective(frames)
      PROVE  /\ \A n \in 1 .. N : FrameOffsets[n] = frames[n]
             /\ \A n \in 2 .. N : frames[n - 1] < frames[n]
  <2>1. \A n \in 2 .. N : frames[n - 1] < frames[n]
    BY <1>1, <1>6, <1>9, InOrderOnce
  <2>2. ASSUME NEW n \in 1 .. N
        PROVE  frames[n] = IF n = 1 THEN d[1] ELSE frames[n - 1] + d[n] + 1
    <3>1. CASE n = 1
      BY <1>4, <3>1 DEF Delta
    <3>2. CASE n # 1
      <4>1. n \in 2 .. N /\ n - 1 \in 1 .. N
        BY <1>6, <3>2
      <4>2. frames[n] \in 0 .. U16Range - 1 /\ frames[n - 1] \in 0 .. U16Range - 1
        BY <1>1, <1>6, <4>1
      <4>3. frames[n] - frames[n - 1] - 1 \in 0 .. U16Range - 1
        BY <1>1, <2>1, <4>1, <4>2, SMTT(30)
      <4>4. d[n] = frames[n] - frames[n - 1] - 1
        BY <1>4, <3>2, <4>3, TruncatedFits DEF Delta
      <4>. QED  BY <3>2, <4>2, <4>4
    <3>. QED  BY <3>1, <3>2
  <2>3. AddsUp(N, d, frames)
    BY <2>2 DEF AddsUp
  <2>4. \A n \in 1 .. N : Summed(N, d)[n] = frames[n]
    BY <1>6, <2>3, ReadBack
  <2>. QED  BY <1>5, <2>1, <2>4
<1>10. ASSUME ~IsInjective(frames) PROVE \E n \in 1 .. N : FrameOffsets[n] >= U16Range
  <2>1. PICK n \in 2 .. N : ~(frames[n - 1] < frames[n])
    BY <1>1, <1>6, <1>10, InOrderOnce
  <2>2. frames[n - 1] <= frames[n]
    BY <1>6 DEF Sorted
  <2>3. n \in 1 .. N /\ n - 1 \in 1 .. N /\ n # 1
    BY <1>6
  <2>4. frames[n] \in Int /\ frames[n - 1] \in Int
    BY <1>1, <1>6, <2>3
  <2>5. frames[n] - frames[n - 1] - 1 = -1
    BY <2>1, <2>2, <2>4
  <2>6. Truncated(-1) = U16Range - 1
    BY TruncatedMinusOne
  <2>7. d[n] = U16Range - 1
    BY <1>4, <2>3, <2>5, <2>6 DEF Delta
  <2>8. s[n] = s[n - 1] + d[n] + 1 /\ s[n - 1] \in Nat /\ s[n] \in Nat
    BY <1>7, <2>3 DEF AddsUp
  <2>9. s[n] >= U16Range
    BY <1>1, <2>7, <2>8
  <2>. QED  BY <1>8, <2>3, <2>9
<1>. QED  BY <1>3, <1>6, <1>8, <1>9, <1>10, <1>11

(* The frames of a written table are all there and in increasing order.     *)
LEMMA DecodedFrames ==
  ASSUME TypeOK, SortInv, EntryInv, step = "written", TableFits, IsInjective(targets)
  PROVE  /\ NumberOfEntries = Len(frames)
         /\ DOMAIN FrameOffsets = 1 .. Len(frames)
         /\ \A n \in 1 .. Len(frames) : FrameOffsets[n] = frames[n]
         /\ \A n \in 2 .. Len(frames) : frames[n - 1] < frames[n]
<1>1. start \in Nat /\ frames \in Seq(0 .. U16Range - 1) /\ Len(frames) < 65536
  BY DEF TypeOK, TableFits
<1>2. TableWritten(Len(frames)) /\ Sorted(Len(frames)) /\ IsInjective(frames)
  BY DEF SortInv, EntryInv, TableFits
<1>. QED  BY <1>1, <1>2, Decoded

(* The JVM reads back the targets of the method, each once and in order,    *)
(* however many they are: no bubble of the sort loses one, and no delta is  *)
(* wrong though previous_offset_deltas wraps around.                        *)
THEOREM DecodeCorrect == Spec => []DecodesToTargets
<1>1. ASSUME TypeOK, SortInv, EntryInv PROVE DecodesToTargets
  <2>. SUFFICES ASSUME step = "written", TableFits, IsInjective(targets)
                PROVE  /\ Range(FrameOffsets) = Range(targets)
                       /\ \A n \in 2 .. NumberOfEntries : FrameOffsets[n - 1] < FrameOffsets[n]
    BY DEF DecodesToTargets
  <2>1. /\ NumberOfEntries = Len(frames)
        /\ DOMAIN FrameOffsets = 1 .. Len(frames)
        /\ \A n \in 1 .. Len(frames) : FrameOffsets[n] = frames[n]
        /\ \A n \in 2 .. Len(frames) : frames[n - 1] < frames[n]
    BY <1>1, DecodedFrames
  <2>2. DOMAIN frames = 1 .. Len(frames) /\ Len(frames) \in Nat
    BY <1>1 DEF TypeOK
  <2>3. Range(FrameOffsets) = Range(frames)
    BY <2>1, <2>2 DEF Range
  <2>4. Range(frames) = Range(targets)
    BY <1>1 DEF SortInv
  <2>5. ASSUME NEW n \in 2 .. Len(frames) PROVE FrameOffsets[n - 1] < FrameOffsets[n]
    <3>1. n \in 1 .. Len(frames) /\ n - 1 \in 1 .. Len(frames)
      BY <2>2
    <3>. QED  BY <2>1, <3>1
  <2>. QED  BY <2>1, <2>3, <2>4, <2>5
<1>. QED  BY <1>1, Invariance, PTL
===============================================================================
