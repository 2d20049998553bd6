---------------------------------- MODULE Table ---------------------------------
(***************************************************************************)
(* The hash table of table.c: an array of slots probed linearly from the   *)
(* key's hash, doubled and filled again when a set could fill more than    *)
(* three quarters of it.  The constant pool, the label offsets, the label  *)
(* references and the semantic check all keep their data in one.           *)
(*                                                                         *)
(* find_slot's loop is one step per slot looked at: a set or a get is      *)
(* called, grows the array if it must, probes, and returns.                *)
(***************************************************************************)
EXTENDS Integers, FiniteSets

CONSTANTS
  Keys, Values,
  HashFunctions,   (* the hash functions considered                          *)
  FirstCapacity,   (* the capacity of the first array: 64 in the code        *)
  NoValue          (* NULL                                                   *)

ASSUME HashFunctionsAssumption == HashFunctions \subseteq [Keys -> Nat]
ASSUME FirstCapacityAssumption == FirstCapacity \in Nat /\ FirstCapacity > 1
ASSUME NoValueAssumption == NoValue \notin Values

VARIABLES
  hash,       (* the hash function                                           *)
  capacity,
  size,
  slots,      (* idx -> the key and value there, or Free                     *)
  call,       (* the call in progress, or Idle                               *)
  idx,        (* the slot find_slot looks at                                 *)
  answer      (* what the last call returned                                 *)

tableVars == << hash, capacity, size, slots, call, idx, answer >>

Free == [value |-> NoValue]
Idle == [op |-> "idle"]

Occupied(array) == {n \in DOMAIN array : array[n] # Free}

Init ==
  /\ hash \in HashFunctions
  /\ capacity = 0
  /\ size = 0
  /\ slots = [n \in {} |-> Free]
  /\ call = Idle
  /\ idx = 0
  /\ answer = NoValue

-----------------------------------------------------------------------------
(* find_slot: the first slot from the key's hash on that is free or holds   *)
(* the key, within an array of c slots.                                     *)
Probe(c, key, n) == (hash[key] + n) % c
Holds(slot, key) == slot # Free /\ slot.key = key
Stops(array, key, at) == array[at] = Free \/ Holds(array[at], key)

FindSlot(array, c, key) ==
  LET n == CHOOSE n \in 0 .. c - 1 :
             /\ Stops(array, key, Probe(c, key, n))
             /\ \A m \in 0 .. n - 1 : ~Stops(array, key, Probe(c, key, m))
  IN  Probe(c, key, n)

(* grow_capacity: the old slots are put into an array of twice the size, in *)
(* the order they are in; moved[n] is the new array after n of them.        *)
GrownCapacity == IF capacity = 0 THEN FirstCapacity ELSE 2 * capacity

GrownSlots_mutant ==
  [at \in 0 .. GrownCapacity - 1 |-> IF at < capacity THEN slots[at] ELSE Free]

GrownSlots ==
  LET moved[n \in 0 .. capacity] ==
        IF n = 0 THEN [at \in 0 .. GrownCapacity - 1 |-> Free]
        ELSE IF slots[n - 1] = Free THEN moved[n - 1]
        ELSE [moved[n - 1] EXCEPT
                ![FindSlot(moved[n - 1], GrownCapacity, slots[n - 1].key)]
                  = slots[n - 1]]
  IN  moved[capacity]

MustGrow_mutant == 4 * size > 4 * capacity - 1
MustGrow == 4 * (size + 1) > 3 * capacity

-----------------------------------------------------------------------------
(* table_set, up to its call of find_slot.                                  *)
BeginSet(key, value) ==
  /\ call = Idle
  /\ call' = [op |-> "set", key |-> key, value |-> value]
  /\ IF MustGrow
     THEN /\ capacity' = GrownCapacity
          /\ slots' = GrownSlots
     ELSE UNCHANGED << capacity, slots >>
  /\ idx' = hash[key] % capacity'
  /\ UNCHANGED << hash, size, answer >>

(* table_get, up to its call of find_slot; an empty table has no array.     *)
BeginGet(key) ==
  /\ call = Idle
  /\ size > 0
  /\ call' = [op |-> "get", key |-> key]
  /\ idx' = hash[key] % capacity
  /\ UNCHANGED << hash, capacity, size, slots, answer >>

GetFromEmpty(key) ==
  /\ call = Idle
  /\ size = 0
  /\ answer' = NoValue
  /\ UNCHANGED << hash, capacity, size, slots, call, idx >>

(* One iteration of find_slot's loop.                                       *)
NextIdx_mutant == idx + 1
NextIdx == (idx + 1) % capacity

ProbeNext ==
  /\ call # Idle
  /\ ~Stops(slots, call.key, idx)
  /\ idx' = NextIdx
  /\ UNCHANGED << hash, capacity, size, slots, call, answer >>

NewSize_mutant == size + 1
NewSize == IF slots[idx] = Free THEN size + 1 ELSE size

(* The rest of table_set and of table_get.                                  *)
FinishSet ==
  /\ call.op = "set"
  /\ Stops(slots, call.key, idx)
  /\ answer' = (slots[idx] = Free)
  /\ size' = NewSize
  /\ slots' = [slots EXCEPT ![idx] = [key |-> call.key, value |-> call.value]]
  /\ call' = Idle
  /\ UNCHANGED << hash, capacity, idx >>

FinishGet ==
  /\ call.op = "get"
  /\ Stops(slots, call.key, idx)
  /\ answer' = slots[idx].value
  /\ call' = Idle
  /\ UNCHANGED << hash, capacity, size, slots, idx >>

Next ==
  \/ \E key \in Keys, value \in Values : BeginSet(key, value)
  \/ \E key \in Keys : BeginGet(key) \/ GetFromEmpty(key)
  \/ ProbeNext
  \/ FinishSet
  \/ FinishGet

Spec == Init /\ [][Next]_tableVars

(* A call that has begun goes on; nobody has to call again.                 *)
FairSpec ==
  Spec /\ WF_tableVars(ProbeNext) /\ WF_tableVars(FinishSet) /\ WF_tableVars(FinishGet)

-----------------------------------------------------------------------------
(* Properties.                                                              *)

Slot == {Free} \cup [key : Keys, value : Values]

TypeOK ==
  /\ hash \in HashFunctions
  /\ capacity \in Nat
  /\ size \in Nat
  /\ slots \in [0 .. capacity - 1 -> Slot]
  /\ call \in {Idle} \cup [op : {"set"}, key : Keys, value : Values]
                    \cup [op : {"get"}, key : Keys]
  /\ idx = 0 \/ idx \in 0 .. capacity - 1
  /\ answer \in {NoValue} \cup Values \cup BOOLEAN

(* The table is never full, so that find_slot meets a free slot: size is    *)
(* the number of occupied slots and at most three quarters of the capacity, *)
(* also after the set that reaches the limit.                               *)
NeverFull ==
  /\ size = Cardinality(Occupied(slots))
  /\ 4 * size <= 3 * capacity
  /\ call # Idle => Cardinality(Occupied(slots)) < capacity

(* Every call returns: find_slot's loop has no other bound than finding the *)
(* key or a free slot.                                                      *)
CallsReturn == call # Idle ~> call = Idle

(* The table implements the map: no set loses or duplicates a key, nor does *)
(* growing the array, whatever keys collide.                                *)
Mapped(key) == {n \in Occupied(slots) : slots[n].key = key}

Contents ==
  [key \in Keys |-> IF Mapped(key) = {} THEN NoValue
                    ELSE slots[CHOOSE n \in Mapped(key) : TRUE].value]

AbstractMap == INSTANCE Map WITH map <- Contents

ImplementsMap == AbstractMap!Spec
=============================================================================
