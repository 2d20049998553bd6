------------------------------ MODULE Table_proofs ------------------------------
(***************************************************************************)
(* Theorems about Table, for every set of keys and values, every hash      *)
(* function and every first capacity: the table is never full and it       *)
(* implements the map.  The lemmas on numbers are those of Jvm_proofs.     *)
(*                                                                         *)
(* And about Seman, the check that keeps the declared labels in a table    *)
(* and asks it of references: it accepts exactly the programs              *)
(* SemanAccepts describes, of any length over any labels and registers.    *)
(***************************************************************************)
EXTENDS Table, Seman, Jvm_proofs, FiniteSetTheorems

(* A slot is where the probes for a key arrive without having met a free    *)
(* slot before.                                                             *)
Reached(array, c, key, at) ==
  \E d \in 0 .. c - 1 :
    /\ at = Probe(c, key, d)
    /\ \A m \in 0 .. d - 1 : array[Probe(c, key, m)] # Free

(* ... nor one that holds the key: where find_slot has got to.              *)
Passed(array, c, key, at) ==
  \E d \in 0 .. c - 1 :
    /\ at = Probe(c, key, d)
    /\ \A m \in 0 .. d - 1 : ~Stops(array, key, Probe(c, key, m))

(* No key is in two slots and each can be found from its hash.              *)
WellFormed(array, c) ==
  /\ array \in [0 .. c - 1 -> Slot]
  /\ \A m, n \in Occupied(array) : array[m].key = array[n].key => m = n
  /\ \A n \in Occupied(array) : Reached(array, c, array[n].key, n)

SetCalls == [op : {"set"}, key : Keys, value : Values]
GetCalls == [op : {"get"}, key : Keys]
Entry == [key : Keys, value : Values]

TableInv ==
  /\ TypeOK
  /\ NeverFull
  /\ capacity = 0 \/ capacity >= 2
  /\ WellFormed(slots, capacity)
  /\ call # Idle => capacity > 0 /\ Passed(slots, capacity, call.key, idx)
  /\ call \in SetCalls => 4 * (size + 1) <= 3 * capacity

-----------------------------------------------------------------------------
(* An entry is no free slot.                                                *)
LEMMA EntryFacts ==
  /\ \A entry \in Entry : entry # Free /\ entry \in Slot /\ entry.key \in Keys
                          /\ entry.value \in Values
  /\ Free \in Slot /\ Free.value = NoValue
  /\ \A slot \in Slot : slot # Free => slot \in Entry
<1>1. \A entry \in Entry : entry # Free
  BY NoValueAssumption DEF Entry, Free
<1>. QED  BY <1>1 DEF Entry, Free, Slot

(* The calls, and what tells them apart.                                    *)
LEMMA CallFacts ==
  /\ \A c \in SetCalls : c # Idle /\ c.op = "set" /\ c.key \in Keys /\ c.value \in Values
  /\ \A c \in GetCalls : c # Idle /\ c.op = "get" /\ c.key \in Keys /\ c \notin SetCalls
  /\ Idle.op = "idle" /\ Idle \notin SetCalls
BY DEF SetCalls, GetCalls, Idle

(* The probes for a key stay within the array, go through all of it, and    *)
(* each is the one after the last, around the end.                          *)
LEMMA Probes ==
  ASSUME hash \in HashFunctions, NEW c \in Nat \ {0}, NEW key \in Keys
  PROVE  /\ \A d \in Nat : Probe(c, key, d) \in 0 .. c - 1
         /\ Probe(c, key, 0) = hash[key] % c
         /\ \A d \in Nat : Probe(c, key, d + 1) = (Probe(c, key, d) + 1) % c
         /\ \A at \in 0 .. c - 1 : \E d \in 0 .. c - 1 : Probe(c, key, d) = at
<1>. DEFINE h == hash[key]
<1>1. h \in Nat
  BY HashFunctionsAssumption
<1>. HIDE DEF h
<1>2. ASSUME NEW d \in Nat PROVE (h + d) % c \in 0 .. c - 1
  <2>1. h + d \in Int
    BY <1>1
  <2>. DEFINE x == h + d
  <2>. HIDE DEF x
  <2>2. x % c \in 0 .. c - 1
    BY <2>1 DEF x
  <2>. QED  BY <2>2 DEF x
<1>3. h + 0 = h
  BY <1>1
<1>4. ASSUME NEW d \in Nat PROVE (h + (d + 1)) % c = (((h + d) % c) + 1) % c
  <2>1. h + d \in Int /\ h + (d + 1) = (h + d) + 1
    BY <1>1
  <2>. QED  BY <2>1, ModSum
<1>5. ASSUME NEW at \in 0 .. c - 1 PROVE \E d \in 0 .. c - 1 : (h + d) % c = at
  <2>. DEFINE x == at - h
              d == x % c
  <2>1. x \in Int /\ h \in Int
    BY <1>1
  <2>2. h + x = at /\ x + h = at
    BY <1>1
  <2>. HIDE DEF x
  <2>3. d \in 0 .. c - 1
    BY <2>1
  <2>4. (d + h) % c = (x + h) % c
    BY <2>1, ModSum
  <2>. HIDE DEF d
  <2>5. d + h = h + d
    BY <2>1, <2>3
  <2>6. at % c = at
    OBVIOUS
  <2>. QED  BY <2>2, <2>3, <2>4, <2>5, <2>6
<1>. QED  BY <1>2, <1>3, <1>4, <1>5 DEF Probe, h

(* An array that is not full has a free slot.                               *)
LEMMA FreeSlotExists ==
  ASSUME NEW c \in Nat, NEW array, DOMAIN array = 0 .. c - 1
  PROVE  /\ IsFiniteSet(Occupied(array)) /\ Cardinality(Occupied(array)) \in Nat
         /\ Cardinality(Occupied(array)) < c => \E at \in 0 .. c - 1 : array[at] = Free
<1>1. IsFiniteSet(0 .. c - 1) /\ Cardinality(0 .. c - 1) = c
  BY FS_Interval
<1>2. Occupied(array) \in SUBSET (0 .. c - 1)
  BY DEF Occupied
<1>3. IsFiniteSet(Occupied(array)) /\ Cardinality(Occupied(array)) \in Nat
  BY <1>1, <1>2, FS_Subset, FS_CardinalityType
<1>4. (\A at \in 0 .. c - 1 : array[at] # Free) => Occupied(array) = 0 .. c - 1
  BY DEF Occupied
<1>. QED  BY <1>1, <1>3, <1>4

(* When the probes for a key stop at a free slot, the key is nowhere in the *)
(* array; wherever they stop, no other slot has it.                         *)
LEMMA KeyIsAt ==
  ASSUME NEW c \in Nat \ {0}, NEW array, WellFormed(array, c), NEW key,
         NEW at \in 0 .. c - 1, Passed(array, c, key, at), Stops(array, key, at),
         NEW n \in Occupied(array), array[n].key = key
  PROVE  n = at /\ array[at] # Free
<1>1. PICK d \in 0 .. c - 1 :
        /\ at = Probe(c, key, d)
        /\ \A m \in 0 .. d - 1 : ~Stops(array, key, Probe(c, key, m))
  BY DEF Passed
<1>2. PICK e \in 0 .. c - 1 :
        /\ n = Probe(c, key, e)
        /\ \A m \in 0 .. e - 1 : array[Probe(c, key, m)] # Free
  BY DEF WellFormed, Reached
<1>3. Holds(array[n], key) /\ Stops(array, key, n) /\ array[n] # Free
  BY DEF Holds, Stops, Occupied
<1>4. ~(e < d)
  <2>1. e < d => e \in 0 .. d - 1
    OBVIOUS
  <2>. QED  BY <1>1, <1>2, <1>3, <2>1
<1>5. CASE d = e
  BY <1>1, <1>2, <1>3, <1>5
<1>6. CASE d < e
  <2>1. d \in 0 .. e - 1
    BY <1>6
  <2>2. array[at] # Free
    BY <1>1, <1>2, <2>1
  <2>3. array[at].key = key /\ at \in Occupied(array)
    BY <2>2 DEF Stops, Holds, WellFormed, Occupied
  <2>. QED  BY <2>2, <2>3 DEF WellFormed
<1>. QED  BY <1>4, <1>5, <1>6

Put(array, at, entry) == [array EXCEPT ![at] = entry]

(* Putting an entry where the probes for its key stop keeps an array well   *)
(* formed; it has the entry in place of the one with that key, if any.      *)
LEMMA PutEntry ==
  ASSUME hash \in HashFunctions, NEW c \in Nat \ {0}, NEW array, WellFormed(array, c),
         NEW entry \in Entry, NEW at \in 0 .. c - 1,
         Passed(array, c, entry.key, at), Stops(array, entry.key, at)
  PROVE  LET new == Put(array, at, entry)
         IN  /\ WellFormed(new, c)
             /\ Occupied(new) = Occupied(array) \cup {at}
             /\ new[at] = entry
             /\ \A n \in Occupied(array) :
                  n # at => new[n] = array[n] /\ array[n].key # entry.key
<1>. DEFINE new == Put(array, at, entry)
<1>1. array \in [0 .. c - 1 -> Slot] /\ entry # Free /\ entry \in Slot
  BY EntryFacts DEF WellFormed
<1>2. /\ new \in [0 .. c - 1 -> Slot] /\ new[at] = entry
      /\ \A n \in 0 .. c - 1 : n # at => new[n] = array[n]
  BY <1>1 DEF Put
<1>. HIDE DEF new
<1>3. Occupied(new) = Occupied(array) \cup {at} /\ Occupied(array) \subseteq 0 .. c - 1
  BY <1>1, <1>2 DEF Occupied
<1>4. \A n \in Occupied(array) : n # at => array[n].key # entry.key
  BY KeyIsAt
<1>5. \A m, n \in Occupied(new) : new[m].key = new[n].key => m = n
  <2>. SUFFICES ASSUME NEW m \in Occupied(new), NEW n \in Occupied(new),
                       new[m].key = new[n].key, m # n
                PROVE  FALSE
    OBVIOUS
  <2>1. CASE m # at /\ n # at
    BY <1>2, <1>3, <2>1 DEF WellFormed
  <2>2. CASE m = at
    BY <1>2, <1>3, <1>4, <2>2
  <2>3. CASE n = at
    BY <1>2, <1>3, <1>4, <2>3
  <2>. QED  BY <2>1, <2>2, <2>3
<1>6. \A n \in 0 .. c - 1 : array[n] # Free => new[n] # Free
  BY <1>1, <1>2
<1>7. entry.key \in Keys /\ \A n \in Occupied(array) : array[n].key \in Keys
  BY <1>1, EntryFacts DEF Occupied
<1>8. ASSUME NEW n \in Occupied(new) PROVE Reached(new, c, new[n].key, n)
  <2>1. \A key \in Keys, d \in 0 .. c - 1 : \A m \in 0 .. d - 1 : Probe(c, key, m) \in 0 .. c - 1
    <3>1. \A d \in 0 .. c - 1 : \A m \in 0 .. d - 1 : m \in Nat
      OBVIOUS
    <3>. QED  BY <3>1, Probes
  <2>2. CASE n = at
    <3>1. PICK d \in 0 .. c - 1 :
            /\ at = Probe(c, entry.key, d)
            /\ \A m \in 0 .. d - 1 : ~Stops(array, entry.key, Probe(c, entry.key, m))
      BY DEF Passed
    <3>2. \A m \in 0 .. d - 1 : array[Probe(c, entry.key, m)] # Free
      BY <3>1 DEF Stops
    <3>3. \A m \in 0 .. d - 1 : new[Probe(c, entry.key, m)] # Free
      BY <1>6, <1>7, <2>1, <3>2
    <3>. QED  BY <1>2, <2>2, <3>1, <3>3 DEF Reached
  <2>3. CASE n # at
    <3>. DEFINE key == array[n].key
    <3>1. n \in Occupied(array) /\ new[n].key = key /\ key \in Keys
      BY <1>2, <1>3, <1>7, <2>3
    <3>2. PICK d \in 0 .. c - 1 :
            /\ n = Probe(c, key, d)
            /\ \A m \in 0 .. d - 1 : array[Probe(c, key, m)] # Free
      BY <3>1 DEF WellFormed, Reached
    <3>. HIDE DEF key
    <3>3. \A m \in 0 .. d - 1 : new[Probe(c, key, m)] # Free
      BY <1>6, <2>1, <3>1, <3>2
    <3>. QED  BY <3>1, <3>2, <3>3 DEF Reached
  <2>. QED  BY <2>2, <2>3
<1>9. WellFormed(new, c)
  BY <1>2, <1>5, <1>8 DEF WellFormed
<1>. QED  BY <1>2, <1>3, <1>4, <1>9 DEF new

(* In an array that is not full, find_slot finds where to put a key.        *)
LEMMA FindSlotFinds ==
  ASSUME hash \in HashFunctions, NEW c \in Nat \ {0}, NEW array, WellFormed(array, c),
         NEW key \in Keys, \E at \in 0 .. c - 1 : array[at] = Free
  PROVE  LET at == FindSlot(array, c, key)
         IN  at \in 0 .. c - 1 /\ Passed(array, c, key, at) /\ Stops(array, key, at)
<1>. DEFINE Stopping == {d \in 0 .. c - 1 : Stops(array, key, Probe(c, key, d))}
            First(p) == /\ Stops(array, key, Probe(c, key, p))
                        /\ \A m \in 0 .. p - 1 : ~Stops(array, key, Probe(c, key, m))
<1>1. PICK free \in 0 .. c - 1 : array[free] = Free
  OBVIOUS
<1>2. PICK e \in 0 .. c - 1 : Probe(c, key, e) = free
  BY Probes
<1>3. Stopping \subseteq Nat /\ Stopping # {}
  BY <1>1, <1>2 DEF Stops
<1>4. PICK d \in Stopping : \A m \in Stopping : d <= m
  <2>. HIDE DEF Stopping
  <2>. QED  BY <1>3, LeastNatural
<1>5. \A m \in 0 .. d - 1 : m \in 0 .. c - 1 /\ ~(d <= m)
  BY <1>4
<1>6. First(d) /\ d \in 0 .. c - 1
  BY <1>4, <1>5
<1>. DEFINE n == CHOOSE p \in 0 .. c - 1 : First(p)
<1>7. n \in 0 .. c - 1 /\ First(n)
  <2>. HIDE DEF First
  <2>. QED  BY <1>6
<1>8. FindSlot(array, c, key) = Probe(c, key, n)
  BY DEF FindSlot
<1>. HIDE DEF n
<1>9. Probe(c, key, n) \in 0 .. c - 1
  BY <1>7, Probes
<1>. QED  BY <1>7, <1>8, <1>9 DEF Passed

-----------------------------------------------------------------------------
(* Growing the array.                                                       *)

MovedFirst == [at \in 0 .. GrownCapacity - 1 |-> Free]
Move(array, n) ==
  IF slots[n - 1] = Free THEN array
  ELSE [array EXCEPT ![FindSlot(array, GrownCapacity, slots[n - 1].key)] = slots[n - 1]]

(* f[n] is the new array after n of the old slots, for n up to k.           *)
Moves(f, k) ==
  /\ f = [n \in 0 .. k |-> f[n]]
  /\ f[0] = MovedFirst
  /\ \A n \in 1 .. k : f[n] = Move(f[n - 1], n)

(* The recursive function of grow_capacity exists and is that f.            *)
LEMMA MovesExist ==
  ASSUME NEW k \in Nat
  PROVE  \E f : Moves(f, k)
<1>. DEFINE Missing == {m \in Nat : ~\E f : Moves(f, m)}
<1>1. 0 \notin Missing
  <2>1. Moves([n \in 0 .. 0 |-> MovedFirst], 0)
    BY DEF Moves
  <2>. QED  BY <2>1
<1>2. ASSUME NEW m \in Nat, m \notin Missing PROVE m + 1 \notin Missing
  <2>1. PICK f : Moves(f, m)
    BY <1>2
  <2>. DEFINE g == [n \in 0 .. m + 1 |-> IF n = m + 1 THEN Move(f[m], m + 1) ELSE f[n]]
  <2>2. /\ g[0] = f[0] /\ g[m + 1] = Move(f[m], m + 1)
        /\ \A n \in 0 .. m : g[n] = f[n]
    OBVIOUS
  <2>3. g = [n \in 0 .. m + 1 |-> g[n]]
    OBVIOUS
  <2>. HIDE DEF g
  <2>4. \A n \in 1 .. m + 1 : g[n] = Move(g[n - 1], n)
    <3>. SUFFICES ASSUME NEW n \in 1 .. m + 1 PROVE g[n] = Move(g[n - 1], n)
      OBVIOUS
    <3>1. n - 1 \in 0 .. m /\ g[n - 1] = f[n - 1]
      BY <2>2
    <3>2. CASE n = m + 1
      <4>1. n - 1 = m
        BY <3>2
      <4>. QED  BY <2>2, <3>1, <3>2, <4>1
    <3>3. CASE n # m + 1
      <4>1. n \in 1 .. m /\ n \in 0 .. m
        BY <3>3
      <4>. QED  BY <2>1, <2>2, <3>1, <4>1 DEF Moves
    <3>. QED  BY <3>2, <3>3
  <2>5. Moves(g, m + 1)
    BY <2>1, <2>2, <2>3, <2>4 DEF Moves
  <2>. QED  BY <2>5
<1>3. Missing = {}
  <2>. SUFFICES ASSUME Missing # {} PROVE FALSE
    OBVIOUS
  <2>1. Missing \subseteq Nat
    OBVIOUS
  <2>. HIDE DEF Missing
  <2>2. PICK m \in Missing : \A o \in Missing : m <= o
    BY <2>1, LeastNatural
  <2>3. m - 1 \in Nat /\ ~(m <= m - 1)
    BY <1>1, <2>1, <2>2
  <2>4. m - 1 \notin Missing /\ m - 1 + 1 = m
    BY <2>1, <2>2, <2>3
  <2>. QED  BY <1>2, <2>2, <2>3, <2>4
<1>. QED  BY <1>3

(* What resize_table writes is the end of the entries' moves, one slot of   *)
(* the old array at a time.                                                 *)
LEMMA GrownSlotsMoves ==
  ASSUME capacity \in Nat
  PROVE  \E f : Moves(f, capacity) /\ GrownSlots = f[capacity]
<1>. DEFINE IsMoved(moved) ==
       moved = [n \in 0 .. capacity |->
         IF n = 0 THEN [at \in 0 .. GrownCapacity - 1 |-> Free]
         ELSE IF slots[n - 1] = Free THEN moved[n - 1]
         ELSE [moved[n - 1] EXCEPT
                 ![FindSlot(moved[n - 1], GrownCapacity, slots[n - 1].key)] = slots[n - 1]]]
<1>. DEFINE moves == CHOOSE moved : IsMoved(moved)
<1>1. \A f : Moves(f, capacity) => IsMoved(f)
  <2>. SUFFICES ASSUME NEW f, Moves(f, capacity) PROVE IsMoved(f)
    OBVIOUS
  <2>1. f = [n \in 0 .. capacity |-> f[n]]
    BY DEF Moves
  <2>2. \A n \in 0 .. capacity :
          f[n] = IF n = 0 THEN [at \in 0 .. GrownCapacity - 1 |-> Free]
                 ELSE IF slots[n - 1] = Free THEN f[n - 1]
                 ELSE [f[n - 1] EXCEPT
                         ![FindSlot(f[n - 1], GrownCapacity, slots[n - 1].key)] = slots[n - 1]]
    <3>1. \A n \in 0 .. capacity : n = 0 \/ n \in 1 .. capacity
      OBVIOUS
    <3>. QED  BY <3>1 DEF Moves, Move, MovedFirst
  <2>. QED  BY <2>1, <2>2
<1>2. \E f : IsMoved(f)
  BY <1>1, MovesExist
<1>3. IsMoved(moves)
  <2>. HIDE DEF IsMoved
  <2>. QED  BY <1>2
<1>4. GrownSlots = moves[capacity]
  BY DEF GrownSlots
<1>. HIDE DEF moves
<1>5. Moves(moves, capacity)
  <2>1. moves = [n \in 0 .. capacity |-> moves[n]]
    BY <1>3
  <2>2. moves[0] = MovedFirst
    BY <1>3 DEF MovedFirst
  <2>3. \A n \in 1 .. capacity : moves[n] = Move(moves[n - 1], n)
    <3>. SUFFICES ASSUME NEW n \in 1 .. capacity PROVE moves[n] = Move(moves[n - 1], n)
      OBVIOUS
    <3>1. n \in 0 .. capacity /\ n # 0
      OBVIOUS
    <3>2. moves[n] = IF slots[n - 1] = Free THEN moves[n - 1]
                     ELSE [moves[n - 1] EXCEPT
                        ![FindSlot(moves[n - 1], GrownCapacity, slots[n - 1].key)] = slots[n - 1]]
      BY <1>3, <3>1
    <3>. QED  BY <3>2 DEF Move
  <2>. QED  BY <2>1, <2>2, <2>3 DEF Moves
<1>. QED  BY <1>4, <1>5

(* What the new array is after n of the old slots: well formed, with the    *)
(* entries of those slots and no other.                                     *)
MovedSlots(n) == {m \in 0 .. n - 1 : slots[m] # Free}
Entries(array) == {array[m] : m \in Occupied(array)}

MovedInv(array, n) ==
  /\ WellFormed(array, GrownCapacity)
  /\ Entries(array) = {slots[m] : m \in MovedSlots(n)}
  /\ Cardinality(Occupied(array)) = Cardinality(MovedSlots(n))

(* Moving one more entry to the larger array keeps what was moved before    *)
(* and places that entry where the search for its key ends.                 *)
LEMMA MoveStep ==
  ASSUME TableInv, NEW n \in 1 .. capacity, NEW array, MovedInv(array, n - 1)
  PROVE  MovedInv(Move(array, n), n)
<1>. DEFINE c == GrownCapacity
            entry == slots[n - 1]
<1>1. /\ hash \in HashFunctions /\ capacity \in Nat /\ n - 1 \in 0 .. capacity - 1 /\ n \in Nat
      /\ slots \in [0 .. capacity - 1 -> Slot]
      /\ c \in Nat \ {0} /\ c > capacity
  BY FirstCapacityAssumption DEF TableInv, TypeOK, GrownCapacity
<1>. HIDE DEF c
<1>2. MovedSlots(n - 1) \in SUBSET (0 .. capacity - 1) /\ IsFiniteSet(MovedSlots(n - 1))
      /\ Cardinality(MovedSlots(n - 1)) <= capacity /\ Cardinality(MovedSlots(n - 1)) \in Nat
  <2>1. IsFiniteSet(0 .. capacity - 1) /\ Cardinality(0 .. capacity - 1) = capacity
    BY <1>1, FS_Interval
  <2>2. MovedSlots(n - 1) \in SUBSET (0 .. capacity - 1)
    BY <1>1 DEF MovedSlots
  <2>. QED  BY <2>1, <2>2, FS_Subset, FS_CardinalityType
<1>3. CASE entry = Free
  <2>1. MovedSlots(n) = MovedSlots(n - 1)
    <3>1. \A m \in 0 .. n - 1 : m \in 0 .. n - 1 - 1 \/ m = n - 1
      BY <1>1
    <3>2. \A m \in 0 .. n - 1 - 1 : m \in 0 .. n - 1
      BY <1>1
    <3>. QED  BY <1>3, <3>1, <3>2 DEF MovedSlots
  <2>. QED  BY <1>3, <2>1 DEF Move, MovedInv
<1>4. CASE entry # Free
  <2>. DEFINE at == FindSlot(array, c, entry.key)
              new == Put(array, at, entry)
  <2>1. entry \in Entry /\ entry.key \in Keys
    BY <1>1, <1>4, EntryFacts
  <2>2. MovedSlots(n) = MovedSlots(n - 1) \cup {n - 1} /\ n - 1 \notin MovedSlots(n - 1)
    <3>1. \A m \in 0 .. n - 1 : m \in 0 .. n - 1 - 1 \/ m = n - 1
      BY <1>1
    <3>2. \A m \in 0 .. n - 1 - 1 : m \in 0 .. n - 1 /\ m # n - 1
      BY <1>1
    <3>3. n - 1 \in 0 .. n - 1
      BY <1>1
    <3>. QED  BY <1>4, <3>1, <3>2, <3>3 DEF MovedSlots
  <2>3. WellFormed(array, c) /\ DOMAIN array = 0 .. c - 1
    BY DEF MovedInv, c, WellFormed
  <2>4. Cardinality(Occupied(array)) < c
    BY <1>1, <1>2 DEF MovedInv
  <2>5. IsFiniteSet(Occupied(array)) /\ \E free \in 0 .. c - 1 : array[free] = Free
    BY <1>1, <2>3, <2>4, FreeSlotExists
  <2>6. at \in 0 .. c - 1 /\ Passed(array, c, entry.key, at) /\ Stops(array, entry.key, at)
    BY <1>1, <2>1, <2>3, <2>5, FindSlotFinds
  <2>7. \A o \in Occupied(array) : array[o].key # entry.key
    <3>. SUFFICES ASSUME NEW o \in Occupied(array), array[o].key = entry.key PROVE FALSE
      OBVIOUS
    <3>1. PICK m \in MovedSlots(n - 1) : array[o] = slots[m]
      BY DEF MovedInv, Entries
    <3>2. m \in Occupied(slots) /\ n - 1 \in Occupied(slots) /\ m # n - 1
      BY <1>1, <1>2, <1>4, <2>2, <3>1 DEF Occupied, MovedSlots
    <3>. QED  BY <3>1, <3>2 DEF TableInv, WellFormed
  <2>8. array[at] = Free /\ at \notin Occupied(array)
    BY <2>3, <2>6, <2>7 DEF Stops, Holds, Occupied
  <2>. HIDE DEF at
  <2>. HIDE DEF new, entry
  <2>9. /\ WellFormed(new, c)
        /\ Occupied(new) = Occupied(array) \cup {at}
        /\ new[at] = entry
        /\ \A o \in Occupied(array) : o # at => new[o] = array[o]
    <3>1. /\ hash \in HashFunctions /\ c \in Nat \ {0} /\ WellFormed(array, c)
          /\ entry \in Entry /\ at \in 0 .. c - 1
          /\ Passed(array, c, entry.key, at) /\ Stops(array, entry.key, at)
      BY <1>1, <2>1, <2>3, <2>6 DEF entry
    <3>. QED  BY <3>1, PutEntry DEF new
  <2>10. Entries(new) = Entries(array) \cup {entry}
    BY <2>8, <2>9 DEF Entries
  <2>11. Entries(new) = {slots[m] : m \in MovedSlots(n)}
    BY <2>2, <2>10 DEF MovedInv, entry
  <2>12. Cardinality(Occupied(new)) = Cardinality(MovedSlots(n))
    <3>1. Cardinality(Occupied(new)) = Cardinality(Occupied(array)) + 1
      BY <2>5, <2>8, <2>9, FS_AddElement
    <3>2. Cardinality(MovedSlots(n)) = Cardinality(MovedSlots(n - 1)) + 1
      BY <1>2, <2>2, FS_AddElement
    <3>. QED  BY <3>1, <3>2 DEF MovedInv
  <2>13. Move(array, n) = new
    BY <1>4 DEF Move, Put, new, at, entry, c
  <2>. QED  BY <2>9, <2>11, <2>12, <2>13 DEF MovedInv, c
<1>. QED  BY <1>3, <1>4

(* Growing loses no entry, and none is put where it cannot be found.        *)
LEMMA GrownIsComplete ==
  ASSUME TableInv
  PROVE  /\ WellFormed(GrownSlots, GrownCapacity)
         /\ Entries(GrownSlots) = Entries(slots)
         /\ Cardinality(Occupied(GrownSlots)) = Cardinality(Occupied(slots))
<1>1. capacity \in Nat /\ DOMAIN slots = 0 .. capacity - 1
  BY DEF TableInv, TypeOK
<1>2. PICK f : Moves(f, capacity) /\ GrownSlots = f[capacity]
  BY <1>1, GrownSlotsMoves
<1>. DEFINE Wrong == {n \in 0 .. capacity : ~MovedInv(f[n], n)}
<1>3. 0 \notin Wrong
  <2>1. f[0] = [at \in 0 .. GrownCapacity - 1 |-> Free]
    BY <1>2 DEF Moves, MovedFirst
  <2>2. Occupied(f[0]) = {} /\ MovedSlots(0) = {}
    BY <2>1 DEF Occupied, MovedSlots
  <2>3. WellFormed(f[0], GrownCapacity)
    BY <2>1, <2>2, EntryFacts DEF WellFormed
  <2>. QED  BY <2>2, <2>3 DEF MovedInv, Entries
<1>4. \A n \in 1 .. capacity : n - 1 \in 0 .. capacity /\ n - 1 \notin Wrong => n \notin Wrong
  BY <1>2, MoveStep DEF Moves
<1>5. Wrong = {}
  <2>. SUFFICES ASSUME Wrong # {} PROVE FALSE
    OBVIOUS
  <2>1. Wrong \subseteq Nat /\ Wrong \subseteq 0 .. capacity
    OBVIOUS
  <2>. HIDE DEF Wrong
  <2>2. PICK n \in Wrong : \A m \in Wrong : n <= m
    BY <2>1, LeastNatural
  <2>3. n \in 1 .. capacity
    BY <1>1, <1>3, <2>1, <2>2
  <2>4. n - 1 \in 0 .. capacity /\ ~(n <= n - 1)
    BY <1>1, <2>3
  <2>. QED  BY <1>4, <2>2, <2>3, <2>4
<1>6. MovedInv(GrownSlots, capacity)
  BY <1>1, <1>2, <1>5
<1>7. MovedSlots(capacity) = Occupied(slots)
  BY <1>1 DEF MovedSlots, Occupied
<1>. QED  BY <1>6, <1>7 DEF MovedInv, Entries

-----------------------------------------------------------------------------
(* Every call keeps the table as it should be.                              *)

(* The empty table satisfies the invariant: nothing is in it.               *)
LEMMA TableInit == Init => TableInv
<1>. SUFFICES ASSUME Init PROVE TableInv
  OBVIOUS
<1>1. /\ capacity = 0 /\ size = 0 /\ slots \in [0 .. capacity - 1 -> Slot] /\ Occupied(slots) = {}
      /\ call = Idle /\ idx = 0 /\ answer = NoValue /\ hash \in HashFunctions
  BY DEF Init, Occupied
<1>2. TypeOK
  BY <1>1 DEF TypeOK
<1>3. NeverFull
  BY <1>1, FS_EmptySet DEF NeverFull
<1>4. WellFormed(slots, capacity)
  BY <1>1 DEF WellFormed
<1>. QED  BY <1>1, <1>2, <1>3, <1>4, CallFacts DEF TableInv

(* What TableInv says of a call in progress.                                *)
LEMMA InCall ==
  ASSUME TableInv, call # Idle
  PROVE  /\ capacity \in Nat \ {0} /\ hash \in HashFunctions /\ size \in Nat
         /\ call \in SetCalls \/ call \in GetCalls
         /\ call.key \in Keys
         /\ idx \in 0 .. capacity - 1
         /\ Passed(slots, capacity, call.key, idx)
         /\ WellFormed(slots, capacity)
         /\ slots \in [0 .. capacity - 1 -> Slot]
         /\ IsFiniteSet(Occupied(slots))
         /\ \E free \in 0 .. capacity - 1 : slots[free] = Free
<1>1. /\ capacity \in Nat \ {0} /\ hash \in HashFunctions /\ size \in Nat
      /\ call \in SetCalls \/ call \in GetCalls
      /\ Passed(slots, capacity, call.key, idx)
      /\ WellFormed(slots, capacity)
      /\ slots \in [0 .. capacity - 1 -> Slot]
      /\ Cardinality(Occupied(slots)) < capacity
  BY DEF TableInv, TypeOK, NeverFull, SetCalls, GetCalls
<1>2. call.key \in Keys
  BY <1>1, CallFacts
<1>3. idx \in 0 .. capacity - 1
  BY <1>1 DEF TableInv, TypeOK
<1>4. IsFiniteSet(Occupied(slots)) /\ \E free \in 0 .. capacity - 1 : slots[free] = Free
  BY <1>1, FreeSlotExists
<1>. QED  BY <1>1, <1>2, <1>3, <1>4

(* A call begins at the key's hash, in an array with room for it.           *)
LEMMA BeginSetKeeps ==
  ASSUME TableInv, NEW key \in Keys, NEW value \in Values, BeginSet(key, value)
  PROVE  /\ TableInv'
         /\ Entries(slots)' = Entries(slots)
<1>1. /\ call' = [op |-> "set", key |-> key, value |-> value]
      /\ hash' = hash /\ size' = size /\ answer' = answer
      /\ idx' = hash[key] % capacity'
  BY DEF BeginSet
<1>2. /\ hash \in HashFunctions /\ capacity \in Nat /\ size \in Nat
      /\ size = Cardinality(Occupied(slots)) /\ 4 * size <= 3 * capacity
      /\ answer \in {NoValue} \cup Values \cup BOOLEAN
      /\ WellFormed(slots, capacity)
      /\ capacity = 0 \/ capacity >= 2
  BY DEF TableInv, TypeOK, NeverFull
<1>3. /\ capacity' \in Nat /\ capacity' >= 2 /\ capacity' >= capacity
      /\ 4 * (size + 1) <= 3 * capacity'
  BY <1>2, FirstCapacityAssumption DEF BeginSet, MustGrow, GrownCapacity
<1>10. /\ WellFormed(slots', capacity')
       /\ Entries(slots') = Entries(slots)
       /\ Cardinality(Occupied(slots')) = size
  <2>1. CASE MustGrow
    <3>1. capacity' = GrownCapacity /\ slots' = GrownSlots
      BY <2>1 DEF BeginSet
    <3>. QED  BY <1>2, <3>1, GrownIsComplete
  <2>2. CASE ~MustGrow
    <3>1. UNCHANGED << capacity, slots >>
      BY <2>2 DEF BeginSet
    <3>. QED  BY <1>2, <3>1
  <2>. QED  BY <2>1, <2>2
<1>12. PICK c : c = capacity'
  OBVIOUS
<1>13. c \in Nat \ {0} /\ c >= 2 /\ 0 \in 0 .. c - 1
  <2>1. c \in Nat /\ c >= 2
    BY <1>3, <1>12
  <2>. QED  BY <2>1
<1>4. /\ Probe(c, key, 0) = hash[key] % c
      /\ Probe(c, key, 0) \in 0 .. c - 1
  BY <1>2, <1>13, Probes
<1>6. call' \in SetCalls /\ call'.key = key /\ call' # Idle
  BY <1>1, CallFacts DEF SetCalls
<1>5. Passed(slots, capacity, call.key, idx)'
  <2>2. idx' = Probe(c, key, 0)
    BY <1>1, <1>4, <1>12
  <2>3. Passed(slots', c, key, idx')
    <3>1. \A m \in 0 .. 0 - 1 : FALSE
      OBVIOUS
    <3>. QED  BY <1>13, <2>2, <3>1 DEF Passed
  <2>. QED  BY <1>1, <1>6, <1>12, <2>3 DEF Passed, Probe
<1>7. TypeOK'
  <2>1. slots' \in [0 .. c - 1 -> Slot]
    BY <1>10, <1>12 DEF WellFormed
  <2>2. idx' \in 0 .. c - 1
    BY <1>1, <1>4, <1>12
  <2>. QED  BY <1>12, <1>1, <1>2, <1>3, <1>6, <2>1, <2>2 DEF TypeOK, SetCalls
<1>8. NeverFull'
  <2>1. Occupied(slots)' = Occupied(slots')
    BY DEF Occupied
  <2>2. Cardinality(Occupied(slots')) = size
    BY <1>10
  <2>3. 4 * size <= 3 * c /\ size < c
    BY <1>2, <1>3, <1>12, <1>13
  <2>. QED  BY <1>1, <1>12, <2>1, <2>2, <2>3 DEF NeverFull
<1>9. WellFormed(slots, capacity)'
  BY <1>1, <1>10 DEF WellFormed, Reached, Probe
<1>11. Entries(slots)' = Entries(slots)
  BY <1>10 DEF Entries, Occupied
<1>. QED  BY <1>1, <1>3, <1>11, <1>5, <1>6, <1>7, <1>8, <1>9 DEF TableInv

(* A get begins at the key's hash; the table is not empty.                  *)
LEMMA BeginGetKeeps ==
  ASSUME TableInv, NEW key \in Keys, BeginGet(key)
  PROVE  TableInv'
<1>1. /\ call' = [op |-> "get", key |-> key] /\ size > 0
      /\ UNCHANGED << hash, capacity, size, slots, answer >>
      /\ idx' = hash[key] % capacity
  BY DEF BeginGet
<1>2. TypeOK /\ NeverFull /\ WellFormed(slots, capacity)
  BY DEF TableInv
<1>3. /\ hash \in HashFunctions /\ capacity \in Nat \ {0} /\ size \in Nat /\ size < capacity
      /\ size = Cardinality(Occupied(slots))
  BY <1>1, <1>2 DEF TypeOK, NeverFull
<1>4. idx' = Probe(capacity, key, 0) /\ idx' \in 0 .. capacity - 1 /\ 0 \in 0 .. capacity - 1
  <2>1. 0 \in 0 .. capacity - 1 /\ 0 \in Nat
    BY <1>3
  <2>2. Probe(capacity, key, 0) = hash[key] % capacity /\ Probe(capacity, key, 0) \in 0 .. capacity - 1
    BY <1>3, Probes
  <2>. QED  BY <1>1, <2>1, <2>2
<1>5. Passed(slots, capacity, key, idx')
  <2>1. \A m \in 0 .. 0 - 1 : FALSE
    OBVIOUS
  <2>. QED  BY <1>4, <2>1 DEF Passed
<1>6. call' \in GetCalls /\ call'.key = key /\ call' # Idle /\ call' \notin SetCalls
  BY <1>1, CallFacts DEF GetCalls
<1>7. Passed(slots, capacity, call.key, idx)'
  BY <1>1, <1>5, <1>6 DEF Passed, Probe
<1>8. TypeOK'
  BY <1>1, <1>2, <1>4, <1>6 DEF TypeOK, GetCalls
<1>9. NeverFull'
  BY <1>1, <1>2, <1>3 DEF NeverFull, Occupied
<1>10. WellFormed(slots, capacity)'
  BY <1>1, <1>2 DEF WellFormed, Reached, Probe, Occupied
<1>. QED  BY <1>1, <1>3, <1>6, <1>7, <1>8, <1>9, <1>10 DEF TableInv

(* The next slot is the next probe, and there is one: a free slot is left.  *)
LEMMA ProbeNextKeeps ==
  ASSUME TableInv, ProbeNext
  PROVE  TableInv'
<1>. DEFINE key == call.key
<1>1. /\ call # Idle /\ ~Stops(slots, key, idx) /\ idx' = (idx + 1) % capacity
      /\ UNCHANGED << hash, capacity, size, slots, call, answer >>
  BY DEF ProbeNext, NextIdx
<1>2. /\ capacity \in Nat \ {0} /\ hash \in HashFunctions /\ key \in Keys
      /\ Passed(slots, capacity, key, idx)
      /\ \E free \in 0 .. capacity - 1 : slots[free] = Free
  BY <1>1, InCall
<1>. HIDE DEF key
<1>3. PICK d \in 0 .. capacity - 1 :
        /\ idx = Probe(capacity, key, d)
        /\ \A m \in 0 .. d - 1 : ~Stops(slots, key, Probe(capacity, key, m))
  BY <1>2 DEF Passed
<1>4. PICK free \in 0 .. capacity - 1 : slots[free] = Free
  BY <1>2
<1>5. PICK e \in 0 .. capacity - 1 : Probe(capacity, key, e) = free
  BY <1>2, Probes
<1>6. \A m \in 0 .. d : ~Stops(slots, key, Probe(capacity, key, m))
  <2>1. \A m \in 0 .. d : m \in 0 .. d - 1 \/ m = d
    OBVIOUS
  <2>. QED  BY <1>1, <1>3, <2>1
<1>7. e \notin 0 .. d
  BY <1>4, <1>5, <1>6 DEF Stops
<1>8. d + 1 \in 0 .. capacity - 1 /\ d \in Nat /\ d + 1 \in Nat /\ d + 1 - 1 = d
  BY <1>2, <1>7
<1>9. idx' = Probe(capacity, key, d + 1) /\ idx' \in 0 .. capacity - 1
  BY <1>1, <1>2, <1>3, <1>8, Probes
<1>10. Passed(slots, capacity, key, idx')
  BY <1>6, <1>8, <1>9 DEF Passed
<1>11. Passed(slots, capacity, call.key, idx)'
  BY <1>1, <1>10 DEF Passed, Probe, Stops, Holds, key
<1>12. TypeOK' /\ NeverFull'
  BY <1>1, <1>9 DEF TableInv, TypeOK, NeverFull, Occupied
<1>13. WellFormed(slots, capacity)'
  <2>1. WellFormed(slots, capacity)
    BY DEF TableInv
  <2>. QED  BY <1>1, <2>1 DEF WellFormed, Reached, Probe, Occupied
<1>. QED  BY <1>1, <1>11, <1>12, <1>13 DEF TableInv

(* What a set puts into the array.                                          *)
LEMMA SetPuts ==
  ASSUME TableInv, FinishSet
  PROVE  LET entry == [key |-> call.key, value |-> call.value]
         IN  /\ call \in SetCalls /\ call # Idle /\ entry \in Entry /\ entry.key = call.key
             /\ idx \in 0 .. capacity - 1 /\ Stops(slots, call.key, idx)
             /\ WellFormed(slots', capacity)
             /\ Occupied(slots') = Occupied(slots) \cup {idx}
             /\ slots'[idx] = entry
             /\ \A n \in Occupied(slots) :
                  n # idx => slots'[n] = slots[n] /\ slots[n].key # call.key
<1>. DEFINE entry == [key |-> call.key, value |-> call.value]
<1>1. /\ call.op = "set" /\ Stops(slots, call.key, idx)
      /\ slots' = [slots EXCEPT ![idx] = entry]
  BY DEF FinishSet
<1>2. call # Idle
  BY <1>1, CallFacts
<1>3. /\ capacity \in Nat \ {0} /\ hash \in HashFunctions
      /\ call \in SetCalls
      /\ idx \in 0 .. capacity - 1
      /\ Passed(slots, capacity, call.key, idx)
      /\ WellFormed(slots, capacity)
  BY <1>1, <1>2, InCall, CallFacts
<1>4. entry \in Entry /\ entry.key = call.key
  BY <1>3, CallFacts DEF Entry
<1>. HIDE DEF entry
<1>5. slots' = Put(slots, idx, entry)
  BY <1>1 DEF Put
<1>6. LET new == Put(slots, idx, entry)
      IN  /\ WellFormed(new, capacity)
          /\ Occupied(new) = Occupied(slots) \cup {idx}
          /\ new[idx] = entry
          /\ \A n \in Occupied(slots) :
               n # idx => new[n] = slots[n] /\ slots[n].key # entry.key
  BY <1>1, <1>3, <1>4, PutEntry
<1>. QED  BY <1>1, <1>2, <1>3, <1>4, <1>5, <1>6 DEF entry

(* table_set writes its entry where the search ended: a free slot or the    *)
(* key's own. A chain that passed a free slot ends there now, and the count *)
(* is kept below the capacity.                                              *)
LEMMA FinishSetKeeps ==
  ASSUME TableInv, FinishSet
  PROVE  TableInv'
<1>1. /\ call' = Idle /\ size' = NewSize /\ answer' = (slots[idx] = Free)
      /\ UNCHANGED << hash, capacity, idx >>
  BY DEF FinishSet
<1>2. /\ call \in SetCalls /\ call # Idle
      /\ idx \in 0 .. capacity - 1
      /\ WellFormed(slots', capacity)
      /\ Occupied(slots') = Occupied(slots) \cup {idx}
  BY SetPuts
<1>3. /\ size \in Nat /\ capacity \in Nat /\ 4 * (size + 1) <= 3 * capacity
      /\ size = Cardinality(Occupied(slots)) /\ 4 * size <= 3 * capacity
      /\ IsFiniteSet(Occupied(slots)) /\ slots \in [0 .. capacity - 1 -> Slot]
  BY <1>2, InCall DEF TableInv, NeverFull
<1>4. idx \in Occupied(slots) <=> slots[idx] # Free
  BY <1>2, <1>3 DEF Occupied
<1>5. Cardinality(Occupied(slots')) = NewSize
  BY <1>2, <1>3, <1>4, FS_AddElement DEF NewSize
<1>6. NewSize \in Nat /\ 4 * NewSize <= 3 * capacity
  BY <1>3 DEF NewSize
<1>7. TypeOK'
  <2>1. answer' \in BOOLEAN
    BY <1>1
  <2>2. slots' \in [0 .. capacity - 1 -> Slot]
    BY <1>2 DEF WellFormed
  <2>. QED  BY <1>1, <1>2, <1>6, <2>1, <2>2 DEF TableInv, TypeOK
<1>8. NeverFull'
  <2>1. Occupied(slots)' = Occupied(slots')
    BY DEF Occupied
  <2>. QED  BY <1>1, <1>5, <1>6, <2>1 DEF NeverFull
<1>9. WellFormed(slots, capacity)'
  BY <1>1, <1>2, SMTT(30) DEF WellFormed, Reached, Probe, Occupied
<1>. QED  BY <1>1, <1>7, <1>8, <1>9, CallFacts DEF TableInv

(* Every step of the table keeps the invariant.                             *)
LEMMA TableStep == TableInv /\ [Next]_tableVars => TableInv'
<1>. SUFFICES ASSUME TableInv, [Next]_tableVars PROVE TableInv'
  OBVIOUS
<1>1. CASE \E key \in Keys, value \in Values : BeginSet(key, value)
  BY <1>1, BeginSetKeeps
<1>2. CASE \E key \in Keys : BeginGet(key)
  BY <1>2, BeginGetKeeps
<1>3. CASE \E key \in Keys : GetFromEmpty(key)
  <2>1. UNCHANGED << hash, capacity, size, slots, call, idx >> /\ answer' = NoValue
    BY <1>3 DEF GetFromEmpty
  <2>. QED  BY <2>1 DEF TableInv, TypeOK, NeverFull, WellFormed, Reached, Passed, Probe,
                        Stops, Holds, Occupied
<1>4. CASE ProbeNext
  BY <1>4, ProbeNextKeeps
<1>5. CASE FinishSet
  BY <1>5, FinishSetKeeps
<1>6. CASE FinishGet
  <2>1. UNCHANGED << hash, capacity, size, slots, idx >> /\ answer' = slots[idx].value
        /\ call' = Idle /\ call.op = "get"
    BY <1>6 DEF FinishGet
  <2>2. call # Idle
    BY <2>1, CallFacts
  <2>3. slots[idx] \in Slot
    BY <2>2, InCall
  <2>4. answer' \in {NoValue} \cup Values
    BY <2>1, <2>3, EntryFacts
  <2>5. TypeOK' /\ NeverFull'
    BY <2>1, <2>4 DEF TableInv, TypeOK, NeverFull, Occupied
  <2>6. WellFormed(slots, capacity)'
    BY <2>1 DEF TableInv, WellFormed, Reached, Probe, Occupied
  <2>. QED  BY <2>1, <2>5, <2>6, CallFacts DEF TableInv
<1>7. CASE UNCHANGED tableVars
  BY <1>7 DEF tableVars, TableInv, TypeOK, NeverFull, WellFormed, Reached, Passed, Probe,
              Stops, Holds, Occupied
<1>. QED  BY <1>1, <1>2, <1>3, <1>4, <1>5, <1>6, <1>7 DEF Next

-----------------------------------------------------------------------------
(* The table implements the map.                                            *)

ContentsOf(array) ==
  [key \in Keys |->
     IF \E n \in Occupied(array) : array[n].key = key
     THEN array[CHOOSE n \in Occupied(array) : array[n].key = key].value
     ELSE NoValue]

(* The mapping a run checks is the one the proofs use.                      *)
LEMMA ContentsAre ==
  ASSUME NEW array
  PROVE  [key \in Keys |->
            IF {n \in Occupied(array) : array[n].key = key} = {} THEN NoValue
            ELSE array[CHOOSE n \in {n \in Occupied(array) : array[n].key = key} : TRUE].value]
         = ContentsOf(array)
<1>. SUFFICES ASSUME NEW key \in Keys
              PROVE  (IF {n \in Occupied(array) : array[n].key = key} = {} THEN NoValue
                      ELSE array[CHOOSE n \in {n \in Occupied(array) : array[n].key = key} : TRUE].value)
                     = (IF \E n \in Occupied(array) : array[n].key = key
                        THEN array[CHOOSE n \in Occupied(array) : array[n].key = key].value
                        ELSE NoValue)
  BY DEF ContentsOf
<1>. DEFINE M == {n \in Occupied(array) : array[n].key = key}
<1>1. (CHOOSE n \in M : TRUE) = (CHOOSE n \in Occupied(array) : array[n].key = key)
  OBVIOUS
<1>. QED  BY <1>1

(* So it is before and after a step.                                        *)
LEMMA ContentsNow == Contents = ContentsOf(slots) /\ Contents' = ContentsOf(slots')
<1>1. Contents = ContentsOf(slots)
  BY ContentsAre DEF Contents, Mapped
<1>2. Contents' = ContentsOf(slots')
  BY ContentsAre DEF Contents, Mapped
<1>. QED  BY <1>1, <1>2

(* A key's value is that of the one slot that has the key.                  *)
LEMMA ContentsAt ==
  ASSUME NEW c, NEW array, WellFormed(array, c), NEW key \in Keys
  PROVE  /\ \A n \in Occupied(array) :
              array[n].key = key => ContentsOf(array)[key] = array[n].value
         /\ (\A n \in Occupied(array) : array[n].key # key) => ContentsOf(array)[key] = NoValue
<1>1. ASSUME NEW n \in Occupied(array), array[n].key = key
      PROVE  ContentsOf(array)[key] = array[n].value
  <2>. DEFINE m == CHOOSE m \in Occupied(array) : array[m].key = key
  <2>1. m \in Occupied(array) /\ array[m].key = key
    BY <1>1
  <2>. HIDE DEF m
  <2>2. m = n
    BY <1>1, <2>1 DEF WellFormed
  <2>. QED  BY <1>1, <2>2 DEF ContentsOf, m
<1>. QED  BY <1>1 DEF ContentsOf

(* Arrays with the same entries are the same map.                           *)
LEMMA SameContents ==
  ASSUME NEW a, NEW b, NEW c, NEW d, WellFormed(a, c), WellFormed(b, d),
         Entries(a) = Entries(b)
  PROVE  ContentsOf(a) = ContentsOf(b)
<1>. SUFFICES ASSUME NEW key \in Keys PROVE ContentsOf(a)[key] = ContentsOf(b)[key]
  BY DEF ContentsOf
<1>1. CASE \E n \in Occupied(a) : a[n].key = key
  <2>1. PICK n \in Occupied(a) : a[n].key = key
    BY <1>1
  <2>2. PICK m \in Occupied(b) : b[m] = a[n]
    BY DEF Entries
  <2>. QED  BY <2>1, <2>2, ContentsAt
<1>2. CASE \A n \in Occupied(a) : a[n].key # key
  <2>1. \A m \in Occupied(b) : b[m].key # key
    <3>. SUFFICES ASSUME NEW m \in Occupied(b) PROVE b[m].key # key
      OBVIOUS
    <3>1. PICK n \in Occupied(a) : a[n] = b[m]
      BY DEF Entries
    <3>. QED  BY <1>2, <3>1
  <2>. QED  BY <1>2, <2>1, ContentsAt
<1>. QED  BY <1>1, <1>2

(* The slot where the probes for a key stop has the key's value.            *)
LEMMA StopsAtValue ==
  ASSUME TableInv, call # Idle, Stops(slots, call.key, idx)
  PROVE  ContentsOf(slots)[call.key] = slots[idx].value
<1>1. /\ capacity \in Nat \ {0} /\ call.key \in Keys /\ idx \in 0 .. capacity - 1
      /\ Passed(slots, capacity, call.key, idx)
      /\ WellFormed(slots, capacity)
      /\ slots \in [0 .. capacity - 1 -> Slot]
  BY InCall
<1>2. CASE slots[idx] = Free
  <2>1. \A n \in Occupied(slots) : slots[n].key # call.key
    BY <1>1, <1>2, KeyIsAt
  <2>. QED  BY <1>1, <1>2, <2>1, ContentsAt, EntryFacts
<1>3. CASE slots[idx] # Free
  <2>1. idx \in Occupied(slots) /\ slots[idx].key = call.key
    BY <1>1, <1>3 DEF Stops, Holds, Occupied
  <2>. QED  BY <1>1, <2>1, ContentsAt
<1>. QED  BY <1>2, <1>3

(* table_set, when it writes, sets the key in the abstract map and answers  *)
(* whether the key is new.                                                  *)
LEMMA SetIsSet ==
  ASSUME TableInv, FinishSet
  PROVE  AbstractMap!Set(call.key, call.value) /\ call.key \in Keys /\ call.value \in Values
<1>. DEFINE entry == [key |-> call.key, value |-> call.value]
            old == ContentsOf(slots)
            new == ContentsOf(slots')
<1>1. /\ call \in SetCalls /\ call # Idle
      /\ idx \in 0 .. capacity - 1 /\ Stops(slots, call.key, idx)
      /\ WellFormed(slots', capacity)
      /\ Occupied(slots') = Occupied(slots) \cup {idx}
      /\ slots'[idx] = entry
      /\ \A n \in Occupied(slots) :
           n # idx => slots'[n] = slots[n] /\ slots[n].key # call.key
  BY SetPuts
<1>2. call.key \in Keys /\ call.value \in Values /\ WellFormed(slots, capacity)
      /\ slots \in [0 .. capacity - 1 -> Slot]
  BY <1>1, CallFacts, InCall
<1>3. answer' = (slots[idx] = Free)
  BY DEF FinishSet
<1>4. (slots[idx] = Free) <=> (old[call.key] = NoValue)
  <2>1. old[call.key] = slots[idx].value
    BY <1>1, StopsAtValue
  <2>2. slots[idx] \in Slot
    BY <1>1, <1>2
  <2>. QED  BY <2>1, <2>2, EntryFacts, NoValueAssumption
<1>5. new[call.key] = call.value
  <2>1. idx \in Occupied(slots') /\ entry.key = call.key /\ entry.value = call.value
    BY <1>1
  <2>. HIDE DEF entry
  <2>. QED  BY <1>1, <1>2, <2>1, ContentsAt
<1>6. ASSUME NEW key \in Keys, key # call.key PROVE new[key] = old[key]
  <2>1. slots'[idx].key = call.key
    BY <1>1
  <2>2. CASE \E n \in Occupied(slots) : slots[n].key = key
    <3>1. PICK n \in Occupied(slots) : slots[n].key = key
      BY <2>2
    <3>2. n # idx
      BY <1>1, <1>6, <3>1 DEF Stops, Holds, Occupied
    <3>3. n \in Occupied(slots') /\ slots'[n] = slots[n]
      BY <1>1, <3>2
    <3>4. ContentsOf(slots)[key] = slots[n].value
      BY <1>2, <3>1, ContentsAt
    <3>5. ContentsOf(slots')[key] = slots'[n].value
      BY <1>1, <3>1, <3>3, ContentsAt
    <3>. QED  BY <3>3, <3>4, <3>5
  <2>3. CASE \A n \in Occupied(slots) : slots[n].key # key
    <3>1. \A n \in Occupied(slots') : slots'[n].key # key
      BY <1>1, <1>6, <2>1, <2>3
    <3>2. ContentsOf(slots)[key] = NoValue
      BY <1>2, <2>3, ContentsAt
    <3>3. ContentsOf(slots')[key] = NoValue
      BY <1>1, <3>1, ContentsAt
    <3>. QED  BY <3>2, <3>3
  <2>. QED  BY <2>2, <2>3
<1>7. new = [old EXCEPT ![call.key] = call.value]
  <2>1. DOMAIN new = Keys /\ new = [key \in Keys |-> new[key]] /\ old = [key \in Keys |-> old[key]]
    BY DEF ContentsOf
  <2>. HIDE DEF new, old
  <2>. QED  BY <1>2, <1>5, <1>6, <2>1
<1>8. answer' = (old[call.key] = NoValue)
  <2>. HIDE DEF old
  <2>. QED  BY <1>3, <1>4
<1>9. Contents = old /\ Contents' = new
  BY ContentsNow
<1>. HIDE DEF old, new
<1>. QED  BY <1>2, <1>7, <1>8, <1>9 DEF AbstractMap!Set

(* The empty table is the empty map.                                        *)
LEMMA MapInit == Init => AbstractMap!Init
<1>. SUFFICES ASSUME Init PROVE AbstractMap!Init
  OBVIOUS
<1>1. Occupied(slots) = {} /\ answer = NoValue
  BY DEF Init, Occupied
<1>2. ContentsOf(slots) = [key \in Keys |-> NoValue]
  BY <1>1 DEF ContentsOf
<1>. QED  BY <1>1, <1>2, ContentsNow DEF AbstractMap!Init

(* A step of the table is a call of the map when it returns, and nothing    *)
(* the map's user can see before.                                           *)
LEMMA MapStep ==
  TableInv /\ TableInv' /\ [Next]_tableVars => [AbstractMap!Next]_AbstractMap!mapVars
<1>. SUFFICES ASSUME TableInv, TableInv', [Next]_tableVars
              PROVE  [AbstractMap!Next]_AbstractMap!mapVars
  OBVIOUS
<1>1. ASSUME UNCHANGED << slots, answer >> PROVE UNCHANGED AbstractMap!mapVars
  BY <1>1, ContentsNow DEF AbstractMap!mapVars
<1>2. ASSUME NEW key \in Keys, NEW value \in Values, BeginSet(key, value)
      PROVE  UNCHANGED AbstractMap!mapVars
  <2>1. Entries(slots') = Entries(slots)
    BY <1>2, BeginSetKeeps DEF Entries, Occupied
  <2>2. WellFormed(slots, capacity) /\ hash' = hash /\ answer' = answer
    BY <1>2 DEF TableInv, BeginSet
  <2>3. WellFormed(slots', capacity')
    BY <2>2 DEF TableInv, WellFormed, Reached, Probe, Occupied
  <2>4. ContentsOf(slots') = ContentsOf(slots)
    BY <2>1, <2>2, <2>3, SameContents
  <2>. QED  BY <2>2, <2>4, ContentsNow DEF AbstractMap!mapVars
<1>3. ASSUME NEW key \in Keys, BeginGet(key) PROVE UNCHANGED AbstractMap!mapVars
  BY <1>1, <1>3 DEF BeginGet
<1>4. ASSUME NEW key \in Keys, GetFromEmpty(key) PROVE AbstractMap!Get(key)
  <2>1. size = 0 /\ answer' = NoValue /\ UNCHANGED slots
    BY <1>4 DEF GetFromEmpty
  <2>2. Occupied(slots) = {}
    <3>1. DOMAIN slots = 0 .. capacity - 1 /\ capacity \in Nat /\ size = Cardinality(Occupied(slots))
      BY DEF TableInv, TypeOK, NeverFull
    <3>2. IsFiniteSet(Occupied(slots))
      BY <3>1, FreeSlotExists
    <3>. QED  BY <2>1, <3>1, <3>2, FS_EmptySet
  <2>3. ContentsOf(slots)[key] = NoValue
    BY <2>2 DEF ContentsOf
  <2>. QED  BY <2>1, <2>3, ContentsNow DEF AbstractMap!Get
<1>5. CASE ProbeNext
  BY <1>1, <1>5 DEF ProbeNext
<1>6. CASE FinishSet
  BY <1>6, SetIsSet DEF AbstractMap!Next
<1>7. CASE FinishGet
  <2>1. call.op = "get" /\ Stops(slots, call.key, idx) /\ answer' = slots[idx].value
        /\ UNCHANGED slots
    BY <1>7 DEF FinishGet
  <2>2. call # Idle
    BY <2>1, CallFacts
  <2>3. ContentsOf(slots)[call.key] = slots[idx].value /\ call.key \in Keys
    BY <2>1, <2>2, StopsAtValue, InCall
  <2>4. AbstractMap!Get(call.key)
    BY <2>1, <2>3, ContentsNow DEF AbstractMap!Get
  <2>. QED  BY <2>3, <2>4 DEF AbstractMap!Next
<1>8. CASE UNCHANGED tableVars
  BY <1>1, <1>8 DEF tableVars
<1>. QED  BY <1>2, <1>3, <1>4, <1>5, <1>6, <1>7, <1>8 DEF Next, AbstractMap!Next

-----------------------------------------------------------------------------
(* The table is well formed and the search under way is on its key's chain  *)
(* throughout.                                                              *)
LEMMA TableInvariance == Spec => []TableInv
BY TableInit, TableStep, PTL DEF Spec

(* The types of table_t's fields, find_slot's index and the call's answer.  *)
THEOREM TypeCorrect == Spec => []TypeOK
<1>1. TableInv => TypeOK
  BY DEF TableInv
<1>. QED  BY <1>1, TableInvariance, PTL

(* The table is never full: find_slot always meets a free slot or the key,  *)
(* also while a set that reached the limit is under way.                    *)
THEOREM NeverFullCorrect == Spec => []NeverFull
<1>1. TableInv => NeverFull
  BY DEF TableInv
<1>. QED  BY <1>1, TableInvariance, PTL

(* The table implements the map, whatever keys collide and whenever the     *)
(* array grows.                                                             *)
THEOREM MapImplemented == Spec => ImplementsMap
<1>1. TableInv /\ TableInv' /\ [Next]_tableVars => [AbstractMap!Next]_AbstractMap!mapVars
  BY MapStep
<1>. QED  BY MapInit, <1>1, TableInvariance, PTL DEF Spec, ImplementsMap, AbstractMap!Spec

-----------------------------------------------------------------------------
(* The semantic check.                                                      *)

(* What kinds of element there are, and that no element is of two of the    *)
(* kinds the check tells apart.                                             *)
LEMMA ElementNames ==
  ASSUME NEW e \in Elements
  PROVE  /\ IsLabel(e) => e.name \in Labels
         /\ IsLabel(e) \/ IsInstruction(e) \/ IsEof(e)
         /\ ~(IsLabel(e) /\ IsEof(e))
         /\ HasLabel(e) => ~IsEof(e)
<1>. USE DEF IsLabel, IsInstruction, IsEof, HasLabel, HasOperand
<1>1. CASE e \in LabelElements
  BY <1>1 DEF LabelElements
<1>2. CASE e = Eof
  BY <1>2 DEF Eof
<1>3. CASE e \in InstructionElements
  <2>1. e.type = "instruction"
    BY <1>3
    DEF InstructionElements, R3Elements, R2ImmElements, R2LabelElements,
        R1ImmElements, R1LabelElements, MemElements
  <2>. QED  BY <2>1
<1>. QED  BY <1>1, <1>2, <1>3 DEF Elements

(* What a program is, element by element.                                   *)
LEMMA ProgramFacts ==
  ASSUME SemanTypeOK
  PROVE  /\ ir \in Seq(Elements)
         /\ Len(ir) \in Nat \ {0}
         /\ it \in 1 .. Len(ir)
         /\ \A m \in 1 .. Len(ir) : ir[m] \in Elements /\ (IsEof(ir[m]) <=> m = Len(ir))
BY DEF SemanTypeOK, IsProgram

(* The types hold at the start, for every program the parser accepts.       *)
LEMMA SemanTypeInit == SemanInit => SemanTypeOK
BY ProgramsAssumption DEF SemanInit, SemanTypeOK, IsProgram

(* Every step keeps them: the loops stop at the end-of-file element.        *)
LEMMA SemanTypeStep ==
  ASSUME SemanTypeOK, [SemanNext]_semanVars
  PROVE  SemanTypeOK'
<1>0. /\ ir \in Seq(Elements)
      /\ Len(ir) \in Nat \ {0}
      /\ it \in 1 .. Len(ir)
      /\ \A m \in 1 .. Len(ir) : ir[m] \in Elements /\ (IsEof(ir[m]) <=> m = Len(ir))
  BY ProgramFacts
<1>1. ASSUME ~IsEof(ir[it]) PROVE it + 1 \in DOMAIN ir
  BY <1>1, <1>0
<1>2. IsLabel(ir[it]) => ir[it].name \in Labels
  BY <1>0, ElementNames
<1>3. ir' = ir
  BY DEF SemanNext, Declare, DeclaredTwice, SkipInstruction, EndDeclarations,
         CheckReference, ReferenceNotFound, EndReferences, semanVars
<1>4. CASE Declare
  <2>1. it + 1 \in DOMAIN ir
    BY <1>1, <1>4, <1>0, ElementNames DEF Declare
  <2>. QED  BY <1>2, <1>3, <1>4, <2>1 DEF Declare, NextIt, WithLabel, SemanTypeOK
<1>5. CASE DeclaredTwice
  BY <1>3, <1>5 DEF DeclaredTwice, SemanTypeOK
<1>6. CASE SkipInstruction
  <2>1. it + 1 \in DOMAIN ir
    BY <1>1, <1>6 DEF SkipInstruction, IsInstruction, IsEof
  <2>. QED  BY <1>3, <1>6, <2>1 DEF SkipInstruction, NextIt, SemanTypeOK
<1>7. CASE EndDeclarations
  BY <1>3, <1>7, <1>0 DEF EndDeclarations, FirstElement, SemanTypeOK
<1>8. CASE CheckReference
  BY <1>1, <1>3, <1>8 DEF CheckReference, NextIt, SemanTypeOK
<1>9. CASE ReferenceNotFound
  BY <1>3, <1>9 DEF ReferenceNotFound, SemanTypeOK
<1>10. CASE EndReferences
  BY <1>3, <1>10 DEF EndReferences, SemanTypeOK
<1>11. CASE UNCHANGED semanVars
  BY <1>11 DEF semanVars, SemanTypeOK
<1>. QED
  BY <1>4, <1>5, <1>6, <1>7, <1>8, <1>9, <1>10, <1>11 DEF SemanNext

-----------------------------------------------------------------------------
(* How far the loops have come: the labels before index n are declared,     *)
(* each by one element, and the references before index n found.            *)

DeclaredBefore(n) ==
  /\ \A label \in Labels :
       label \in declared_labels <=>
         \E m \in 1 .. n - 1 : IsLabel(ir[m]) /\ ir[m].name = label
  /\ \A m, o \in 1 .. n - 1 :
       IsLabel(ir[m]) /\ IsLabel(ir[o]) /\ ir[m].name = ir[o].name => m = o

FoundBefore(n) ==
  \A m \in 1 .. n - 1 : HasLabel(ir[m]) => ir[m].label \in declared_labels

LoopInv ==
  /\ loop = "declarations" => DeclaredBefore(it)
  /\ loop = "references" => DeclaredBefore(Len(ir)) /\ FoundBefore(it)
  /\ AcceptsOnlySound
  /\ ExitsOnlyUnsound

(* Before the first loop nothing is declared and nothing is decided.        *)
LEMMA LoopInit == SemanInit => LoopInv
BY DEF SemanInit, LoopInv, DeclaredBefore, AcceptsOnlySound, ExitsOnlyUnsound

(* The label an instruction refers to is a label.                           *)
LEMMA LabelOperands ==
  ASSUME NEW e \in Elements, HasLabel(e)
  PROVE  e.label \in Labels
<1>. USE DEF HasLabel, HasOperand, IsInstruction
<1>1. CASE e \in LabelElements
  BY <1>1 DEF LabelElements
<1>2. CASE e = Eof
  BY <1>2 DEF Eof
<1>3. CASE e \in R3Elements \cup MemElements
  BY <1>3 DEF R3Elements, MemElements
<1>4. CASE e \in R2ImmElements \cup R1ImmElements
  BY <1>4 DEF R2ImmElements, R1ImmElements
<1>5. CASE e \in R2LabelElements \cup R1LabelElements
  BY <1>5 DEF R2LabelElements, R1LabelElements
<1>. QED
  BY <1>1, <1>2, <1>3, <1>4, <1>5 DEF Elements, InstructionElements

(* Every step keeps the loop invariant: what is declared is what the first  *)
(* loop has passed, and the second has met no label that is not.            *)
LEMMA LoopStep ==
  ASSUME SemanTypeOK, LoopInv, [SemanNext]_semanVars
  PROVE  LoopInv'
<1>0. /\ ir \in Seq(Elements)
      /\ Len(ir) \in Nat \ {0}
      /\ it \in 1 .. Len(ir)
      /\ \A m \in 1 .. Len(ir) : ir[m] \in Elements /\ (IsEof(ir[m]) <=> m = Len(ir))
  BY ProgramFacts
<1>1. CASE Declare
  <2>1. DeclaredBefore(it)'
    <3>1. /\ DeclaredBefore(it) /\ it' = it + 1 /\ ir' = ir /\ it \in Nat \ {0}
          /\ declared_labels' = declared_labels \cup {ir[it].name}
          /\ ir[it].name \notin declared_labels
          /\ IsLabel(ir[it])
      BY <1>1, <1>0 DEF LoopInv, Declare, NextIt, WithLabel
    <3>2. \A m \in 1 .. it - 1 : IsLabel(ir[m]) => ir[m].name # ir[it].name
      <4>. SUFFICES ASSUME NEW m \in 1 .. it - 1, IsLabel(ir[m])
                    PROVE  ir[m].name \in declared_labels
        BY <3>1
      <4>1. ir[m].name \in Labels
        BY <1>0, ElementNames
      <4>. QED  BY <3>1, <4>1 DEF DeclaredBefore
    <3>3. ASSUME NEW m \in 1 .. it PROVE m = it \/ m \in 1 .. it - 1
      BY <3>1, <3>3
    <3>4. \A label \in Labels :
            label \in declared_labels' <=>
              \E m \in 1 .. it : IsLabel(ir[m]) /\ ir[m].name = label
      BY <3>1, <3>3 DEF DeclaredBefore
    <3>5. \A m, o \in 1 .. it :
            IsLabel(ir[m]) /\ IsLabel(ir[o]) /\ ir[m].name = ir[o].name => m = o
      BY <3>1, <3>2, <3>3 DEF DeclaredBefore
    <3>. QED  BY <3>1, <3>4, <3>5 DEF DeclaredBefore
  <2>. QED
    BY <1>1, <2>1 DEF Declare, LoopInv, AcceptsOnlySound, ExitsOnlyUnsound
<1>2. CASE DeclaredTwice
  <2>1. PICK m \in 1 .. it - 1 : IsLabel(ir[m]) /\ ir[m].name = ir[it].name
    BY <1>2, <1>0, ElementNames DEF DeclaredTwice, LoopInv, DeclaredBefore
  <2>2. ~LabelsDeclaredOnce(ir)
    BY <1>2, <2>1, <1>0 DEF DeclaredTwice, LabelsDeclaredOnce
  <2>. QED
    BY <1>2, <2>2
    DEF DeclaredTwice, LoopInv, AcceptsOnlySound, ExitsOnlyUnsound, SemanAccepts
<1>3. CASE SkipInstruction
  <2>1. ~IsLabel(ir[it])
    BY <1>3 DEF SkipInstruction, IsLabel, IsInstruction
  <2>2. ASSUME NEW m \in 1 .. it, IsLabel(ir[m]) PROVE m \in 1 .. it - 1
    BY <2>1, <2>2, <1>0
  <2>3. DeclaredBefore(it)'
    BY <1>3, <2>2, <1>0 DEF SkipInstruction, NextIt, LoopInv, DeclaredBefore
  <2>. QED
    BY <1>3, <2>3 DEF SkipInstruction, LoopInv, AcceptsOnlySound, ExitsOnlyUnsound
<1>4. CASE EndDeclarations
  <2>1. it = Len(ir)
    BY <1>4, <1>0 DEF EndDeclarations
  <2>2. DeclaredBefore(Len(ir))' /\ FoundBefore(it)'
    BY <1>4, <2>1
    DEF EndDeclarations, FirstElement, LoopInv, DeclaredBefore, FoundBefore
  <2>. QED
    BY <1>4, <2>2 DEF EndDeclarations, LoopInv, AcceptsOnlySound, ExitsOnlyUnsound
<1>5. CASE CheckReference
  <2>1. FoundBefore(it)'
    <3>. SUFFICES ASSUME NEW m \in 1 .. it, HasLabel(ir[m])
                  PROVE  ir[m].label \in declared_labels
      BY <1>5, <1>0 DEF CheckReference, NextIt, FoundBefore
    <3>1. CASE m = it
      BY <1>5, <3>1 DEF CheckReference, References
    <3>2. CASE m \in 1 .. it - 1
      BY <1>5, <3>2 DEF CheckReference, LoopInv, FoundBefore
    <3>. QED  BY <3>1, <3>2, <1>0
  <2>2. DeclaredBefore(Len(ir))'
    BY <1>5 DEF CheckReference, LoopInv, DeclaredBefore
  <2>. QED
    BY <1>5, <2>1, <2>2 DEF CheckReference, LoopInv, AcceptsOnlySound, ExitsOnlyUnsound
<1>6. CASE ReferenceNotFound
  <2>1. ir[it].label \in Labels
    BY <1>6, <1>0, LabelOperands DEF ReferenceNotFound, References
  <2>2. \A m \in 1 .. Len(ir) - 1 : ~(IsLabel(ir[m]) /\ ir[m].name = ir[it].label)
    BY <1>6, <2>1 DEF ReferenceNotFound, LoopInv, DeclaredBefore
  <2>3. ~IsLabel(ir[Len(ir)])
    BY <1>0, ElementNames
  <2>4. ~ReferencedLabelsExist(ir)
    BY <1>6, <2>2, <2>3, <1>0
    DEF ReferenceNotFound, References, ReferencedLabelsExist
  <2>. QED
    BY <1>6, <2>4
    DEF ReferenceNotFound, LoopInv, AcceptsOnlySound, ExitsOnlyUnsound, SemanAccepts
<1>7. CASE EndReferences
  <2>1. it = Len(ir) /\ DeclaredBefore(Len(ir)) /\ FoundBefore(Len(ir))
    BY <1>7, <1>0 DEF EndReferences, LoopInv
  <2>2. ~IsLabel(ir[Len(ir)]) /\ ~HasLabel(ir[Len(ir)])
    BY <1>0, ElementNames
  <2>3. LabelsDeclaredOnce(ir)
    <3>. SUFFICES ASSUME NEW m \in 1 .. Len(ir), NEW o \in 1 .. Len(ir),
                         IsLabel(ir[m]), IsLabel(ir[o]), ir[m].name = ir[o].name
                  PROVE  m = o
      BY <1>0 DEF LabelsDeclaredOnce
    <3>1. m \in 1 .. Len(ir) - 1 /\ o \in 1 .. Len(ir) - 1
      BY <2>2, <1>0
    <3>. QED  BY <2>1, <3>1 DEF DeclaredBefore
  <2>4. ReferencedLabelsExist(ir)
    <3>. SUFFICES ASSUME NEW m \in 1 .. Len(ir), HasLabel(ir[m])
                  PROVE  \E o \in 1 .. Len(ir) :
                           IsLabel(ir[o]) /\ ir[o].name = ir[m].label
      BY <1>0 DEF ReferencedLabelsExist
    <3>1. m \in 1 .. Len(ir) - 1
      BY <2>2, <1>0
    <3>2. ir[m].label \in declared_labels /\ ir[m].label \in Labels
      BY <2>1, <3>1, <1>0, LabelOperands DEF FoundBefore
    <3>3. PICK o \in 1 .. Len(ir) - 1 : IsLabel(ir[o]) /\ ir[o].name = ir[m].label
      BY <2>1, <3>2 DEF DeclaredBefore
    <3>. QED  BY <3>3, <1>0
  <2>. QED
    BY <1>7, <2>3, <2>4
    DEF EndReferences, LoopInv, AcceptsOnlySound, ExitsOnlyUnsound, SemanAccepts
<1>8. CASE UNCHANGED semanVars
  BY <1>8
  DEF semanVars, LoopInv, DeclaredBefore, FoundBefore, AcceptsOnlySound,
      ExitsOnlyUnsound
<1>. QED
  BY <1>1, <1>2, <1>3, <1>4, <1>5, <1>6, <1>7, <1>8 DEF SemanNext

(* The loop invariant holds throughout, together with the types it needs.   *)
LEMMA LoopInvariant == SemanSpec => [](SemanTypeOK /\ LoopInv)
<1>1. SemanInit => SemanTypeOK /\ LoopInv
  BY SemanTypeInit, LoopInit
<1>2. SemanTypeOK /\ LoopInv /\ [SemanNext]_semanVars => (SemanTypeOK /\ LoopInv)'
  BY SemanTypeStep, LoopStep
<1>. QED  BY <1>1, <1>2, PTL DEF SemanSpec

(* The types of seman.c's locals: the index stays on an element of the      *)
(* program, whatever the program is.                                        *)
THEOREM SemanTypeCorrect == SemanSpec => []SemanTypeOK
BY LoopInvariant, PTL

(* A program that passes the check declares each label once and every label *)
(* it refers to: the code generator may rely on it.                         *)
THEOREM SemanSound == SemanSpec => []AcceptsOnlySound
<1>1. LoopInv => AcceptsOnlySound
  BY DEF LoopInv
<1>. QED  BY <1>1, LoopInvariant, PTL

(* A program the check stops does not.                                      *)
THEOREM SemanComplete == SemanSpec => []ExitsOnlyUnsound
<1>1. LoopInv => ExitsOnlyUnsound
  BY DEF LoopInv
<1>. QED  BY <1>1, LoopInvariant, PTL
=============================================================================
