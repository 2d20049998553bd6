--------------------------- MODULE ConstantPool_proofs --------------------------
(***************************************************************************)
(* Theorems about ConstantPool, for every set of programs and whatever an  *)
(* uninitialised immediate holds: entries and indices stay in step, every  *)
(* index inside an entry is that of an entry of the right kind, and every  *)
(* immediate is found under its number.                                    *)
(***************************************************************************)
EXTENDS ConstantPool, FiniteSetTheorems, TLAPS

(* The names of entries, by the kind of entry, and the strings.             *)
ClassKeys ==
  {"super_class", "this_class", "thread_local", "long_array_class", "string_array_class"}
TypeKeys ==
  {"init_method_nameandtype", "thread_local_set_method_nameandtype",
   "thread_local_get_method_nameandtype", "registers_nameandtype", "memory_nameandtype"}
RefKeys ==
  {"thread_local_init_methodref", "thread_local_set_methodref",
   "thread_local_get_methodref", "registers_fieldref", "memory_fieldref"}
Strings ==
  {"java/lang/Object", "RvRuntime", "java/lang/ThreadLocal", "[J", "[Ljava/lang/String;",
   "registers", "Ljava/lang/ThreadLocal;", "Ljava/lang/ThreadLocal<[J>;", "registers_field",
   "memory", "memory_field", "Signature", "<init>", "<clinit>", "main",
   "([Ljava/lang/String;)V", "()V", "Code", "StackMapTable",
   "set", "(Ljava/lang/Object;)V", "get", "()Ljava/lang/Object;"}

Names(S) == {Name(string) : string \in S}

(* What the entry with a key is.                                            *)
EntryOf(key, entry) ==
  /\ key[1] = "number" => entry = [tag |-> "Integer", value |-> key[2]]
  /\ key \in Names(ClassKeys) => entry.tag = "Class"
  /\ key \in Names(TypeKeys) => entry.tag = "NameAndType"
  /\ key \in Names(Strings) => entry.tag = "Utf8"

(* EntryResolves, of an entry of any pool.                                  *)
Tagged(p, index, tag) == index \in DOMAIN p /\ p[index].tag = tag
Resolves(p, entry) ==
  CASE entry.tag = "Class" -> Tagged(p, entry.name, "Utf8")
    [] entry.tag = "NameAndType" ->
         Tagged(p, entry.name, "Utf8") /\ Tagged(p, entry.descriptor, "Utf8")
    [] entry.tag \in {"Methodref", "Fieldref"} ->
         Tagged(p, entry.class, "Class") /\ Tagged(p, entry.nameandtype, "NameAndType")
    [] OTHER -> TRUE

IsSequence(p) == \E S : p \in Seq(S)
Fits(s) == Len(s.pool) + 1 < U16Range

(* As many keys as entries; and as long as the indices fit a uint16_t, each *)
(* key has the index of its entry, and the indices in the entries resolve.  *)
Sound(s) ==
  /\ s = [map |-> s.map, pool |-> s.pool]
  /\ s.map = [key \in DOMAIN s.map |-> s.map[key]]
  /\ IsSequence(s.pool)
  /\ IsFiniteSet(DOMAIN s.map)
  /\ Cardinality(DOMAIN s.map) = Len(s.pool)
  /\ Fits(s) =>
       /\ \A key \in DOMAIN s.map :
            s.map[key] \in DOMAIN s.pool /\ EntryOf(key, s.pool[s.map[key]])
       /\ \A key, other \in DOMAIN s.map : s.map[key] = s.map[other] => key = other
       /\ \A m \in DOMAIN s.pool : \E key \in DOMAIN s.map : s.map[key] = m
       /\ \A m \in DOMAIN s.pool : Resolves(s.pool, s.pool[m])

(* A pool with more entries, in which the earlier keys kept their indices.  *)
Extends(t, s) ==
  /\ DOMAIN s.map \subseteq DOMAIN t.map
  /\ \A key \in DOMAIN s.map : t.map[key] = s.map[key]
  /\ Len(s.pool) <= Len(t.pool)

-----------------------------------------------------------------------------
(* A key of the constant map stands for one string or one number, and a     *)
(* string's key is never a number's: map_set keeps them apart by the text   *)
(* they are formatted to.                                                   *)
LEMMA NameFacts ==
  /\ \A x, y : Name(x) = Name(y) <=> x = y
  /\ \A x, y : Number(x) = Number(y) <=> x = y
  /\ \A x, y : Name(x) # Number(y)
  /\ \A x : Name(x)[1] = "string" /\ Number(x)[1] = "number" /\ Number(x)[2] = x
  /\ \A S, x : Name(x) \in Names(S) <=> x \in S
  /\ \A S, x : Number(x) \notin Names(S)
<1>1. /\ \A x, y : Name(x) = Name(y) <=> x = y
      /\ \A x, y : Number(x) = Number(y) <=> x = y
      /\ \A x, y : Name(x) # Number(y)
  BY DEF Name, Number
<1>2. \A x : Name(x)[1] = "string" /\ Number(x)[1] = "number" /\ Number(x)[2] = x
  BY DEF Name, Number
<1>. QED  BY <1>1, <1>2 DEF Names

(* The kinds of keys do not overlap.                                        *)
LEMMA KeysDisjoint ==
  /\ ClassKeys \cap TypeKeys = {} /\ ClassKeys \cap RefKeys = {} /\ TypeKeys \cap RefKeys = {}
  /\ ClassKeys \cap Strings = {} /\ TypeKeys \cap Strings = {} /\ RefKeys \cap Strings = {}
BY DEF ClassKeys, TypeKeys, RefKeys, Strings

(* What an entry written after the others leaves of the pool.               *)
LEMMA AppendedEntry ==
  ASSUME NEW p, IsSequence(p), NEW entry
  PROVE  /\ IsSequence(Append(p, entry)) /\ Len(p) \in Nat
         /\ Len(Append(p, entry)) = Len(p) + 1
         /\ DOMAIN p = 1 .. Len(p)
         /\ DOMAIN Append(p, entry) = 1 .. Len(p) + 1
         /\ \A m \in 1 .. Len(p) : Append(p, entry)[m] = p[m]
         /\ Append(p, entry)[Len(p) + 1] = entry
<1>1. PICK S : p \in Seq(S)
  BY DEF IsSequence
<1>. DEFINE T == S \cup {entry}
<1>2. p \in Seq(T) /\ entry \in T
  BY <1>1
<1>. HIDE DEF T
<1>3. Append(p, entry) \in Seq(T)
  BY <1>2
<1>. QED  BY <1>2, <1>3 DEF IsSequence

(* An index that is in range is not changed by its conversion to uint16_t.  *)
LEMMA U16Fits ==
  ASSUME NEW m \in Nat, m < U16Range
  PROVE  U16(m) = m
<1>1. U16Range \in Nat \ {0} /\ m \in 0 .. U16Range - 1
  BY U16RangeAssumption
<1>. QED  BY <1>1 DEF U16

-----------------------------------------------------------------------------
(* One entry with a new key.                                                *)
Added(s, key, entry) ==
  [map |-> [k \in DOMAIN s.map \cup {key} |->
              IF k = key THEN U16(Size(s) + 1) ELSE s.map[k]],
   pool |-> Append(s.pool, entry)]

(* A map with a new key, and the two halves, of a state given by its fields. *)
WithKey(m, key) ==
  [k \in DOMAIN m \cup {key} |-> IF k = key THEN U16(Cardinality(DOMAIN m) + 1) ELSE m[k]]

(* Writing changes the bytes, one half of the state, and binding the map,   *)
(* the other.                                                               *)
LEMMA WriteIs ==
  ASSUME NEW m, NEW p, NEW entry
  PROVE  Write([map |-> m, pool |-> p], entry) = [map |-> m, pool |-> Append(p, entry)]
BY DEF Write

LEMMA BindIs ==
  ASSUME NEW m, NEW p, NEW key
  PROVE  key \notin DOMAIN m =>
           Bind([map |-> m, pool |-> p], key) = [map |-> WithKey(m, key), pool |-> p]
BY DEF Bind, Has, Size, WithKey

(* Binding the key and writing the entry, in either order.                  *)
LEMMA AddedIs ==
  ASSUME NEW s, Sound(s), NEW key, ~Has(s, key), NEW entry
  PROVE  /\ Write(Bind(s, key), entry) = Added(s, key, entry)
         /\ Bind(Write(s, entry), key) = Added(s, key, entry)
<1>. DEFINE old == s.map
            p == s.pool
<1>1. s = [map |-> old, pool |-> p] /\ key \notin DOMAIN old
  BY DEF Sound, Has
<1>2. Added(s, key, entry) = [map |-> WithKey(old, key), pool |-> Append(p, entry)]
  BY DEF Added, Size, WithKey
<1>. HIDE DEF old, p
<1>3. Bind(s, key) = [map |-> WithKey(old, key), pool |-> p]
  <2>1. Bind([map |-> old, pool |-> p], key) = [map |-> WithKey(old, key), pool |-> p]
    BY <1>1, BindIs
  <2>. QED  BY <1>1, <2>1
<1>4. Write(s, entry) = [map |-> old, pool |-> Append(p, entry)]
  <2>1. Write([map |-> old, pool |-> p], entry) = [map |-> old, pool |-> Append(p, entry)]
    BY WriteIs
  <2>. QED  BY <1>1, <2>1
<1>5. Write([map |-> WithKey(old, key), pool |-> p], entry) =
        [map |-> WithKey(old, key), pool |-> Append(p, entry)]
  BY WriteIs
<1>6. Bind([map |-> old, pool |-> Append(p, entry)], key) =
        [map |-> WithKey(old, key), pool |-> Append(p, entry)]
  BY <1>1, BindIs
<1>. QED  BY <1>2, <1>3, <1>4, <1>5, <1>6

(* A new key bound and its entry written, in either order: the map and the  *)
(* pool stay in step, and while the pool fits its index is the new entry's. *)
LEMMA AddedSound ==
  ASSUME NEW s, Sound(s), NEW key, ~Has(s, key), NEW entry, EntryOf(key, entry),
         Fits(s) => Resolves(s.pool, entry)
  PROVE  LET t == Added(s, key, entry)
         IN  /\ Sound(t) /\ Extends(t, s)
             /\ DOMAIN t.map = DOMAIN s.map \cup {key}
             /\ t.map[key] = U16(Len(t.pool))
             /\ Size(t) = Len(t.pool)
             /\ Len(t.pool) = Len(s.pool) + 1
             /\ Fits(t) => Fits(s) /\ t.map[key] = Len(t.pool) /\ t.pool[t.map[key]] = entry
<1>. DEFINE t == Added(s, key, entry)
<1>1. /\ DOMAIN t.map = DOMAIN s.map \cup {key}
      /\ t.map[key] = U16(Size(s) + 1)
      /\ \A k \in DOMAIN s.map : t.map[k] = s.map[k]
      /\ t.map = [k \in DOMAIN t.map |-> t.map[k]]
      /\ t = [map |-> t.map, pool |-> t.pool]
      /\ t.pool = Append(s.pool, entry)
  BY DEF Added, Has
<1>2. /\ IsSequence(t.pool) /\ Len(s.pool) \in Nat
      /\ Len(t.pool) = Len(s.pool) + 1
      /\ DOMAIN s.pool = 1 .. Len(s.pool)
      /\ DOMAIN t.pool = 1 .. Len(s.pool) + 1
      /\ \A m \in 1 .. Len(s.pool) : t.pool[m] = s.pool[m]
      /\ t.pool[Len(s.pool) + 1] = entry
  BY <1>1, AppendedEntry DEF Sound
<1>. HIDE DEF t
<1>3. /\ IsFiniteSet(DOMAIN t.map) /\ Cardinality(DOMAIN t.map) = Cardinality(DOMAIN s.map) + 1
      /\ Size(s) = Len(s.pool)
  BY <1>1, FS_AddElement DEF Sound, Has, Size
<1>4. Size(t) = Len(t.pool) /\ Cardinality(DOMAIN t.map) = Len(t.pool)
      /\ t.map[key] = U16(Len(t.pool))
  BY <1>1, <1>2, <1>3 DEF Size
<1>5. ASSUME Fits(t) PROVE Fits(s) /\ t.map[key] = Len(s.pool) + 1
  <2>1. U16Range \in Nat
    BY U16RangeAssumption
  <2>2. Len(s.pool) + 1 \in Nat /\ Len(s.pool) + 1 < U16Range
    BY <1>2, <1>5, <2>1 DEF Fits
  <2>. QED  BY <1>2, <1>4, <2>2, U16Fits DEF Fits
<1>6. ASSUME Fits(t)
      PROVE  /\ \A k \in DOMAIN t.map :
                  t.map[k] \in DOMAIN t.pool /\ EntryOf(k, t.pool[t.map[k]])
             /\ \A k, other \in DOMAIN t.map : t.map[k] = t.map[other] => k = other
             /\ \A m \in DOMAIN t.pool : \E k \in DOMAIN t.map : t.map[k] = m
             /\ \A m \in DOMAIN t.pool : Resolves(t.pool, t.pool[m])
  <2>1. \A k \in DOMAIN s.map :
          /\ t.map[k] \in 1 .. Len(s.pool) /\ EntryOf(k, s.pool[t.map[k]])
          /\ t.map[k] # Len(s.pool) + 1
    BY <1>1, <1>2, <1>5, <1>6 DEF Sound
  <2>2. t.map[key] = Len(s.pool) + 1 /\ Len(s.pool) + 1 \in DOMAIN t.pool
        /\ \A m \in 1 .. Len(s.pool) : m \in DOMAIN t.pool
        /\ \A o \in DOMAIN t.pool : o \in 1 .. Len(s.pool) \/ o = Len(s.pool) + 1
    BY <1>2, <1>5, <1>6
  <2>3. \A k \in DOMAIN t.map :
          t.map[k] \in DOMAIN t.pool /\ EntryOf(k, t.pool[t.map[k]])
    BY <1>1, <1>2, <2>1, <2>2
  <2>4. \A k, other \in DOMAIN t.map : t.map[k] = t.map[other] => k = other
    BY <1>1, <1>5, <1>6, <2>1, <2>2 DEF Sound
  <2>5. \A m \in DOMAIN t.pool : \E k \in DOMAIN t.map : t.map[k] = m
    BY <1>1, <1>2, <1>5, <1>6, <2>2 DEF Sound
  <2>6. \A m \in DOMAIN t.pool : Resolves(t.pool, t.pool[m])
    <3>1. \A index, tag : Tagged(s.pool, index, tag) => Tagged(t.pool, index, tag)
      BY <1>2, <2>2 DEF Tagged
    <3>2. \A e : Resolves(s.pool, e) => Resolves(t.pool, e)
      BY <3>1 DEF Resolves
    <3>. QED  BY <1>2, <1>5, <1>6, <2>2, <3>2 DEF Sound
  <2>. QED  BY <2>3, <2>4, <2>5, <2>6
<1>7. Sound(t)
  BY <1>1, <1>2, <1>3, <1>4, <1>6 DEF Sound
<1>8. Extends(t, s)
  BY <1>1, <1>2 DEF Extends
<1>. QED  BY <1>1, <1>2, <1>4, <1>5, <1>7, <1>8 DEF t

(* The map has as many keys as the pool has entries.                        *)
LEMMA SoundLength ==
  ASSUME NEW s, Sound(s)
  PROVE  Len(s.pool) \in Nat /\ Size(s) = Len(s.pool) /\ DOMAIN s.pool = 1 .. Len(s.pool)
BY AppendedEntry DEF Sound, Size

(* The kind of the entry a name leads to.                                   *)
LEMMA NamesTagged ==
  ASSUME NEW s, Sound(s), Fits(s), NEW x, Has(s, Name(x))
  PROVE  /\ x \in Strings => Tagged(s.pool, s.map[Name(x)], "Utf8")
         /\ x \in ClassKeys => Tagged(s.pool, s.map[Name(x)], "Class")
         /\ x \in TypeKeys => Tagged(s.pool, s.map[Name(x)], "NameAndType")
<1>1. s.map[Name(x)] \in DOMAIN s.pool /\ EntryOf(Name(x), s.pool[s.map[Name(x)]])
  BY DEF Sound, Has
<1>2. /\ x \in Strings => Name(x) \in Names(Strings)
      /\ x \in ClassKeys => Name(x) \in Names(ClassKeys)
      /\ x \in TypeKeys => Name(x) \in Names(TypeKeys)
  BY NameFacts
<1>. QED  BY <1>1, <1>2 DEF EntryOf, Tagged

-----------------------------------------------------------------------------
(* The state t is s with a key, and an entry for it where the key is new.   *)
NoIntegers(s) == \A m \in DOMAIN s.pool : s.pool[m].tag # "Integer"

Grown(t, s, key) ==
  /\ Sound(t) /\ Extends(t, s)
  /\ DOMAIN t.map = DOMAIN s.map \cup {key}
  /\ NoIntegers(s) => NoIntegers(t)
  /\ Has(s, key) => t = s
  /\ ~Has(s, key) => Len(t.pool) = Len(s.pool) + 1 /\ t.map[key] = U16(Len(t.pool))

(* An entry that is not an Integer, under a new name.                       *)
LEMMA AddedGrown ==
  ASSUME NEW s, Sound(s), NEW key, ~Has(s, key), NEW entry, EntryOf(key, entry),
         Fits(s) => Resolves(s.pool, entry), entry.tag # "Integer"
  PROVE  Grown(Added(s, key, entry), s, key)
<1>. DEFINE t == Added(s, key, entry)
<1>1. /\ Sound(t) /\ Extends(t, s)
      /\ DOMAIN t.map = DOMAIN s.map \cup {key}
      /\ t.map[key] = U16(Len(t.pool)) /\ Len(t.pool) = Len(s.pool) + 1
  BY AddedSound
<1>2. ASSUME NoIntegers(s) PROVE NoIntegers(t)
  <2>1. t.pool = Append(s.pool, entry) /\ IsSequence(s.pool)
    BY DEF Added, Sound
  <2>2. /\ DOMAIN s.pool = 1 .. Len(s.pool) /\ DOMAIN t.pool = 1 .. Len(s.pool) + 1
        /\ \A m \in 1 .. Len(s.pool) : t.pool[m] = s.pool[m]
        /\ t.pool[Len(s.pool) + 1] = entry /\ Len(s.pool) \in Nat
    BY <2>1, AppendedEntry
  <2>. HIDE DEF t
  <2>3. \A m \in 1 .. Len(s.pool) + 1 : m \in 1 .. Len(s.pool) \/ m = Len(s.pool) + 1
    BY <2>2
  <2>. QED  BY <1>2, <2>2, <2>3 DEF NoIntegers
<1>. HIDE DEF t
<1>3. Grown(t, s, key)
  BY <1>1, <1>2 DEF Grown
<1>. QED  BY <1>3 DEF t

(* add_utf8_to_pool, of a string that may be there already.                 *)
LEMMA AddUtf8Grown ==
  ASSUME NEW s, Sound(s), NEW string \in Strings
  PROVE  /\ Grown(AddUtf8(s, string), s, Name(string))
         /\ Utf8Index(s, string) = AddUtf8(s, string).map[Name(string)]
<1>. DEFINE key == Name(string)
            entry == [tag |-> "Utf8", string |-> string]
            t == AddUtf8(s, string)
<1>1. CASE Has(s, key)
  <2>1. t = s /\ Utf8Index(s, string) = s.map[key] /\ key \in DOMAIN s.map
    BY <1>1 DEF AddUtf8, Utf8Index, Has
  <2>2. Extends(s, s)
    BY SoundLength DEF Extends
  <2>. QED  BY <1>1, <2>1, <2>2 DEF Grown
<1>2. CASE ~Has(s, key)
  <2>1. EntryOf(key, entry)
    BY NameFacts, KeysDisjoint DEF EntryOf
  <2>2. Resolves(s.pool, entry) /\ entry.tag # "Integer"
    BY DEF Resolves
  <2>3. t = Added(s, key, entry) /\ Utf8Index(s, string) = U16(Size(s) + 1)
    BY <1>2, AddedIs DEF AddUtf8, Utf8Index
  <2>. HIDE DEF t, key, entry
  <2>4. Grown(t, s, key)
    BY <1>2, <2>1, <2>2, <2>3, AddedGrown
  <2>5. Utf8Index(s, string) = t.map[key]
    BY <1>2, <2>3, <2>4, SoundLength, SMTT(30) DEF Grown
  <2>. QED  BY <2>4, <2>5 DEF t, key
<1>. QED  BY <1>1, <1>2

-----------------------------------------------------------------------------
(* The names the fixed part of the pool has, by index: what it binds, in    *)
(* the order of the calls.                                                  *)
NameAt(m) ==
  CASE m = 1 -> "java/lang/Object" [] m = 2 -> "super_class"
    [] m = 3 -> "RvRuntime" [] m = 4 -> "this_class"
    [] m = 5 -> "java/lang/ThreadLocal" [] m = 6 -> "thread_local"
    [] m = 7 -> "[J" [] m = 8 -> "long_array_class"
    [] m = 9 -> "[Ljava/lang/String;" [] m = 10 -> "string_array_class"
    [] m = 11 -> "registers" [] m = 12 -> "Ljava/lang/ThreadLocal;"
    [] m = 13 -> "Ljava/lang/ThreadLocal<[J>;" [] m = 14 -> "registers_field"
    [] m = 15 -> "memory" [] m = 16 -> "memory_field" [] m = 17 -> "Signature"
    [] m = 18 -> "<init>" [] m = 19 -> "<clinit>" [] m = 20 -> "main"
    [] m = 21 -> "([Ljava/lang/String;)V" [] m = 22 -> "()V"
    [] m = 23 -> "Code" [] m = 24 -> "StackMapTable"
    [] m = 25 -> "init_method_nameandtype"
    [] m = 26 -> "thread_local_init_methodref" [] m = 27 -> "set"
    [] m = 28 -> "(Ljava/lang/Object;)V"
    [] m = 29 -> "thread_local_set_method_nameandtype"
    [] m = 30 -> "thread_local_set_methodref" [] m = 31 -> "get"
    [] m = 32 -> "()Ljava/lang/Object;"
    [] m = 33 -> "thread_local_get_method_nameandtype"
    [] m = 34 -> "thread_local_get_methodref"
    [] m = 35 -> "registers_nameandtype" [] m = 36 -> "registers_fieldref"
    [] m = 37 -> "memory_nameandtype" [] m = 38 -> "memory_fieldref"

Index(x) ==
  CASE x = "java/lang/Object" -> 1 [] x = "super_class" -> 2
    [] x = "RvRuntime" -> 3 [] x = "this_class" -> 4
    [] x = "java/lang/ThreadLocal" -> 5 [] x = "thread_local" -> 6
    [] x = "[J" -> 7 [] x = "long_array_class" -> 8
    [] x = "[Ljava/lang/String;" -> 9 [] x = "string_array_class" -> 10
    [] x = "registers" -> 11 [] x = "Ljava/lang/ThreadLocal;" -> 12
    [] x = "Ljava/lang/ThreadLocal<[J>;" -> 13 [] x = "registers_field" -> 14
    [] x = "memory" -> 15 [] x = "memory_field" -> 16 [] x = "Signature" -> 17
    [] x = "<init>" -> 18 [] x = "<clinit>" -> 19 [] x = "main" -> 20
    [] x = "([Ljava/lang/String;)V" -> 21 [] x = "()V" -> 22
    [] x = "Code" -> 23 [] x = "StackMapTable" -> 24
    [] x = "init_method_nameandtype" -> 25
    [] x = "thread_local_init_methodref" -> 26 [] x = "set" -> 27
    [] x = "(Ljava/lang/Object;)V" -> 28
    [] x = "thread_local_set_method_nameandtype" -> 29
    [] x = "thread_local_set_methodref" -> 30 [] x = "get" -> 31
    [] x = "()Ljava/lang/Object;" -> 32
    [] x = "thread_local_get_method_nameandtype" -> 33
    [] x = "thread_local_get_methodref" -> 34
    [] x = "registers_nameandtype" -> 35 [] x = "registers_fieldref" -> 36
    [] x = "memory_nameandtype" -> 37 [] x = "memory_fieldref" -> 38

(* No name twice.                                                           *)
LEMMA IndexOfName ==
  ASSUME NEW m \in 1 .. 38
  PROVE  Index(NameAt(m)) = m
<1>1. /\ Index(NameAt(1)) = 1 /\ Index(NameAt(2)) = 2 /\ Index(NameAt(3)) = 3
      /\ Index(NameAt(4)) = 4 /\ Index(NameAt(5)) = 5
  BY SMTT(30) DEF Index, NameAt
<1>2. /\ Index(NameAt(6)) = 6 /\ Index(NameAt(7)) = 7 /\ Index(NameAt(8)) = 8
      /\ Index(NameAt(9)) = 9 /\ Index(NameAt(10)) = 10
  BY SMTT(30) DEF Index, NameAt
<1>3. /\ Index(NameAt(11)) = 11 /\ Index(NameAt(12)) = 12 /\ Index(NameAt(13)) = 13
      /\ Index(NameAt(14)) = 14 /\ Index(NameAt(15)) = 15
  BY SMTT(30) DEF Index, NameAt
<1>4. /\ Index(NameAt(16)) = 16 /\ Index(NameAt(17)) = 17 /\ Index(NameAt(18)) = 18
      /\ Index(NameAt(19)) = 19 /\ Index(NameAt(20)) = 20
  BY SMTT(30) DEF Index, NameAt
<1>5. /\ Index(NameAt(21)) = 21 /\ Index(NameAt(22)) = 22 /\ Index(NameAt(23)) = 23
      /\ Index(NameAt(24)) = 24 /\ Index(NameAt(25)) = 25
  BY SMTT(30) DEF Index, NameAt
<1>6. /\ Index(NameAt(26)) = 26 /\ Index(NameAt(27)) = 27 /\ Index(NameAt(28)) = 28
      /\ Index(NameAt(29)) = 29 /\ Index(NameAt(30)) = 30
  BY SMTT(30) DEF Index, NameAt
<1>7. /\ Index(NameAt(31)) = 31 /\ Index(NameAt(32)) = 32 /\ Index(NameAt(33)) = 33
      /\ Index(NameAt(34)) = 34 /\ Index(NameAt(35)) = 35
  BY SMTT(30) DEF Index, NameAt
<1>8. /\ Index(NameAt(36)) = 36 /\ Index(NameAt(37)) = 37 /\ Index(NameAt(38)) = 38
  BY SMTT(30) DEF Index, NameAt
<1>. QED  BY <1>1, <1>2, <1>3, <1>4, <1>5, <1>6, <1>7, <1>8

(* The state once the first k of them are bound.                            *)
At(s, k) ==
  /\ Sound(s) /\ NoIntegers(s)
  /\ Len(s.pool) = k
  /\ DOMAIN s.map = {Name(NameAt(m)) : m \in 1 .. k}
  /\ \A m \in 1 .. k : s.map[Name(NameAt(m))] = U16(m)

(* The next name makes it one longer; an earlier one changes nothing.       *)
LEMMA GrownNew ==
  ASSUME NEW k \in 0 .. 37, NEW s, At(s, k), NEW t, Grown(t, s, Name(NameAt(k + 1)))
  PROVE  At(t, k + 1) /\ ~Has(s, Name(NameAt(k + 1)))
<1>. DEFINE key == Name(NameAt(k + 1))
<1>1. \A m \in 1 .. k : NameAt(m) # NameAt(k + 1)
  BY IndexOfName
<1>2. key \notin DOMAIN s.map
  BY <1>1, NameFacts DEF At
<1>3. /\ Sound(t) /\ NoIntegers(t) /\ Extends(t, s)
      /\ Len(t.pool) = k + 1 /\ t.map[key] = U16(k + 1)
      /\ DOMAIN t.map = DOMAIN s.map \cup {key}
  BY <1>2 DEF Grown, At, Has
<1>4. \A m \in 1 .. k + 1 : m \in 1 .. k \/ m = k + 1
  OBVIOUS
<1>5. DOMAIN t.map = {Name(NameAt(m)) : m \in 1 .. k + 1}
  BY <1>3, <1>4 DEF At
<1>6. \A m \in 1 .. k + 1 : t.map[Name(NameAt(m))] = U16(m)
  <2>1. \A m \in 1 .. k : Name(NameAt(m)) \in DOMAIN s.map /\ s.map[Name(NameAt(m))] = U16(m)
    BY DEF At
  <2>. QED  BY <1>3, <1>4, <2>1 DEF Extends
<1>. QED  BY <1>2, <1>3, <1>5, <1>6 DEF At, Has

(* A string added again adds nothing.                                       *)
LEMMA GrownOld ==
  ASSUME NEW k \in 0 .. 38, NEW s, At(s, k), NEW m \in 1 .. k, NEW t,
         Grown(t, s, Name(NameAt(m)))
  PROVE  t = s
BY DEF Grown, At, Has

(* How many there are after the m-th, which is the next or an earlier one.  *)
After(k, m) == IF m = k + 1 THEN k + 1 ELSE k

(* add_utf8_constant of a string that is there or is the next one of the    *)
(* list.                                                                    *)
LEMMA AddUtf8At ==
  ASSUME NEW k \in 0 .. 37, NEW s, At(s, k), NEW m \in 1 .. k + 1, NameAt(m) \in Strings
  PROVE  LET t == AddUtf8(s, NameAt(m))
         IN  /\ At(t, After(k, m)) /\ Extends(t, s)
             /\ Utf8Index(s, NameAt(m)) = t.map[Name(NameAt(m))] /\ Has(t, Name(NameAt(m)))
<1>. DEFINE t == AddUtf8(s, NameAt(m))
<1>1. /\ Grown(t, s, Name(NameAt(m)))
      /\ Utf8Index(s, NameAt(m)) = t.map[Name(NameAt(m))]
  BY AddUtf8Grown DEF At
<1>. HIDE DEF t
<1>2. Extends(t, s) /\ Has(t, Name(NameAt(m)))
  BY <1>1 DEF Grown, Has
<1>3. At(t, After(k, m))
  <2>1. CASE m = k + 1
    BY <1>1, <2>1, GrownNew DEF After
  <2>2. CASE m # k + 1
    BY <1>1, <2>2, GrownOld DEF After
  <2>. QED  BY <2>1, <2>2
<1>. QED  BY <1>1, <1>2, <1>3 DEF t

(* A key bound and its entry written, the key the next of the names.        *)
LEMMA AddedAt ==
  ASSUME NEW k \in 0 .. 37, NEW s, At(s, k), NEW entry, entry.tag # "Integer",
         EntryOf(Name(NameAt(k + 1)), entry), Fits(s) => Resolves(s.pool, entry)
  PROVE  LET t == Bind(Write(s, entry), Name(NameAt(k + 1)))
         IN  /\ At(t, k + 1) /\ Extends(t, s)
             /\ t.map[Name(NameAt(k + 1))] = U16(k + 1) /\ Has(t, Name(NameAt(k + 1)))
<1>. DEFINE key == Name(NameAt(k + 1))
            t == Added(s, key, entry)
<1>1. \A m \in 1 .. k : NameAt(m) # NameAt(k + 1)
  BY IndexOfName
<1>2. ~Has(s, key)
  BY <1>1, NameFacts DEF At, Has
<1>. HIDE DEF key
<1>3. Bind(Write(s, entry), key) = t
  BY <1>2, AddedIs DEF At
<1>4. EntryOf(key, entry)
  BY DEF key
<1>5. Grown(t, s, key)
  BY <1>2, <1>4, AddedGrown DEF At
<1>. HIDE DEF t
<1>6. At(t, k + 1) /\ Extends(t, s)
  BY <1>5, GrownNew DEF key, Grown
<1>7. t.map[key] = U16(k + 1) /\ Has(t, key)
  BY <1>6 DEF At, Has, key
<1>. QED  BY <1>3, <1>6, <1>7 DEF key

(* add_class_constant of the next name: two more entries, the string's      *)
(* first.                                                                   *)
LEMMA AddClassAt ==
  ASSUME NEW k \in 0 .. 36, NEW s, At(s, k),
         NameAt(k + 1) \in Strings, NameAt(k + 2) \in ClassKeys
  PROVE  At(AddClass(s, NameAt(k + 1), NameAt(k + 2)), k + 2)
<1>. DEFINE name == NameAt(k + 1)
            u == AddUtf8(s, name)
            entry == [tag |-> "Class", name |-> Utf8Index(s, name)]
<1>1. At(u, k + 1) /\ Utf8Index(s, name) = u.map[Name(name)] /\ Has(u, Name(name))
  <2>1. k \in 0 .. 37 /\ k + 1 \in 1 .. k + 1 /\ After(k, k + 1) = k + 1
    BY DEF After
  <2>2. PICK m : m = k + 1
    OBVIOUS
  <2>3. /\ At(AddUtf8(s, NameAt(m)), After(k, m))
        /\ Utf8Index(s, NameAt(m)) = AddUtf8(s, NameAt(m)).map[Name(NameAt(m))]
        /\ Has(AddUtf8(s, NameAt(m)), Name(NameAt(m)))
    BY <2>1, <2>2, AddUtf8At
  <2>. QED  BY <2>1, <2>2, <2>3
<1>2. k + 1 \in 0 .. 37 /\ (k + 1) + 1 = k + 2
  OBVIOUS
<1>3. AddClass(s, name, NameAt(k + 2)) = Bind(Write(u, entry), Name(NameAt(k + 2)))
  BY DEF AddClass
<1>4. EntryOf(Name(NameAt(k + 2)), entry)
  BY NameFacts, KeysDisjoint DEF EntryOf
<1>5. entry.tag = "Class" /\ entry.name = Utf8Index(s, name)
  OBVIOUS
<1>. HIDE DEF u, entry
<1>6. Fits(u) => Resolves(u.pool, entry)
  BY <1>1, <1>5, NamesTagged DEF Resolves, At
<1>7. At(Bind(Write(u, entry), Name(NameAt((k + 1) + 1))), (k + 1) + 1)
  BY <1>1, <1>2, <1>4, <1>5, <1>6, AddedAt
<1>. QED  BY <1>2, <1>3, <1>7

(* A NameAndType, of a name and a descriptor each new or there already.     *)
LEMMA AddNameAndTypeAt ==
  ASSUME NEW k \in Nat, NEW s, At(s, k),
         NEW i \in 1 .. k + 1, NameAt(i) \in Strings,
         NEW k1, k1 = After(k, i),
         NEW j \in 1 .. k1 + 1, NameAt(j) \in Strings,
         NEW k2 \in 0 .. 37, k2 = After(k1, j), NameAt(k2 + 1) \in TypeKeys
  PROVE  At(AddNameAndType(s, NameAt(k2 + 1), NameAt(i), NameAt(j)), k2 + 1)
<1>. DEFINE name == NameAt(i)
            descriptor == NameAt(j)
            u == AddUtf8(s, name)
            v == AddUtf8(u, descriptor)
            key == Name(NameAt(k2 + 1))
            entry == [tag |-> "NameAndType", name |-> Utf8Index(s, name),
                      descriptor |-> Utf8Index(u, descriptor)]
<1>1. /\ k1 \in 0 .. 37 /\ k \in 0 .. 37
  BY SMTT(30) DEF After
<1>2. /\ At(u, k1) /\ Utf8Index(s, name) = u.map[Name(name)] /\ Has(u, Name(name))
  BY <1>1, AddUtf8At
<1>3. /\ At(v, k2) /\ Extends(v, u)
      /\ Utf8Index(u, descriptor) = v.map[Name(descriptor)] /\ Has(v, Name(descriptor))
  <2>. HIDE DEF u
  <2>1. k1 \in 0 .. 37
    BY <1>1
  <2>. QED  BY <1>2, <2>1, AddUtf8At
<1>4. AddNameAndType(s, NameAt(k2 + 1), name, descriptor) = Bind(Write(v, entry), key)
  BY DEF AddNameAndType
<1>5. EntryOf(key, entry)
  BY NameFacts, KeysDisjoint DEF EntryOf
<1>6. /\ entry.tag = "NameAndType" /\ entry.name = Utf8Index(s, name)
      /\ entry.descriptor = Utf8Index(u, descriptor)
  OBVIOUS
<1>. HIDE DEF u, v, entry
<1>7. Utf8Index(s, name) = v.map[Name(name)] /\ Has(v, Name(name))
  BY <1>2, <1>3 DEF Extends, Has
<1>8. Fits(v) => Resolves(v.pool, entry)
  BY <1>3, <1>6, <1>7, NamesTagged DEF Resolves, At
<1>9. At(Bind(Write(v, entry), key), k2 + 1)
  BY <1>1, <1>3, <1>5, <1>6, <1>8, AddedAt
<1>. QED  BY <1>4, <1>9

(* A reference, to a class bound before.                                    *)
LEMMA AddRefAt ==
  ASSUME NEW k \in Nat, NEW s, At(s, k),
         NEW i \in 1 .. k + 1, NameAt(i) \in Strings,
         NEW k1, k1 = After(k, i),
         NEW j \in 1 .. k1 + 1, NameAt(j) \in Strings,
         NEW k2 \in 0 .. 36, k2 = After(k1, j), NameAt(k2 + 1) \in TypeKeys,
         NameAt(k2 + 2) \in RefKeys, NEW tag \in {"Methodref", "Fieldref"},
         NEW c \in 1 .. k, NameAt(c) \in ClassKeys
  PROVE  At(AddRef(s, tag, NameAt(c), NameAt(k2 + 2), NameAt(k2 + 1), NameAt(i), NameAt(j)),
            k2 + 2)
<1>. DEFINE typed == AddNameAndType(s, NameAt(k2 + 1), NameAt(i), NameAt(j))
            key == Name(NameAt(k2 + 2))
            entry == [tag |-> tag, class |-> typed.map[Name(NameAt(c))],
                      nameandtype |-> LastIndex(typed)]
<1>1. k <= k2 /\ k2 \in 0 .. 37
  BY DEF After
<1>2. At(typed, k2 + 1)
  BY <1>1, AddNameAndTypeAt
<1>3. AddRef(s, tag, NameAt(c), NameAt(k2 + 2), NameAt(k2 + 1), NameAt(i), NameAt(j))
        = Bind(Write(typed, entry), key)
  BY DEF AddRef
<1>4. EntryOf(key, entry)
  BY NameFacts, KeysDisjoint DEF EntryOf
<1>5. /\ entry.tag = tag /\ entry.class = typed.map[Name(NameAt(c))]
      /\ entry.nameandtype = LastIndex(typed)
  OBVIOUS
<1>. HIDE DEF typed, entry
<1>6. /\ LastIndex(typed) = typed.map[Name(NameAt(k2 + 1))]
      /\ Has(typed, Name(NameAt(k2 + 1))) /\ Has(typed, Name(NameAt(c)))
  <2>1. k2 + 1 \in 1 .. k2 + 1 /\ c \in 1 .. k2 + 1
    BY <1>1
  <2>2. Size(typed) = k2 + 1
    BY <1>2, SoundLength DEF At
  <2>. QED  BY <1>2, <2>1, <2>2 DEF At, LastIndex, Has
<1>7. Fits(typed) => Resolves(typed.pool, entry)
  BY <1>2, <1>5, <1>6, NamesTagged DEF Resolves, At
<1>8. k2 + 1 \in 0 .. 37 /\ (k2 + 1) + 1 = k2 + 2 /\ entry.tag # "Integer"
  BY <1>1, <1>5
<1>9. At(Bind(Write(typed, entry), Name(NameAt((k2 + 1) + 1))), (k2 + 1) + 1)
  <2>1. EntryOf(Name(NameAt((k2 + 1) + 1)), entry)
    BY <1>4, <1>8
  <2>. HIDE DEF key
  <2>. QED  BY <1>2, <1>7, <1>8, <2>1, AddedAt
<1>. QED  BY <1>3, <1>8, <1>9

-----------------------------------------------------------------------------
(* The calls, in terms of the names they bind.                              *)
LEMMA ClassCallsAre ==
  ASSUME NEW m \in 1 .. 5
  PROVE  /\ ClassCalls[m] = ClassCall(NameAt(2 * m - 1), NameAt(2 * m))
         /\ NameAt(2 * m - 1) \in Strings /\ NameAt(2 * m) \in ClassKeys
<1>1. /\ NameAt(1) = "java/lang/Object" /\ NameAt(2) = "super_class"
      /\ NameAt(3) = "RvRuntime" /\ NameAt(4) = "this_class"
      /\ NameAt(5) = "java/lang/ThreadLocal" /\ NameAt(6) = "thread_local"
      /\ NameAt(7) = "[J" /\ NameAt(8) = "long_array_class"
      /\ NameAt(9) = "[Ljava/lang/String;" /\ NameAt(10) = "string_array_class"
  BY DEF NameAt
<1>2. /\ ClassCalls[1] = ClassCall(NameAt(1), NameAt(2))
      /\ ClassCalls[2] = ClassCall(NameAt(3), NameAt(4))
      /\ ClassCalls[3] = ClassCall(NameAt(5), NameAt(6))
      /\ ClassCalls[4] = ClassCall(NameAt(7), NameAt(8))
      /\ ClassCalls[5] = ClassCall(NameAt(9), NameAt(10))
  BY <1>1 DEF ClassCalls
<1>3. /\ NameAt(1) \in Strings /\ NameAt(3) \in Strings /\ NameAt(5) \in Strings
      /\ NameAt(7) \in Strings /\ NameAt(9) \in Strings
      /\ NameAt(2) \in ClassKeys /\ NameAt(4) \in ClassKeys /\ NameAt(6) \in ClassKeys
      /\ NameAt(8) \in ClassKeys /\ NameAt(10) \in ClassKeys
  BY <1>1 DEF Strings, ClassKeys
<1>. QED  BY <1>2, <1>3

(* The strings add_constants adds by themselves, in the list's order.       *)
LEMMA Utf8CallsAre ==
  ASSUME NEW m \in 1 .. 14
  PROVE  Utf8Calls[m] = Utf8Call(NameAt(m + 10)) /\ NameAt(m + 10) \in Strings
<1>1. /\ NameAt(11) = "registers" /\ NameAt(12) = "Ljava/lang/ThreadLocal;"
      /\ NameAt(13) = "Ljava/lang/ThreadLocal<[J>;" /\ NameAt(14) = "registers_field"
      /\ NameAt(15) = "memory" /\ NameAt(16) = "memory_field" /\ NameAt(17) = "Signature"
  BY DEF NameAt
<1>2. /\ NameAt(18) = "<init>" /\ NameAt(19) = "<clinit>" /\ NameAt(20) = "main"
      /\ NameAt(21) = "([Ljava/lang/String;)V" /\ NameAt(22) = "()V"
      /\ NameAt(23) = "Code" /\ NameAt(24) = "StackMapTable"
  BY DEF NameAt
<1>3. CASE m <= 7
  <2>1. /\ Utf8Calls[1] = Utf8Call(NameAt(11)) /\ Utf8Calls[2] = Utf8Call(NameAt(12))
        /\ Utf8Calls[3] = Utf8Call(NameAt(13)) /\ Utf8Calls[4] = Utf8Call(NameAt(14))
        /\ Utf8Calls[5] = Utf8Call(NameAt(15)) /\ Utf8Calls[6] = Utf8Call(NameAt(16))
        /\ Utf8Calls[7] = Utf8Call(NameAt(17))
    BY <1>1 DEF Utf8Calls
  <2>2. /\ NameAt(11) \in Strings /\ NameAt(12) \in Strings /\ NameAt(13) \in Strings
        /\ NameAt(14) \in Strings /\ NameAt(15) \in Strings /\ NameAt(16) \in Strings
        /\ NameAt(17) \in Strings
    BY <1>1 DEF Strings
  <2>. QED  BY <1>3, <2>1, <2>2
<1>4. CASE m > 7
  <2>1. /\ Utf8Calls[8] = Utf8Call(NameAt(18)) /\ Utf8Calls[9] = Utf8Call(NameAt(19))
        /\ Utf8Calls[10] = Utf8Call(NameAt(20)) /\ Utf8Calls[11] = Utf8Call(NameAt(21))
        /\ Utf8Calls[12] = Utf8Call(NameAt(22)) /\ Utf8Calls[13] = Utf8Call(NameAt(23))
        /\ Utf8Calls[14] = Utf8Call(NameAt(24))
    BY <1>2 DEF Utf8Calls
  <2>2. /\ NameAt(18) \in Strings /\ NameAt(19) \in Strings /\ NameAt(20) \in Strings
        /\ NameAt(21) \in Strings /\ NameAt(22) \in Strings /\ NameAt(23) \in Strings
        /\ NameAt(24) \in Strings
    BY <1>2 DEF Strings
  <2>. QED  BY <1>4, <2>1, <2>2
<1>. QED  BY <1>3, <1>4

(* Which names of the list the five references are made of.                 *)
LEMMA RefCallsAre ==
  /\ RefCalls[1] = RefCall("Methodref", NameAt(6), NameAt(26), NameAt(25), NameAt(18), NameAt(22))
  /\ RefCalls[2] = RefCall("Methodref", NameAt(6), NameAt(30), NameAt(29), NameAt(27), NameAt(28))
  /\ RefCalls[3] = RefCall("Methodref", NameAt(6), NameAt(34), NameAt(33), NameAt(31), NameAt(32))
  /\ RefCalls[4] = RefCall("Fieldref", NameAt(4), NameAt(36), NameAt(35), NameAt(11), NameAt(12))
  /\ RefCalls[5] = RefCall("Fieldref", NameAt(4), NameAt(38), NameAt(37), NameAt(15), NameAt(7))
<1>1. /\ NameAt(4) = "this_class" /\ NameAt(6) = "thread_local" /\ NameAt(7) = "[J"
      /\ NameAt(11) = "registers" /\ NameAt(12) = "Ljava/lang/ThreadLocal;"
      /\ NameAt(15) = "memory" /\ NameAt(18) = "<init>" /\ NameAt(22) = "()V"
  BY DEF NameAt
<1>2. /\ NameAt(25) = "init_method_nameandtype" /\ NameAt(26) = "thread_local_init_methodref"
      /\ NameAt(27) = "set" /\ NameAt(28) = "(Ljava/lang/Object;)V"
      /\ NameAt(29) = "thread_local_set_method_nameandtype"
      /\ NameAt(30) = "thread_local_set_methodref"
      /\ NameAt(31) = "get" /\ NameAt(32) = "()Ljava/lang/Object;"
      /\ NameAt(33) = "thread_local_get_method_nameandtype"
      /\ NameAt(34) = "thread_local_get_methodref"
  BY DEF NameAt
<1>3. /\ NameAt(35) = "registers_nameandtype" /\ NameAt(36) = "registers_fieldref"
      /\ NameAt(37) = "memory_nameandtype" /\ NameAt(38) = "memory_fieldref"
  BY DEF NameAt
<1>. QED  BY <1>1, <1>2, <1>3, ZenonT(60) DEF RefCalls

(* Which of the list's names are strings, classes, name-and-types and       *)
(* references.                                                              *)
LEMMA RefNames ==
  /\ NameAt(4) \in ClassKeys /\ NameAt(6) \in ClassKeys
  /\ NameAt(7) \in Strings /\ NameAt(11) \in Strings /\ NameAt(12) \in Strings
  /\ NameAt(15) \in Strings /\ NameAt(18) \in Strings /\ NameAt(22) \in Strings
  /\ NameAt(27) \in Strings /\ NameAt(28) \in Strings /\ NameAt(31) \in Strings
  /\ NameAt(32) \in Strings
  /\ \A m \in {25, 29, 33, 35, 37} : NameAt(m) \in TypeKeys
  /\ \A m \in {26, 30, 34, 36, 38} : NameAt(m) \in RefKeys
<1>1. NameAt(4) \in ClassKeys /\ NameAt(6) \in ClassKeys
  BY DEF NameAt, ClassKeys
<1>2. /\ NameAt(7) \in Strings /\ NameAt(11) \in Strings /\ NameAt(12) \in Strings
      /\ NameAt(15) \in Strings
  BY DEF NameAt, Strings
<1>3. /\ NameAt(18) \in Strings /\ NameAt(22) \in Strings /\ NameAt(27) \in Strings
  BY DEF NameAt, Strings
<1>4. NameAt(28) \in Strings /\ NameAt(31) \in Strings /\ NameAt(32) \in Strings
  BY DEF NameAt, Strings
<1>5. \A m \in {25, 29, 33, 35, 37} : NameAt(m) \in TypeKeys
  BY DEF NameAt, TypeKeys
<1>6. \A m \in {26, 30, 34, 36, 38} : NameAt(m) \in RefKeys
  BY DEF NameAt, RefKeys
<1>. QED  BY <1>1, <1>2, <1>3, <1>4, <1>5, <1>6

(* The calls of add_constants are the classes', the strings' and the        *)
(* references', in that order.                                              *)
LEMMA CallsAre ==
  /\ Len(Calls) = 24
  /\ \A m \in 1 .. 5 : Calls[m] = ClassCalls[m]
  /\ \A m \in 1 .. 14 : Calls[m + 5] = Utf8Calls[m]
  /\ \A m \in 1 .. 5 : Calls[m + 19] = RefCalls[m]
<1>1. ASSUME NEW S, NEW a \in Seq(S), NEW b \in Seq(S), NEW c \in Seq(S)
      PROVE  /\ Len(a \o b \o c) = Len(a) + Len(b) + Len(c)
             /\ \A m \in 1 .. Len(a) : (a \o b \o c)[m] = a[m]
             /\ \A m \in 1 .. Len(b) : (a \o b \o c)[m + Len(a)] = b[m]
             /\ \A m \in 1 .. Len(c) : (a \o b \o c)[m + (Len(a) + Len(b))] = c[m]
  <2>1. a \o b \in Seq(S) /\ Len(a \o b) = Len(a) + Len(b)
        /\ \A m \in 1 .. Len(a) : (a \o b)[m] = a[m]
        /\ \A p \in 1 .. Len(b) : (a \o b)[p + Len(a)] = b[p]
    OBVIOUS
  <2>. DEFINE d == a \o b
  <2>2. d \in Seq(S) /\ Len(d) = Len(a) + Len(b) /\ Len(a) \in Nat /\ Len(b) \in Nat
        /\ \A m \in 1 .. Len(a) : m \in 1 .. Len(d) /\ d[m] = a[m]
        /\ \A p \in 1 .. Len(b) : p + Len(a) \in 1 .. Len(d) /\ d[p + Len(a)] = b[p]
    BY <2>1
  <2>. HIDE DEF d
  <2>3. d \in Seq(S) /\ c \in Seq(S)
    BY <2>2
  <2>4. /\ Len(d \o c) = Len(d) + Len(c)
        /\ \A m \in 1 .. Len(d) : (d \o c)[m] = d[m]
        /\ \A m \in 1 .. Len(c) : (d \o c)[m + Len(d)] = c[m]
    BY <2>3
  <2>5. Len(d \o c) = Len(a) + Len(b) + Len(c)
    BY <2>2, <2>4
  <2>6. ASSUME NEW m \in 1 .. Len(a) PROVE (d \o c)[m] = a[m]
    <3>1. m \in 1 .. Len(d) /\ d[m] = a[m]
      BY <2>2
    <3>. QED  BY <3>1, <2>4
  <2>8. ASSUME NEW m \in 1 .. Len(b) PROVE (d \o c)[m + Len(a)] = b[m]
    <3>1. m + Len(a) \in 1 .. Len(d)
      BY <2>2
    <3>2. (d \o c)[m + Len(a)] = d[m + Len(a)]
      BY <3>1, <2>4
    <3>3. d[m + Len(a)] = b[m]
      <4>1. (a \o b)[m + Len(a)] = b[m]
        OBVIOUS
      <4>. QED  BY <4>1 DEF d
    <3>. QED  BY <3>2, <3>3
  <2>7. \A m \in 1 .. Len(c) : (d \o c)[m + (Len(a) + Len(b))] = c[m]
    BY <2>2, <2>4
  <2>. QED  BY <2>5, <2>6, <2>7, <2>8 DEF d
<1>2. /\ Len(ClassCalls) = 5 /\ Len(Utf8Calls) = 14 /\ Len(RefCalls) = 5
  BY DEF ClassCalls, Utf8Calls, RefCalls
<1>. DEFINE A == {ClassCalls[m] : m \in 1 .. 5} \cup {Utf8Calls[m] : m \in 1 .. 14}
                 \cup {RefCalls[m] : m \in 1 .. 5}
<1>3. ClassCalls \in Seq(A) /\ Utf8Calls \in Seq(A) /\ RefCalls \in Seq(A)
  <2>1. /\ ClassCalls = [m \in 1 .. 5 |-> ClassCalls[m]]
        /\ Utf8Calls = [m \in 1 .. 14 |-> Utf8Calls[m]]
        /\ RefCalls = [m \in 1 .. 5 |-> RefCalls[m]]
    BY DEF ClassCalls, Utf8Calls, RefCalls
  <2>2. /\ \A m \in 1 .. 5 : ClassCalls[m] \in A /\ RefCalls[m] \in A
        /\ \A m \in 1 .. 14 : Utf8Calls[m] \in A
    OBVIOUS
  <2>. HIDE DEF A
  <2>3. ASSUME NEW l \in Nat, NEW f, f = [m \in 1 .. l |-> f[m]], \A m \in 1 .. l : f[m] \in A
        PROVE  f \in Seq(A)
    BY <2>3
  <2>. QED  BY <2>1, <2>2, <2>3
<1>. HIDE DEF A
<1>4. Calls = ClassCalls \o Utf8Calls \o RefCalls
  BY DEF Calls
<1>5. /\ Len(Calls) = Len(ClassCalls) + Len(Utf8Calls) + Len(RefCalls)
      /\ \A m \in 1 .. Len(ClassCalls) : Calls[m] = ClassCalls[m]
      /\ \A m \in 1 .. Len(Utf8Calls) : Calls[m + Len(ClassCalls)] = Utf8Calls[m]
      /\ \A m \in 1 .. Len(RefCalls) :
           Calls[m + (Len(ClassCalls) + Len(Utf8Calls))] = RefCalls[m]
  BY <1>1, <1>3, <1>4
<1>. QED  BY <1>2, <1>5

-----------------------------------------------------------------------------
(* What is bound when the m-th call is made.                                *)
Before(m) ==
  CASE m <= 5 -> 2 * m - 2
    [] m \in 6 .. 20 -> m + 4
    [] m = 21 -> 26
    [] m = 22 -> 30
    [] m = 23 -> 34
    [] m = 24 -> 36
    [] m = 25 -> 38

(* Each call leaves what the next one is made with.                         *)
LEMMA ClassCallAt ==
  ASSUME NEW m \in 1 .. 5, At(Now, Before(m))
  PROVE  At(Result(Calls[m]), Before(m + 1))
<1>. DEFINE k == 2 * m - 2
            name == NameAt(k + 1)
            key == NameAt(k + 2)
<1>1. /\ k \in 0 .. 36 /\ k + 1 = 2 * m - 1 /\ k + 2 = 2 * m
      /\ Before(m) = k /\ Before(m + 1) = k + 2
  BY DEF Before
<1>2. Calls[m] = ClassCall(name, key) /\ name \in Strings /\ key \in ClassKeys
  BY <1>1, CallsAre, ClassCallsAre
<1>3. Result(Calls[m]) = AddClass(Now, name, key)
  <2>. HIDE DEF name, key
  <2>. QED  BY <1>2 DEF Result, ClassCall
<1>4. At(Now, k)
  BY <1>1
<1>. HIDE DEF k
<1>. QED  BY <1>1, <1>2, <1>3, <1>4, AddClassAt

(* A call that adds a string takes the list one name further.               *)
LEMMA Utf8CallAt ==
  ASSUME NEW m \in 6 .. 19, At(Now, Before(m))
  PROVE  At(Result(Calls[m]), Before(m + 1))
<1>. DEFINE k == m + 4
            string == NameAt(k + 1)
            c == m - 5
<1>1. /\ k \in 0 .. 37 /\ k + 1 = c + 10 /\ c \in 1 .. 14 /\ c + 5 = m
      /\ Before(m) = k /\ Before(m + 1) = k + 1
  BY DEF Before
<1>2. Calls[m] = Utf8Call(string) /\ string \in Strings
  <2>. HIDE DEF c, k
  <2>. QED  BY <1>1, CallsAre, Utf8CallsAre
<1>3. Result(Calls[m]) = AddUtf8(Now, string)
  <2>. HIDE DEF string
  <2>. QED  BY <1>2 DEF Result, Utf8Call
<1>4. At(Now, k) /\ After(k, k + 1) = k + 1 /\ k + 1 \in 1 .. k + 1
  BY <1>1 DEF After
<1>. HIDE DEF k
<1>. QED  BY <1>1, <1>2, <1>3, <1>4, AddUtf8At

(* What a call that adds a reference does to the map and the pool.          *)
LEMMA RefResult ==
  ASSUME NEW tag, NEW class_key, NEW key, NEW nat, NEW name, NEW descriptor
  PROVE  Result(RefCall(tag, class_key, key, nat, name, descriptor))
           = AddRef(Now, tag, class_key, key, nat, name, descriptor)
BY DEF Result, RefCall

(* A call that adds a reference takes the list to where the next call       *)
(* starts: what the reference is made of is there already or is added       *)
(* before it.                                                               *)
LEMMA RefCallAt ==
  ASSUME NEW m \in 20 .. 24, At(Now, Before(m))
  PROVE  At(Result(Calls[m]), Before(m + 1))
<1>0. /\ Calls[20] = RefCalls[1] /\ Calls[21] = RefCalls[2] /\ Calls[22] = RefCalls[3]
      /\ Calls[23] = RefCalls[4] /\ Calls[24] = RefCalls[5]
  <2>1. \A i \in 1 .. 5 : Calls[i + 19] = RefCalls[i]
    BY CallsAre
  <2>. QED  BY <2>1
<1>1. CASE m = 20
  <2>1. /\ Before(20) = 24 /\ Before(21) = 26
        /\ After(24, 18) = 24 /\ After(24, 22) = 24
    BY DEF Before, After
  <2>2. Result(Calls[20]) = AddRef(Now, "Methodref", NameAt(6), NameAt(26), NameAt(25),
                                   NameAt(18), NameAt(22))
    BY <1>0, RefCallsAre, RefResult
  <2>3. NameAt(24 + 1) \in TypeKeys /\ NameAt(24 + 2) \in RefKeys
    BY RefNames
  <2>4. At(AddRef(Now, "Methodref", NameAt(6), NameAt(24 + 2), NameAt(24 + 1),
                  NameAt(18), NameAt(22)), 24 + 2)
    <3>1. At(Now, 24)
      BY <1>1, <2>1
    <3>2. /\ 24 \in Nat /\ 18 \in 1 .. 24 + 1 /\ 22 \in 1 .. 24 + 1
          /\ 24 \in 0 .. 36 /\ 6 \in 1 .. 24
          /\ "Methodref" \in {"Methodref", "Fieldref"}
      OBVIOUS
    <3>3. /\ NameAt(18) \in Strings /\ NameAt(22) \in Strings /\ NameAt(6) \in ClassKeys
      BY RefNames
    <3>4. 24 = After(24, 18) /\ 24 = After(24, 22)
      BY <2>1
    <3>. QED  BY <2>3, <3>1, <3>2, <3>3, <3>4, AddRefAt, SMTT(30)
  <2>. QED  BY <1>1, <2>1, <2>2, <2>4
<1>2. CASE m = 21
  <2>1. /\ Before(21) = 26 /\ Before(22) = 30
        /\ After(26, 27) = 27 /\ After(27, 28) = 28
    BY DEF Before, After
  <2>2. Result(Calls[21]) = AddRef(Now, "Methodref", NameAt(6), NameAt(30), NameAt(29),
                                   NameAt(27), NameAt(28))
    BY <1>0, RefCallsAre, RefResult
  <2>3. NameAt(28 + 1) \in TypeKeys /\ NameAt(28 + 2) \in RefKeys
    BY RefNames
  <2>4. At(AddRef(Now, "Methodref", NameAt(6), NameAt(28 + 2), NameAt(28 + 1),
                  NameAt(27), NameAt(28)), 28 + 2)
    <3>1. At(Now, 26)
      BY <1>2, <2>1
    <3>2. /\ 26 \in Nat /\ 27 \in 1 .. 26 + 1 /\ 28 \in 1 .. 27 + 1
          /\ 28 \in 0 .. 36 /\ 6 \in 1 .. 26
          /\ "Methodref" \in {"Methodref", "Fieldref"}
      OBVIOUS
    <3>3. /\ NameAt(27) \in Strings /\ NameAt(28) \in Strings /\ NameAt(6) \in ClassKeys
      BY RefNames
    <3>4. 27 = After(26, 27) /\ 28 = After(27, 28)
      BY <2>1
    <3>. QED  BY <2>3, <3>1, <3>2, <3>3, <3>4, AddRefAt, SMTT(30)
  <2>. QED  BY <1>2, <2>1, <2>2, <2>4
<1>3. CASE m = 22
  <2>1. /\ Before(22) = 30 /\ Before(23) = 34
        /\ After(30, 31) = 31 /\ After(31, 32) = 32
    BY DEF Before, After
  <2>2. Result(Calls[22]) = AddRef(Now, "Methodref", NameAt(6), NameAt(34), NameAt(33),
                                   NameAt(31), NameAt(32))
    BY <1>0, RefCallsAre, RefResult
  <2>3. NameAt(32 + 1) \in TypeKeys /\ NameAt(32 + 2) \in RefKeys
    BY RefNames
  <2>4. At(AddRef(Now, "Methodref", NameAt(6), NameAt(32 + 2), NameAt(32 + 1),
                  NameAt(31), NameAt(32)), 32 + 2)
    <3>1. At(Now, 30)
      BY <1>3, <2>1
    <3>2. /\ 30 \in Nat /\ 31 \in 1 .. 30 + 1 /\ 32 \in 1 .. 31 + 1
          /\ 32 \in 0 .. 36 /\ 6 \in 1 .. 30
          /\ "Methodref" \in {"Methodref", "Fieldref"}
      OBVIOUS
    <3>3. /\ NameAt(31) \in Strings /\ NameAt(32) \in Strings /\ NameAt(6) \in ClassKeys
      BY RefNames
    <3>4. 31 = After(30, 31) /\ 32 = After(31, 32)
      BY <2>1
    <3>. QED  BY <2>3, <3>1, <3>2, <3>3, <3>4, AddRefAt, SMTT(30)
  <2>. QED  BY <1>3, <2>1, <2>2, <2>4
<1>4. CASE m = 23
  <2>1. /\ Before(23) = 34 /\ Before(24) = 36
        /\ After(34, 11) = 34 /\ After(34, 12) = 34
    BY DEF Before, After
  <2>2. Result(Calls[23]) = AddRef(Now, "Fieldref", NameAt(4), NameAt(36), NameAt(35),
                                   NameAt(11), NameAt(12))
    BY <1>0, RefCallsAre, RefResult
  <2>3. NameAt(34 + 1) \in TypeKeys /\ NameAt(34 + 2) \in RefKeys
    BY RefNames
  <2>4. At(AddRef(Now, "Fieldref", NameAt(4), NameAt(34 + 2), NameAt(34 + 1),
                  NameAt(11), NameAt(12)), 34 + 2)
    <3>1. At(Now, 34)
      BY <1>4, <2>1
    <3>2. /\ 34 \in Nat /\ 11 \in 1 .. 34 + 1 /\ 12 \in 1 .. 34 + 1
          /\ 34 \in 0 .. 36 /\ 4 \in 1 .. 34
          /\ "Fieldref" \in {"Methodref", "Fieldref"}
      OBVIOUS
    <3>3. /\ NameAt(11) \in Strings /\ NameAt(12) \in Strings /\ NameAt(4) \in ClassKeys
      BY RefNames
    <3>4. 34 = After(34, 11) /\ 34 = After(34, 12)
      BY <2>1
    <3>. QED  BY <2>3, <3>1, <3>2, <3>3, <3>4, AddRefAt, SMTT(30)
  <2>. QED  BY <1>4, <2>1, <2>2, <2>4
<1>5. CASE m = 24
  <2>1. /\ Before(24) = 36 /\ Before(25) = 38
        /\ After(36, 15) = 36 /\ After(36, 7) = 36
    BY DEF Before, After
  <2>2. Result(Calls[24]) = AddRef(Now, "Fieldref", NameAt(4), NameAt(38), NameAt(37),
                                   NameAt(15), NameAt(7))
    BY <1>0, RefCallsAre, RefResult
  <2>3. NameAt(36 + 1) \in TypeKeys /\ NameAt(36 + 2) \in RefKeys
    BY RefNames
  <2>4. At(AddRef(Now, "Fieldref", NameAt(4), NameAt(36 + 2), NameAt(36 + 1),
                  NameAt(15), NameAt(7)), 36 + 2)
    <3>1. At(Now, 36)
      BY <1>5, <2>1
    <3>2. /\ 36 \in Nat /\ 15 \in 1 .. 36 + 1 /\ 7 \in 1 .. 36 + 1
          /\ 36 \in 0 .. 36 /\ 4 \in 1 .. 36
          /\ "Fieldref" \in {"Methodref", "Fieldref"}
      OBVIOUS
    <3>3. /\ NameAt(15) \in Strings /\ NameAt(7) \in Strings /\ NameAt(4) \in ClassKeys
      BY RefNames
    <3>4. 36 = After(36, 15) /\ 36 = After(36, 7)
      BY <2>1
    <3>. QED  BY <2>3, <3>1, <3>2, <3>3, <3>4, AddRefAt, SMTT(30)
  <2>. QED  BY <1>5, <2>1, <2>2, <2>4
<1>. QED  BY <1>1, <1>2, <1>3, <1>4, <1>5

-----------------------------------------------------------------------------
(* The inductive invariant.  While the fixed entries are made, the map and  *)
(* the pool are exactly what the earlier calls leave; afterwards those keep *)
(* their places, the others are Integers, and each immediate passed has one. *)
Kept(s) ==
  /\ Sound(s) /\ Len(s.pool) >= 38
  /\ \A m \in 1 .. 38 : Has(s, Name(NameAt(m))) /\ s.map[Name(NameAt(m))] = U16(m)
  /\ \A m \in DOMAIN s.pool : s.pool[m].tag = "Integer" <=> m > 38

Loaded(last) ==
  \A m \in 1 .. last : HasImm(ir[m]) => Has(Now, Number(ir[m].imm))

PoolInv ==
  /\ ir \in Programs
  /\ pc \in {"fixed", "integers", "done"}
  /\ pc = "fixed" => n \in 1 .. 24 /\ At(Now, Before(n))
  /\ pc # "fixed" => n \in DOMAIN ir /\ Kept(Now) /\ Loaded(n - 1)
  /\ pc = "done" => IsEof(ir[n]) /\ constant_pool_count = U16(Size(Now) + 1)

(* The pool starts empty and in step with its map.                          *)
LEMMA PoolInit == Init => PoolInv
<1>. SUFFICES ASSUME Init PROVE PoolInv
  OBVIOUS
<1>1. Now.map = [key \in {} |-> 0] /\ Now.pool = << >> /\ Now = [map |-> Now.map, pool |-> Now.pool]
  BY DEF Init, Now
<1>2. DOMAIN Now.map = {} /\ Cardinality(DOMAIN Now.map) = 0 /\ IsFiniteSet(DOMAIN Now.map)
  BY <1>1, FS_EmptySet
<1>3. Len(Now.pool) = 0 /\ DOMAIN Now.pool = {} /\ IsSequence(Now.pool)
  BY <1>1 DEF IsSequence
<1>4. Sound(Now) /\ NoIntegers(Now)
  BY <1>1, <1>2, <1>3 DEF Sound, NoIntegers
<1>5. At(Now, 0)
  BY <1>2, <1>3, <1>4 DEF At
<1>6. Before(1) = 0
  BY DEF Before
<1>. QED  BY <1>5, <1>6 DEF Init, PoolInv

(* What a call makes of the map and the pool is what the next one finds.    *)
LEMMA NowBecomes ==
  ASSUME NEW s, s = [map |-> s.map, pool |-> s.pool], Becomes(s)
  PROVE  Now' = s
BY DEF Becomes, Now

(* A call of add_constants keeps the invariant.                             *)
LEMMA FixedStep == PoolInv /\ AddFixed => PoolInv'
<1>. SUFFICES ASSUME PoolInv, AddFixed PROVE PoolInv'
  OBVIOUS
<1>1. n \in 1 .. 24 /\ At(Now, Before(n))
  BY DEF PoolInv, AddFixed
<1>. DEFINE s == Result(Calls[n])
<1>2. At(s, Before(n + 1))
  <2>1. n \in 1 .. 5 \/ n \in 6 .. 19 \/ n \in 20 .. 24
    BY <1>1
  <2>. QED  BY <1>1, <2>1, ClassCallAt, Utf8CallAt, RefCallAt
<1>3. s = [map |-> s.map, pool |-> s.pool] /\ Becomes(s)
  BY <1>2 DEF At, Sound, AddFixed
<1>. HIDE DEF s
<1>4. Now' = s
  BY <1>3, NowBecomes
<1>5. Len(Calls) = 24 /\ ir' = ir
  BY CallsAre DEF AddFixed
<1>6. CASE n = Len(Calls)
  <2>1. pc' = "integers" /\ n' = 1 /\ Before(n + 1) = 38
    BY <1>5, <1>6 DEF AddFixed, Before
  <2>2. Kept(s)
    <3>1. At(s, 38)
      BY <1>2, <2>1
    <3>2. \A m \in 1 .. 38 : Has(s, Name(NameAt(m))) /\ s.map[Name(NameAt(m))] = U16(m)
      BY <3>1 DEF At, Has
    <3>3. \A m \in DOMAIN s.pool : s.pool[m].tag # "Integer" /\ ~(m > 38)
      <4>1. DOMAIN s.pool = 1 .. 38
        BY <3>1, SoundLength DEF At
      <4>2. \A m \in 1 .. 38 : ~(m > 38)
        OBVIOUS
      <4>. QED  BY <3>1, <4>1, <4>2 DEF At, NoIntegers
    <3>. QED  BY <3>1, <3>2, <3>3 DEF Kept, At
  <2>3. 1 \in DOMAIN ir
    BY ProgramsAssumption DEF PoolInv, IsProgram
  <2>4. Loaded(n - 1)'
    BY <2>1 DEF Loaded
  <2>. QED  BY <1>4, <1>5, <2>1, <2>2, <2>3, <2>4 DEF PoolInv
<1>7. CASE n # Len(Calls)
  <2>1. pc' = "fixed" /\ n' = n + 1 /\ n + 1 \in 1 .. 24
    BY <1>1, <1>5, <1>7 DEF AddFixed
  <2>. QED  BY <1>2, <1>4, <1>5, <2>1 DEF PoolInv
<1>. QED  BY <1>6, <1>7

(* What load_constant_from_instruction_at makes of an immediate.            *)
IntegerLoaded(s, imm) ==
  IF Has(s, Number(imm)) THEN s ELSE Write(Bind(s, Number(imm)), IntegerEntry(imm))

(* load_constant of an integer: the fixed entries stay where they are and   *)
(* the integer is there afterwards.                                         *)
LEMMA IntegerKept ==
  ASSUME NEW s, Kept(s), NEW imm
  PROVE  /\ Kept(IntegerLoaded(s, imm)) /\ Has(IntegerLoaded(s, imm), Number(imm))
         /\ DOMAIN s.map \subseteq DOMAIN IntegerLoaded(s, imm).map
<1>1. CASE Has(s, Number(imm))
  BY <1>1 DEF IntegerLoaded
<1>2. CASE ~Has(s, Number(imm))
  <2>. DEFINE key == Number(imm)
              entry == IntegerEntry(imm)
              t == Added(s, key, entry)
  <2>1. IntegerLoaded(s, imm) = t
    BY <1>2, AddedIs DEF IntegerLoaded, Kept
  <2>2. EntryOf(key, entry)
    BY NameFacts DEF EntryOf, IntegerEntry
  <2>3. Resolves(s.pool, entry) /\ entry.tag = "Integer"
    BY DEF Resolves, IntegerEntry
  <2>4. (\A x : Name(x) # key) /\ ~Has(s, key) /\ Sound(s)
    BY <1>2, NameFacts DEF Kept
  <2>. HIDE DEF key, entry
  <2>5. /\ Sound(t) /\ Extends(t, s) /\ DOMAIN t.map = DOMAIN s.map \cup {key}
        /\ Len(t.pool) = Len(s.pool) + 1
    BY <2>2, <2>3, <2>4, AddedSound
  <2>6. t.pool = Append(s.pool, entry) /\ IsSequence(s.pool)
    BY DEF Added, Kept, Sound
  <2>7. /\ DOMAIN s.pool = 1 .. Len(s.pool) /\ DOMAIN t.pool = 1 .. Len(s.pool) + 1
        /\ \A m \in 1 .. Len(s.pool) : t.pool[m] = s.pool[m]
        /\ t.pool[Len(s.pool) + 1] = entry /\ Len(s.pool) \in Nat
    BY <2>6, AppendedEntry
  <2>. HIDE DEF t
  <2>8. \A m \in 1 .. 38 : Has(t, Name(NameAt(m))) /\ t.map[Name(NameAt(m))] = U16(m)
    BY <2>5 DEF Kept, Has, Extends
  <2>9. Len(s.pool) >= 38
    BY DEF Kept
  <2>10. \A m \in DOMAIN t.pool : t.pool[m].tag = "Integer" <=> m > 38
    <3>1. ASSUME NEW m \in 1 .. Len(s.pool) PROVE t.pool[m].tag = "Integer" <=> m > 38
      BY <2>7 DEF Kept
    <3>2. t.pool[Len(s.pool) + 1].tag = "Integer" /\ Len(s.pool) + 1 > 38
      BY <2>3, <2>7, <2>9
    <3>3. \A m \in DOMAIN t.pool : m \in 1 .. Len(s.pool) \/ m = Len(s.pool) + 1
      BY <2>7
    <3>. QED  BY <3>1, <3>2, <3>3
  <2>11. Kept(t)
    <3>1. Len(t.pool) >= 38
      BY <2>5, <2>7, <2>9
    <3>. QED  BY <2>5, <2>8, <2>10, <3>1 DEF Kept
  <2>. QED  BY <2>1, <2>5, <2>11 DEF Has, key
<1>. QED  BY <1>1, <1>2

(* Looking at one more element of the program keeps the invariant.          *)
LEMMA LoadStep == PoolInv /\ LoadConstant => PoolInv'
<1>. SUFFICES ASSUME PoolInv, LoadConstant PROVE PoolInv'
  OBVIOUS
<1>1. /\ n \in DOMAIN ir /\ Kept(Now) /\ Loaded(n - 1) /\ ~IsEof(ir[n])
      /\ pc' = "integers" /\ n' = n + 1 /\ ir' = ir /\ pc = "integers"
  BY DEF PoolInv, LoadConstant
<1>2. /\ ir \in Seq(Elements) /\ Len(ir) \in Nat /\ n \in 1 .. Len(ir)
      /\ IsEof(ir[Len(ir)])
  BY <1>1, ProgramsAssumption DEF PoolInv, IsProgram
<1>3. n + 1 \in DOMAIN ir /\ \A m \in 1 .. n : m \in 1 .. n - 1 \/ m = n
  <2>1. n # Len(ir)
    BY <1>1, <1>2
  <2>. QED  BY <1>2, <2>1
<1>4. Now = [map |-> Now.map, pool |-> Now.pool]
  BY DEF Now
<1>5. /\ Kept(Now') /\ DOMAIN Now.map \subseteq DOMAIN (Now').map
      /\ HasImm(ir[n]) => Has(Now', Number(ir[n].imm))
  <2>1. ASSUME NEW imm, LoadInteger(imm)
        PROVE  Now' = IntegerLoaded(Now, imm)
    <3>1. Becomes(IntegerLoaded(Now, imm))
      BY <2>1 DEF LoadInteger, IntegerLoaded
    <3>. DEFINE s == IntegerLoaded(Now, imm)
    <3>2. s = [map |-> s.map, pool |-> s.pool]
      BY <1>1, IntegerKept DEF Kept, Sound
    <3>. HIDE DEF s
    <3>3. Now' = s
      BY <3>1, <3>2, NowBecomes DEF s
    <3>. QED  BY <3>3 DEF s
  <2>2. CASE HasImm(ir[n]) /\ LoadInteger(ir[n].imm)
    BY <1>1, <2>1, <2>2, IntegerKept
  <2>3. CASE HasLabel(ir[n]) /\ \E imm \in Garbage : LoadInteger(imm)
    <3>1. PICK imm \in Garbage : LoadInteger(imm)
      BY <2>3
    <3>2. ~HasImm(ir[n])
      BY <2>3 DEF HasImm, HasLabel
    <3>. QED  BY <1>1, <2>1, <3>1, <3>2, IntegerKept
  <2>4. CASE ~HasOperand(ir[n]) /\ UNCHANGED << constant_map, pool >>
    BY <1>1, <2>4 DEF Now, HasImm
  <2>. QED  BY <2>2, <2>3, <2>4 DEF LoadConstant
<1>6. Loaded(n - 1)'
  <2>1. \A m \in 1 .. n : HasImm(ir[m]) => Has(Now', Number(ir[m].imm))
    BY <1>1, <1>3, <1>5 DEF Loaded, Has
  <2>2. (n + 1) - 1 = n
    BY <1>2
  <2>3. \A m \in 1 .. n' - 1 : HasImm(ir'[m]) => Has(Now', Number(ir'[m].imm))
    BY <1>1, <2>1, <2>2
  <2>. QED  BY <2>3 DEF Loaded
<1>. QED  BY <1>1, <1>3, <1>5, <1>6 DEF PoolInv

(* Reaching the end of the program keeps it.                                *)
LEMMA EndStep == PoolInv /\ EndPool => PoolInv'
BY DEF PoolInv, EndPool, Now, Loaded

(* The map and the pool are in step throughout, the fixed entries are added *)
(* in one order whatever the program is, and every integer passed so far is *)
(* loaded. The properties of the pool follow from this one.                 *)
THEOREM PoolInvariance == Spec => []PoolInv
<1>1. PoolInv /\ [Next]_poolVars => PoolInv'
  <2>1. PoolInv /\ UNCHANGED poolVars => PoolInv'
    BY DEF PoolInv, poolVars, Now, Loaded
  <2>. QED  BY <2>1, FixedStep, LoadStep, EndStep DEF Next
<1>. QED  BY <1>1, PoolInit, PTL DEF Spec

(* What the properties take from the invariant.                             *)
LEMMA SoundNow ==
  ASSUME PoolInv
  PROVE  Sound(Now) /\ (PoolFits => Fits(Now))
BY DEF PoolInv, At, Kept, PoolFits, Fits, Now

(* After every call the indices given are exactly the places of the entries *)
(* written, each once, and the count is one more: add_constant numbers by   *)
(* the map's size what the other calls write, and the two stay in step.     *)
THEOREM IndicesAgreeCorrect == Spec => []IndicesAgree
<1>1. ASSUME PoolInv PROVE IndicesAgree
  <2>. SUFFICES ASSUME PoolFits PROVE IndicesAgree
    BY DEF IndicesAgree
  <2>1. Sound(Now) /\ Fits(Now) /\ Now.map = constant_map /\ Now.pool = pool
    BY <1>1, SoundNow DEF Now
  <2>2. Range(constant_map) = DOMAIN pool /\ IsInjective(constant_map)
    BY <2>1 DEF Sound, Range, IsInjective
  <2>3. ASSUME pc = "done" PROVE constant_pool_count = Len(pool) + 1
    <3>1. constant_pool_count = U16(Len(pool) + 1) /\ Len(pool) \in Nat
      BY <1>1, <2>1, <2>3, SoundLength DEF PoolInv
    <3>2. Len(pool) + 1 \in Nat /\ Len(pool) + 1 < U16Range
      BY <3>1 DEF PoolFits
    <3>. QED  BY <3>1, <3>2, U16Fits
  <2>. QED  BY <2>2, <2>3 DEF IndicesAgree
<1>. QED  BY <1>1, PoolInvariance, PTL

(* Every index an entry holds is that of an entry of the kind it needs:     *)
(* what add_utf8_to_pool returns, and the constant_map.size that stands for *)
(* the NameAndType just added.                                              *)
THEOREM EntriesResolveCorrect == Spec => []EntriesResolve
<1>1. ASSUME PoolInv PROVE EntriesResolve
  <2>1. Sound(Now) /\ Now.pool = pool /\ (PoolFits => Fits(Now))
    BY <1>1, SoundNow DEF Now
  <2>2. \A entry : Resolves(pool, entry) => EntryResolves(entry)
    BY DEF Resolves, Tagged, EntryResolves, HasTag
  <2>. QED  BY <2>1, <2>2 DEF EntriesResolve, Sound
<1>. QED  BY <1>1, PoolInvariance, PTL

(* The indices written into the code by name are those of the entries every *)
(* class file has, and only the entries after them are Integers.            *)
THEOREM FixedIndicesCorrect == Spec => []FixedIndices
<1>1. ASSUME PoolInv PROVE FixedIndices
  <2>. SUFFICES ASSUME pc # "fixed" PROVE FixedIndices
    BY DEF FixedIndices
  <2>1. Kept(Now) /\ Now.map = constant_map /\ Now.pool = pool
    BY <1>1 DEF PoolInv, Now
  <2>2. \A m \in 1 .. 38 : constant_map[Name(NameAt(m))] = m
    <3>. SUFFICES ASSUME NEW m \in 1 .. 38 PROVE constant_map[Name(NameAt(m))] = m
      OBVIOUS
    <3>1. m \in Nat /\ m < U16Range
      BY U16RangeAssumption
    <3>. QED  BY <2>1, <3>1, U16Fits DEF Kept
  <2>3. /\ NameAt(8) = "long_array_class" /\ NameAt(23) = "Code"
        /\ NameAt(24) = "StackMapTable" /\ NameAt(34) = "thread_local_get_methodref"
        /\ NameAt(36) = "registers_fieldref"
    BY DEF NameAt
  <2>4. /\ constant_map[Name(NameAt(8))] = 8 /\ constant_map[Name(NameAt(23))] = 23
        /\ constant_map[Name(NameAt(24))] = 24 /\ constant_map[Name(NameAt(34))] = 34
        /\ constant_map[Name(NameAt(36))] = 36
    BY <2>2
  <2>. QED  BY <2>1, <2>3, <2>4, ZenonT(60) DEF FixedIndices, Kept
<1>. QED  BY <1>1, PoolInvariance, PTL

(* Every immediate of the program is found under its number, with its       *)
(* value: whatever an operand that is a label left in imm.                  *)
THEOREM ImmediatesResolveCorrect == Spec => []ImmediatesResolve
<1>1. ASSUME PoolInv PROVE ImmediatesResolve
  <2>. SUFFICES ASSUME pc = "done", PoolFits, NEW m \in DOMAIN ir, HasImm(ir[m])
                PROVE  pool[constant_map[Number(ir[m].imm)]]
                         = [tag |-> "Integer", value |-> ir[m].imm]
    BY DEF ImmediatesResolve
  <2>1. /\ Sound(Now) /\ Fits(Now) /\ Now.map = constant_map /\ Now.pool = pool
        /\ n \in DOMAIN ir /\ Loaded(n - 1) /\ IsEof(ir[n])
    BY <1>1, SoundNow DEF PoolInv, Now
  <2>2. /\ Len(ir) \in Nat /\ DOMAIN ir = 1 .. Len(ir) /\ n = Len(ir)
    BY <1>1, <2>1, ProgramsAssumption DEF PoolInv, IsProgram
  <2>3. m # n
    BY <2>1 DEF HasImm, HasOperand, IsInstruction, IsEof
  <2>4. Has(Now, Number(ir[m].imm))
    BY <2>1, <2>2, <2>3 DEF Loaded
  <2>. DEFINE key == Number(ir[m].imm)
  <2>5. EntryOf(key, pool[constant_map[key]])
    BY <2>1, <2>4 DEF Sound, Has
  <2>6. key[1] = "number" /\ key[2] = ir[m].imm
    BY NameFacts
  <2>. QED  BY <2>5, <2>6 DEF EntryOf
<1>. QED  BY <1>1, PoolInvariance, PTL
===============================================================================
