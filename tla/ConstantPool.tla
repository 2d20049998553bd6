------------------------------ MODULE ConstantPool -----------------------------
(***************************************************************************)
(* constant_pool of codegen.c: the entries every class file has, then one  *)
(* Integer entry per immediate.  An entry is written to the class file in  *)
(* one place and given its index in another, by the size of constant_map   *)
(* at that moment; nothing but the order of the calls keeps the two equal. *)
(***************************************************************************)
EXTENDS Ir, FiniteSets, Functions

CONSTANTS
  Programs,   (* the programs considered: what parser and seman let through *)
  Garbage,    (* the values the uninitialised variable imm can have         *)
  U16Range    (* how many values a uint16_t has: 65536 in the code          *)

ASSUME ProgramsAssumption ==
  \A p \in Programs : IsProgram(p) /\ SemanAccepts(p)
ASSUME GarbageAssumption == Garbage \subseteq Int /\ Garbage # {}
ASSUME U16RangeAssumption ==   (* the fixed entries have their indices *)
  U16Range \in Nat /\ U16Range > 38

VARIABLES
  ir,                  (* the program                                         *)
  pc,                  (* the part of the function being executed             *)
  n,                   (* the call being made, then the index into ir         *)
  constant_map,        (* key -> index                                        *)
  pool,                (* the entries written, in order                       *)
  constant_pool_count  (* the two bytes before them                           *)

poolVars == << ir, pc, n, constant_map, pool, constant_pool_count >>

U16(m) == m % U16Range

-----------------------------------------------------------------------------
(* Keys: a name of codegen.c's or a number; they never compare equal.       *)
Name(string) == << "string", string >>
Number(value) == << "number", value >>

(* The functions that fill the pool, as what they make of the map and the   *)
(* entries written so far.                                                  *)
Now == [map |-> constant_map, pool |-> pool]

Size(s) == Cardinality(DOMAIN s.map)
Has(s, key) == key \in DOMAIN s.map

(* add_constant: a new key gets the next index, a known one keeps its own.  *)
Bind(s, key) ==
  IF Has(s, key) THEN s
  ELSE [s EXCEPT !.map = [k \in DOMAIN @ \cup {key} |->
                            IF k = key THEN U16(Size(s) + 1) ELSE @[k]]]

Write(s, entry) == [s EXCEPT !.pool = Append(@, entry)]

(* add_utf8_to_pool, and the index it returns.                              *)
AddUtf8_mutant(s, string) ==
  Write(Bind(s, Name(string)), [tag |-> "Utf8", string |-> string])

AddUtf8(s, string) ==
  IF Has(s, Name(string)) THEN s
  ELSE Write(Bind(s, Name(string)), [tag |-> "Utf8", string |-> string])

Utf8Index(s, string) ==
  IF Has(s, Name(string)) THEN s.map[Name(string)] ELSE U16(Size(s) + 1)

AddClass(s, class_name, key) ==
  Bind(Write(AddUtf8(s, class_name),
             [tag |-> "Class", name |-> Utf8Index(s, class_name)]),
       Name(key))

AddNameAndType(s, key, name, descriptor) ==
  LET named == AddUtf8(s, name)
  IN  Bind(Write(AddUtf8(named, descriptor),
                 [tag |-> "NameAndType", name |-> Utf8Index(s, name),
                  descriptor |-> Utf8Index(named, descriptor)]),
           Name(key))

(* add_methodref_to_pool and add_fieldref_to_pool: the NameAndType entry is *)
(* taken to be the last one added.                                          *)
LastIndex_mutant(s) == U16(Size(s) + 1)
LastIndex(s) == U16(Size(s))

AddRef(s, tag, class_key, key, nameandtype_key, name, descriptor) ==
  LET typed == AddNameAndType(s, nameandtype_key, name, descriptor)
  IN  Bind(Write(typed, [tag |-> tag, class |-> typed.map[Name(class_key)],
                         nameandtype |-> LastIndex(typed)]),
           Name(key))

-----------------------------------------------------------------------------
(* The calls constant_pool makes, in order.                                 *)
ClassCall(name, key) == [call |-> "class", name |-> name, key |-> key]
Utf8Call(string) == [call |-> "utf8", string |-> string]
RefCall(tag, class_key, key, nameandtype_key, name, descriptor) ==
  [call |-> "ref", tag |-> tag, class_key |-> class_key, key |-> key,
   nameandtype_key |-> nameandtype_key, name |-> name, descriptor |-> descriptor]

ClassCalls ==
  << ClassCall("java/lang/Object", "super_class"),
     ClassCall("RvRuntime", "this_class"),
     ClassCall("java/lang/ThreadLocal", "thread_local"),
     ClassCall("[J", "long_array_class"),
     ClassCall("[Ljava/lang/String;", "string_array_class") >>

Utf8Calls ==
  << Utf8Call("registers"), Utf8Call("Ljava/lang/ThreadLocal;"),
     Utf8Call("Ljava/lang/ThreadLocal<[J>;"), Utf8Call("registers_field"),
     Utf8Call("memory"), Utf8Call("memory_field"), Utf8Call("Signature"),
     Utf8Call("<init>"), Utf8Call("<clinit>"), Utf8Call("main"),
     Utf8Call("([Ljava/lang/String;)V"), Utf8Call("()V"), Utf8Call("Code"),
     Utf8Call("StackMapTable") >>

RefCalls_mutant ==
  << RefCall("Methodref", "thread_local", "thread_local_get_methodref",
             "thread_local_get_method_nameandtype", "get", "()Ljava/lang/Object;"),
     RefCall("Methodref", "thread_local", "thread_local_init_methodref",
             "init_method_nameandtype", "<init>", "()V"),
     RefCall("Methodref", "thread_local", "thread_local_set_methodref",
             "thread_local_set_method_nameandtype", "set", "(Ljava/lang/Object;)V"),
     RefCall("Fieldref", "this_class", "registers_fieldref",
             "registers_nameandtype", "registers", "Ljava/lang/ThreadLocal;"),
     RefCall("Fieldref", "this_class", "memory_fieldref",
             "memory_nameandtype", "memory", "[J") >>

RefCalls ==
  << RefCall("Methodref", "thread_local", "thread_local_init_methodref",
             "init_method_nameandtype", "<init>", "()V"),
     RefCall("Methodref", "thread_local", "thread_local_set_methodref",
             "thread_local_set_method_nameandtype", "set", "(Ljava/lang/Object;)V"),
     RefCall("Methodref", "thread_local", "thread_local_get_methodref",
             "thread_local_get_method_nameandtype", "get", "()Ljava/lang/Object;"),
     RefCall("Fieldref", "this_class", "registers_fieldref",
             "registers_nameandtype", "registers", "Ljava/lang/ThreadLocal;"),
     RefCall("Fieldref", "this_class", "memory_fieldref",
             "memory_nameandtype", "memory", "[J") >>

Calls == ClassCalls \o Utf8Calls \o RefCalls

Result(call) ==
  CASE call.call = "class" -> AddClass(Now, call.name, call.key)
    [] call.call = "utf8" -> AddUtf8(Now, call.string)
    [] call.call = "ref" ->
         AddRef(Now, call.tag, call.class_key, call.key, call.nameandtype_key,
                call.name, call.descriptor)

Init ==
  /\ ir \in Programs
  /\ pc = "fixed"
  /\ n = 1
  /\ constant_map = [key \in {} |-> 0]
  /\ pool = << >>
  /\ constant_pool_count = 0

Becomes(s) == constant_map' = s.map /\ pool' = s.pool

AddFixed ==
  /\ pc = "fixed"
  /\ Becomes(Result(Calls[n]))
  /\ IF n = Len(Calls) THEN pc' = "integers" /\ n' = 1
     ELSE n' = n + 1 /\ UNCHANGED pc
  /\ UNCHANGED << ir, constant_pool_count >>

(* load_constant_from_instruction_at: constant_integer_info only for an     *)
(* immediate that is new; an operand that is a label leaves imm as it was.  *)
IntegerEntry_mutant(imm) == [tag |-> "Integer", value |-> imm % 4096]
IntegerEntry(imm) == [tag |-> "Integer", value |-> imm]

LoadInteger(imm) ==
  Becomes(IF Has(Now, Number(imm)) THEN Now
          ELSE Write(Bind(Now, Number(imm)), IntegerEntry(imm)))

LoadConstant ==
  /\ pc = "integers"
  /\ ~IsEof(ir[n])
  /\ \/ HasImm(ir[n]) /\ LoadInteger(ir[n].imm)
     \/ HasLabel(ir[n]) /\ \E imm \in Garbage : LoadInteger(imm)
     \/ ~HasOperand(ir[n]) /\ UNCHANGED << constant_map, pool >>
  /\ n' = n + 1
  /\ UNCHANGED << ir, pc, constant_pool_count >>

EndPool ==
  /\ pc = "integers"
  /\ IsEof(ir[n])
  /\ constant_pool_count' = U16(Size(Now) + 1)
  /\ pc' = "done"
  /\ UNCHANGED << ir, n, constant_map, pool >>

Next == AddFixed \/ LoadConstant \/ EndPool

Spec == Init /\ [][Next]_poolVars

-----------------------------------------------------------------------------
(* Properties.                                                              *)
PoolFits == Len(pool) + 1 < U16Range

(* The index every key has is the place of an entry, no two keys share one, *)
(* and no entry is without a key: what is written and what is numbered stay *)
(* in step after every call; the count in the header is theirs.             *)
IndicesAgree ==
  PoolFits =>
    /\ Range(constant_map) = DOMAIN pool
    /\ IsInjective(constant_map)
    /\ pc = "done" => constant_pool_count = Len(pool) + 1

(* Every index inside an entry is that of an entry of the kind the class    *)
(* file format wants there.                                                 *)
HasTag(index, tag) == index \in DOMAIN pool /\ pool[index].tag = tag

EntryResolves(entry) ==
  CASE entry.tag = "Class" -> HasTag(entry.name, "Utf8")
    [] entry.tag = "NameAndType" ->
         HasTag(entry.name, "Utf8") /\ HasTag(entry.descriptor, "Utf8")
    [] entry.tag \in {"Methodref", "Fieldref"} ->
         HasTag(entry.class, "Class") /\ HasTag(entry.nameandtype, "NameAndType")
    [] OTHER -> TRUE

EntriesResolve == PoolFits => \A m \in DOMAIN pool : EntryResolves(pool[m])

(* The indices the other parts of the code generator are modelled with, and *)
(* that the integers come after all the entries every class file has.       *)
FixedIndices ==
  pc # "fixed" =>
    /\ constant_map[Name("long_array_class")] = 8
    /\ constant_map[Name("Code")] = 23
    /\ constant_map[Name("StackMapTable")] = 24
    /\ constant_map[Name("thread_local_get_methodref")] = 34
    /\ constant_map[Name("registers_fieldref")] = 36
    /\ \A m \in DOMAIN pool : pool[m].tag = "Integer" <=> m > 38

(* Every immediate of the program is in the pool, at the index its number   *)
(* is looked up by, with its sign.                                          *)
ImmediatesResolve ==
  pc = "done" /\ PoolFits =>
    \A m \in DOMAIN ir : HasImm(ir[m]) =>
      LET index == constant_map[Number(ir[m].imm)]
      IN  pool[index] = [tag |-> "Integer", value |-> ir[m].imm]
=============================================================================
