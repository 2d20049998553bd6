-------------------------------- MODULE ClassFile ------------------------------
(***************************************************************************)
(* generate_bytecode of codegen.c: the class file around the constant pool *)
(* and the methods, written section by section with counts, lengths and    *)
(* indices that other functions computed; and a JVM that reads it back.    *)
(*                                                                         *)
(* The file is a sequence of items, each with its width in bytes and its   *)
(* value.  A name is one item, and so is an instruction of <clinit>; of    *)
(* main (module MainMethod) only the sizes are known here.                 *)
(***************************************************************************)
EXTENDS ConstantPool, SequencesExt

CONSTANT MainSizes   (* sizes of main's code and of its frames, 0 for none *)

ASSUME MainSizesAssumption == MainSizes \subseteq (Nat \ {0}) \X Nat

VARIABLES
  file,     (* the items written                                             *)
  size,     (* the bytes they are                                            *)
  section,  (* the section to write next; "complete" after the last          *)
  expected, (* what the JVM has yet to read, in order                        *)
  at,       (* how many items it has read                                    *)
  offset,   (* and how many bytes                                            *)
  verdict   (* "none" until the class is "loaded" or "rejected"              *)

readerVars == << expected, at, offset, verdict >>
classVars == << poolVars, file, size, section, readerVars >>

-----------------------------------------------------------------------------
(* write_int, and the constant_*_info functions.                            *)
U(width, value) == << [width |-> width, value |-> value] >>

Info(entry) ==
  CASE entry.tag = "Utf8" ->
         U(1, "Utf8") \o U(2, Len(entry.string)) \o U(Len(entry.string), entry.string)
    [] entry.tag = "Integer" -> U(1, "Integer") \o U(4, entry.value)
    [] entry.tag = "Class" -> U(1, "Class") \o U(2, entry.name)
    [] entry.tag = "NameAndType" ->
         U(1, "NameAndType") \o U(2, entry.name) \o U(2, entry.descriptor)
    [] OTHER -> U(1, entry.tag) \o U(2, entry.class) \o U(2, entry.nameandtype)

(* magic, the versions, and the place of the pool's count.                  *)
Header == U(4, "0xCAFEBABE") \o U(2, 0) \o U(2, 52) \o U(2, 0)

(* get_constant_index, which exits for a key that was never added.          *)
Index(key) ==
  IF Has(Now, Name(key)) THEN U(2, constant_map[Name(key)]) ELSE U(0, "missing")

AddField_mutant(name, descriptor, signature) ==
  U(2, "private static final synthetic") \o Index(name) \o Index(descriptor)
  \o IF signature = "none" THEN U(2, 0)
     ELSE U(2, 1) \o U(4, 2) \o Index("Signature") \o Index(signature)

AddField(name, descriptor, signature) ==
  U(2, "private static final synthetic") \o Index(name) \o Index(descriptor)
  \o IF signature = "none" THEN U(2, 0)
     ELSE U(2, 1) \o Index("Signature") \o U(4, 2) \o Index(signature)

Bytes(items) == FoldSeq(LAMBDA item, sum : item.width + sum, 0, items)

(* An attribute's length is filled in once the attribute is written.  Where *)
(* is kept in a uint16_t: past its range the length stays 0, and other      *)
(* bytes of the file, which no property here tells apart, are overwritten.  *)
Filled(where, length) == U(4, IF U16(where) = where THEN length ELSE 0)

(* add_code_attribute, for code and frames of known sizes.                  *)
CodeLength_mutant(code, frames) == Bytes(code) + 12 + frames
CodeLength(code, frames) == Bytes(code) + 12 + IF frames = 0 THEN 0 ELSE frames + 6

AddCode(start, max_stack, max_locals, code, frames) ==
  Index("Code") \o Filled(start + 2, CodeLength(code, frames))
  \o U(2, max_stack) \o U(2, max_locals) \o U(4, Bytes(code)) \o code \o U(2, 0)
  \o IF frames = 0 THEN U(2, 0)
     ELSE U(2, 1) \o Index("StackMapTable") \o Filled(start + Bytes(code) + 20, frames)
          \o U(frames, "frames")

AddMethod(start, name, descriptor, max_stack, max_locals, code, frames) ==
  U(2, "public static synthetic") \o Index(name) \o Index(descriptor) \o U(2, 1)
  \o AddCode(start + 8, max_stack, max_locals, code, frames)

(* clinit_method_code: registers gets a ThreadLocal with an array of 32     *)
(* longs, memory an array of 1024.                                          *)
Instruction(width, op, operand) == U(width, << op, operand >>)
Refer(op, key) ==
  LET index == Index(key)[1]
  IN  IF index.width = 0 THEN << index >> ELSE Instruction(3, op, index.value)

SetRegisters_mutant ==
  Refer("new", "thread_local") \o Refer("invokespecial", "thread_local_init_methodref")
  \o Refer("putstatic", "registers_fieldref")

SetRegisters ==
  Refer("new", "thread_local") \o Instruction(1, "dup", 0)
  \o Refer("invokespecial", "thread_local_init_methodref")
  \o Refer("putstatic", "registers_fieldref")

Clinit ==
  SetRegisters \o Refer("getstatic", "registers_fieldref")
  \o Instruction(2, "bipush", 32) \o Instruction(2, "newarray", "long")
  \o Refer("invokevirtual", "thread_local_set_methodref")
  \o Instruction(3, "sipush", 1024) \o Instruction(2, "newarray", "long")
  \o Refer("putstatic", "memory_fieldref") \o Instruction(1, "return", 0)

ClinitMaxStack == 3

-----------------------------------------------------------------------------
(* An entry added to the pool is written at once; the count before them is  *)
(* overwritten after the last.                                              *)
WritePool ==
  /\ Next
  /\ LET items == FlattenSeq([m \in 1 .. Len(pool') - Len(pool) |-> Info(pool'[Len(pool) + m])])
     IN  /\ file' = [file EXCEPT ![4].value = constant_pool_count'] \o items
         /\ size' = size + Bytes(items)
  /\ UNCHANGED << section, readerVars >>

(* The sections after the pool.                                             *)
WriteSection(here, items, next) ==
  /\ section = here
  /\ IF \E m \in DOMAIN items : items[m].width = 0
     THEN section' = "exit" /\ UNCHANGED << file, size >>
     ELSE /\ section' = next
          /\ file' = file \o items
          /\ size' = size + Bytes(items)
  /\ UNCHANGED << poolVars, readerVars >>

WriteClass ==
  /\ pc = "done"
  /\ WriteSection("class",
                  U(2, "public synthetic") \o Index("this_class") \o Index("super_class") \o U(2, 0),
                  "fields")

WriteFields ==
  WriteSection("fields",
               U(2, 2)
               \o AddField("registers", "Ljava/lang/ThreadLocal;", "Ljava/lang/ThreadLocal<[J>;")
               \o AddField("memory", "[J", "none"),
               "clinit")

WriteClinit ==
  WriteSection("clinit",
               U(2, 2) \o AddMethod(size + 2, "<clinit>", "()V", ClinitMaxStack, 0, Clinit, 0),
               "main")

WriteMain ==
  \E code \in MainSizes :
    WriteSection("main",
                 AddMethod(size, "main", "([Ljava/lang/String;)V", 5, 4,
                           U(code[1], "code"), code[2]),
                 "attributes")

WriteAttributes == WriteSection("attributes", U(2, 0), "complete")

-----------------------------------------------------------------------------
(* The JVM, external to src/: it reads the file as JVM specification        *)
(* chapter 4 lays it out.  Each step reads the first thing expected, and    *)
(* expects next what that says is there.                                    *)
Some(width) == [read |-> "number", width |-> width]
Ref(tag) == [read |-> "index", tag |-> tag]
Many(structure) == [read |-> "count", of |-> structure]
One(structure) == [read |-> structure]
Raw(length) == [read |-> "bytes", length |-> length]
EndAt(end) == [read |-> "end", offset |-> end]

Layout ==
  << Some(4), Some(2), Some(2), Many("constant"), Some(2), Ref("Class"), Ref("Class"),
     Many("interface"), Many("member"), Many("member"), Many("attribute") >>

Member == << Some(2), Ref("Utf8"), Ref("Utf8"), Many("attribute") >>

ConstantRest(tag, m) ==
  CASE tag = "Utf8" -> << Some(2), Raw(file[m + 1].value) >>
    [] tag = "Integer" -> << Some(4) >>
    [] tag = "Class" -> << Ref("Utf8") >>
    [] tag = "NameAndType" -> << Ref("Utf8"), Ref("Utf8") >>
    [] OTHER -> << Ref("Class"), Ref("NameAndType") >>

AttributeRest(name, length, end) ==
  CASE name = "Code" -> << Some(2), Some(2), One("code"), Many("handler"), Many("attribute"), EndAt(end) >>
    [] name = "Signature" -> << Ref("Utf8"), EndAt(end) >>
    [] OTHER -> << Raw(length) >>

Item(ahead) == file[at + ahead]
IsThere(ahead, width) == at + ahead <= Len(file) /\ Item(ahead).width = width

(* The number of items that take up so many bytes.                          *)
Spans(length, items) ==
  at + items <= Len(file) /\ Bytes(SubSeq(file, at + 1, at + items)) = length

Reads(items, more) ==
  /\ at' = at + items
  /\ offset' = offset + Bytes(SubSeq(file, at + 1, at + items))
  /\ expected' = more \o Tail(expected)
  /\ UNCHANGED << poolVars, file, size, section, verdict >>

Reading(what) ==
  section = "complete" /\ verdict = "none" /\ expected # << >> /\ Head(expected).read = what

ReadNumber == Reading("number") /\ IsThere(1, Head(expected).width) /\ Reads(1, << >>)

ReadIndex ==
  /\ Reading("index") /\ IsThere(1, 2)
  /\ HasTag(Item(1).value, Head(expected).tag)
  /\ Reads(1, << >>)

ReadCount ==
  /\ Reading("count") /\ IsThere(1, 2)
  /\ LET of == Head(expected).of
     IN  Reads(1, [m \in 1 .. Item(1).value - IF of = "constant" THEN 1 ELSE 0 |-> One(of)])

ReadConstant ==
  Reading("constant") /\ IsThere(1, 1) /\ Reads(1, ConstantRest(Item(1).value, at + 1))

ReadMember == Reading("member") /\ Reads(0, Member)

ReadCode == Reading("code") /\ IsThere(1, 4) /\ Reads(1, << Raw(Item(1).value) >>)

ReadBytes ==
  /\ Reading("bytes")
  /\ \E items \in 1 .. Len(file) - at :
       Spans(Head(expected).length, items) /\ Reads(items, << >>)

ReadAttribute ==
  /\ Reading("attribute") /\ IsThere(1, 2) /\ IsThere(2, 4)
  /\ HasTag(Item(1).value, "Utf8")
  /\ Reads(2, AttributeRest(pool[Item(1).value].string, Item(2).value,
                            offset + 6 + Item(2).value))

ReadEnd ==
  Reading("end") /\ offset = Head(expected).offset /\ Reads(0, << >>)

Read == ReadNumber \/ ReadIndex \/ ReadCount \/ ReadConstant \/ ReadMember \/ ReadCode
        \/ ReadBytes \/ ReadAttribute \/ ReadEnd

Conclude ==
  /\ section = "complete" /\ verdict = "none"
  /\ ~ENABLED Read
  /\ verdict' = IF expected = << >> /\ at = Len(file) THEN "loaded" ELSE "rejected"
  /\ UNCHANGED << poolVars, file, size, section, expected, at, offset >>

ClassInit ==
  /\ Init
  /\ file = Header
  /\ size = Bytes(Header)
  /\ section = "class"
  /\ expected = Layout
  /\ at = 0
  /\ offset = 0
  /\ verdict = "none"

ClassNext ==
  \/ WritePool
  \/ WriteClass \/ WriteFields \/ WriteClinit \/ WriteMain \/ WriteAttributes
  \/ Read \/ Conclude

ClassSpec == ClassInit /\ [][ClassNext]_classVars

(* The generator and then the JVM run to their ends.                        *)
ClassFairSpec == ClassSpec /\ WF_classVars(ClassNext)

-----------------------------------------------------------------------------
(* Properties.                                                              *)

(* Whatever the program, the JVM finds in the file exactly what its counts, *)
(* lengths and tags announce, every index is that of an entry of the kind   *)
(* wanted there, and the file ends where the class does: unless it is past  *)
(* what a uint16_t can address.                                             *)
ClassLoads ==
  PoolFits => /\ section # "exit"
              /\ verdict = "rejected" => size > U16Range

(* The stack of types before each instruction of <clinit>; "bad" once one   *)
(* does not find the types it takes, or finds no room.                      *)
Descriptor(index) == pool[pool[pool[index].nameandtype].descriptor].string
ObjectOf(index) == "L" \o pool[pool[index].name].string \o ";"

Execute(item, types) ==
  LET op == item.value[1]
      operand == item.value[2]
      top == types[Len(types)]
      under == Front(types)
      Push(type) == Append(types, type)
      checked ==
        CASE types = << "bad" >> -> types
          [] op = "new" -> Push("new")
          [] op = "dup" /\ types # << >> -> Push(top)
          [] op = "invokespecial" /\ types # << >> /\ top = "new" ->
               [m \in DOMAIN under |-> IF under[m] = "new" THEN ObjectOf(pool[operand].class)
                                       ELSE under[m]]
          [] op = "putstatic" /\ types # << >> /\ top = Descriptor(operand) -> under
          [] op = "getstatic" -> Push(Descriptor(operand))
          [] op \in {"bipush", "sipush"} -> Push("int")
          [] op = "newarray" /\ types # << >> /\ top = "int" -> Append(under, "[J")
          [] op = "invokevirtual" /\ Len(types) >= 2 /\ top # "int"
               /\ under[Len(under)] = ObjectOf(pool[operand].class) -> Front(under)
          [] op = "return" /\ types = << >> -> types
          [] OTHER -> << "bad" >>
  IN  IF Len(checked) > ClinitMaxStack THEN << "bad" >> ELSE checked

(* <clinit> verifies: each index is of the method, field or class meant, a  *)
(* new object is initialised before it is stored, the stack has the types   *)
(* taken from it and no more than its limit, and nothing is left on it.     *)
ClinitVerifies ==
  section = "complete" /\ PoolFits => FoldLeft(LAMBDA types, item : Execute(item, types), << >>, Clinit) = << >>

(* A class within that reach is generated, read to its end and loaded: no   *)
(* part waits for another, in the generator or the JVM.                     *)
ClassRead == <>(verdict = "loaded" \/ size > U16Range)
=============================================================================
