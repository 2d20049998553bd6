# rv2jvm in TLA+

rv2jvm compiles RISC-V assembly to one JVM class, `RvRuntime`. This directory
models the compiler in TLA+, checks the models with TLC on small programs, and
proves the central facts with TLAPS for programs of any length. Source paths
below are under `src/rv2jvm/src/`.

## 1. The system

The compiler is a sequential pipeline (`compiler.c`): nothing runs concurrently
and nothing survives a run but the output file. What is hard in it is not
scheduling but agreement: data is written in one place and referred to in
another, and the two must match although only the order of the calls makes them.

| component | state | operations | interacts with | what makes it correct |
|---|---|---|---|---|
| lexer (`lexer.c`, `tokens.c`) | position in the source, token array | `lex`, `scan_token` | fills the tokens the parser reads | token boundaries, one end-of-file token |
| parser (`parser.c`, `ir.h`) | current token, IR array | `label`, `instruction`, one function per format | lexemes in, IR out; exits on the first error | what the IR may contain, immediates fit their bit-fields |
| semantic check (`seman.c`) | table of declared labels | two loops | reads the IR; exits on an error | accepts exactly the programs codegen can resolve |
| hash table (`table.c`) | capacity, size, slots | `table_set`, `table_get`, `grow_capacity` | constants, label offsets, label references, declared labels | it is a map; probing ends |
| constant pool (`codegen.c` 213-562) | `constant_map`, entries in the class file | `add_*`, `load_constant_from_instruction_at` | indices used by everything after it | index = place of the entry |
| main method (`codegen.c` 763-939) | bytecode, label offsets, label references, frames | two passes over the IR | uses the pool; its frames go to the table | branches land, frames are the branch targets |
| stack map table (`codegen.c` 619-685) | frames, class file, placeholder index | sort, encode, fill in the length | frames in, attribute out | decodes to the branch targets |
| Code attribute (`codegen.c` 687-710) | class file, placeholder index | frame the method | calls the stack map table | exact lengths |
| class framing (`codegen.c` 374-387, 564-617, 712-761, 941-979) | class file | one section after the other | indices from the pool, sizes from main | a JVM finds what the counts, lengths and indices announce; `<clinit>` verifies |
| driver, files (`main.c`, `compiler.c`, `file.c`) | files | read, compile, write | the phases, in order | an error leaves the old class alone; success means a whole new one |

Two outside parties judge the result: a JVM, which verifies the class and runs
it, and the RISC-V manual, which says what the program should do. Both are
modelled, from their specifications, and marked external in `PROJECT.json`.

The hazards, each at its line, are listed in `PROJECT.json` under `hazards`.

## 2. The modules

| module | models |
|---|---|
| `Ir` | the IR the parser can produce, and the two conditions `seman` imposes |
| `Jvm` | opcodes, `write_bytes`, `overwrite_bytes`; what a JVM reads back from bytes |
| `MainMethod` | the integer constants and the two passes of `main_method_code` |
| `StackMapTable` | `add_stack_table_attribute`: sort, entries, length |
| `CodeAttribute` | `add_code_attribute` of the finished main, **composing** `MainMethod` and `StackMapTable` |
| `Verifier` | a JVM's verifier reading the attribute `CodeAttribute` wrote |
| `Execution` | a JVM running the bytes `MainMethod` wrote; **implements** `Rv` |
| `Rv` | the RISC-V integer machine: the abstract specification of a program |
| `ConstantPool` | `constant_pool`, call by call |
| `ClassFile` | `generate_bytecode`, section by section, **composed** with `ConstantPool`; a JVM reading the class back; `<clinit>` and its verifier |
| `Lexer` | `read_file`, `scan_token` and the loop of `lex` over the files |
| `Parser` | the statements of `parse` and every call their handlers make, after `Lexer` |
| `Compiler` | the process: `main`, `compile`, `write_file` and its failures, **composing** `Lexer` and `Parser` with the condition of `Seman` |
| `Table` | the hash table, one probe per step; **implements** `Map` |
| `Map` | the abstract specification of `table.h` |
| `Seman` | the two loops of the semantic check |
| `MC*` | small programs, hash functions and frame lists for TLC |
| `Jvm_proofs` | lemmas about bytes and fixed-width integers, and the induction the others use |
| `MainMethod_proofs`, `Execution_proofs`, `StackMapTable_proofs`, `ConstantPool_proofs`, `Table_proofs`, `Compiler_proofs`, `Verifier_proofs` | the theorems about the module each is named after; `Compiler_proofs` also those about `Lexer` and `Parser`, `Table_proofs` about `Seman`, `Verifier_proofs` about `CodeAttribute` |

Correspondence. A module's variables have the names of the code's fields and
locals (`code_label_offsets`, `label_references`, `previous_offset_deltas`,
`attribute_length_idx`, ...). Each loop iteration of the code is one action and
`pc` (or `step`, `loop`) is the loop it is in. `pc = "exit"` is
`exit(EXIT_FAILURE)`; `pc = "undefined"` is a run that has executed undefined
behaviour. Values the code reads uninitialised, or reads through the wrong
union member, come from the constant `Garbage`. `starts` in `MainMethod` and
`start`, `targets` in `StackMapTable` are auxiliary: no action reads them.

In `Parser` the calls a handler makes depend on the mnemonic alone, so `calls`
holds the ones still to be made and `args` what they returned; an action is one
call. In `ClassFile` the JVM likewise keeps what it `expected` to read.

Abstractions. A source file is a sequence of runs: letters that stand together
are one element, so are digits, every other character is one. A lexeme is a
part of it, and so is a label's name in `Parser`. Of a numeral only the value
`strtol` gives matters. The class file is real bytes in `CodeAttribute` and
`StackMapTable`, and items with a width and a value in `ClassFile`. The code
generator is one step of `Compiler` that may fail. Arrays are sequences, so allocation failure and freeing are left
out. Names are model values or strings compared as a whole. Constant pool
entries are records; method code and the stack map table are real bytes,
because the properties are about them. `uint16_t` values wrap at `U16Range`,
which is 65536 in every run but `ClassFile`.

A definition named `X_mutant` is a plausible bug in `X`, which follows it. It is
used by no specification; replacing `X` by it must break the property
`PROJECT.json` names under `mutants`.

## 3. The runs

Every run sets `CHECK_DEADLOCK FALSE`: the compiler ends, and a JVM stops after
`return`.

| run | instance | shows |
|---|---|---|
| `Execution` | all accepted and compilable (`IsCompilable`) programs of up to 4 elements over ADDI, ADD, BNE both ways and two labels; longs of 4 bits and registers of 3 | types; the compiled program implements `Rv`; the JVM is never stuck; the stack is balanced |
| `Verifier` | all programs of up to 3 elements over 14 kinds (one per case of `write_instruction`, with wrong operands), of up to 5 over branches, labels and ADDI, of up to 4 with shared and distinct targets, supported and unsupported R3, stores to x0 or not | branches land, frames are targets, constants resolve, patching touches placeholders only, no exit on a compilable program; the attribute is framed exactly and accepted if and only if `Loadable`; both passes end and a verdict is reached |
| `StackMapTable` | every list of 1 to 4 targets out of 0, 1, 2, 300, 65535 | the table decodes to the targets; exact length; nothing else touched; the sort ends |
| `Table` | 4 keys, every hash function into {0, 3}, first capacity 2, so two growths, wrapping and crossing chains | a map; never full; calls return |
| `ClassFile` | all programs of up to 2 elements over 7 kinds, and of up to 3 over those that share, repeat or lack an immediate; main with and without frames; uint16_t of 612 values | indices and entries agree, entries resolve, immediates are found; the class reads back whole if it is within reach of a uint16_t; `<clinit>` verifies |
| `Compiler` | some 4600 command lines: one file of up to 2 lines out of 50, of up to 3 out of 10, two files of up to 2 lines and 1, lines cut in two among them, none at all | tokens, elements and their meaning are the source's; an old class survives every mistake; the status is true; it ends |
| `Seman` | all programs of up to 4 elements over two labels and both formats | accepts exactly the sound programs; ends |

Bounds. The hazards are between pairs: two branches to one label, a branch and a
label on either side of it, two labels in a row, a constant used twice; four
elements hold every such pair with its label, and five in `Verifier` two
branches, their two labels and code between them. Capacity 2
instead of 64 makes the table grow within 4 keys; the load factor is the code's.
In `ClassFile` a uint16_t
has 612 values, more than the pool has entries and fewer than the largest classes
have bytes, so that placeholders in reach and out of it both occur. The parser's
decisions reach one token ahead, and its lines are independent but for their ends:
lines that parse and lines that do not, before and after one another, and halves of
lines at the ends of files, are the cases. Longs of 16
values and registers of 8 (`LongRange`, `XRange`) keep non-terminating programs
finite and longs wider than registers: the generated code does not depend on the
widths. The properties about offsets are conditional on
`CodeFits` (a method of less than 65536 bytes, all a JVM accepts) or its
counterparts `TableFits` (`AttributeFits` is both) and `PoolFits`; section 5 says what happens beyond.
`StackBalanced` is also conditional on `IsSupported`: an R3 instruction other than
ADD leaves an operand on the stack, and `Loadable` says when the verifier rejects
the class for it. `NeverStuck` holds for those programs too.

`MainMethod` keeps the behaviour in which the uninitialised array of references
happens to be zero (`WriteJump`) next to the undefined one
(`WriteJumpUndefined`): the properties of the finished method are about the
former, for otherwise no program with a branch would have one.

Fairness. `WF(Next)` in `StackMapTable`, `Seman`, `Verifier`,
`ClassFile` and `Compiler`: a sequential process that can step does, and its calls
into the system return. In `Table`, weak fairness of the steps
inside a call only: nobody has to call again.

### Divergences

Each is a run that ends in a counterexample, with the promise it breaks.

| run | promise | what the code does |
|---|---|---|
| `BltOnEqual` | `BLT` (README.md:41) | `ifgt` skips the jump only if `>`: equal registers branch |
| `JumpIsLost` | `J` (README.md:35) | the parser builds `JAL`, the code generator expects `J`: nothing is written |
| `SharedTarget` | JVM bytecode (README.md:2) | two branches to a label: two equal frames, `offset_delta` 65535 |
| `AdjacentLabels` | grammar.ebnf:1 | a label before a label gets no offset: exit |
| `OneBranch` | codegen.c:914 | the first reference to a label is appended to an uninitialised array |

README.md and grammar.ebnf are the repository's, next to `rv2jvm/`.

`AcceptedIffLoadable` states the positive side: `Loadable` is the exact condition
under which the verifier accepts, so the class of rejected programs is known and
consists of shared targets, targets before the first store, and unsupported R3
instructions that leave a long on the stack. A loop at the start of a program
is of the second kind: the first frame declares local 2, a long, before any
register was stored (codegen.c:655).

Met while modelling, and in the models as the code has them, without a run of
their own:

- `fclose` is not checked (file.c:54): after a failure to write the buffer the
  process exits 0 over a partial class. `SuccessMeansWritten` excepts that step;
- `x` alone is the register x0 and `x06` is x6 (parser.c:335-338): grammar.ebnf:6
  has neither. Numbers may be 0 or begin with it, against grammar.ebnf:9;
- any token may be a label's name, `5:` and `::` too (parser.c:779), and `.` is not
  part of an identifier, against grammar.ebnf:7;
- immediates too large for their field lose their high bits silently
  (parser.c:594, 395, `ir.h`), which `ElementsMeanSource` states of them;
- `lexer.file` is never set; printing it is undefined (`FailOrCrash`), but only a
  source that is refused anyway gets there, which `ParsesExactly` and
  `TokensMatchSource` show;
- a newline's token has the number of the line after it (lexer.c:143).

## 4. The proofs

Each theorem holds for every value of the constants the assumptions allow:
programs, files, keys and hash functions of any number and length. A property
that is not inductive is the consequence of an invariant that is; each
of those was first checked by TLC on the run's instance (`SourceInv` for files that
can be lexed: of others TLC cannot evaluate `TokenAt`).

| theorem | statement | from |
|---|---|---|
| `MainMethod_proofs!TypeCorrect` | `Spec => []TypeOK` | itself, with the byte lemmas of `Jvm_proofs` |
| `MainMethod_proofs!NeverExits` | `Spec => []CompilableNeverExits` | `PhaseInv` |
| `MainMethod_proofs!BranchesLandCorrect`, `!FramesAreTargetsCorrect`, `!ConstantsResolveCorrect`, `!OnlyPlaceholdersRewrittenCorrect` | `BranchesLand`, `FramesAreTargets`, `ConstantsResolve`, `OnlyPlaceholdersRewritten` | `LayoutInv` |
| `StackMapTable_proofs!TypeCorrect`, `!LengthCorrect`, `!DecodeCorrect`, `!ClassFileIsKept` | `TypeOK`, `LengthIsExact`, `DecodesToTargets`, `ClassFileKept` | `SortInv`, `EntryInv` |
| `ConstantPool_proofs!IndicesAgreeCorrect`, `!EntriesResolveCorrect`, `!FixedIndicesCorrect`, `!ImmediatesResolveCorrect` | `IndicesAgree`, `EntriesResolve`, `FixedIndices`, `ImmediatesResolve` | `PoolInv` |
| `Table_proofs!TypeCorrect`, `!NeverFullCorrect` | `TypeOK`, `NeverFull` | `TableInv` |
| `Table_proofs!MapImplemented` | `Spec => ImplementsMap` | `TableInv`, each step mapped to one of `Map` or a stutter |
| `Table_proofs!SemanTypeCorrect`, `!SemanSound`, `!SemanComplete` | `SemanTypeOK`, `AcceptsOnlySound`, `ExitsOnlyUnsound` | `LoopInv` |
| `Execution_proofs!NeverStuckCorrect`, `!StackBalancedCorrect` | `ExecutionSpec => []NeverStuck`, `[]StackBalanced` | `ShapeInv`, `RunInv`, on top of `LayoutInv` |
| `Verifier_proofs!CodeIsExactCorrect` | `VerifierSpec => []CodeIsExact` | `AttributeInv` on top of `LayoutInv` and `EntryInv` |
| `Verifier_proofs!AcceptedIffLoadableCorrect` | `VerifierSpec => []AcceptedIffLoadable` | `VerdictInv` on top of `AttributeInv` and `MethodInv` |
| `Execution_proofs!ImplementsRvCorrect` | `ExecutionSpec /\ []Faithful => ImplementsRv` | `ValuesInv` on top of `ShapeInv`; each step mapped to one of `Rv` or a stutter |
| `Compiler_proofs!TypeCorrect`, `!IrIsProgramCorrect`, `!ElementsMeanSourceCorrect`, `!SuccessMeansWrittenCorrect` | `TypeOK`, `IrIsProgram`, `ElementsMeanSource`, `SuccessMeansWritten` | `CompilerInv` |
| `Compiler_proofs!TokensMatchSourceCorrect` | `Spec => []TokensMatchSource` | `SourceInv` on top of `CompilerInv` |
| `Compiler_proofs!ParsesExactlyCorrect` | `Spec => []ParsesExactly` | `ReadingInv` on top of `SourceInv` |
| `Compiler_proofs!OldClassKeptCorrect` | `Spec => []OldClassKept` | `FilesInv` and `ReadingInv` |

Why these invariants:

- `PhaseInv`: that an index or offset is there when it is asked for depends on
  what earlier loops did. It says what each loop has established up to its
  index: every immediate before it is among `integers` (`ConstantsAdded`), every
  label before it that no label follows has an offset (`OffsetsNoted`), and only
  jumps have references (`ReferencesAreJumps`). Each loop's end turns the partial
  fact into the whole one the next loop relies on.
- `LayoutInv` places the code: instruction `k` starts where `starts[k]` says, the
  code of different instructions does not overlap, and its bytes are the ones
  `write_instruction` wrote, but for the four of each jump's placeholder, which
  are zeros before the second pass reaches the jump's reference and the distance to the label after.
  A patch therefore falls into its own placeholder, which is what
  `OnlyPlaceholdersRewritten` says and what keeps the rest true.
- `SortInv` says what of the targets a round has put in place and that none is
  lost. `EntryInv` says what is written up to the current entry, and that
  `previous_offset_deltas` is what a reader will have added up, modulo
  `U16Range`: this is where the `- 1` of every entry but the first cancels.
- `PoolInv`: the constant map has an entry for exactly the entries written, at
  their places, and after the n-th call of `add_constants` the names added are a
  prefix of one fixed list (`NameAt`), whatever the program is. That the order of
  the calls determines indices used as literals elsewhere in codegen.c is
  `FixedIndices`.
- `TableInv`: no slot on the way from a key's hash to where the key is is
  free, no key is in two slots, and the search under way has passed only slots of that way.
  The same is said of the new array while a growth moves the entries into it
  (`MovedInv`), entry by entry.
- `LoopInv`: during the first loop `declared_labels` is exactly the set of labels
  before `it`, each declared by one element (`DeclaredBefore`); during the second
  it is all of them, and the references before `it` were found (`FoundBefore`).
- `ShapeInv` completes `LayoutInv` by what a JVM meets where no jump is: the
  prologue, the code of R3 instructions and ADDI, the `return` at the end. `RunInv`
  is about the run: the offset is at an opcode of the prologue or of some element,
  and the stack is what the part of it already executed leaves (`InPrologue`,
  `InElement`), on top of a stack `below` of what unsupported instructions have
  left. A step inside an element goes to the next opcode of it and adds what
  `Operands` and `Results` say (`ElementGoes`); its last step, taken branches
  included, arrives where an element starts, with `below` again. That a branch
  arrives there and not inside an instruction is `BranchesLand`; that the local
  variable is assigned when a store reads it back is part of `InStore`. For a
  supported program `below` is empty, which makes `StackBalanced` a matter of ten
  small stacks.
- `ValuesInv` is `RunInv` with values for kinds, and says more: what is on the stack
  inside an element are the registers the element reads, their sum or their order
  (`Computing`). The first opcode after the start of an element that is the last
  to touch a register or the offset completes the element, and there the RISC-V
  machine takes its step (`CompletesImplements`); all others are stutters, for the
  place the offset is mapped to does not change between two starts
  (`InstructionFrom`). A long may hold more than a register: the two agree because
  wrapping a sum of longs to a register is wrapping the sum of the registers
  (`LowSum`), whatever either sum overflows.
- `AttributeInv` composes the two layouts. The head of the attribute and the code
  in it stay as they were written while the table is appended (`ClassFileIsKept`
  of `StackMapTable_proofs`, for the states that module sees), the table starts
  right after them, and the last step overwrites the four bytes of the length only.
- `VerdictInv` is about the JVM's pass over the method. The equivalence it must
  come to is first restated place by place: a program is loadable exactly if its
  targets are distinct and `AllClear` holds, that is, every target has a long
  stored before it and nothing left on the stack there (`TargetClear`) and every
  element finds the stack empty (`LoadableScan`). Then, whatever the program, the
  JVM is at a `Position`: in the prologue, before an element, in one, or behind the
  `return`; its type state is what the code before the place says (`Left`,
  `LongStored`), everything behind it is clear (`ClearUpTo`), and the frames behind
  it are those of the targets behind it (`FramesBehind`). An instruction that
  passes leads to such a position again, and an instruction of a program that is
  all clear passes (`PositionStep`; for the parts of an element `FirstLoadChecked`
  to `JumpChecked`), so what is rejected was not clear, and what reaches the end
  was. When two frames share a place, the delta of the second wraps and the JVM
  reads a frame at `U16Range` or later, past the end of every method (`ReadMethod`): it
  never gets to it and rejects.
- `CompilerInv` ties the parser's state together: `args` are what the calls made
  so far return, `calls` are the ones the mnemonic still needs, and the elements
  appended are elements of the IR; the scanner's token boundaries are in order
  and the tokens end with the one end-of-file token once the scan is over; the
  class file is written only after the elements are complete. Part of it is
  `ElementsMeanSource`, which compares the last element with the mnemonic and the
  arguments read for it (`Means`): the mnemonic, each register in its place, the label,
  the immediate or offset modulo its field. For MV, NOT, SEQZ and SNEZ it says
  what the element computes instead, whatever it is made of; for J, JR, RET and NOP
  it is the manual's expansion. That the arguments are those of the line is
  `ParsesExactly`.
- `SourceInv`: the tokens so far are those of the files before and of the text
  before `current` (`CutInv`), and `current` is not inside a word unless a token
  starts there (`Boundary`). Without that last part the invariant is not
  inductive: the scanner decides where a token starts by where it stands, the
  text by what is around the place. The reference, `TokensOf`, looks at no state
  of the scanner: it asks of every place whether a token starts there. The tokens
  of places, and of files, are joined with `FlattenSeq`; that joining one list
  more adds its elements at the end (`JoinedNext`) is proved from the library's
  definition.
- `ReadingInv`: the reference, `Parses`, is the set of all ways to read the tokens
  as statements; at every place it takes every alternative of every item and looks at
  nothing else, and it reads the tokens of the text, not those the parser has lowered.
  The parser takes one alternative, by the token it stands at. The invariant is that
  this loses nothing: all the ways to read the source are the elements so far,
  each followed by a way to read what is left (`Parses(ts) = Led(ir, ToRead(ts))`).
  What is left is read from a statement on (`ParsesFrom`), from the middle of a line
  (`RestOfLine`, with the arguments read so far) or from its end (`AfterLine`), as
  `calls` says. A call keeps it because its item has one reading there, or none and
  the process stops and so has `Parses` none (`ReadsItem`, `RestStep`, `NothingRead`). Two
  places have two readings, and there the proof has to look further: an
  offset may be left out before a number, but then that number stands where a
  parenthesis has to (`NoUse`); and before a colon a mnemonic is a label's name,
  because no line goes on with a colon (`NoItemAtColon`, for which no colon's lexeme
  may be a register: `ColonsPlain`). That the lowered lexemes do not matter is
  `AheadIs`: they are all behind the parser. At the end nothing is left, and `ir`
  is the only reading.
- `FilesInv`: the files before the current one, and the current one up to the
  scanner's place, have only characters a token or a blank may have
  (`ScansCharacters`); from code generation on the labels of `ir` are in order; the
  class is touched only after that. With `ReadingInv` this makes `ir` the reading
  `IsSource` asks for.

Induction over data, which the installed provers cannot get from the library's
induction theorems, is replaced by `LeastNatural` (`Jvm_proofs`; the same fact is
`LeastPlace` in `Compiler_proofs`): a set of naturals that is not empty has a
least member, from the well-foundedness of `<`. A counterexample to the claim
would have a least index, and the step from the index before it contradicts that.
The growth of the table is proved this way, and so is that the recursive functions
of the grammar (`LineReadings`, `ParsesFrom`) are the fixed points their
definitions say (`LineReadingsAre`, `ParsesFromAre`).

Preconditions. `CodeFits`, `TableFits`, both together (`AttributeFits`) and `PoolFits` are parts of the properties,
as checked in the runs, and not assumptions: they say how long a method, an
attribute and a pool may be before the code's uint16_t wraps (section 5). One theorem
has a hypothesis of its own: `Faithful`, in `ImplementsRvCorrect`, restricts programs
to ADD, ADDI, BNE and labels, which are those of the run `Execution`, and the method
and the pool to what a class file can have (`CodeFits`, `ConstantsFit`). BLT and the
jump are not among them because of the divergences `BltOnEqual` and `JumpIsLost`;
for other instructions no code is written, or none that `Rv` has a meaning for.
Every state of the run `Execution` satisfies it.

Assumptions on the constants, each evaluated by TLC in a run, with what they come
from: `U16Range` is at most 65536, so that a value fits two bytes
(`MainMethod`, `StackMapTable`), and more than the 38 fixed constants
(`ConstantPool`); a long is made of whole registers
(`RangesAssumption`); programs are what the parser and the check accept
(`ProgramsAssumption`); a list of targets is not empty (`TargetListsAssumption`:
codegen.c calls the function only then); the first capacity is large enough for
a table of three quarters of it to have a free slot (`FirstCapacityAssumption`); registers are 0 to 31 and
every word of a source can be a label (`NamesAssumption`); lowering a word
gives a word (`LowerAssumption`); files are sequences of runs, a run of digits has a natural number for its
value, and no run is two things (`CommandLinesAssumption`, `RunsAssumption`).

Only model-checked:

- liveness (`TableFinishes`, `CallsReturn`, `CheckEnds`, `VerdictReached`,
  `ClassRead`, `Ends`): the provers do not reason about fairness and ENABLED;
- `ClassLoads`, whose "rejected" is `~ENABLED Read`, and `ClinitVerifies`, where
  descriptors are put together from names: strings are opaque to the provers.

## 5. Not modelled

Numerals of 2^31 and more; a file whose size `ftell` cannot tell (file.c:18), or
that changes while it is read; another process at RvRuntime.class; the wording of
messages; the characters inside a word, which only the mnemonic tries look at
(`Mnemonics` has what they accept); the two hash
functions (`Table` is checked for every function into a set of hashes);
allocation failure, freeing (`table_free` also misses slots beyond `size`) and
the debug output; `IR_DIRECTIVE`, which nothing produces. Memory instructions, and every
instruction code generation ignores, are in the IR and `WriteNothing`, but not in
`Rv`: the repository calls their support planned.

Limits the properties stay within, because the code does not check them:

- a long is wider than an RV32 register and is never truncated (codegen.c:839),
  so after an overflow BNE and BLT compare values no register holds.
  `ImplementsRv` is checked and proved with longs wider than registers: sums have
  the right low bits whatever overflows, and the one step it lets go either way is
  a branch that compares such values (`ComparesOverflown`);
- in a class file longer than 65535 bytes the uint16_t `attribute_length_idx`
  (codegen.c:678, 691) makes the length overwrite other bytes (`IndexFits`). A
  class may be that long without a method that is: some 12000 immediates of `lui`
  will do. In the run `ClassFile` such classes are rejected by the JVM;
- a pool of more than 65534 entries gets truncated indices and a truncated count;
  `CONSTANT_POOL_LIMIT` (codegen.c:13) is not used (`PoolFits`).

## 6. The plan

Done, in this order: `Ir`, `Jvm`, `MainMethod`, `StackMapTable`,
`CodeAttribute`, `Verifier`, `Rv`, `Execution`, `Table`/`Map`, `ConstantPool`,
`Seman`, `Lexer`, `Parser`, `Compiler`, `ClassFile`; then the proofs of section 4.

What the models lack is under 5; none of it is planned. What is left to the runs
alone is at the end of 4: liveness, `ClassLoads` and `ClinitVerifies`.
