--------------------------------- MODULE Parser --------------------------------
(***************************************************************************)
(* parser.c: the tokens become the array of ir.h.  The statements of       *)
(* parse's loop are actions; so is every call an instruction's handler     *)
(* makes.  Which calls those are depends on the mnemonic only, and calls   *)
(* holds the ones still to be made; args holds what they returned.         *)
(***************************************************************************)
EXTENDS Lexer, Ir

CONSTANT Lower   (* the runs of letters with capitals, each in lower case *)

ASSUME LowerAssumption == Lower \in [DOMAIN Lower -> STRING]

(* Any register may be named, and any token but a line's end may be a label. *)
ASSUME NamesAssumption ==
  /\ Registers = 0 .. 31
  /\ \A argv \in CommandLines : \A n \in DOMAIN argv :
       LET bytes == Append(argv[n], NUL)
       IN  \A a, b \in DOMAIN bytes :
             a <= b /\ (\A k \in a .. b : bytes[k] \in Letters \cup Digits \cup Marks)
               => SubSeq(bytes, a, b) \in Labels

VARIABLES
  token,     (* parser.current, as an index                                *)
  mnemonic,  (* that of the instruction being parsed                       *)
  calls,     (* the calls its handler has yet to make, in order            *)
  args,      (* the registers and the operand they returned                *)
  ir         (* the elements so far                                        *)

lexerVars == << driverVars, scannerVars, pc >>
instructionVars == << mnemonic, calls, args >>
parserVars == << token, instructionVars, ir >>

ParserInit ==
  /\ token = 1
  /\ mnemonic = "none"
  /\ calls = << >>
  /\ args = << >>
  /\ ir = << >>

-----------------------------------------------------------------------------
(* get_mnemonic: the tries spell each mnemonic in lower case.               *)
Mnemonics ==
  [add |-> "ADD", addi |-> "ADDI", and |-> "AND", andi |-> "ANDI", auipc |-> "AUIPC",
   beq |-> "BEQ", bge |-> "BGE", bgeu |-> "BGEU", blt |-> "BLT", bltu |-> "BLTU",
   bne |-> "BNE", ebreak |-> "EBREAK", ecall |-> "ECALL", fence |-> "FENCE",
   j |-> "J", jal |-> "JAL", jalr |-> "JALR", jr |-> "JR", lb |-> "LB", lbu |-> "LBU",
   lh |-> "LH", lhu |-> "LHU", lui |-> "LUI", lw |-> "LW", mv |-> "MV", nop |-> "NOP",
   not |-> "NOT", or |-> "OR", ori |-> "ORI", ret |-> "RET", sb |-> "SB",
   seqz |-> "SEQZ", sh |-> "SH", sll |-> "SLL", slli |-> "SLLI", slt |-> "SLT",
   slti |-> "SLTI", sltiu |-> "SLTIU", sltu |-> "SLTU", snez |-> "SNEZ",
   sra |-> "SRA", srai |-> "SRAI", srl |-> "SRL", srli |-> "SRLI", sub |-> "SUB",
   sw |-> "SW", xor |-> "XOR", xori |-> "XORI"]

IsMnemonic(lexeme) == Len(lexeme) = 1 /\ lexeme[1] \in DOMAIN Mnemonics

(* lower_str, which writes into the lexeme of the token.                    *)
LowerCase(lexeme) ==
  [k \in DOMAIN lexeme |-> IF lexeme[k] \in DOMAIN Lower THEN Lower[lexeme[k]]
                           ELSE lexeme[k]]

(* The calls of the handler get_instruction_type chooses, and consume for   *)
(* the tokens between and after them.  FENCE, ECALL and EBREAK are special. *)
Handler(m) ==
  CASE m \in R3Mnemonics -> << "reg", "COMMA", "reg", "COMMA", "reg" >>
    [] m \in MemMnemonics -> << "reg", "COMMA", "offset", "LPAREN", "reg", "RPAREN" >>
    [] m \in R1OpMnemonics -> << "reg", "COMMA", "operand" >>
    [] m \in {"MV", "NOT", "SEQZ", "SNEZ"} -> << "reg", "COMMA", "reg" >>
    [] m = "J" -> << "identifier" >>
    [] m = "JR" -> << "reg" >>
    [] m \in {"RET", "NOP", "FENCE", "ECALL", "EBREAK"} -> << >>
    [] OTHER -> << "reg", "COMMA", "reg", "COMMA", "operand" >>

Calls(m) == Handler(m) \o << "append", "NEWLINE" >>

(* An int in a bit-field of ir.h, on its way through int32_t and int16_t.   *)
BitField_mutant(n, width) == n % (2 ^ width)

BitField(n, width) ==
  LET bits == n % (2 ^ width)
  IN  IF bits < 2 ^ (width - 1) THEN bits ELSE bits - 2 ^ width

R2Op(m, rd, rs1, operand) ==
  IF operand.is = "label" THEN R2Label(m, rd, rs1, operand.label)
  ELSE R2Imm(m, rd, rs1, BitField(operand.imm, 12))

R1Op(m, rd, operand) ==
  IF operand.is = "label" THEN R1Label(m, rd, operand.label)
  ELSE R1Imm(m, rd, BitField(operand.imm, 20))

X1 == 1

R3Op_mutant(m, a) == R3(m, a[1], a[3], a[2])
R3Op(m, a) == R3(m, a[1], a[2], a[3])

(* What the handlers make of a mnemonic and its arguments.                  *)

Element(m, a) ==
  CASE m \in R3Mnemonics -> R3Op(m, a)
    [] m \in MemMnemonics -> Mem(m, a[1], a[3], BitField(a[2].imm, 12))
    [] m \in R1OpMnemonics -> R1Op(m, a[1], a[2])
    [] m = "MV" -> R2Imm("ADDI", a[1], a[2], 0)
    [] m = "NOT" -> R2Imm("XORI", a[1], a[2], -1)
    [] m = "SEQZ" -> R2Imm("SLTIU", a[1], a[2], 1)
    [] m = "SNEZ" -> R3("SLTU", a[1], X0, a[2])
    [] m = "J" -> R1Label("JAL", X0, a[1].label)
    [] m = "JR" -> R2Imm("JALR", X0, a[1], 0)
    [] m = "RET" -> R2Imm("JALR", X0, X1, 0)
    [] m = "NOP" -> R2Imm("ADDI", X0, X0, 0)
    [] m \in {"FENCE", "ECALL", "EBREAK"} -> R2Imm(m, X0, X0, 0)
    [] OTHER -> R2Op(m, a[1], a[2], a[3])

-----------------------------------------------------------------------------
(* parse's loop.                                                            *)
Type == tokens[token].type
Lexeme == tokens[token].lexeme

BeginParse ==
  /\ At("lexed")
  /\ pc' = "parse"
  /\ UNCHANGED << driverVars, scannerVars, status, tokens, parserVars >>

AtStatement == At("parse") /\ calls = << >>

AfterNewline_mutant == token
AfterNewline == token + 1

ParseNewline ==
  /\ AtStatement
  /\ Type = "NEWLINE"
  /\ token' = AfterNewline
  /\ UNCHANGED << lexerVars, status, tokens, instructionVars, ir >>

IsLabelHere == Type \notin {"NEWLINE", "EOF"} /\ tokens[token + 1].type = "COLON"

(* Any token before a colon is a label's name.                              *)
ParseLabel ==
  /\ AtStatement
  /\ IsLabelHere
  /\ ir' = Append(ir, Label(Lexeme))
  /\ token' = token + 2
  /\ UNCHANGED << lexerVars, status, tokens, instructionVars >>

BeginInstruction ==
  /\ AtStatement
  /\ Type \notin {"NEWLINE", "EOF"} /\ ~IsLabelHere
  /\ tokens' = [tokens EXCEPT ![token].lexeme = LowerCase(@)]
  /\ IF IsMnemonic(LowerCase(Lexeme))
     THEN /\ mnemonic' = Mnemonics[LowerCase(Lexeme)[1]]
          /\ calls' = Calls(mnemonic')
          /\ args' = << >>
          /\ token' = token + 1
          /\ UNCHANGED << pc, status >>
     ELSE /\ FailOrCrash
          /\ UNCHANGED << token, instructionVars >>
  /\ UNCHANGED << driverVars, scannerVars, ir >>

EndParse ==
  /\ AtStatement
  /\ Type = "EOF"
  /\ ir' = Append(ir, Eof)
  /\ pc' = "seman"
  /\ UNCHANGED << driverVars, scannerVars, status, tokens, token, instructionVars >>

-----------------------------------------------------------------------------
(* The calls.                                                               *)
Calling(call) == At("parse") /\ calls # << >> /\ Head(calls) = call

Return(values, width) ==
  /\ args' = args \o values
  /\ token' = token + width
  /\ calls' = Tail(calls)
  /\ UNCHANGED << pc, status, ir >>

Consume(type, values) ==
  IF Type = type THEN Return(values, 1)
  ELSE Exit("EXIT_FAILURE") /\ UNCHANGED parserVars

ConsumeToken ==
  \E type \in {"COMMA", "LPAREN", "RPAREN", "NEWLINE"} :
    Calling(type) /\ Consume(type, << >>)

(* parse_register: strtol makes 0 of no digits at all.                      *)
IsRegister(lexeme) ==
  /\ lexeme # << >> /\ lexeme[1] \in {"x", "X"}
  /\ \/ Len(lexeme) = 1
     \/ Len(lexeme) = 2 /\ lexeme[2] \in Digits /\ Numerals[lexeme[2]] <= 31

RegisterNumber(lexeme) == IF Len(lexeme) = 1 THEN 0 ELSE Numerals[lexeme[2]]

Reg ==
  /\ Calling("reg")
  /\ IF IsRegister(Lexeme) THEN Return(<< RegisterNumber(Lexeme) >>, 1)
     ELSE FailOrCrash /\ UNCHANGED parserVars

(* number, and the operand made of it.                                      *)
Number ==
  LET minus == Type = "MINUS"
      digits == tokens[IF minus THEN token + 1 ELSE token]
      value == Numerals[digits.lexeme[1]]
  IN  IF digits.type = "DECIMAL"
      THEN Return(<< [is |-> "imm", imm |-> IF minus THEN -value ELSE value] >>,
                  IF minus THEN 2 ELSE 1)
      ELSE Exit("EXIT_FAILURE") /\ UNCHANGED parserVars

StartsNumber_mutant == Type = "DECIMAL"
StartsNumber == Type \in {"DECIMAL", "MINUS"}

Identifier == Consume("IDENTIFIER", << [is |-> "label", label |-> Lexeme] >>)

Operand ==
  /\ Calling("operand")
  /\ IF StartsNumber THEN Number
     ELSE IF Type = "IDENTIFIER" THEN Identifier
     ELSE FailOrCrash /\ UNCHANGED parserVars

Offset ==
  /\ Calling("offset")
  /\ IF StartsNumber THEN Number ELSE Return(<< [is |-> "imm", imm |-> 0] >>, 0)

JumpTarget == Calling("identifier") /\ Identifier

AppendElement ==
  /\ Calling("append")
  /\ ir' = Append(ir, Element(mnemonic, args))
  /\ calls' = Tail(calls)
  /\ UNCHANGED << pc, status, token, args >>

Call ==
  /\ ConsumeToken \/ Reg \/ Operand \/ Offset \/ JumpTarget \/ AppendElement
  /\ UNCHANGED << driverVars, scannerVars, tokens, mnemonic >>

Parse == BeginParse \/ ParseNewline \/ ParseLabel \/ BeginInstruction \/ Call \/ EndParse

-----------------------------------------------------------------------------
(* Properties.                                                              *)

(* A line's items for each mnemonic.                                        *)
ItemsOf(m) ==
  Append(CASE m \in R3Mnemonics -> << "reg", "COMMA", "reg", "COMMA", "reg" >>
           [] m \in MemMnemonics -> << "reg", "COMMA", "offset", "LPAREN", "reg", "RPAREN" >>
           [] m \in R1OpMnemonics -> << "reg", "COMMA", "operand" >>
           [] m \in {"MV", "NOT", "SEQZ", "SNEZ"} -> << "reg", "COMMA", "reg" >>
           [] m = "J" -> << "identifier" >>
           [] m = "JR" -> << "reg" >>
           [] m \in {"RET", "NOP", "FENCE", "ECALL", "EBREAK"} -> << >>
           [] OTHER -> << "reg", "COMMA", "reg", "COMMA", "operand" >>,
         "NEWLINE")

(* All the ways to read an item at ts[k]: the tokens it takes, and what     *)
(* they stand for.                                                          *)
Readings(ts, k, item) ==
  LET type == ts[k].type
      lexeme == ts[k].lexeme
      When(condition, length, values) ==
        IF condition THEN { [length |-> length, values |-> values] } ELSE {}
      Immediate(n) == << [is |-> "imm", imm |-> n] >>
      label == When(type = "IDENTIFIER", 1, << [is |-> "label", label |-> lexeme] >>)
      number == When(type = "DECIMAL", 1, Immediate(Numerals[lexeme[1]]))
                \cup When(type = "MINUS" /\ ts[k + 1].type = "DECIMAL", 2,
                          Immediate(-Numerals[ts[k + 1].lexeme[1]]))
  IN  CASE item = "reg" -> When(IsRegister(lexeme), 1, << RegisterNumber(lexeme) >>)
        [] item = "identifier" -> label
        [] item = "operand" -> number \cup label
        [] item = "offset" -> number \cup When(TRUE, 0, Immediate(0))
        [] OTHER -> When(type = item, 1, << >>)

(* All the ways to read a line from its item n on.                          *)
LineReadings(ts, m) ==
  LET from[n \in 1 .. Len(ItemsOf(m)) + 1] ==
        [k \in DOMAIN ts |->
           IF n > Len(ItemsOf(m)) THEN { [next |-> k, values |-> << >>] }
           ELSE UNION { { [next |-> rest.next, values |-> r.values \o rest.values] :
                            rest \in from[n + 1][k + r.length] } :
                          r \in Readings(ts, k, ItemsOf(m)[n]) }]
  IN  from

(* The statements that may stand at ts[k].                                  *)
Statements(ts, k) ==
  LET word == LowerCase(ts[k].lexeme)
      m == Mnemonics[word[1]]
  IN  IF ts[k].type = "NEWLINE" THEN { [next |-> k + 1, elements |-> << >>] }
      ELSE (IF ts[k + 1].type = "COLON"
            THEN { [next |-> k + 2, elements |-> << Label(ts[k].lexeme) >>] } ELSE {})
           \cup { [next |-> r.next, elements |-> << Element(m, r.values) >>] :
                    r \in IF IsMnemonic(word) THEN LineReadings(ts, m)[1][k + 1] ELSE {} }

(* All the ways to read tokens as a sequence of statements, from any one on.*)
ParsesFrom(ts) ==
  LET from[k \in DOMAIN ts] ==
        IF ts[k].type = "EOF" THEN { << Eof >> }
        ELSE UNION { { s.elements \o rest : rest \in from[s.next] } : s \in Statements(ts, k) }
  IN  from

Parses(ts) == ParsesFrom(ts)[1]

(* The parser, which decides with one token of look-ahead and never goes    *)
(* back, finds the one way to read the source as statements, and gives up   *)
(* only if there is none; names keep the case they have in the source,      *)
(* though mnemonics are lowered in place.                                   *)
ParsesExactly ==
  /\ pc = "seman" => Parses(SourceTokens) = {ir}
  /\ pc = "parse" /\ status # "running" => Parses(SourceTokens) = {}

(* What the parser hands on is what the semantic check and the code         *)
(* generator are modelled with: registers exist, immediates fit their       *)
(* bit-fields, operands are of the declared kind, the last element and only *)
(* that is IR_EOF.                                                          *)
IrIsProgram == pc = "seman" => IsProgram(ir)

(* What an instruction does, on registers of 3 bits: r holds v, all others  *)
(* but x0 something else.                                                   *)
Words == 0 .. 7
Xor(a, b) ==
  LET Bit(place) == IF (a \div place) % 2 = (b \div place) % 2 THEN 0 ELSE place
  IN  Bit(1) + Bit(2) + Bit(4)
Holds(x, r, v) == IF x = X0 THEN 0 ELSE IF x = r THEN v ELSE (v + 1) % 8

Computed(e, r, v) ==
  CASE e.mnemonic = "ADDI" -> (Holds(e.rs1, r, v) + e.imm) % 8
    [] e.mnemonic = "XORI" -> Xor(Holds(e.rs1, r, v), e.imm % 8)
    [] e.mnemonic = "SLTIU" -> IF Holds(e.rs1, r, v) < e.imm % 8 THEN 1 ELSE 0
    [] e.mnemonic = "SLTU" -> IF Holds(e.rs1, r, v) < Holds(e.rs2, r, v) THEN 1 ELSE 0

(* What the RISC-V manual says a pseudo-instruction does to rd.             *)
Intended(m, value) ==
  CASE m = "MV" -> value
    [] m = "NOT" -> 7 - value
    [] m = "SEQZ" -> IF value = 0 THEN 1 ELSE 0
    [] m = "SNEZ" -> IF value = 0 THEN 0 ELSE 1

IsCongruent(imm, n, width) ==
  /\ imm % (2 ^ width) = n % (2 ^ width)
  /\ -(2 ^ (width - 1)) <= imm /\ imm < 2 ^ (width - 1)

JumpsThrough(e, r) == e.mnemonic = "JALR" /\ e.rd = X0 /\ e.rs1 = r /\ HasImm(e) /\ e.imm = 0

(* The operand of e is the label or the number written.                     *)
OperandIs(e, operand, width) ==
  IF operand.is = "label" THEN HasLabel(e) /\ e.label = operand.label
  ELSE HasImm(e) /\ IsCongruent(e.imm, operand.imm, width)

(* What is written is mnemonic and args, in the order of assembly: rd, rs1, *)
(* rs2 or an operand, but offset(rs1) for memory, where rd is also what a   *)
(* store stores, and rd, rs1 are what a branch compares.                    *)
Means(e) ==
  CASE mnemonic \in R3Mnemonics ->
         e.mnemonic = mnemonic /\ e.rd = args[1] /\ e.rs1 = args[2] /\ e.rs2 = args[3]
    [] mnemonic \in MemMnemonics ->
         /\ e.mnemonic = mnemonic /\ e.rd = args[1] /\ e.rs1 = args[3]
         /\ IsCongruent(e.offset, args[2].imm, 12)
    [] mnemonic \in R1OpMnemonics ->
         e.mnemonic = mnemonic /\ e.rd = args[1] /\ OperandIs(e, args[2], 20)
    [] mnemonic \in {"MV", "NOT", "SEQZ", "SNEZ"} ->
         /\ e.rd = args[1]
         /\ \A v \in Words : args[2] # X0 \/ v = 0 =>
              Computed(e, args[2], v) = Intended(mnemonic, v)
    [] mnemonic = "J" ->
         e.mnemonic = "JAL" /\ e.rd = X0 /\ HasLabel(e) /\ e.label = args[1].label
    [] mnemonic = "JR" -> JumpsThrough(e, args[1])
    [] mnemonic = "RET" -> JumpsThrough(e, X1)
    [] mnemonic = "NOP" ->
         e.mnemonic = "ADDI" /\ e.rd = X0 /\ e.rs1 = X0 /\ HasImm(e) /\ e.imm = 0
    [] mnemonic \in {"FENCE", "ECALL", "EBREAK"} -> e.mnemonic = mnemonic
    [] OTHER ->
         /\ e.mnemonic = mnemonic /\ e.rd = args[1] /\ e.rs1 = args[2]
         /\ OperandIs(e, args[3], 12)

(* The element appended for an instruction has the mnemonic, the registers, *)
(* each in its place, and the label or the number that were written; for a  *)
(* pseudo-instruction it is one that does what the RISC-V manual says.  A   *)
(* number too large for its field keeps its low bits, which is all that is  *)
(* left of it after int32_t, int16_t and the bit-field.                     *)
ElementsMeanSource ==
  calls = << "NEWLINE" >> => Means(ir[Len(ir)])
=============================================================================
