----------------------------- MODULE Compiler_proofs ----------------------------
(***************************************************************************)
(* Theorems about the process: the scanner never leaves its buffer, its    *)
(* tokens are those of the source, the parser never runs past them, what   *)
(* it returns is the one way to read them and a program, every element of  *)
(* it means what was written, a class from before is touched only for a    *)
(* source that is one, and a process that says it succeeded has written    *)
(* the class.                                                              *)
(*                                                                         *)
(* All of them rest on one invariant, in three parts: what the scanner     *)
(* leaves behind for the parser (TokensInv), what a handler's calls have   *)
(* left behind for the element they end with (CallsInv), and what the      *)
(* parser leaves behind for the semantic check (ElementsInv).  That the    *)
(* tokens are the source's needs another beside it, of what has been cut   *)
(* off the file being lexed and of the files before it (SourceInv); that   *)
(* the elements are, one that says what is left to read: all the ways to   *)
(* read the source are the elements so far, followed by a way to read the  *)
(* rest of it (ReadingInv).  FilesInv is of the files lexed before.        *)
(***************************************************************************)
EXTENDS Compiler, SequenceTheorems, FiniteSetTheorems, WellFoundedInduction, TLAPS

TokenTypes ==
  {"IDENTIFIER", "DECIMAL", "NEWLINE", "EOF", "COMMA", "MINUS", "COLON", "LPAREN", "RPAREN"}
Text == STRING \cup {NUL}
Tokens == [type : TokenTypes, lexeme : Seq(Text), line : Nat]

(* The end of file is the last token and only that, and it has no lexeme.   *)
NoEof(ts) == \A n \in DOMAIN ts : ts[n].type # "EOF"
EofEnds(ts) ==
  /\ ts # << >>
  /\ \A n \in DOMAIN ts : ts[n].type = "EOF" <=> n = Len(ts)
  /\ ts[Len(ts)].lexeme = << >>

(* What makes a token's lexeme fit to be an element's name or number.       *)
Named(t) ==
  /\ t.type \notin {"NEWLINE", "EOF"} => t.lexeme \in Labels
  /\ t.type = "DECIMAL" => t.lexeme # << >> /\ t.lexeme[1] \in Digits

Scanning == {"main", "read", "scan"}
Functions == Scanning \cup {"lexed", "parse", "seman", "codegen", "fopen", "fwrite", "fclose"}

ProcessInv ==
  /\ files \in CommandLines
  /\ class \in ClassContents
  /\ status \in Statuses
  /\ pc \in Functions
  /\ pc = "fclose" /\ status = "running" => class = "buffered"

ScannerInv ==
  /\ line \in Nat
  /\ pc = "main" => i = 1
  /\ pc \in {"read", "scan"} => i \in 1 .. Len(files)
  /\ pc = "scan" => source = Append(files[i], NUL) /\ current \in 1 .. Len(source)

TokensInv ==
  /\ tokens \in Seq(Tokens)
  /\ pc \in Scanning => NoEof(tokens)
  /\ pc \notin Scanning => EofEnds(tokens)
  /\ status = "running" => \A n \in DOMAIN tokens : token <= n => Named(tokens[n])

(* What a call returns, or reads only to go on.                             *)
Immediate == [is : {"imm"}, imm : Int]
Target == [is : {"label"}, label : Labels]
Values == {"reg", "operand", "offset", "identifier"}
Separators == {"COMMA", "LPAREN", "RPAREN"}
Returned(call) ==
  CASE call = "reg" -> Registers
    [] call = "offset" -> Immediate
    [] call = "identifier" -> Target
    [] OTHER -> Immediate \cup Target

AllMnemonics ==
  R3Mnemonics \cup MemMnemonics \cup R1OpMnemonics \cup R2OpMnemonics
  \cup {"MV", "NOT", "SEQZ", "SNEZ", "J", "JR", "RET", "NOP"}

(* A handler that has made the first p of its calls, of which every other   *)
(* one returned a value, beginning with the first.                          *)
Made(p, handler) ==
  /\ calls = SubSeq(handler \o << "append", "NEWLINE" >>, p + 1, Len(handler) + 2)
  /\ args \in Seq(Registers \cup Immediate \cup Target)
  /\ Len(args) = (p + 1) \div 2
  /\ \A n \in DOMAIN args : args[n] \in Returned(handler[2 * n - 1])

CallsInv ==
  calls # << >> =>
    /\ pc = "parse"
    /\ mnemonic \in AllMnemonics
    /\ \/ calls = << "NEWLINE" >>
       \/ \E p \in 0 .. Len(Handler(mnemonic)) : Made(p, Handler(mnemonic))

ElementsInv ==
  /\ token \in Nat \ {0}
  /\ pc \in Scanning \cup {"lexed"} => token = 1 /\ calls = << >>
  /\ pc = "parse" => token \in DOMAIN tokens
  /\ pc \in Scanning \cup {"lexed", "parse"} => ir \in Seq(InstructionElements \cup LabelElements)
  /\ pc = "seman" => IsProgram(ir)
  /\ ElementsMeanSource

CompilerInv == ProcessInv /\ ScannerInv /\ TokensInv /\ CallsInv /\ ElementsInv

-----------------------------------------------------------------------------
(* The scanner.                                                             *)

(* The least of some places is one of them: there is an end to every run.   *)
LEMMA LeastPlace ==
  ASSUME NEW T, T \subseteq Nat, T # {}
  PROVE  \E n \in T : \A m \in T : n <= m
<1>. DEFINE R == OpToRel(<, Nat)
<1>1. IsWellFoundedOn(R, Nat)
  BY NatLessThanWellFounded
<1>2. \A a, b \in Nat : a < b => << a, b >> \in R
  BY DEF OpToRel
<1>. HIDE DEF R
<1>3. PICK n \in T : \A m \in T : ~(<< m, n >> \in R)
  BY <1>1, WFMin
<1>4. ASSUME NEW m \in T PROVE n <= m
  <2>1. m \in Nat /\ n \in Nat
    OBVIOUS
  <2>2. ~(m < n)
    BY <1>2, <1>3, <2>1
  <2>. QED  BY <2>1, <2>2
<1>. QED  BY <1>4

(* A loop over the characters of a set stops at the first other one, and    *)
(* at the NUL at the latest: it stays in the buffer.                        *)
LEMMA EndOfInBuffer ==
  ASSUME source \in Seq(Text), NEW k \in 1 .. Len(source), NEW set,
         source[Len(source)] \notin set
  PROVE  /\ EndOf(k, set) \in k .. Len(source)
         /\ source[EndOf(k, set)] \notin set
         /\ \A n \in k .. EndOf(k, set) - 1 : source[n] \in set
<1>. DEFINE T == {m \in k .. Len(source) : source[m] \notin set}
<1>0. Len(source) \in Nat
  OBVIOUS
<1>1. T \subseteq Nat /\ T # {}
  BY <1>0
<1>2. PICK m \in T : \A x \in T : m <= x
  BY <1>1, LeastPlace
<1>3. m \in k .. Len(source) /\ source[m] \notin set
  OBVIOUS
<1>4. ASSUME NEW n \in k .. m - 1 PROVE source[n] \in set
  BY <1>0, <1>2, <1>3
<1>5. \E x \in k .. Len(source) : source[x] \notin set /\ \A n \in k .. x - 1 : source[n] \in set
  BY <1>3, <1>4
<1>. QED  BY <1>5 DEF EndOf

(* The buffer holds the file and a NUL, which belongs to no run, so the     *)
(* next token starts in the buffer, at what is not a blank.                 *)
LEMMA ScanFacts ==
  ASSUME CompilerInv, At("scan")
  PROVE  /\ source \in Seq(Text) /\ Len(source) \in Nat \ {0} /\ source[Len(source)] = NUL
         /\ \E n \in DOMAIN files : source = Append(files[n], NUL)
         /\ files \in CommandLines
         /\ i \in 1 .. Len(files) /\ Len(files) \in Nat
         /\ Start \in current .. Len(source) /\ Start \in 1 .. Len(source)
         /\ source[Start] \notin Blanks
         /\ tokens \in Seq(Tokens) /\ NoEof(tokens)
         /\ token = 1 /\ calls = << >> /\ pc = "scan" /\ status = "running" /\ line \in Nat
<1>1. /\ files \in CommandLines /\ pc = "scan" /\ status = "running" /\ token = 1 /\ calls = << >>
      /\ tokens \in Seq(Tokens) /\ NoEof(tokens) /\ line \in Nat
  BY DEF At, CompilerInv, ProcessInv, TokensInv, ElementsInv, Scanning, ScannerInv
<1>2. files \in Seq(Seq(STRING))
  BY <1>1, CommandLinesAssumption
<1>3. i \in 1 .. Len(files) /\ source = Append(files[i], NUL) /\ current \in 1 .. Len(source)
  BY <1>1 DEF CompilerInv, ScannerInv
<1>4. files[i] \in Seq(STRING) /\ Len(files) \in Nat
  <2>. DEFINE C == Seq(STRING)
  <2>1. files \in Seq(C)
    BY <1>2
  <2>. HIDE DEF C
  <2>2. files[i] \in C /\ Len(files) \in Nat
    BY <2>1, <1>3
  <2>. QED  BY <2>2 DEF C
<1>9. files[i] \in Seq(Text) /\ NUL \in Text
  BY <1>4 DEF Text
<1>5. source \in Seq(Text) /\ Len(source) \in Nat \ {0} /\ source[Len(source)] = NUL
  BY <1>3, <1>4, <1>9
<1>6. NUL \notin Blanks
  BY DEF NUL, Blanks
<1>7. Start \in current .. Len(source) /\ source[Start] \notin Blanks
  BY <1>3, <1>5, <1>6, EndOfInBuffer, SMTT(30) DEF Start
<1>8. i \in DOMAIN files
  BY <1>2, <1>3
<1>10. Start \in 1 .. Len(source)
  BY <1>3, <1>5, <1>7
<1>11. \E n \in DOMAIN files : source = Append(files[n], NUL)
  BY <1>3, <1>8
<1>. QED  BY <1>1, <1>3, <1>4, <1>5, <1>7, <1>10, <1>11

(* A run of characters that may stand in a token is a token's lexeme, and   *)
(* one of the names a label may have.                                       *)
LEMMA LexemeOfRun ==
  ASSUME CompilerInv, At("scan"), NEW end \in Start + 1 .. Len(source),
         \A n \in Start .. end - 1 : source[n] \in Letters \cup Digits \cup Marks
  PROVE  /\ SubSeq(source, Start, end - 1) \in Seq(Text)
         /\ SubSeq(source, Start, end - 1) \in Labels
         /\ SubSeq(source, Start, end - 1) # << >>
         /\ SubSeq(source, Start, end - 1)[1] = source[Start]
<1>. DEFINE s == Start
<1>1. /\ source \in Seq(Text) /\ Len(source) \in Nat /\ files \in CommandLines
      /\ s \in 1 .. Len(source)
  BY ScanFacts
<1>2. PICK n \in DOMAIN files : source = Append(files[n], NUL)
  BY ScanFacts
<1>3. s \in DOMAIN source /\ end - 1 \in DOMAIN source /\ s <= end - 1
  BY <1>1
<1>4. \A k \in s .. end - 1 : source[k] \in Letters \cup Digits \cup Marks
  OBVIOUS
<1>. HIDE DEF s
<1>5. SubSeq(source, s, end - 1) \in Labels
  BY <1>1, <1>2, <1>3, <1>4, NamesAssumption
<1>6. /\ SubSeq(source, s, end - 1) \in Seq(Text)
      /\ Len(SubSeq(source, s, end - 1)) = end - s
      /\ SubSeq(source, s, end - 1)[1] = source[s]
  BY <1>1, <1>3
<1>7. SubSeq(source, s, end - 1) # << >>
  BY <1>1, <1>3, <1>6, SMTT(30)
<1>. QED  BY <1>5, <1>6, <1>7 DEF s

(* A token that may be part of a program is added to those before it.       *)
LEMMA EmitStep ==
  ASSUME CompilerInv, At("scan"), NEW type \in TokenTypes \ {"EOF"}, NEW end, NEW its_line \in Nat,
         end \in Start + 1 .. Len(source),
         Token(type, end, its_line).lexeme \in Seq(Text),
         Named(Token(type, end, its_line)),
         Emit(type, end, its_line)
  PROVE  /\ tokens' \in Seq(Tokens) /\ NoEof(tokens')
         /\ \A n \in DOMAIN tokens' : token <= n => Named(tokens'[n])
         /\ current' \in 1 .. Len(source) /\ line' \in Nat
<1>. DEFINE t == Token(type, end, its_line)
<1>1. t \in Tokens /\ t.type # "EOF"
  BY DEF Token, Tokens
<1>2. /\ tokens \in Seq(Tokens) /\ NoEof(tokens)
      /\ \A n \in DOMAIN tokens : token <= n => Named(tokens[n])
  BY DEF CompilerInv, TokensInv, ElementsInv, At, Scanning
<1>3. tokens' = Append(tokens, t) /\ current' = end /\ line' = its_line
  BY DEF Emit
<1>4. Named(t)
  OBVIOUS
<1>5. Start \in Nat /\ Start >= 1 /\ Len(source) \in Nat
  BY ScanFacts
<1>. HIDE DEF t
<1>6. tokens' \in Seq(Tokens) /\ DOMAIN tokens' = 1 .. Len(tokens) + 1 /\ DOMAIN tokens = 1 .. Len(tokens)
  BY <1>1, <1>2, <1>3
<1>7. \A n \in 1 .. Len(tokens) : tokens'[n] = tokens[n]
  BY <1>1, <1>2, <1>3
<1>8. tokens'[Len(tokens) + 1] = t
  BY <1>1, <1>2, <1>3
<1>9. ASSUME NEW n \in DOMAIN tokens'
      PROVE  tokens'[n].type # "EOF" /\ (token <= n => Named(tokens'[n]))
  <2>0. Len(tokens) \in Nat
    BY <1>2
  <2>1. CASE n \in 1 .. Len(tokens)
    BY <2>1, <1>2, <1>6, <1>7 DEF NoEof
  <2>2. CASE n = Len(tokens) + 1
    BY <2>2, <1>1, <1>4, <1>8
  <2>. QED  BY <2>0, <2>1, <2>2, <1>6
<1>10. NoEof(tokens')
  BY <1>9 DEF NoEof
<1>. QED  BY <1>3, <1>5, <1>6, <1>9, <1>10

(* No token of one character is mistaken for the end of the buffer.         *)
LEMMA MarksFacts ==
  /\ NUL \notin Marks
  /\ \A mark \in Punctuation :
       mark[1] \in Marks /\ mark[2] # "DECIMAL" /\ mark[2] \in TokenTypes \ {"EOF", "NEWLINE"}
<1>1. ASSUME NEW mark \in Punctuation
      PROVE  mark[1] # NUL /\ mark[2] # "DECIMAL" /\ mark[2] \in TokenTypes \ {"EOF", "NEWLINE"}
  <2>1. CASE mark = << ",", "COMMA" >>
    BY <2>1 DEF NUL, TokenTypes
  <2>2. CASE mark = << "-", "MINUS" >>
    BY <2>2 DEF NUL, TokenTypes
  <2>3. CASE mark = << ":", "COLON" >>
    BY <2>3 DEF NUL, TokenTypes
  <2>4. CASE mark = << "(", "LPAREN" >>
    BY <2>4 DEF NUL, TokenTypes
  <2>5. CASE mark = << ")", "RPAREN" >>
    BY <2>5 DEF NUL, TokenTypes
  <2>. QED  BY <2>1, <2>2, <2>3, <2>4, <2>5 DEF Punctuation
<1>2. NUL \notin Marks
  BY <1>1 DEF Marks
<1>. QED  BY <1>1, <1>2 DEF Marks

(* What every kind of token has that the scanner adds.                      *)
LEMMA ScanStep ==
  ASSUME CompilerInv,
         ScanIdentifier \/ ScanNumber \/ ScanPunctuation \/ ScanNewline
  PROVE  /\ tokens' \in Seq(Tokens) /\ NoEof(tokens')
         /\ \A n \in DOMAIN tokens' : token <= n => Named(tokens'[n])
         /\ current' \in 1 .. Len(source) /\ line' \in Nat
         /\ UNCHANGED << driverVars, pc, status, i, source >>
<1>0. At("scan")
  BY DEF ScanIdentifier, ScanNumber, ScanPunctuation, ScanNewline
<1>1. /\ source \in Seq(Text) /\ Len(source) \in Nat \ {0} /\ source[Len(source)] = NUL
      /\ Start \in 1 .. Len(source) /\ line \in Nat
  BY <1>0, ScanFacts
<1>2. NUL \notin Letters \cup Digits \cup Marks
  <2>1. NUL \notin Letters \cup Digits
    BY RunsAssumption
  <2>. QED  BY <2>1, MarksFacts
<1>. DEFINE Goal ==
       /\ tokens' \in Seq(Tokens) /\ NoEof(tokens')
       /\ \A n \in DOMAIN tokens' : token <= n => Named(tokens'[n])
       /\ current' \in 1 .. Len(source) /\ line' \in Nat
<1>3. ASSUME NEW type \in TokenTypes \ {"EOF", "NEWLINE"}, NEW end \in Start + 1 .. Len(source),
             \A n \in Start .. end - 1 : source[n] \in Letters \cup Digits \cup Marks,
             type = "DECIMAL" => source[Start] \in Digits,
             Emit(type, end, line)
      PROVE  Goal
  <2>1. Token(type, end, line).type = type
        /\ Token(type, end, line).lexeme = SubSeq(source, Start, end - 1)
    BY DEF Token
  <2>2. /\ SubSeq(source, Start, end - 1) \in Seq(Text)
        /\ SubSeq(source, Start, end - 1) \in Labels
        /\ SubSeq(source, Start, end - 1) # << >>
        /\ SubSeq(source, Start, end - 1)[1] = source[Start]
    BY <1>0, <1>3, LexemeOfRun
  <2>3. Named(Token(type, end, line))
    BY <1>3, <2>1, <2>2 DEF Named
  <2>4. type \in TokenTypes \ {"EOF"} /\ end \in Start + 1 .. Len(source)
    OBVIOUS
  <2>. QED  BY <1>0, <1>1, <1>3, <2>1, <2>2, <2>3, <2>4, EmitStep
<1>4. ASSUME ScanIdentifier PROVE Goal
  <2>1. source[Start] \in Letters /\ Emit("IDENTIFIER", EndOf(Start, InIdentifier), line)
    BY <1>4 DEF ScanIdentifier
  <2>2. /\ EndOf(Start, InIdentifier) \in Start .. Len(source)
        /\ source[EndOf(Start, InIdentifier)] \notin InIdentifier
        /\ \A n \in Start .. EndOf(Start, InIdentifier) - 1 : source[n] \in InIdentifier
    BY <1>1, <1>2, EndOfInBuffer DEF InIdentifier
  <2>3. EndOf(Start, InIdentifier) # Start
    BY <2>1, <2>2 DEF InIdentifier
  <2>4. EndOf(Start, InIdentifier) \in Start + 1 .. Len(source)
    BY <1>1, <2>2, <2>3
  <2>5. \A n \in Start .. EndOf(Start, InIdentifier) - 1 : source[n] \in Letters \cup Digits \cup Marks
    BY <2>2 DEF InIdentifier
  <2>6. "IDENTIFIER" \in TokenTypes \ {"EOF", "NEWLINE"}
    BY DEF TokenTypes
  <2>. HIDE DEF Goal
  <2>. QED  BY <1>3, <2>1, <2>4, <2>5, <2>6
<1>5. ASSUME ScanNumber PROVE Goal
  <2>1. source[Start] \in Digits /\ Emit("DECIMAL", EndOf(Start, Digits), line)
    BY <1>5 DEF ScanNumber
  <2>2. /\ EndOf(Start, Digits) \in Start .. Len(source)
        /\ source[EndOf(Start, Digits)] \notin Digits
        /\ \A n \in Start .. EndOf(Start, Digits) - 1 : source[n] \in Digits
    BY <1>1, <1>2, EndOfInBuffer
  <2>3. EndOf(Start, Digits) # Start
    BY <2>1, <2>2
  <2>4. EndOf(Start, Digits) \in Start + 1 .. Len(source)
    BY <1>1, <2>2, <2>3
  <2>5. \A n \in Start .. EndOf(Start, Digits) - 1 : source[n] \in Letters \cup Digits \cup Marks
    BY <2>2
  <2>6. "DECIMAL" \in TokenTypes \ {"EOF", "NEWLINE"}
    BY DEF TokenTypes
  <2>. HIDE DEF Goal
  <2>. QED  BY <1>3, <2>1, <2>4, <2>5, <2>6
<1>6. ASSUME ScanPunctuation PROVE Goal
  <2>1. PICK mark \in Punctuation : source[Start] = mark[1] /\ Emit(mark[2], Start + 1, line)
    BY <1>6 DEF ScanPunctuation
  <2>2. /\ mark[1] \in Marks /\ mark[2] # "DECIMAL"
        /\ mark[2] \in TokenTypes \ {"EOF", "NEWLINE"}
    BY MarksFacts
  <2>3. Start # Len(source)
    BY <1>1, <1>2, <2>1, <2>2
  <2>4. Start + 1 \in Start + 1 .. Len(source)
    BY <1>1, <2>3
  <2>5. \A n \in Start .. (Start + 1) - 1 : source[n] \in Letters \cup Digits \cup Marks
    BY <1>1, <2>1, <2>2
  <2>. HIDE DEF Goal
  <2>. QED  BY <1>3, <2>1, <2>2, <2>4, <2>5
<1>7. ASSUME ScanNewline PROVE Goal
  <2>1. source[Start] = "\n" /\ Emit("NEWLINE", Start + 1, line + 1)
    BY <1>7 DEF ScanNewline
  <2>2. Start # Len(source)
    BY <1>1, <2>1 DEF NUL
  <2>3. Start + 1 \in Start + 1 .. Len(source)
    BY <1>1, <2>2
  <2>4. /\ Token("NEWLINE", Start + 1, line + 1).type = "NEWLINE"
        /\ Token("NEWLINE", Start + 1, line + 1).lexeme = SubSeq(source, Start, (Start + 1) - 1)
    BY DEF Token
  <2>8. (Start + 1) - 1 = Start /\ SubSeq(source, Start, Start) \in Seq(Text)
    BY <1>1
  <2>5. Token("NEWLINE", Start + 1, line + 1).lexeme \in Seq(Text)
    BY <2>4, <2>8
  <2>6. Named(Token("NEWLINE", Start + 1, line + 1))
    BY <2>4 DEF Named
  <2>7. "NEWLINE" \in TokenTypes \ {"EOF"} /\ line + 1 \in Nat
    BY <1>1 DEF TokenTypes
  <2>. QED  BY <1>0, <2>1, <2>3, <2>5, <2>6, <2>7, EmitStep
<1>8. Goal
  BY <1>4, <1>5, <1>6, <1>7
<1>9. UNCHANGED << driverVars, pc, status, i, source >>
  BY DEF ScanIdentifier, ScanNumber, ScanPunctuation, ScanNewline, Emit
<1>. QED  BY <1>8, <1>9

(* The list of tokens ends with the end of the last file; no other file     *)
(* leaves a token behind that the next file's would follow.                 *)
LEMMA EndFileStep ==
  ASSUME CompilerInv, EndFile
  PROVE  /\ tokens' \in Seq(Tokens)
         /\ \A n \in DOMAIN tokens' : token <= n => Named(tokens'[n])
         /\ \/ pc' = "lexed" /\ EofEnds(tokens')
            \/ pc' = "read" /\ NoEof(tokens') /\ i' \in 1 .. Len(files)
<1>. DEFINE t == Token("EOF", Start, line)
<1>0. At("scan")
  BY DEF EndFile
<1>1. /\ tokens \in Seq(Tokens) /\ NoEof(tokens)
      /\ \A n \in DOMAIN tokens : token <= n => Named(tokens[n])
  BY <1>0 DEF CompilerInv, TokensInv, At, Scanning
<1>2. /\ Start \in 1 .. Len(source) /\ Len(source) \in Nat /\ source \in Seq(Text) /\ line \in Nat
      /\ i \in 1 .. Len(files) /\ Len(files) \in Nat
  BY <1>0, ScanFacts
<1>3. CASE i = Len(files)
  <2>1. SubSeq(source, Start, Start - 1) = << >> /\ << >> \in Seq(Text)
    BY <1>2
  <2>2. t \in Tokens /\ t.type = "EOF" /\ t.lexeme = << >>
    BY <1>2, <2>1 DEF Token, Tokens, TokenTypes
  <2>3. Named(t)
    BY <2>2 DEF Named
  <2>4. tokens' = Append(tokens, t) /\ pc' = "lexed"
    BY <1>3 DEF EndFile, KeepsEof
  <2>. HIDE DEF t
  <2>5. /\ tokens' \in Seq(Tokens) /\ Len(tokens') = Len(tokens) + 1 /\ tokens' # << >>
        /\ DOMAIN tokens' = 1 .. Len(tokens) + 1 /\ DOMAIN tokens = 1 .. Len(tokens)
    BY <1>1, <2>2, <2>4
  <2>6. \A n \in 1 .. Len(tokens) : tokens'[n] = tokens[n]
    BY <1>1, <2>2, <2>4
  <2>7. tokens'[Len(tokens) + 1] = t /\ Len(tokens) \in Nat
    BY <1>1, <2>2, <2>4
  <2>8. ASSUME NEW n \in DOMAIN tokens'
        PROVE  (tokens'[n].type = "EOF" <=> n = Len(tokens')) /\ (token <= n => Named(tokens'[n]))
    <3>1. CASE n \in 1 .. Len(tokens)
      BY <3>1, <1>1, <2>5, <2>6, <2>7 DEF NoEof
    <3>2. CASE n = Len(tokens) + 1
      BY <3>2, <2>2, <2>3, <2>5, <2>7
    <3>. QED  BY <3>1, <3>2, <2>5, <2>7
  <2>9. EofEnds(tokens')
    BY <2>2, <2>5, <2>7, <2>8 DEF EofEnds
  <2>. QED  BY <2>4, <2>5, <2>8, <2>9
<1>4. CASE i # Len(files)
  BY <1>1, <1>2, <1>4 DEF EndFile, KeepsEof
<1>. QED  BY <1>3, <1>4

(* A mnemonic in lower case is still a text.                                *)
LEMMA LowerCaseText ==
  ASSUME NEW lexeme \in Seq(Text)
  PROVE  LowerCase(lexeme) \in Seq(Text)
<1>1. Len(lexeme) \in Nat /\ DOMAIN lexeme = 1 .. Len(lexeme)
  OBVIOUS
<1>2. ASSUME NEW k \in 1 .. Len(lexeme)
      PROVE  (IF lexeme[k] \in DOMAIN Lower THEN Lower[lexeme[k]] ELSE lexeme[k]) \in Text
  BY LowerAssumption DEF Text
<1>. DEFINE F(k) == IF lexeme[k] \in DOMAIN Lower THEN Lower[lexeme[k]] ELSE lexeme[k]
<1>3. \A k \in 1 .. Len(lexeme) : F(k) \in Text
  BY <1>2
<1>. HIDE DEF F
<1>4. [k \in 1 .. Len(lexeme) |-> F(k)] \in Seq(Text)
  BY <1>1, <1>3
<1>. QED  BY <1>1, <1>4 DEF LowerCase, F

(* The parser's current token, and what it says of the next: a token that   *)
(* is not the end of file has one after it.                                 *)
LEMMA TokenFacts ==
  ASSUME CompilerInv, At("parse")
  PROVE  /\ tokens \in Seq(Tokens) /\ EofEnds(tokens) /\ Len(tokens) \in Nat
         /\ token \in 1 .. Len(tokens)
         /\ tokens[token] \in Tokens
         /\ Named(tokens[token])
         /\ Type # "EOF" =>
              /\ token + 1 \in 1 .. Len(tokens)
              /\ tokens[token + 1] \in Tokens
              /\ Named(tokens[token + 1])
              /\ tokens[token + 1].type # "EOF" => token + 2 \in 1 .. Len(tokens)
         /\ Type = "EOF" => token = Len(tokens) /\ Lexeme = << >>
<1>1. /\ pc = "parse" /\ status = "running" /\ tokens \in Seq(Tokens) /\ EofEnds(tokens)
      /\ token \in DOMAIN tokens
      /\ \A n \in DOMAIN tokens : token <= n => Named(tokens[n])
  BY DEF At, CompilerInv, TokensInv, ElementsInv, Scanning
<1>2. /\ DOMAIN tokens = 1 .. Len(tokens) /\ Len(tokens) \in Nat
      /\ \A n \in 1 .. Len(tokens) : tokens[n] \in Tokens
  BY <1>1
<1>3. \A n \in DOMAIN tokens : tokens[n].type = "EOF" <=> n = Len(tokens)
  BY <1>1 DEF EofEnds
<1>4. Type # "EOF" => token + 1 \in 1 .. Len(tokens)
  BY <1>1, <1>2, <1>3 DEF Type
<1>5. ASSUME Type # "EOF", tokens[token + 1].type # "EOF" PROVE token + 2 \in 1 .. Len(tokens)
  BY <1>1, <1>2, <1>3, <1>4, <1>5
<1>6. Type = "EOF" => token = Len(tokens) /\ Lexeme = << >>
  BY <1>1, <1>3 DEF Type, Lexeme, EofEnds
<1>7. Named(tokens[token]) /\ tokens[token] \in Tokens
  BY <1>1, <1>2
<1>8. Type # "EOF" => Named(tokens[token + 1]) /\ tokens[token + 1] \in Tokens
  BY <1>1, <1>2, <1>4
<1>. QED  BY <1>1, <1>2, <1>4, <1>5, <1>6, <1>7, <1>8

(* Lowering a mnemonic changes nothing the parser has yet to read.          *)
LEMMA BeginInstructionStep ==
  ASSUME CompilerInv, BeginInstruction
  PROVE  /\ tokens' \in Seq(Tokens) /\ EofEnds(tokens')
         /\ status' = "running" =>
              \A n \in DOMAIN tokens' : token' <= n => Named(tokens'[n])
         /\ token' \in {token, token + 1} /\ token' \in DOMAIN tokens'
<1>0. At("parse") /\ Type # "EOF"
  BY DEF BeginInstruction, AtStatement
<1>1. /\ tokens \in Seq(Tokens) /\ EofEnds(tokens) /\ Len(tokens) \in Nat /\ token \in 1 .. Len(tokens)
      /\ tokens[token] \in Tokens /\ token + 1 \in 1 .. Len(tokens) /\ DOMAIN tokens = 1 .. Len(tokens)
  BY <1>0, TokenFacts
<1>2. \A n \in DOMAIN tokens : token <= n => Named(tokens[n])
  BY <1>0 DEF At, CompilerInv, TokensInv
<1>. DEFINE t == [tokens[token] EXCEPT !.lexeme = LowerCase(tokens[token].lexeme)]
<1>3. LowerCase(tokens[token].lexeme) \in Seq(Text)
  BY <1>1, LowerCaseText DEF Tokens
<1>4. t \in Tokens /\ t.type = tokens[token].type
  BY <1>1, <1>3 DEF Tokens
<1>5. tokens' = [tokens EXCEPT ![token] = t]
  BY DEF BeginInstruction
<1>. HIDE DEF t
<1>6. /\ tokens' \in Seq(Tokens) /\ Len(tokens') = Len(tokens) /\ DOMAIN tokens' = DOMAIN tokens
      /\ tokens' # << >>
  BY <1>1, <1>4, <1>5
<1>7. \A n \in DOMAIN tokens : n # token => tokens'[n] = tokens[n]
  BY <1>5
<1>8. tokens'[token] = t
  BY <1>1, <1>5
<1>9. token # Len(tokens)
  <2>1. token \in Int /\ Len(tokens) \in Int /\ token + 1 <= Len(tokens)
    BY <1>1
  <2>. QED  BY <2>1
<1>10. EofEnds(tokens')
  <2>1. /\ \A n \in DOMAIN tokens : tokens[n].type = "EOF" <=> n = Len(tokens)
        /\ tokens[Len(tokens)].lexeme = << >>
    BY <1>1 DEF EofEnds
  <2>2. Len(tokens) \in DOMAIN tokens
    BY <1>1
  <2>3. tokens'[Len(tokens')].lexeme = << >>
    BY <2>1, <2>2, <1>6, <1>7, <1>9
  <2>4. ASSUME NEW n \in DOMAIN tokens' PROVE tokens'[n].type = "EOF" <=> n = Len(tokens')
    <3>1. tokens'[n].type = tokens[n].type
      BY <1>4, <1>6, <1>7, <1>8
    <3>. QED  BY <3>1, <2>1, <1>6
  <2>. QED  BY <2>3, <2>4, <1>6 DEF EofEnds
<1>11. \/ token' = token + 1
       \/ token' = token /\ status' # "running"
  BY DEF BeginInstruction, FailOrCrash, Exit
<1>12. status' = "running" => \A n \in DOMAIN tokens' : token' <= n => Named(tokens'[n])
  BY <1>1, <1>2, <1>6, <1>7, <1>11
<1>. QED  BY <1>1, <1>6, <1>10, <1>11, <1>12

-----------------------------------------------------------------------------
(* The handlers.                                                            *)

(* The calls of each kind of instruction.                                   *)
LEMMA HandlerIs ==
  ASSUME NEW m \in AllMnemonics
  PROVE
    \/ m \in R3Mnemonics /\ Handler(m) = << "reg", "COMMA", "reg", "COMMA", "reg" >>
    \/ m \in MemMnemonics /\ Handler(m) = << "reg", "COMMA", "offset", "LPAREN", "reg", "RPAREN" >>
    \/ m \in R1OpMnemonics /\ Handler(m) = << "reg", "COMMA", "operand" >>
    \/ m \in {"MV", "NOT", "SEQZ", "SNEZ"} /\ Handler(m) = << "reg", "COMMA", "reg" >>
    \/ m = "J" /\ Handler(m) = << "identifier" >>
    \/ m = "JR" /\ Handler(m) = << "reg" >>
    \/ m \in {"RET", "NOP", "FENCE", "ECALL", "EBREAK"} /\ Handler(m) = << >>
    \/ m \in R2OpMnemonics \ {"FENCE", "ECALL", "EBREAK"} /\ Handler(m) = << "reg", "COMMA", "reg", "COMMA", "operand" >>
<1>1. ASSUME m \in R3Mnemonics PROVE Handler(m) = << "reg", "COMMA", "reg", "COMMA", "reg" >>
  BY <1>1 DEF Handler, R3Mnemonics, MemMnemonics, R1OpMnemonics
<1>2. ASSUME m \in MemMnemonics PROVE Handler(m) = << "reg", "COMMA", "offset", "LPAREN", "reg", "RPAREN" >>
  BY <1>2 DEF Handler, R3Mnemonics, MemMnemonics, R1OpMnemonics
<1>3. ASSUME m \in R1OpMnemonics PROVE Handler(m) = << "reg", "COMMA", "operand" >>
  BY <1>3 DEF Handler, R3Mnemonics, MemMnemonics, R1OpMnemonics
<1>4. ASSUME m \in {"MV", "NOT", "SEQZ", "SNEZ"} PROVE Handler(m) = << "reg", "COMMA", "reg" >>
  BY <1>4 DEF Handler, R3Mnemonics, MemMnemonics, R1OpMnemonics
<1>5. ASSUME m = "J" PROVE Handler(m) = << "identifier" >>
  BY <1>5 DEF Handler, R3Mnemonics, MemMnemonics, R1OpMnemonics
<1>6. ASSUME m = "JR" PROVE Handler(m) = << "reg" >>
  BY <1>6 DEF Handler, R3Mnemonics, MemMnemonics, R1OpMnemonics
<1>7. ASSUME m \in {"RET", "NOP", "FENCE", "ECALL", "EBREAK"} PROVE Handler(m) = << >>
  BY <1>7 DEF Handler, R3Mnemonics, MemMnemonics, R1OpMnemonics
<1>8. ASSUME m \in R2OpMnemonics \ {"FENCE", "ECALL", "EBREAK"} PROVE Handler(m) = << "reg", "COMMA", "reg", "COMMA", "operand" >>
  BY <1>8 DEF Handler, R3Mnemonics, MemMnemonics, R1OpMnemonics, R2OpMnemonics, BranchMnemonics
<1>9. \/ m \in R3Mnemonics
      \/ m \in MemMnemonics
      \/ m \in R1OpMnemonics
      \/ m \in {"MV", "NOT", "SEQZ", "SNEZ"}
      \/ m = "J"
      \/ m = "JR"
      \/ m \in {"RET", "NOP", "FENCE", "ECALL", "EBREAK"}
      \/ m \in R2OpMnemonics \ {"FENCE", "ECALL", "EBREAK"}
  BY DEF AllMnemonics, R2OpMnemonics
<1>. QED  BY <1>1, <1>2, <1>3, <1>4, <1>5, <1>6, <1>7, <1>8, <1>9

(* Values and separators take turns.                                        *)
LEMMA HandlerTurns ==
  ASSUME NEW m \in AllMnemonics
  PROVE  /\ Handler(m) \in Seq(Values \cup Separators)
         /\ \A n \in Nat : 2 * n + 1 <= Len(Handler(m)) => Handler(m)[2 * n + 1] \in Values
         /\ \A n \in Nat : 2 * n + 2 <= Len(Handler(m)) => Handler(m)[2 * n + 2] \in Separators
<1>. DEFINE h == Handler(m)
            Turns(s) == /\ s \in Seq(Values \cup Separators)
                        /\ \A n \in Nat : 2 * n + 1 <= Len(s) => s[2 * n + 1] \in Values
                        /\ \A n \in Nat : 2 * n + 2 <= Len(s) => s[2 * n + 2] \in Separators
<1>1. ASSUME NEW s, s = << "reg", "COMMA", "reg", "COMMA", "reg" >> PROVE Turns(s)
  <2>1. s \in Seq(Values \cup Separators) /\ Len(s) = 5
    BY <1>1 DEF Values, Separators
  <2>2. ASSUME NEW n \in Nat, 2 * n + 1 <= Len(s) PROVE s[2 * n + 1] \in Values
    <3>1. n = 0 \/ n = 1 \/ n = 2
      BY <2>1, <2>2
    <3>. QED  BY <3>1, <1>1 DEF Values
  <2>3. ASSUME NEW n \in Nat, 2 * n + 2 <= Len(s) PROVE s[2 * n + 2] \in Separators
    <3>1. n = 0 \/ n = 1
      BY <2>1, <2>3
    <3>. QED  BY <3>1, <1>1 DEF Separators
  <2>. QED  BY <2>1, <2>2, <2>3
<1>2. ASSUME NEW s, s = << "reg", "COMMA", "offset", "LPAREN", "reg", "RPAREN" >> PROVE Turns(s)
  <2>1. s \in Seq(Values \cup Separators) /\ Len(s) = 6
    BY <1>2 DEF Values, Separators
  <2>2. ASSUME NEW n \in Nat, 2 * n + 1 <= Len(s) PROVE s[2 * n + 1] \in Values
    <3>1. n = 0 \/ n = 1 \/ n = 2
      BY <2>1, <2>2
    <3>. QED  BY <3>1, <1>2 DEF Values
  <2>3. ASSUME NEW n \in Nat, 2 * n + 2 <= Len(s) PROVE s[2 * n + 2] \in Separators
    <3>1. n = 0 \/ n = 1 \/ n = 2
      BY <2>1, <2>3
    <3>. QED  BY <3>1, <1>2 DEF Separators
  <2>. QED  BY <2>1, <2>2, <2>3
<1>3. ASSUME NEW s, s = << "reg", "COMMA", "operand" >> PROVE Turns(s)
  <2>1. s \in Seq(Values \cup Separators) /\ Len(s) = 3
    BY <1>3 DEF Values, Separators
  <2>2. ASSUME NEW n \in Nat, 2 * n + 1 <= Len(s) PROVE s[2 * n + 1] \in Values
    <3>1. n = 0 \/ n = 1
      BY <2>1, <2>2
    <3>. QED  BY <3>1, <1>3 DEF Values
  <2>3. ASSUME NEW n \in Nat, 2 * n + 2 <= Len(s) PROVE s[2 * n + 2] \in Separators
    <3>1. n = 0
      BY <2>1, <2>3
    <3>. QED  BY <3>1, <1>3 DEF Separators
  <2>. QED  BY <2>1, <2>2, <2>3
<1>4. ASSUME NEW s, s = << "reg", "COMMA", "reg" >> PROVE Turns(s)
  <2>1. s \in Seq(Values \cup Separators) /\ Len(s) = 3
    BY <1>4 DEF Values, Separators
  <2>2. ASSUME NEW n \in Nat, 2 * n + 1 <= Len(s) PROVE s[2 * n + 1] \in Values
    <3>1. n = 0 \/ n = 1
      BY <2>1, <2>2
    <3>. QED  BY <3>1, <1>4 DEF Values
  <2>3. ASSUME NEW n \in Nat, 2 * n + 2 <= Len(s) PROVE s[2 * n + 2] \in Separators
    <3>1. n = 0
      BY <2>1, <2>3
    <3>. QED  BY <3>1, <1>4 DEF Separators
  <2>. QED  BY <2>1, <2>2, <2>3
<1>5. ASSUME NEW s, s = << "identifier" >> PROVE Turns(s)
  <2>1. s \in Seq(Values \cup Separators) /\ Len(s) = 1
    BY <1>5 DEF Values, Separators
  <2>2. ASSUME NEW n \in Nat, 2 * n + 1 <= Len(s) PROVE s[2 * n + 1] \in Values
    <3>1. n = 0
      BY <2>1, <2>2
    <3>. QED  BY <3>1, <1>5 DEF Values
  <2>3. ASSUME NEW n \in Nat, 2 * n + 2 <= Len(s) PROVE s[2 * n + 2] \in Separators
    BY <2>1, <2>3
  <2>. QED  BY <2>1, <2>2, <2>3
<1>6. ASSUME NEW s, s = << "reg" >> PROVE Turns(s)
  <2>1. s \in Seq(Values \cup Separators) /\ Len(s) = 1
    BY <1>6 DEF Values, Separators
  <2>2. ASSUME NEW n \in Nat, 2 * n + 1 <= Len(s) PROVE s[2 * n + 1] \in Values
    <3>1. n = 0
      BY <2>1, <2>2
    <3>. QED  BY <3>1, <1>6 DEF Values
  <2>3. ASSUME NEW n \in Nat, 2 * n + 2 <= Len(s) PROVE s[2 * n + 2] \in Separators
    BY <2>1, <2>3
  <2>. QED  BY <2>1, <2>2, <2>3
<1>7. ASSUME NEW s, s = << >> PROVE Turns(s)
  <2>1. s \in Seq(Values \cup Separators) /\ Len(s) = 0
    BY <1>7 DEF Values, Separators
  <2>2. ASSUME NEW n \in Nat, 2 * n + 1 <= Len(s) PROVE s[2 * n + 1] \in Values
    BY <2>1, <2>2
  <2>3. ASSUME NEW n \in Nat, 2 * n + 2 <= Len(s) PROVE s[2 * n + 2] \in Separators
    BY <2>1, <2>3
  <2>. QED  BY <2>1, <2>2, <2>3
<1>8. ASSUME NEW s, s = << "reg", "COMMA", "reg", "COMMA", "operand" >> PROVE Turns(s)
  <2>1. s \in Seq(Values \cup Separators) /\ Len(s) = 5
    BY <1>8 DEF Values, Separators
  <2>2. ASSUME NEW n \in Nat, 2 * n + 1 <= Len(s) PROVE s[2 * n + 1] \in Values
    <3>1. n = 0 \/ n = 1 \/ n = 2
      BY <2>1, <2>2
    <3>. QED  BY <3>1, <1>8 DEF Values
  <2>3. ASSUME NEW n \in Nat, 2 * n + 2 <= Len(s) PROVE s[2 * n + 2] \in Separators
    <3>1. n = 0 \/ n = 1
      BY <2>1, <2>3
    <3>. QED  BY <3>1, <1>8 DEF Separators
  <2>. QED  BY <2>1, <2>2, <2>3
<1>. HIDE DEF Turns
<1>9. Turns(h)
  BY HandlerIs, <1>1, <1>2, <1>3, <1>4, <1>5, <1>6, <1>7, <1>8
<1>. QED  BY <1>9 DEF Turns

(* A handler about to make a call: it is at one of its own, at the one that *)
(* appends the element, or at the one that ends the line.                   *)
LEMMA CallingFacts ==
  ASSUME CompilerInv, NEW call, Calling(call), NEW h, h = Handler(mnemonic)
  PROVE  /\ At("parse") /\ pc = "parse" /\ mnemonic \in AllMnemonics /\ h \in Seq(Values \cup Separators)
         /\ Len(h) \in Nat
         /\ \/ calls = << "NEWLINE" >> /\ call = "NEWLINE" /\ Tail(calls) = << >>
            \/ \E p \in 0 .. Len(h) : 
                 /\ Made(p, h)
                 /\ p = Len(h) => call = "append" /\ Tail(calls) = << "NEWLINE" >>
                 /\ p < Len(h) =>
                      /\ call = h[p + 1]
                      /\ Tail(calls) = SubSeq(h \o << "append", "NEWLINE" >>, p + 2, Len(h) + 2)
<1>. DEFINE C == h \o << "append", "NEWLINE" >>
            S == Values \cup Separators \cup {"append", "NEWLINE"}
<1>1. /\ At("parse") /\ calls # << >> /\ Head(calls) = call /\ pc = "parse" /\ mnemonic \in AllMnemonics
      /\ calls = << "NEWLINE" >> \/ \E p \in 0 .. Len(h) : Made(p, h)
  BY DEF Calling, At, CompilerInv, CallsInv
<1>2. h \in Seq(Values \cup Separators)
  BY <1>1, HandlerTurns
<1>3. Len(h) \in Nat
  BY <1>2
<1>4. << "append", "NEWLINE" >> \in Seq(S) /\ h \in Seq(S) /\ Len(<< "append", "NEWLINE" >>) = 2
  BY <1>2
<1>5. C \in Seq(S) /\ Len(C) = Len(h) + 2
  BY <1>4
<1>6. C[Len(h) + 1] = "append" /\ C[Len(h) + 2] = "NEWLINE" /\ \A n \in 1 .. Len(h) : C[n] = h[n]
  BY <1>2, <1>3, <1>4
<1>. HIDE DEF C
<1>7. CASE calls = << "NEWLINE" >>
  <2>1. Head(calls) = "NEWLINE" /\ Tail(calls) = << >>
    BY <1>7
  <2>. QED  BY <1>1, <1>2, <1>3, <1>7, <2>1
<1>8. ASSUME NEW p \in 0 .. Len(h), Made(p, h)
      PROVE  /\ p = Len(h) => call = "append" /\ Tail(calls) = << "NEWLINE" >>
             /\ p < Len(h) => call = h[p + 1] /\ Tail(calls) = SubSeq(C, p + 2, Len(h) + 2)
  <2>1. calls = SubSeq(C, p + 1, Len(C))
    BY <1>5, <1>8 DEF Made, C
  <2>2. p + 1 \in 1 .. Len(C) /\ (p + 1) + 1 = p + 2
    BY <1>3, <1>5
  <2>3. Head(calls) = C[p + 1] /\ Tail(calls) = SubSeq(C, (p + 1) + 1, Len(C))
    <3>1. Len(C) \in p + 1 .. Len(C)
      BY <1>3, <1>5
    <3>. QED  BY <1>5, <2>1, <2>2, <3>1, HeadTailOfSubSeq
  <2>4. CASE p = Len(h)
    <3>1. Head(calls) = "append"
      BY <1>6, <2>3, <2>4
    <3>2. Tail(calls) = SubSeq(C, Len(h) + 2, Len(h) + 2)
      BY <1>5, <2>2, <2>3, <2>4
    <3>3. /\ SubSeq(C, Len(h) + 2, Len(h) + 2) \in Seq(S)
          /\ Len(SubSeq(C, Len(h) + 2, Len(h) + 2)) = 1
          /\ SubSeq(C, Len(h) + 2, Len(h) + 2)[1] = C[Len(h) + 2]
      BY <1>3, <1>5
    <3>4. SubSeq(C, Len(h) + 2, Len(h) + 2) = << "NEWLINE" >>
      <4>. DEFINE last == SubSeq(C, Len(h) + 2, Len(h) + 2)
      <4>1. last \in Seq(S) /\ Len(last) = 1 /\ last[1] = "NEWLINE"
        BY <1>6, <3>3
      <4>2. << "NEWLINE" >> \in Seq(S) /\ Len(<< "NEWLINE" >>) = 1 /\ << "NEWLINE" >>[1] = "NEWLINE"
        OBVIOUS
      <4>. HIDE DEF last
      <4>3. \A n \in 1 .. Len(last) : last[n] = << "NEWLINE" >>[n]
        BY <4>1, <4>2
      <4>4. last = << "NEWLINE" >>
        BY <4>1, <4>2, <4>3, SeqEqual
      <4>. QED  BY <4>4 DEF last
    <3>5. ~(p < Len(h))
      BY <1>3, <2>4
    <3>. QED  BY <1>1, <2>4, <3>1, <3>2, <3>4, <3>5
  <2>5. CASE p < Len(h)
    <3>1. Head(calls) = h[p + 1]
      BY <1>3, <1>6, <2>3, <2>5
    <3>2. Tail(calls) = SubSeq(C, p + 2, Len(h) + 2)
      BY <1>5, <2>2, <2>3
    <3>. QED  BY <1>1, <1>3, <2>5, <3>1, <3>2
  <2>6. p = Len(h) \/ p < Len(h)
    BY <1>3
  <2>. QED  BY <2>4, <2>5, <2>6
<1>. QED  BY <1>1, <1>2, <1>3, <1>7, <1>8 DEF C

(* Which of its calls a handler makes next.                                 *)
LEMMA PlaceOfCall ==
  ASSUME NEW m \in AllMnemonics, NEW h, h = Handler(m), NEW p \in 0 .. Len(h) - 1
  PROVE  /\ h[p + 1] \in Values <=> (p + 2) \div 2 = (p + 1) \div 2 + 1
         /\ h[p + 1] \in Separators <=> (p + 2) \div 2 = (p + 1) \div 2
         /\ h[p + 1] \in Values => 2 * ((p + 2) \div 2) - 1 = p + 1
<1>1. /\ h \in Seq(Values \cup Separators)
      /\ \A n \in Nat : 2 * n + 1 <= Len(h) => h[2 * n + 1] \in Values
      /\ \A n \in Nat : 2 * n + 2 <= Len(h) => h[2 * n + 2] \in Separators
  BY HandlerTurns
<1>2. Len(h) \in Nat /\ p \in Nat /\ p + 1 <= Len(h)
  BY <1>1
<1>3. Values \cap Separators = {}
  BY DEF Values, Separators
<1>4. PICK n \in Nat : p = 2 * n \/ p = 2 * n + 1
  <2>1. p = 2 * (p \div 2) \/ p = 2 * (p \div 2) + 1
    BY <1>2
  <2>2. p \div 2 \in Nat
    BY <1>2
  <2>. QED  BY <2>1, <2>2
<1>5. CASE p = 2 * n
  <2>1. h[p + 1] \in Values
    BY <1>1, <1>2, <1>5
  <2>2. (p + 2) \div 2 = n + 1 /\ (p + 1) \div 2 = n
    BY <1>5
  <2>. QED  BY <1>3, <1>5, <2>1, <2>2
<1>6. CASE p = 2 * n + 1
  <2>1. p + 1 = 2 * n + 2
    BY <1>6
  <2>2. h[p + 1] \in Separators
    BY <1>1, <1>2, <2>1
  <2>3. (p + 2) \div 2 = n + 1 /\ (p + 1) \div 2 = n + 1
    BY <1>6
  <2>. QED  BY <1>3, <1>6, <2>2, <2>3
<1>. QED  BY <1>4, <1>5, <1>6

(* A call that returns takes its handler one call further.                  *)
LEMMA ReturnStep ==
  ASSUME NEW m \in AllMnemonics, NEW h, h = Handler(m), NEW p \in 0 .. Len(h) - 1, Made(p, h),
         Tail(calls) = SubSeq(h \o << "append", "NEWLINE" >>, p + 2, Len(h) + 2),
         NEW values, NEW width, Return(values, width),
         \/ h[p + 1] \in Separators /\ values = << >>
         \/ h[p + 1] \in Values /\ \E v \in Returned(h[p + 1]) : values = << v >>
  PROVE  Made(p + 1, h)'
<1>. DEFINE A == Registers \cup Immediate \cup Target
<1>1. h \in Seq(Values \cup Separators) /\ Len(h) \in Nat
  BY HandlerTurns
<1>2. /\ args \in Seq(A) /\ Len(args) = (p + 1) \div 2
      /\ \A n \in DOMAIN args : args[n] \in Returned(h[2 * n - 1])
  BY DEF Made
<1>3. args' = args \o values /\ calls' = Tail(calls)
  BY DEF Return
<1>4. (p + 1) + 1 = p + 2
  BY <1>1
<1>5. calls' = SubSeq(h \o << "append", "NEWLINE" >>, (p + 1) + 1, Len(h) + 2)
  BY <1>3, <1>4
<1>6. CASE h[p + 1] \in Separators /\ values = << >>
  <2>1. args' = args
    BY <1>2, <1>3, <1>6
  <2>2. (p + 2) \div 2 = (p + 1) \div 2
    BY <1>6, PlaceOfCall
  <2>. QED  BY <1>2, <1>4, <1>5, <2>1, <2>2 DEF Made
<1>7. ASSUME h[p + 1] \in Values, NEW v \in Returned(h[p + 1]), values = << v >>
      PROVE  Made(p + 1, h)'
  <2>1. v \in A
    BY <1>7 DEF Returned
  <2>2. (p + 2) \div 2 = (p + 1) \div 2 + 1 /\ 2 * ((p + 2) \div 2) - 1 = p + 1
    BY <1>7, PlaceOfCall
  <2>. DEFINE c == (p + 1) \div 2
  <2>3. c \in Nat
    BY <1>1
  <2>. HIDE DEF A, c
  <2>4. args' = Append(args, v)
    BY <1>2, <1>3, <1>7, <2>1
  <2>5. args' \in Seq(A) /\ Len(args') = c + 1 /\ DOMAIN args' = 1 .. c + 1
    BY <1>2, <2>1, <2>3, <2>4 DEF c
  <2>6. DOMAIN args = 1 .. c /\ \A n \in 1 .. c : args'[n] = args[n]
    BY <1>2, <2>1, <2>3, <2>4 DEF c
  <2>7. args'[c + 1] = v
    BY <1>2, <2>1, <2>3, <2>4 DEF c
  <2>8. c + 1 = (p + 2) \div 2
    BY <2>2 DEF c
  <2>9. ASSUME NEW n \in DOMAIN args' PROVE args'[n] \in Returned(h[2 * n - 1])
    <3>1. CASE n \in 1 .. c
      BY <3>1, <1>2, <2>6
    <3>2. CASE n = c + 1
      <4>1. 2 * n - 1 = p + 1
        BY <3>2, <2>2, <2>8
      <4>. QED  BY <3>2, <4>1, <2>7
    <3>. QED  BY <3>1, <3>2, <2>3, <2>5
  <2>. QED  BY <1>4, <1>5, <2>5, <2>8, <2>9 DEF Made, A
<1>. QED  BY <1>6, <1>7

(* A call that asks for a register, a number or a name returns one, and     *)
(* moves on to a token that is there; or the process stops where it is.     *)
LEMMA CallReturns ==
  ASSUME CompilerInv, ConsumeToken \/ Reg \/ Operand \/ Offset \/ JumpTarget
  PROVE  \/ UNCHANGED << parserVars, pc >>
         \/ \E call, values, width :
              /\ Calling(call) /\ Return(values, width)
              /\ width \in Nat /\ token + width \in 1 .. Len(tokens)
              /\ \/ call \in Separators \cup {"NEWLINE"} /\ values = << >>
                 \/ call \in Values /\ \E v \in Returned(call) : values = << v >>
<1>0. At("parse")
  BY DEF ConsumeToken, Reg, Operand, Offset, JumpTarget, Calling
<1>1. /\ tokens \in Seq(Tokens) /\ Len(tokens) \in Nat /\ token \in 1 .. Len(tokens)
      /\ tokens[token] \in Tokens /\ Named(tokens[token])
  BY <1>0, TokenFacts
<1>2. Type # "EOF" =>
        /\ token + 1 \in 1 .. Len(tokens)
        /\ Named(tokens[token + 1])
        /\ tokens[token + 1].type # "EOF" => token + 2 \in 1 .. Len(tokens)
  BY <1>0, TokenFacts
<1>3. Type = "EOF" => Lexeme = << >>
  BY <1>0, TokenFacts
<1>. DEFINE Stays == UNCHANGED << parserVars, pc >>
            Goes(call, values, width) ==
              /\ Calling(call) /\ Return(values, width)
              /\ width \in Nat /\ token + width \in 1 .. Len(tokens)
              /\ \/ call \in Separators \cup {"NEWLINE"} /\ values = << >>
                 \/ call \in Values /\ \E v \in Returned(call) : values = << v >>
<1>4. ASSUME NEW call \in {"operand", "offset"}, Calling(call), StartsNumber, Number
      PROVE  Stays \/ \E values, width : Goes(call, values, width)
  <2>. DEFINE minus == Type = "MINUS"
              digits == tokens[IF minus THEN token + 1 ELSE token]
              value == Numerals[digits.lexeme[1]]
              v == [is |-> "imm", imm |-> IF minus THEN -value ELSE value]
              width == IF minus THEN 2 ELSE 1
  <2>1. Type # "EOF"
    BY <1>4 DEF StartsNumber
  <2>2. CASE digits.type = "DECIMAL"
    <3>1. Return(<< v >>, width)
      BY <1>4, <2>2 DEF Number
    <3>2. Named(digits)
      BY <1>1, <1>2, <2>1
    <3>3. value \in Nat
      BY <2>2, <3>2, RunsAssumption DEF Named
    <3>4. v \in Immediate
      BY <3>3 DEF Immediate
    <3>5. v \in Returned(call) /\ call \in Values
      BY <3>4, <1>4 DEF Returned, Values
    <3>6. width \in Nat /\ token + width \in 1 .. Len(tokens)
      BY <1>2, <2>1, <2>2
    <3>. HIDE DEF width, v
    <3>7. Goes(call, << v >>, width)
      BY <1>4, <3>1, <3>5, <3>6
    <3>. QED  BY <3>7
  <2>3. CASE digits.type # "DECIMAL"
    BY <1>4, <2>3 DEF Number, Exit, parserVars
  <2>. QED  BY <2>2, <2>3
<1>5. ASSUME NEW call \in {"operand", "identifier"}, Calling(call), Identifier
      PROVE  Stays \/ \E values, width : Goes(call, values, width)
  <2>. DEFINE v == [is |-> "label", label |-> Lexeme]
  <2>1. CASE Type = "IDENTIFIER"
    <3>1. Return(<< v >>, 1)
      BY <1>5, <2>1 DEF Identifier, Consume
    <3>2. Lexeme \in Labels
      BY <1>1, <2>1 DEF Named, Type, Lexeme
    <3>3. v \in Returned(call) /\ call \in Values
      BY <1>5, <3>2 DEF Target, Returned, Values
    <3>4. token + 1 \in 1 .. Len(tokens)
      BY <1>2, <2>1
    <3>. HIDE DEF v
    <3>5. Goes(call, << v >>, 1)
      BY <1>5, <3>1, <3>3, <3>4
    <3>. QED  BY <3>5
  <2>2. CASE Type # "IDENTIFIER"
    BY <1>5, <2>2 DEF Identifier, Consume, Exit
  <2>. QED  BY <2>1, <2>2
<1>6. ASSUME ConsumeToken PROVE Stays \/ \E call, values, width : Goes(call, values, width)
  <2>1. PICK type \in {"COMMA", "LPAREN", "RPAREN", "NEWLINE"} : Calling(type) /\ Consume(type, << >>)
    BY <1>6 DEF ConsumeToken
  <2>2. CASE Type = type
    <3>1. Return(<< >>, 1)
      BY <2>1, <2>2 DEF Consume
    <3>2. token + 1 \in 1 .. Len(tokens)
      BY <1>2, <2>1, <2>2
    <3>3. type \in Separators \cup {"NEWLINE"}
      BY <2>1 DEF Separators
    <3>4. Goes(type, << >>, 1)
      BY <2>1, <3>1, <3>2, <3>3
    <3>. QED  BY <3>4
  <2>3. CASE Type # type
    BY <2>1, <2>3 DEF Consume, Exit
  <2>. QED  BY <2>2, <2>3
<1>7. ASSUME Reg PROVE Stays \/ \E call, values, width : Goes(call, values, width)
  <2>1. CASE IsRegister(Lexeme)
    <3>1. Calling("reg") /\ Return(<< RegisterNumber(Lexeme) >>, 1)
      BY <1>7, <2>1 DEF Reg
    <3>2. RegisterNumber(Lexeme) \in Registers
      <4>1. \/ Len(Lexeme) = 1
            \/ Lexeme[2] \in Digits /\ Numerals[Lexeme[2]] <= 31
        BY <2>1 DEF IsRegister
      <4>2. CASE Len(Lexeme) = 1
        BY <4>2, NamesAssumption DEF RegisterNumber
      <4>3. CASE Len(Lexeme) # 1
        <5>1. Lexeme[2] \in Digits /\ Numerals[Lexeme[2]] <= 31
          BY <4>1, <4>3
        <5>2. Numerals[Lexeme[2]] \in Nat
          BY <5>1, RunsAssumption
        <5>3. RegisterNumber(Lexeme) = Numerals[Lexeme[2]]
          BY <4>3 DEF RegisterNumber
        <5>4. Numerals[Lexeme[2]] \in 0 .. 31
          BY <5>1, <5>2
        <5>. QED  BY <5>3, <5>4, NamesAssumption
      <4>. QED  BY <4>2, <4>3
    <3>3. RegisterNumber(Lexeme) \in Returned("reg") /\ "reg" \in Values
      BY <3>2 DEF Returned, Values
    <3>4. Type # "EOF"
      BY <1>3, <2>1 DEF IsRegister
    <3>5. token + 1 \in 1 .. Len(tokens)
      BY <1>2, <3>4
    <3>6. Goes("reg", << RegisterNumber(Lexeme) >>, 1)
      BY <3>1, <3>3, <3>5
    <3>. QED  BY <3>6
  <2>2. CASE ~IsRegister(Lexeme)
    BY <1>7, <2>2 DEF Reg, FailOrCrash, Exit
  <2>. QED  BY <2>1, <2>2
<1>8. ASSUME Operand PROVE Stays \/ \E call, values, width : Goes(call, values, width)
  <2>1. Calling("operand")
    BY <1>8 DEF Operand
  <2>2. CASE StartsNumber
    BY <1>4, <1>8, <2>1, <2>2 DEF Operand
  <2>3. CASE ~StartsNumber /\ Type = "IDENTIFIER"
    BY <1>5, <1>8, <2>1, <2>3 DEF Operand
  <2>4. CASE ~StartsNumber /\ Type # "IDENTIFIER"
    BY <1>8, <2>4 DEF Operand, FailOrCrash, Exit
  <2>. QED  BY <2>2, <2>3, <2>4
<1>9. ASSUME Offset PROVE Stays \/ \E call, values, width : Goes(call, values, width)
  <2>1. Calling("offset")
    BY <1>9 DEF Offset
  <2>2. CASE StartsNumber
    BY <1>4, <1>9, <2>1, <2>2 DEF Offset
  <2>3. CASE ~StartsNumber
    <3>. DEFINE v == [is |-> "imm", imm |-> 0]
    <3>1. Return(<< v >>, 0)
      BY <1>9, <2>3 DEF Offset
    <3>2. v \in Returned("offset") /\ "offset" \in Values
      BY DEF Returned, Immediate, Values
    <3>3. token + 0 \in 1 .. Len(tokens)
      BY <1>1
    <3>. HIDE DEF v
    <3>4. Goes("offset", << v >>, 0)
      BY <2>1, <3>1, <3>2, <3>3
    <3>. QED  BY <3>4
  <2>. QED  BY <2>2, <2>3
<1>10. ASSUME JumpTarget PROVE Stays \/ \E call, values, width : Goes(call, values, width)
  BY <1>5, <1>10 DEF JumpTarget
<1>. HIDE DEF Stays, Goes
<1>11. Stays \/ \E call, values, width : Goes(call, values, width)
  BY <1>6, <1>7, <1>8, <1>9, <1>10
<1>. QED  BY <1>11 DEF Stays, Goes

-----------------------------------------------------------------------------
(* The elements.                                                            *)

(* What a handler has been given by the time it appends its element.        *)
Arguments(m, a) ==
  \/ m \in R3Mnemonics /\ Len(a) = 3 /\ a[1] \in Registers /\ a[2] \in Registers /\ a[3] \in Registers
  \/ m \in MemMnemonics /\ Len(a) = 3 /\ a[1] \in Registers /\ a[2] \in Immediate /\ a[3] \in Registers
  \/ m \in R1OpMnemonics /\ Len(a) = 2 /\ a[1] \in Registers /\ a[2] \in Immediate \cup Target
  \/ m \in {"MV", "NOT", "SEQZ", "SNEZ"} /\ Len(a) = 2 /\ a[1] \in Registers /\ a[2] \in Registers
  \/ m = "J" /\ Len(a) = 1 /\ a[1] \in Target
  \/ m = "JR" /\ Len(a) = 1 /\ a[1] \in Registers
  \/ m \in {"RET", "NOP", "FENCE", "ECALL", "EBREAK"} /\ Len(a) = 0
  \/ m \in R2OpMnemonics \ {"FENCE", "ECALL", "EBREAK"} /\ Len(a) = 3 /\ a[1] \in Registers /\ a[2] \in Registers /\ a[3] \in Immediate \cup Target

(* All its calls made, a handler has every argument it asked for.           *)
LEMMA ArgumentsGiven ==
  ASSUME NEW m \in AllMnemonics, NEW h, h = Handler(m), Made(Len(h), h)
  PROVE  Arguments(m, args)
<1>0. \A n \in DOMAIN args : args[n] \in Returned(h[2 * n - 1])
  BY DEF Made
<1>1. Len(args) = (Len(h) + 1) \div 2
  BY DEF Made
<1>10. DOMAIN args = 1 .. Len(args)
  BY DEF Made
<1>2. ASSUME m \in R3Mnemonics, h = << "reg", "COMMA", "reg", "COMMA", "reg" >> PROVE Arguments(m, args)
  <2>1. Len(h) = 5 /\ h[1] = "reg" /\ h[3] = "reg" /\ h[5] = "reg"
    BY <1>2
  <2>2. Len(args) = 3
    BY <1>1, <2>1
  <2>3. args[1] \in Registers
    <3>1. 1 \in DOMAIN args /\ 2 * 1 - 1 = 1
      BY <1>10, <2>2
    <3>2. args[1] \in Returned(h[1])
      BY <1>0, <3>1
    <3>. QED  BY <2>1, <3>2 DEF Returned
  <2>4. args[2] \in Registers
    <3>1. 2 \in DOMAIN args /\ 2 * 2 - 1 = 3
      BY <1>10, <2>2
    <3>2. args[2] \in Returned(h[3])
      BY <1>0, <3>1
    <3>. QED  BY <2>1, <3>2 DEF Returned
  <2>5. args[3] \in Registers
    <3>1. 3 \in DOMAIN args /\ 2 * 3 - 1 = 5
      BY <1>10, <2>2
    <3>2. args[3] \in Returned(h[5])
      BY <1>0, <3>1
    <3>. QED  BY <2>1, <3>2 DEF Returned
  <2>. QED  BY <1>2, <2>2, <2>3, <2>4, <2>5 DEF Arguments
<1>3. ASSUME m \in MemMnemonics, h = << "reg", "COMMA", "offset", "LPAREN", "reg", "RPAREN" >> PROVE Arguments(m, args)
  <2>1. Len(h) = 6 /\ h[1] = "reg" /\ h[3] = "offset" /\ h[5] = "reg"
    BY <1>3
  <2>2. Len(args) = 3
    BY <1>1, <2>1
  <2>3. args[1] \in Registers
    <3>1. 1 \in DOMAIN args /\ 2 * 1 - 1 = 1
      BY <1>10, <2>2
    <3>2. args[1] \in Returned(h[1])
      BY <1>0, <3>1
    <3>. QED  BY <2>1, <3>2 DEF Returned
  <2>4. args[2] \in Immediate
    <3>1. 2 \in DOMAIN args /\ 2 * 2 - 1 = 3
      BY <1>10, <2>2
    <3>2. args[2] \in Returned(h[3])
      BY <1>0, <3>1
    <3>. QED  BY <2>1, <3>2 DEF Returned
  <2>5. args[3] \in Registers
    <3>1. 3 \in DOMAIN args /\ 2 * 3 - 1 = 5
      BY <1>10, <2>2
    <3>2. args[3] \in Returned(h[5])
      BY <1>0, <3>1
    <3>. QED  BY <2>1, <3>2 DEF Returned
  <2>. QED  BY <1>3, <2>2, <2>3, <2>4, <2>5 DEF Arguments
<1>4. ASSUME m \in R1OpMnemonics, h = << "reg", "COMMA", "operand" >> PROVE Arguments(m, args)
  <2>1. Len(h) = 3 /\ h[1] = "reg" /\ h[3] = "operand"
    BY <1>4
  <2>2. Len(args) = 2
    BY <1>1, <2>1
  <2>3. args[1] \in Registers
    <3>1. 1 \in DOMAIN args /\ 2 * 1 - 1 = 1
      BY <1>10, <2>2
    <3>2. args[1] \in Returned(h[1])
      BY <1>0, <3>1
    <3>. QED  BY <2>1, <3>2 DEF Returned
  <2>4. args[2] \in Immediate \cup Target
    <3>1. 2 \in DOMAIN args /\ 2 * 2 - 1 = 3
      BY <1>10, <2>2
    <3>2. args[2] \in Returned(h[3])
      BY <1>0, <3>1
    <3>. QED  BY <2>1, <3>2 DEF Returned
  <2>. QED  BY <1>4, <2>2, <2>3, <2>4 DEF Arguments
<1>5. ASSUME m \in {"MV", "NOT", "SEQZ", "SNEZ"}, h = << "reg", "COMMA", "reg" >> PROVE Arguments(m, args)
  <2>1. Len(h) = 3 /\ h[1] = "reg" /\ h[3] = "reg"
    BY <1>5
  <2>2. Len(args) = 2
    BY <1>1, <2>1
  <2>3. args[1] \in Registers
    <3>1. 1 \in DOMAIN args /\ 2 * 1 - 1 = 1
      BY <1>10, <2>2
    <3>2. args[1] \in Returned(h[1])
      BY <1>0, <3>1
    <3>. QED  BY <2>1, <3>2 DEF Returned
  <2>4. args[2] \in Registers
    <3>1. 2 \in DOMAIN args /\ 2 * 2 - 1 = 3
      BY <1>10, <2>2
    <3>2. args[2] \in Returned(h[3])
      BY <1>0, <3>1
    <3>. QED  BY <2>1, <3>2 DEF Returned
  <2>. QED  BY <1>5, <2>2, <2>3, <2>4 DEF Arguments
<1>6. ASSUME m = "J", h = << "identifier" >> PROVE Arguments(m, args)
  <2>1. Len(h) = 1 /\ h[1] = "identifier"
    BY <1>6
  <2>2. Len(args) = 1
    BY <1>1, <2>1
  <2>3. args[1] \in Target
    <3>1. 1 \in DOMAIN args /\ 2 * 1 - 1 = 1
      BY <1>10, <2>2
    <3>2. args[1] \in Returned(h[1])
      BY <1>0, <3>1
    <3>. QED  BY <2>1, <3>2 DEF Returned
  <2>. QED  BY <1>6, <2>2, <2>3 DEF Arguments
<1>7. ASSUME m = "JR", h = << "reg" >> PROVE Arguments(m, args)
  <2>1. Len(h) = 1 /\ h[1] = "reg"
    BY <1>7
  <2>2. Len(args) = 1
    BY <1>1, <2>1
  <2>3. args[1] \in Registers
    <3>1. 1 \in DOMAIN args /\ 2 * 1 - 1 = 1
      BY <1>10, <2>2
    <3>2. args[1] \in Returned(h[1])
      BY <1>0, <3>1
    <3>. QED  BY <2>1, <3>2 DEF Returned
  <2>. QED  BY <1>7, <2>2, <2>3 DEF Arguments
<1>8. ASSUME m \in {"RET", "NOP", "FENCE", "ECALL", "EBREAK"}, h = << >> PROVE Arguments(m, args)
  <2>1. Len(h) = 0
    BY <1>8
  <2>2. Len(args) = 0
    BY <1>1, <2>1
  <2>. QED  BY <1>8, <2>2 DEF Arguments
<1>9. ASSUME m \in R2OpMnemonics \ {"FENCE", "ECALL", "EBREAK"}, h = << "reg", "COMMA", "reg", "COMMA", "operand" >> PROVE Arguments(m, args)
  <2>1. Len(h) = 5 /\ h[1] = "reg" /\ h[3] = "reg" /\ h[5] = "operand"
    BY <1>9
  <2>2. Len(args) = 3
    BY <1>1, <2>1
  <2>3. args[1] \in Registers
    <3>1. 1 \in DOMAIN args /\ 2 * 1 - 1 = 1
      BY <1>10, <2>2
    <3>2. args[1] \in Returned(h[1])
      BY <1>0, <3>1
    <3>. QED  BY <2>1, <3>2 DEF Returned
  <2>4. args[2] \in Registers
    <3>1. 2 \in DOMAIN args /\ 2 * 2 - 1 = 3
      BY <1>10, <2>2
    <3>2. args[2] \in Returned(h[3])
      BY <1>0, <3>1
    <3>. QED  BY <2>1, <3>2 DEF Returned
  <2>5. args[3] \in Immediate \cup Target
    <3>1. 3 \in DOMAIN args /\ 2 * 3 - 1 = 5
      BY <1>10, <2>2
    <3>2. args[3] \in Returned(h[5])
      BY <1>0, <3>1
    <3>. QED  BY <2>1, <3>2 DEF Returned
  <2>. QED  BY <1>9, <2>2, <2>3, <2>4, <2>5 DEF Arguments
<1>. QED  BY HandlerIs, <1>2, <1>3, <1>4, <1>5, <1>6, <1>7, <1>8, <1>9

(* Whatever int is put into a bit-field, what is read back fits it and has  *)
(* the same low bits.                                                       *)
LEMMA BitFieldFacts ==
  ASSUME NEW n \in Int
  PROVE  /\ BitField(n, 12) \in Imm12 /\ IsCongruent(BitField(n, 12), n, 12)
         /\ BitField(n, 20) \in Imm20 /\ IsCongruent(BitField(n, 20), n, 20)
<1>1. 2 ^ 12 = 4096 /\ 2 ^ (12 - 1) = 2048 /\ 2 ^ 20 = 1048576 /\ 2 ^ (20 - 1) = 524288
  OBVIOUS
<1>2. BitField(n, 12) \in Imm12 /\ IsCongruent(BitField(n, 12), n, 12)
  <2>. DEFINE bits == n % 4096
              b == IF bits < 2048 THEN bits ELSE bits - 4096
  <2>1. bits \in Int /\ 0 <= bits /\ bits < 4096
    OBVIOUS
  <2>2. BitField(n, 12) = b
    BY <1>1 DEF BitField
  <2>3. b \in Int /\ -2048 <= b /\ b < 2048
    BY <2>1
  <2>4. b % 4096 = bits
    BY <2>1
  <2>. HIDE DEF b
  <2>. QED  BY <1>1, <2>2, <2>3, <2>4 DEF Imm12, IsCongruent
<1>3. BitField(n, 20) \in Imm20 /\ IsCongruent(BitField(n, 20), n, 20)
  <2>. DEFINE bits == n % 1048576
              b == IF bits < 524288 THEN bits ELSE bits - 1048576
  <2>1. bits \in Int /\ 0 <= bits /\ bits < 1048576
    OBVIOUS
  <2>2. BitField(n, 20) = b
    BY <1>1 DEF BitField
  <2>3. b \in Int /\ -524288 <= b /\ b < 524288
    BY <2>1
  <2>4. b % 1048576 = bits
    BY <2>1
  <2>. HIDE DEF b
  <2>. QED  BY <1>1, <2>2, <2>3, <2>4 DEF Imm20, IsCongruent
<1>. QED  BY <1>2, <1>3

(* The low three bits of a small negative number.                           *)
LEMMA LowBits ==
  ASSUME NEW x \in Int, NEW y \in Int, x = y - 8, 0 <= y, y < 8
  PROVE  (x % 8) = y
OBVIOUS

(* The element made of an instruction is one of ir.h's, and means what the  *)
(* instruction says; a pseudo-instruction is checked on every word.         *)
LEMMA ElementFacts ==
  ASSUME mnemonic \in AllMnemonics, Arguments(mnemonic, args)
  PROVE  Element(mnemonic, args) \in InstructionElements /\ Means(Element(mnemonic, args))
<1>. DEFINE m == mnemonic
            e == Element(mnemonic, args)
            Goal == e \in InstructionElements /\ Means(e)
            Pseudo == {"MV", "NOT", "SEQZ", "SNEZ"}
<1>0. X0 \in Registers /\ X1 \in Registers
  BY NamesAssumption DEF X0, X1
<1>1. CASE m \in R3Mnemonics
  <2>1. e = R3(m, args[1], args[2], args[3])
    BY <1>1 DEF Element, R3Op, R3Mnemonics, MemMnemonics, R1OpMnemonics
  <2>2. args[1] \in Registers /\ args[2] \in Registers /\ args[3] \in Registers
    BY <1>1 DEF Arguments, R3Mnemonics, MemMnemonics, R1OpMnemonics, R2OpMnemonics, BranchMnemonics
  <2>3. e \in R3Elements
    BY <1>1, <2>1, <2>2 DEF R3, R3Elements
  <2>4. e.mnemonic = mnemonic /\ e.rd = args[1] /\ e.rs1 = args[2] /\ e.rs2 = args[3]
    BY <2>1 DEF R3
  <2>5. Means(e)
    BY <1>1, <2>4 DEF Means, R3Mnemonics, MemMnemonics, R1OpMnemonics
  <2>. QED  BY <2>3, <2>5 DEF InstructionElements
<1>2. CASE m \in MemMnemonics
  <2>1. e = Mem(m, args[1], args[3], BitField(args[2].imm, 12))
    BY <1>2 DEF Element, R3Mnemonics, MemMnemonics, R1OpMnemonics
  <2>2. args[1] \in Registers /\ args[2] \in Immediate /\ args[3] \in Registers
    BY <1>2 DEF Arguments, R3Mnemonics, MemMnemonics, R1OpMnemonics, R2OpMnemonics, BranchMnemonics
  <2>3. args[2].imm \in Int
    BY <2>2 DEF Immediate
  <2>4. BitField(args[2].imm, 12) \in Imm12 /\ IsCongruent(BitField(args[2].imm, 12), args[2].imm, 12)
    BY <2>3, BitFieldFacts
  <2>5. e \in MemElements
    BY <1>2, <2>1, <2>2, <2>4 DEF Mem, MemElements
  <2>6. /\ e.mnemonic = mnemonic /\ e.rd = args[1] /\ e.rs1 = args[3]
        /\ IsCongruent(e.offset, args[2].imm, 12)
    BY <2>1, <2>4 DEF Mem
  <2>7. Means(e)
    BY <1>2, <2>6 DEF Means, R3Mnemonics, MemMnemonics, R1OpMnemonics
  <2>. QED  BY <2>5, <2>7 DEF InstructionElements
<1>3. CASE m \in R1OpMnemonics
  <2>1. e = R1Op(m, args[1], args[2])
    BY <1>3 DEF Element, R3Mnemonics, MemMnemonics, R1OpMnemonics
  <2>2. Len(args) = 2 /\ args[1] \in Registers /\ args[2] \in Immediate \cup Target
    BY <1>3 DEF Arguments, R3Mnemonics, MemMnemonics, R1OpMnemonics, R2OpMnemonics, BranchMnemonics
  <2>3. CASE args[2].is = "label"
    <3>1. args[2].label \in Labels
      BY <2>2, <2>3 DEF Immediate, Target
    <3>2. e = R1Label(m, args[1], args[2].label)
      BY <2>1, <2>3 DEF R1Op
    <3>3. e \in R1LabelElements
      BY <1>3, <2>2, <3>1, <3>2 DEF R1Label, R1LabelElements
    <3>4. e.mnemonic = mnemonic /\ e.rd = args[1] /\ OperandIs(e, args[2], 20)
      BY <2>3, <3>2 DEF R1Label, OperandIs, HasLabel, HasOperand, IsInstruction
    <3>5. Means(e)
      BY <1>3, <3>4 DEF Means, R3Mnemonics, MemMnemonics, R1OpMnemonics
    <3>. QED  BY <3>3, <3>5 DEF InstructionElements
  <2>4. CASE args[2].is # "label"
    <3>1. args[2].imm \in Int
      BY <2>2, <2>4 DEF Immediate, Target
    <3>2. e = R1Imm(m, args[1], BitField(args[2].imm, 20))
      BY <2>1, <2>4 DEF R1Op
    <3>3. BitField(args[2].imm, 20) \in Imm20 /\ IsCongruent(BitField(args[2].imm, 20), args[2].imm, 20)
      BY <3>1, BitFieldFacts
    <3>4. e \in R1ImmElements
      BY <1>3, <2>2, <3>2, <3>3 DEF R1Imm, R1ImmElements
    <3>5. e.mnemonic = mnemonic /\ e.rd = args[1] /\ OperandIs(e, args[2], 20)
      BY <2>4, <3>2, <3>3 DEF R1Imm, OperandIs, HasImm, HasOperand, IsInstruction
    <3>6. Means(e)
      BY <1>3, <3>5 DEF Means, R3Mnemonics, MemMnemonics, R1OpMnemonics
    <3>. QED  BY <3>4, <3>6 DEF InstructionElements
  <2>. QED  BY <2>3, <2>4
<1>4. CASE m \in R2OpMnemonics \ {"FENCE", "ECALL", "EBREAK"}
  <2>1. e = R2Op(m, args[1], args[2], args[3])
    BY <1>4 DEF Element, R3Mnemonics, MemMnemonics, R1OpMnemonics, R2OpMnemonics, BranchMnemonics
  <2>2. Len(args) = 3 /\ args[1] \in Registers /\ args[2] \in Registers /\ args[3] \in Immediate \cup Target
    BY <1>4 DEF Arguments, R3Mnemonics, MemMnemonics, R1OpMnemonics, R2OpMnemonics, BranchMnemonics
  <2>3. CASE args[3].is = "label"
    <3>1. args[3].label \in Labels
      BY <2>2, <2>3 DEF Immediate, Target
    <3>2. e = R2Label(m, args[1], args[2], args[3].label)
      BY <2>1, <2>3 DEF R2Op
    <3>3. e \in R2LabelElements
      BY <1>4, <2>2, <3>1, <3>2 DEF R2Label, R2LabelElements
    <3>4. e.mnemonic = mnemonic /\ e.rd = args[1] /\ e.rs1 = args[2] /\ OperandIs(e, args[3], 12)
      BY <2>3, <3>2 DEF R2Label, OperandIs, HasLabel, HasOperand, IsInstruction
    <3>5. Means(e)
      BY <1>4, <3>4 DEF Means, R3Mnemonics, MemMnemonics, R1OpMnemonics, R2OpMnemonics, BranchMnemonics
    <3>. QED  BY <3>3, <3>5 DEF InstructionElements
  <2>4. CASE args[3].is # "label"
    <3>1. args[3].imm \in Int
      BY <2>2, <2>4 DEF Immediate, Target
    <3>2. e = R2Imm(m, args[1], args[2], BitField(args[3].imm, 12))
      BY <2>1, <2>4 DEF R2Op
    <3>3. BitField(args[3].imm, 12) \in Imm12 /\ IsCongruent(BitField(args[3].imm, 12), args[3].imm, 12)
      BY <3>1, BitFieldFacts
    <3>4. e \in R2ImmElements
      BY <1>4, <2>2, <3>2, <3>3 DEF R2Imm, R2ImmElements
    <3>5. e.mnemonic = mnemonic /\ e.rd = args[1] /\ e.rs1 = args[2] /\ OperandIs(e, args[3], 12)
      BY <2>4, <3>2, <3>3 DEF R2Imm, OperandIs, HasImm, HasOperand, IsInstruction
    <3>6. Means(e)
      BY <1>4, <3>5 DEF Means, R3Mnemonics, MemMnemonics, R1OpMnemonics, R2OpMnemonics, BranchMnemonics
    <3>. QED  BY <3>4, <3>6 DEF InstructionElements
  <2>. QED  BY <2>3, <2>4
<1>5. CASE m \in {"FENCE", "ECALL", "EBREAK"}
  <2>1. e = R2Imm(m, X0, X0, 0)
    BY <1>5 DEF Element, R3Mnemonics, MemMnemonics, R1OpMnemonics
  <2>2. e \in R2ImmElements
    BY <1>0, <1>5, <2>1 DEF R2Imm, R2ImmElements, R2OpMnemonics, Imm12
  <2>3. e.mnemonic = mnemonic
    BY <2>1 DEF R2Imm
  <2>4. Means(e)
    BY <1>5, <2>3 DEF Means, R3Mnemonics, MemMnemonics, R1OpMnemonics
  <2>. QED  BY <2>2, <2>4 DEF InstructionElements
<1>6. CASE m \in Pseudo
  <2>1. args[1] \in Registers /\ args[2] \in Registers
    BY <1>6 DEF Arguments, R3Mnemonics, MemMnemonics, R1OpMnemonics, R2OpMnemonics, BranchMnemonics
  <2>2. \A v \in Words : v \in Int /\ (v = 0 \/ v = 1 \/ v = 2 \/ v = 3 \/ v = 4 \/ v = 5 \/ v = 6 \/ v = 7)
    BY DEF Words
  <2>3. ASSUME NEW v \in Words, args[2] # X0 \/ v = 0 PROVE Holds(args[2], args[2], v) = v
    BY <2>3 DEF Holds
  <2>4. CASE m = "MV"
    <3>1. e = R2Imm("ADDI", args[1], args[2], 0)
      BY <2>4 DEF Element, R3Mnemonics, MemMnemonics, R1OpMnemonics
    <3>2. e \in R2ImmElements /\ e.rd = args[1] /\ e.mnemonic = "ADDI" /\ e.rs1 = args[2] /\ e.imm = 0
      BY <2>1, <3>1 DEF R2Imm, R2ImmElements, R2OpMnemonics, Imm12
    <3>3. ASSUME NEW v \in Words, args[2] # X0 \/ v = 0
          PROVE  Computed(e, args[2], v) = Intended(m, v)
      BY <2>2, <2>3, <2>4, <3>2, <3>3 DEF Computed, Intended
    <3>4. e.rd = args[1] /\ \A v \in Words : args[2] # X0 \/ v = 0 => Computed(e, args[2], v) = Intended(m, v)
      BY <3>2, <3>3
    <3>5. Means(e)
      BY <2>4, <3>4 DEF Means, R3Mnemonics, MemMnemonics, R1OpMnemonics
    <3>. QED  BY <3>2, <3>5 DEF InstructionElements
  <2>5. CASE m = "NOT"
    <3>1. e = R2Imm("XORI", args[1], args[2], -1)
      BY <2>5 DEF Element, R3Mnemonics, MemMnemonics, R1OpMnemonics
    <3>2. e \in R2ImmElements /\ e.rd = args[1] /\ e.mnemonic = "XORI" /\ e.rs1 = args[2] /\ e.imm = -1
      BY <2>1, <3>1 DEF R2Imm, R2ImmElements, R2OpMnemonics, Imm12
    <3>3. ASSUME NEW v \in Words, args[2] # X0 \/ v = 0
          PROVE  Computed(e, args[2], v) = Intended(m, v)
      <4>1. Computed(e, args[2], v) = Xor(v, ((-1) % 8))
        BY <2>3, <3>2, <3>3 DEF Computed
      <4>2. ((-1) % 8) = 7
        <5>1. -1 \in Int /\ 7 \in Int /\ -1 = 7 - 8 /\ 0 <= 7 /\ 7 < 8
          OBVIOUS
        <5>. QED  BY <5>1, LowBits, Zenon
      <4>3. Xor(v, 7) = 7 - v
        BY <2>2 DEF Xor
      <4>. QED  BY <2>5, <4>1, <4>2, <4>3 DEF Intended
    <3>4. e.rd = args[1] /\ \A v \in Words : args[2] # X0 \/ v = 0 => Computed(e, args[2], v) = Intended(m, v)
      BY <3>2, <3>3
    <3>5. Means(e)
      BY <2>5, <3>4 DEF Means, R3Mnemonics, MemMnemonics, R1OpMnemonics
    <3>. QED  BY <3>2, <3>5 DEF InstructionElements
  <2>6. CASE m = "SEQZ"
    <3>1. e = R2Imm("SLTIU", args[1], args[2], 1)
      BY <2>6 DEF Element, R3Mnemonics, MemMnemonics, R1OpMnemonics
    <3>2. e \in R2ImmElements /\ e.rd = args[1] /\ e.mnemonic = "SLTIU" /\ e.rs1 = args[2] /\ e.imm = 1
      BY <2>1, <3>1 DEF R2Imm, R2ImmElements, R2OpMnemonics, Imm12
    <3>3. ASSUME NEW v \in Words, args[2] # X0 \/ v = 0
          PROVE  Computed(e, args[2], v) = Intended(m, v)
      BY <2>2, <2>3, <2>6, <3>2, <3>3 DEF Computed, Intended
    <3>4. e.rd = args[1] /\ \A v \in Words : args[2] # X0 \/ v = 0 => Computed(e, args[2], v) = Intended(m, v)
      BY <3>2, <3>3
    <3>5. Means(e)
      BY <2>6, <3>4 DEF Means, R3Mnemonics, MemMnemonics, R1OpMnemonics
    <3>. QED  BY <3>2, <3>5 DEF InstructionElements
  <2>7. CASE m = "SNEZ"
    <3>1. e = R3("SLTU", args[1], X0, args[2])
      BY <2>7 DEF Element, R3Mnemonics, MemMnemonics, R1OpMnemonics
    <3>2. e \in R3Elements /\ e.rd = args[1] /\ e.mnemonic = "SLTU" /\ e.rs1 = X0 /\ e.rs2 = args[2]
      BY <1>0, <2>1, <3>1 DEF R3, R3Elements, R3Mnemonics
    <3>3. ASSUME NEW v \in Words, args[2] # X0 \/ v = 0
          PROVE  Computed(e, args[2], v) = Intended(m, v)
      <4>1. Computed(e, args[2], v) = IF 0 < v THEN 1 ELSE 0
        BY <2>3, <3>2, <3>3 DEF Computed, Holds
      <4>. QED  BY <2>2, <2>7, <4>1 DEF Intended
    <3>4. e.rd = args[1] /\ \A v \in Words : args[2] # X0 \/ v = 0 => Computed(e, args[2], v) = Intended(m, v)
      BY <3>2, <3>3
    <3>5. Means(e)
      BY <2>7, <3>4 DEF Means, R3Mnemonics, MemMnemonics, R1OpMnemonics
    <3>. QED  BY <3>2, <3>5 DEF InstructionElements
  <2>. QED  BY <1>6, <2>4, <2>5, <2>6, <2>7
<1>7. CASE m = "J"
  <2>1. args[1] \in Target
    BY <1>7 DEF Arguments, R3Mnemonics, MemMnemonics, R1OpMnemonics, R2OpMnemonics, BranchMnemonics
  <2>2. e = R1Label("JAL", X0, args[1].label)
    BY <1>7 DEF Element, R3Mnemonics, MemMnemonics, R1OpMnemonics
  <2>3. e \in R1LabelElements
    BY <1>0, <2>1, <2>2 DEF R1Label, R1LabelElements, R1OpMnemonics, Target
  <2>4. e.mnemonic = "JAL" /\ e.rd = X0 /\ HasLabel(e) /\ e.label = args[1].label
    BY <2>2 DEF R1Label, HasLabel, HasOperand, IsInstruction
  <2>5. Means(e)
    BY <1>7, <2>4 DEF Means, R3Mnemonics, MemMnemonics, R1OpMnemonics
  <2>. QED  BY <2>3, <2>5 DEF InstructionElements
<1>8. CASE m = "JR"
  <2>1. args[1] \in Registers
    BY <1>8 DEF Arguments, R3Mnemonics, MemMnemonics, R1OpMnemonics, R2OpMnemonics, BranchMnemonics
  <2>2. e = R2Imm("JALR", X0, args[1], 0)
    BY <1>8 DEF Element, R3Mnemonics, MemMnemonics, R1OpMnemonics
  <2>3. e \in R2ImmElements /\ JumpsThrough(e, args[1])
    BY <1>0, <2>1, <2>2 DEF R2Imm, R2ImmElements, R2OpMnemonics, Imm12, JumpsThrough,
        HasImm, HasOperand, IsInstruction
  <2>4. Means(e)
    BY <1>8, <2>3 DEF Means, R3Mnemonics, MemMnemonics, R1OpMnemonics
  <2>. QED  BY <2>3, <2>4 DEF InstructionElements
<1>9. CASE m = "RET"
  <2>1. e = R2Imm("JALR", X0, X1, 0)
    BY <1>9 DEF Element, R3Mnemonics, MemMnemonics, R1OpMnemonics
  <2>2. e \in R2ImmElements /\ JumpsThrough(e, X1)
    BY <1>0, <2>1 DEF R2Imm, R2ImmElements, R2OpMnemonics, Imm12, JumpsThrough,
        HasImm, HasOperand, IsInstruction
  <2>3. Means(e)
    BY <1>9, <2>2 DEF Means, R3Mnemonics, MemMnemonics, R1OpMnemonics
  <2>. QED  BY <2>2, <2>3 DEF InstructionElements
<1>10. CASE m = "NOP"
  <2>1. e = R2Imm("ADDI", X0, X0, 0)
    BY <1>10 DEF Element, R3Mnemonics, MemMnemonics, R1OpMnemonics
  <2>2. /\ e \in R2ImmElements
        /\ e.mnemonic = "ADDI" /\ e.rd = X0 /\ e.rs1 = X0 /\ HasImm(e) /\ e.imm = 0
    BY <1>0, <2>1 DEF R2Imm, R2ImmElements, R2OpMnemonics, Imm12, HasImm, HasOperand, IsInstruction
  <2>3. Means(e)
    BY <1>10, <2>2 DEF Means, R3Mnemonics, MemMnemonics, R1OpMnemonics
  <2>. QED  BY <2>2, <2>3 DEF InstructionElements
<1>11. \/ m \in R3Mnemonics \/ m \in MemMnemonics \/ m \in R1OpMnemonics
       \/ m \in R2OpMnemonics \ {"FENCE", "ECALL", "EBREAK"} \/ m \in {"FENCE", "ECALL", "EBREAK"}
       \/ m \in Pseudo \/ m = "J" \/ m = "JR" \/ m = "RET" \/ m = "NOP"
  BY DEF AllMnemonics, R2OpMnemonics
<1>. QED  BY <1>1, <1>2, <1>3, <1>4, <1>5, <1>6, <1>7, <1>8, <1>9, <1>10, <1>11

-----------------------------------------------------------------------------
(* The steps.                                                               *)

(* Every mnemonic the tries spell is one of these.                          *)
LEMMA MnemonicsFacts ==
  ASSUME NEW x \in DOMAIN Mnemonics
  PROVE  Mnemonics[x] \in AllMnemonics
BY DEF Mnemonics, AllMnemonics, R3Mnemonics, MemMnemonics, R1OpMnemonics, R2OpMnemonics, BranchMnemonics

(* What the invariant says of the parser while it runs.                     *)
ParserInv ==
  /\ token \in 1 .. Len(tokens)
  /\ CallsInv
  /\ ir \in Seq(InstructionElements \cup LabelElements)
  /\ ElementsMeanSource

(* What is said of the last element is the same if nothing it is said of    *)
(* changes.                                                                 *)
LEMMA MeansKept ==
  ASSUME NEW e, Means(e), UNCHANGED << mnemonic, args >>, ir'[Len(ir')] = e
  PROVE  ElementsMeanSource'
BY DEF ElementsMeanSource, Means

(* A call leaves the parser at a token, and the element it may append means *)
(* what was written.                                                        *)
LEMMA CallStep ==
  ASSUME CompilerInv, Call
  PROVE  /\ UNCHANGED << driverVars, scannerVars, tokens, mnemonic, pc >>
         /\ token <= token'
         /\ ParserInv'
<1>0. At("parse") /\ pc = "parse"
  BY DEF Call, ConsumeToken, Reg, Operand, Offset, JumpTarget, AppendElement, Calling, At
<1>1. /\ CallsInv /\ ElementsMeanSource /\ ir \in Seq(InstructionElements \cup LabelElements)
      /\ token \in 1 .. Len(tokens) /\ Len(tokens) \in Nat
  BY <1>0, TokenFacts DEF CompilerInv, ElementsInv
<1>2. UNCHANGED << driverVars, scannerVars, tokens, mnemonic >>
  BY DEF Call
<1>9. PICK h : h = Handler(mnemonic)
  OBVIOUS
<1>10. h = Handler(mnemonic')
  BY <1>2, <1>9
<1>. DEFINE Goal == pc' = pc /\ token <= token' /\ ParserInv'
<1>3. ASSUME UNCHANGED << parserVars, pc >> PROVE Goal
  <2>1. pc' = pc /\ token' = token /\ ir' = ir /\ calls' = calls /\ args' = args
    BY <1>3 DEF parserVars, instructionVars
  <2>2. CallsInv'
    BY <1>1, <1>2, <2>1 DEF CallsInv, Made
  <2>3. ElementsMeanSource'
    BY <1>1, <1>2, <2>1 DEF ElementsMeanSource, Means
  <2>4. token' \in 1 .. Len(tokens') /\ token <= token'
    BY <1>1, <1>2, <2>1
  <2>. QED  BY <1>1, <2>1, <2>2, <2>3, <2>4 DEF ParserInv
<1>4. ASSUME NEW call, NEW values, NEW width, Calling(call), Return(values, width),
             width \in Nat, token + width \in 1 .. Len(tokens),
             \/ call \in Separators \cup {"NEWLINE"} /\ values = << >>
             \/ call \in Values /\ \E v \in Returned(call) : values = << v >>
      PROVE  Goal
  <2>1. calls' = Tail(calls) /\ token' = token + width /\ pc' = pc /\ ir' = ir
    BY <1>4 DEF Return
  <2>2. token' \in 1 .. Len(tokens') /\ token <= token'
    BY <1>1, <1>2, <1>4, <2>1
  <2>3. call # "append"
    BY <1>4 DEF Separators, Values
  <2>4. h \in Seq(Values \cup Separators) /\ Len(h) \in Nat /\ mnemonic \in AllMnemonics
    BY <1>4, <1>9, CallingFacts
  <2>5. CASE calls = << "NEWLINE" >> /\ Tail(calls) = << >>
    <3>1. calls' = << >>
      BY <2>1, <2>5
    <3>2. CallsInv'
      BY <3>1 DEF CallsInv
    <3>3. ElementsMeanSource'
      BY <3>1 DEF ElementsMeanSource
    <3>. QED  BY <1>1, <2>1, <2>2, <3>2, <3>3 DEF ParserInv
  <2>6. ASSUME NEW p \in 0 .. Len(h), Made(p, h), p < Len(h), call = h[p + 1],
               Tail(calls) = SubSeq(h \o << "append", "NEWLINE" >>, p + 2, Len(h) + 2)
        PROVE  Goal
    <3>1. p \in 0 .. Len(h) - 1 /\ p + 1 \in 0 .. Len(h)
      BY <2>4, <2>6
    <3>2. call \in Values \cup Separators
      BY <2>4, <2>6, <3>1
    <3>3. "NEWLINE" \notin Values \cup Separators
      BY DEF Values, Separators
    <3>4. \/ h[p + 1] \in Separators /\ values = << >>
          \/ h[p + 1] \in Values /\ \E v \in Returned(h[p + 1]) : values = << v >>
      BY <1>4, <2>6, <3>2, <3>3
    <3>5. Made(p + 1, h)'
      BY <1>4, <1>9, <2>4, <2>6, <3>1, <3>4, ReturnStep
    <3>6. CallsInv'
      BY <1>0, <1>2, <1>10, <2>1, <2>4, <3>1, <3>5 DEF CallsInv
    <3>7. ASSUME calls' = << "NEWLINE" >> PROVE FALSE
      <4>. DEFINE C == h \o << "append", "NEWLINE" >>
      <4>1. C \in Seq(Values \cup Separators \cup {"append", "NEWLINE"}) /\ Len(C) = Len(h) + 2
        <5>1. /\ << "append", "NEWLINE" >> \in Seq(Values \cup Separators \cup {"append", "NEWLINE"})
              /\ Len(<< "append", "NEWLINE" >>) = 2
          OBVIOUS
        <5>2. h \in Seq(Values \cup Separators \cup {"append", "NEWLINE"})
          BY <2>4
        <5>. QED  BY <5>1, <5>2
      <4>2. p + 2 \in 1 .. Len(C) /\ Len(h) + 2 \in p + 2 .. Len(C) /\ (Len(h) + 2) - (p + 2) + 1 >= 2
        BY <2>4, <2>6, <4>1
      <4>. HIDE DEF C
      <4>3. Len(SubSeq(C, p + 2, Len(h) + 2)) = (Len(h) + 2) - (p + 2) + 1
        BY <2>4, <4>1, <4>2
      <4>4. Len(<< "NEWLINE" >>) = 1
        OBVIOUS
      <4>5. << "NEWLINE" >> = SubSeq(C, p + 2, Len(h) + 2)
        BY <2>1, <2>6, <3>7 DEF C
      <4>. QED  BY <2>4, <4>2, <4>3, <4>4, <4>5
    <3>8. ElementsMeanSource'
      BY <3>7 DEF ElementsMeanSource
    <3>. QED  BY <1>1, <2>1, <2>2, <3>6, <3>8 DEF ParserInv
  <2>7. \/ calls = << "NEWLINE" >> /\ Tail(calls) = << >>
        \/ \E p \in 0 .. Len(h) :
             /\ Made(p, h)
             /\ p = Len(h) => call = "append"
             /\ p < Len(h) =>
                  /\ call = h[p + 1]
                  /\ Tail(calls) = SubSeq(h \o << "append", "NEWLINE" >>, p + 2, Len(h) + 2)
    BY <1>4, <1>9, CallingFacts
  <2>8. \A p \in 0 .. Len(h) : p = Len(h) \/ p < Len(h)
    BY <2>4
  <2>. HIDE DEF Goal
  <2>. QED  BY <2>3, <2>5, <2>6, <2>7, <2>8
<1>5. ASSUME AppendElement PROVE Goal
  <2>. DEFINE e == Element(mnemonic, args)
  <2>1. /\ Calling("append") /\ ir' = Append(ir, e) /\ calls' = Tail(calls)
        /\ UNCHANGED << pc, token, args >>
    BY <1>5 DEF AppendElement
  <2>2. h \in Seq(Values \cup Separators) /\ Len(h) \in Nat /\ mnemonic \in AllMnemonics
    BY <1>9, <2>1, CallingFacts
  <2>3. \E p \in 0 .. Len(h) :
          /\ Made(p, h)
          /\ p = Len(h) => Tail(calls) = << "NEWLINE" >>
          /\ p < Len(h) => "append" = h[p + 1]
    <3>1. "append" # "NEWLINE"
      OBVIOUS
    <3>. QED  BY <1>9, <2>1, <3>1, CallingFacts
  <2>4. "append" \notin Values \cup Separators
    BY DEF Values, Separators
  <2>5. Made(Len(h), h) /\ Tail(calls) = << "NEWLINE" >>
    <3>1. PICK p \in 0 .. Len(h) :
            /\ Made(p, h)
            /\ p = Len(h) => Tail(calls) = << "NEWLINE" >>
            /\ p < Len(h) => "append" = h[p + 1]
      BY <2>3
    <3>2. p < Len(h) => h[p + 1] \in Values \cup Separators
      BY <2>2, <3>1
    <3>3. p = Len(h)
      BY <2>2, <2>4, <3>1, <3>2
    <3>. QED  BY <3>1, <3>3
  <2>6. Arguments(mnemonic, args)
    BY <1>9, <2>2, <2>5, ArgumentsGiven
  <2>7. e \in InstructionElements /\ Means(e)
    BY <2>2, <2>6, ElementFacts
  <2>. HIDE DEF e
  <2>8. ir' \in Seq(InstructionElements \cup LabelElements) /\ ir'[Len(ir')] = e
    BY <1>1, <2>1, <2>7
  <2>9. ElementsMeanSource'
    BY <1>2, <2>1, <2>7, <2>8, MeansKept
  <2>10. CallsInv'
    BY <1>0, <1>2, <2>1, <2>2, <2>5 DEF CallsInv
  <2>11. token' \in 1 .. Len(tokens') /\ token <= token'
    BY <1>1, <1>2, <2>1
  <2>. QED  BY <2>1, <2>8, <2>9, <2>10, <2>11 DEF ParserInv
<1>. HIDE DEF Goal
<1>6. ASSUME ConsumeToken \/ Reg \/ Operand \/ Offset \/ JumpTarget PROVE Goal
  BY <1>3, <1>4, <1>6, CallReturns
<1>7. Goal
  BY <1>5, <1>6 DEF Call
<1>. QED  BY <1>2, <1>7 DEF Goal

(* The steps of main and of write_file touch neither tokens nor elements.   *)
LEMMA DriverStep ==
  ASSUME CompilerInv,
         \/ Main \/ Check \/ Generate \/ OpenClass \/ WriteClass \/ CloseClass \/ CloseFails
  PROVE  CompilerInv'
<1>1. UNCHANGED << files, scannerVars, tokens, parserVars >> /\ status = "running"
  BY DEF Main, Check, Generate, OpenClass, WriteClass, CloseClass, CloseFails, At, driverVars
<1>2. \/ pc' = pc
      \/ pc = "main" /\ pc' = "read" /\ files # << >>
      \/ pc \in {"seman", "codegen", "fopen", "fwrite"} /\ pc' \in {"codegen", "fopen", "fwrite", "fclose"}
  BY DEF Main, Check, Generate, OpenClass, WriteClass, CloseClass, CloseFails, At, WroteLess, Exit, FailOrCrash
<1>3. ProcessInv'
  <2>1. ProcessInv
    BY DEF CompilerInv
  <2>2. files' \in CommandLines /\ pc' \in Functions
    BY <1>1, <1>2, <2>1 DEF ProcessInv, Functions, Scanning
  <2>3. status' \in Statuses
    BY <2>1 DEF ProcessInv, Statuses, Main, Check, Generate, OpenClass, WriteClass, CloseClass, CloseFails, WroteLess, Exit, FailOrCrash
  <2>4. class' \in ClassContents
    BY <2>1 DEF ProcessInv, ClassContents, Main, Check, Generate, OpenClass, WriteClass, CloseClass, CloseFails, WroteLess, driverVars
  <2>5. pc' = "fclose" /\ status' = "running" => class' = "buffered"
    BY DEF Main, Check, Generate, OpenClass, WriteClass, CloseClass, CloseFails, WroteLess, Exit, FailOrCrash, At
  <2>. QED  BY <2>2, <2>3, <2>4, <2>5 DEF ProcessInv
<1>4. ScannerInv'
  <2>1. ScannerInv /\ files \in Seq(Seq(STRING))
    BY CommandLinesAssumption DEF CompilerInv, ProcessInv
  <2>2. files # << >> => 1 \in 1 .. Len(files)
    BY <2>1
  <2>3. /\ line' = line /\ i' = i /\ source' = source /\ current' = current /\ files' = files
    BY <1>1 DEF scannerVars
  <2>. QED  BY <1>2, <2>1, <2>2, <2>3 DEF ScannerInv
<1>5. TokensInv'
  <2>1. TokensInv /\ tokens' = tokens /\ token' = token
    BY <1>1 DEF CompilerInv, parserVars
  <2>2. pc' \in Scanning <=> pc \in Scanning
    BY <1>2 DEF Scanning
  <2>. QED  BY <1>1, <2>1, <2>2 DEF TokensInv
<1>6. CallsInv'
  <2>1. CallsInv /\ calls' = calls /\ args' = args /\ mnemonic' = mnemonic
    BY <1>1 DEF CompilerInv, parserVars, instructionVars
  <2>2. pc = "parse" => pc' = "parse"
    BY <1>2
  <2>. QED  BY <2>1, <2>2 DEF CallsInv, Made
<1>7. ElementsInv'
  <2>1. /\ ElementsInv /\ calls' = calls /\ args' = args /\ mnemonic' = mnemonic
        /\ ir' = ir /\ token' = token /\ tokens' = tokens
    BY <1>1 DEF CompilerInv, parserVars, instructionVars
  <2>2. ElementsMeanSource'
    BY <2>1 DEF ElementsInv, ElementsMeanSource, Means
  <2>3. /\ pc' \in Scanning \cup {"lexed"} => pc \in Scanning \cup {"lexed"}
        /\ pc' \in Scanning \cup {"lexed", "parse"} => pc \in Scanning \cup {"lexed", "parse"}
        /\ pc' \in {"parse", "seman"} => pc = pc'
    BY <1>2 DEF Scanning
  <2>. QED  BY <2>1, <2>2, <2>3 DEF ElementsInv
<1>. QED  BY <1>3, <1>4, <1>5, <1>6, <1>7 DEF CompilerInv

(* The scanner's steps: each adds a token or stops.                         *)
LEMMA LexStep ==
  ASSUME CompilerInv, Lex
  PROVE  CompilerInv'
<1>1. UNCHANGED << driverVars, parserVars >> /\ pc \in Scanning /\ status = "running"
  BY DEF Lex, ReadFile, ReadFails, ScanToken, ScanIdentifier, ScanNumber, ScanPunctuation,
         ScanNewline, UnexpectedCharacter, EndFile, Emit, At, Scanning
<1>2. /\ files' = files /\ class' = class /\ token' = token /\ calls' = calls /\ args' = args
      /\ mnemonic' = mnemonic /\ ir' = ir
  BY <1>1 DEF driverVars, parserVars, instructionVars
<1>3. /\ ProcessInv /\ ScannerInv /\ TokensInv /\ ElementsInv /\ token = 1 /\ calls = << >>
      /\ ir \in Seq(InstructionElements \cup LabelElements) /\ NoEof(tokens)
  BY <1>1 DEF CompilerInv, ElementsInv, TokensInv
<1>. DEFINE Stays == UNCHANGED << scannerVars, tokens, pc >> /\ status' \in Statuses \ {"running"}
            Reads == /\ pc' = "scan" /\ status' = status /\ tokens' = tokens
                     /\ source' = Append(files[i], NUL) /\ current' = 1 /\ line' = 1 /\ i' = i
                     /\ i \in 1 .. Len(files)
            Adds == /\ pc = "scan" /\ UNCHANGED << pc, status, i, source >>
                    /\ tokens' \in Seq(Tokens) /\ NoEof(tokens')
                    /\ \A n \in DOMAIN tokens' : token <= n => Named(tokens'[n])
                    /\ current' \in 1 .. Len(source) /\ line' \in Nat
            Ends2 == /\ status' = status /\ line' = line
                     /\ tokens' \in Seq(Tokens)
                     /\ \A n \in DOMAIN tokens' : token <= n => Named(tokens'[n])
                     /\ \/ pc' = "lexed" /\ EofEnds(tokens')
                        \/ pc' = "read" /\ NoEof(tokens') /\ i' \in 1 .. Len(files)
<1>4. Stays \/ Reads \/ Adds \/ Ends2
  <2>1. CASE ReadFails \/ UnexpectedCharacter
    BY <2>1 DEF ReadFails, UnexpectedCharacter, Exit, FailOrCrash, Statuses
  <2>2. CASE ReadFile
    BY <1>3, <2>2 DEF ReadFile, At, ScannerInv
  <2>3. CASE ScanIdentifier \/ ScanNumber \/ ScanPunctuation \/ ScanNewline
    <3>1. pc = "scan"
      BY <2>3 DEF ScanIdentifier, ScanNumber, ScanPunctuation, ScanNewline, At
    <3>. QED  BY <2>3, <3>1, ScanStep
  <2>4. CASE EndFile
    <3>1. status' = status /\ line' = line
      BY <2>4 DEF EndFile
    <3>. QED  BY <2>4, <3>1, EndFileStep
  <2>. QED  BY <2>1, <2>2, <2>3, <2>4 DEF Lex, ScanToken
<1>5. /\ files \in Seq(Seq(STRING)) /\ (i \in 1 .. Len(files) => files[i] \in Seq(STRING))
  <2>. DEFINE C == Seq(STRING)
  <2>1. files \in Seq(C)
    BY <1>3, CommandLinesAssumption DEF ProcessInv
  <2>. HIDE DEF C
  <2>2. i \in 1 .. Len(files) => files[i] \in C
    BY <2>1
  <2>. QED  BY <2>1, <2>2 DEF C
<1>6. pc' \in Scanning \cup {"lexed"} /\ pc' \in Functions /\ status' \in Statuses
  BY <1>1, <1>3, <1>4 DEF ProcessInv, Functions, Scanning
<1>7. ProcessInv'
  BY <1>2, <1>3, <1>6 DEF ProcessInv, Scanning
<1>8. ScannerInv'
  <2>1. CASE Stays
    BY <1>2, <1>3, <2>1 DEF ScannerInv, scannerVars
  <2>2. CASE Reads
    <3>1. 1 \in 1 .. Len(Append(files[i], NUL))
      <4>1. files[i] \in Seq(Text) /\ NUL \in Text
        BY <1>5, <2>2 DEF Text
      <4>2. Len(Append(files[i], NUL)) = Len(files[i]) + 1 /\ Len(files[i]) \in Nat
        BY <4>1
      <4>. QED  BY <4>2
    <3>. QED  BY <1>2, <1>3, <2>2, <3>1 DEF ScannerInv
  <2>3. CASE Adds
    BY <1>2, <1>3, <2>3 DEF ScannerInv
  <2>4. CASE Ends2
    BY <1>2, <1>3, <2>4 DEF ScannerInv
  <2>. QED  BY <1>4, <2>1, <2>2, <2>3, <2>4
<1>9. TokensInv'
  <2>1. CASE Stays
    BY <1>1, <1>2, <1>3, <2>1 DEF TokensInv
  <2>2. CASE Reads
    BY <1>1, <1>2, <1>3, <2>2 DEF TokensInv, Scanning
  <2>3. CASE Adds
    BY <1>1, <1>2, <2>3 DEF TokensInv, Scanning
  <2>4. CASE Ends2
    BY <1>1, <1>2, <2>4 DEF TokensInv, Scanning
  <2>. QED  BY <1>4, <2>1, <2>2, <2>3, <2>4
<1>10. CallsInv'
  BY <1>2, <1>3 DEF CallsInv
<1>11. ElementsInv'
  <2>1. calls' # << "NEWLINE" >>
    BY <1>2, <1>3
  <2>2. pc' \notin {"parse", "seman"}
    BY <1>6 DEF Scanning
  <2>. QED  BY <1>2, <1>3, <2>1, <2>2 DEF ElementsInv, ElementsMeanSource
<1>. QED  BY <1>7, <1>8, <1>9, <1>10, <1>11 DEF CompilerInv

(* The parser's steps: what they leave of the tokens and of the elements.   *)
LEMMA ParseStep ==
  ASSUME CompilerInv, Parse
  PROVE  CompilerInv'
<1>1. UNCHANGED << driverVars, scannerVars >> /\ pc \in {"lexed", "parse"} /\ status = "running"
  BY DEF Parse, BeginParse, ParseNewline, ParseLabel, BeginInstruction, EndParse, AtStatement, At, lexerVars,
         Call, ConsumeToken, Reg, Operand, Offset, JumpTarget, AppendElement, Calling
<1>2. /\ ProcessInv /\ ScannerInv /\ TokensInv /\ CallsInv /\ ElementsInv /\ EofEnds(tokens)
      /\ tokens \in Seq(Tokens) /\ \A n \in DOMAIN tokens : token <= n => Named(tokens[n])
      /\ ir \in Seq(InstructionElements \cup LabelElements) /\ ElementsMeanSource
  BY <1>1 DEF CompilerInv, TokensInv, ElementsInv, Scanning
<1>. DEFINE Parsed ==
              /\ pc' = "parse"
              /\ tokens' \in Seq(Tokens) /\ EofEnds(tokens')
              /\ status' = "running" => \A n \in DOMAIN tokens' : token' <= n => Named(tokens'[n])
              /\ ParserInv'
            Done == pc' = "seman" /\ UNCHANGED << tokens, token, calls >> /\ calls = << >> /\ IsProgram(ir')
<1>3. ASSUME BeginParse PROVE Parsed
  <2>1. pc = "lexed" /\ pc' = "parse" /\ UNCHANGED << tokens, token, calls, args, mnemonic, ir >>
    BY <1>3 DEF BeginParse, At, parserVars, instructionVars
  <2>2. token = 1 /\ calls = << >> /\ tokens # << >>
    BY <1>2, <2>1 DEF ElementsInv, EofEnds
  <2>3. 1 \in 1 .. Len(tokens)
    BY <1>2, <2>2
  <2>4. CallsInv' /\ ElementsMeanSource'
    BY <2>1, <2>2 DEF CallsInv, ElementsMeanSource
  <2>. QED  BY <1>2, <2>1, <2>2, <2>3, <2>4 DEF ParserInv
<1>4. ASSUME ParseNewline \/ ParseLabel PROVE Parsed
  <2>1. /\ At("parse") /\ pc' = pc /\ calls = << >> /\ calls' = calls /\ tokens' = tokens /\ Type # "EOF"
        /\ \/ token' = token + 1 /\ ir' = ir
           \/ /\ token' = token + 2 /\ ir' = Append(ir, Label(Lexeme))
              /\ tokens[token + 1].type = "COLON" /\ Type # "NEWLINE"
    BY <1>4 DEF ParseNewline, ParseLabel, AtStatement, AfterNewline, IsLabelHere, lexerVars, instructionVars
  <2>2. /\ token \in 1 .. Len(tokens) /\ Len(tokens) \in Nat /\ token + 1 \in 1 .. Len(tokens)
        /\ Named(tokens[token])
        /\ tokens[token + 1].type # "EOF" => token + 2 \in 1 .. Len(tokens)
    BY <2>1, TokenFacts
  <2>3. token' \in 1 .. Len(tokens') /\ token <= token'
    BY <2>1, <2>2
  <2>4. Type # "NEWLINE" => Label(Lexeme) \in LabelElements
    BY <2>1, <2>2 DEF Named, Type, Lexeme, Label, LabelElements
  <2>5. ir' \in Seq(InstructionElements \cup LabelElements)
    BY <1>2, <2>1, <2>4
  <2>6. CallsInv' /\ ElementsMeanSource'
    BY <2>1 DEF CallsInv, ElementsMeanSource
  <2>7. ASSUME NEW n \in DOMAIN tokens', token' <= n PROVE Named(tokens'[n])
    <3>1. n \in 1 .. Len(tokens) /\ token <= n
      BY <1>2, <2>1, <2>2, <2>3, <2>7
    <3>. QED  BY <1>2, <2>1, <3>1
  <2>. QED  BY <1>2, <2>1, <2>3, <2>5, <2>6, <2>7 DEF ParserInv, At
<1>5. ASSUME BeginInstruction PROVE Parsed
  <2>1. /\ tokens' \in Seq(Tokens) /\ EofEnds(tokens') /\ token' \in DOMAIN tokens'
        /\ status' = "running" => \A n \in DOMAIN tokens' : token' <= n => Named(tokens'[n])
    BY <1>5, BeginInstructionStep
  <2>2. pc' = "parse" /\ ir' = ir /\ calls = << >>
    BY <1>5 DEF BeginInstruction, AtStatement, At, FailOrCrash, Exit
  <2>3. CASE IsMnemonic(LowerCase(Lexeme))
    <3>1. /\ mnemonic' = Mnemonics[LowerCase(Lexeme)[1]] /\ calls' = Calls(mnemonic') /\ args' = << >>
      BY <1>5, <2>3 DEF BeginInstruction
    <3>2. LowerCase(Lexeme)[1] \in DOMAIN Mnemonics
      BY <2>3 DEF IsMnemonic
    <3>3. mnemonic' \in AllMnemonics
      BY <3>1, <3>2, MnemonicsFacts
    <3>4. PICK m : m = mnemonic'
      OBVIOUS
    <3>5. PICK h : h = Handler(m)
      OBVIOUS
    <3>6. h \in Seq(Values \cup Separators) /\ Len(h) \in Nat
      BY <3>3, <3>4, <3>5, HandlerTurns
    <3>7. calls' = h \o << "append", "NEWLINE" >>
      BY <3>1, <3>4, <3>5 DEF Calls
    <3>8. /\ h \o << "append", "NEWLINE" >> \in Seq(Values \cup Separators \cup {"append", "NEWLINE"})
          /\ Len(h \o << "append", "NEWLINE" >>) = Len(h) + 2
      <4>1. /\ << "append", "NEWLINE" >> \in Seq(Values \cup Separators \cup {"append", "NEWLINE"})
            /\ Len(<< "append", "NEWLINE" >>) = 2
        OBVIOUS
      <4>2. h \in Seq(Values \cup Separators \cup {"append", "NEWLINE"})
        BY <3>6
      <4>. QED  BY <4>1, <4>2
    <3>9. calls' = SubSeq(h \o << "append", "NEWLINE" >>, 1, Len(h) + 2)
      BY <3>7, <3>8, SubSeqFull
    <3>10. Made(0, h)'
      <4>1. args' \in Seq(Registers \cup Immediate \cup Target) /\ Len(args') = 0 /\ DOMAIN args' = {}
        BY <3>1
      <4>2. 0 + 1 = 1 /\ (0 + 1) \div 2 = 0
        OBVIOUS
      <4>. QED  BY <3>9, <4>1, <4>2 DEF Made
    <3>11. 0 \in 0 .. Len(h)
      BY <3>6
    <3>12. CallsInv'
      BY <2>2, <3>3, <3>4, <3>5, <3>10, <3>11 DEF CallsInv
    <3>13. calls' # << "NEWLINE" >>
      <4>1. PICK n : n = Len(calls') /\ n >= 2
        BY <3>6, <3>7, <3>8
      <4>2. Len(<< "NEWLINE" >>) = 1
        OBVIOUS
      <4>. QED  BY <4>1, <4>2
    <3>14. ElementsMeanSource'
      BY <3>13 DEF ElementsMeanSource
    <3>. QED  BY <1>2, <2>1, <2>2, <3>12, <3>14 DEF ParserInv
  <2>4. CASE ~IsMnemonic(LowerCase(Lexeme))
    <3>1. calls' = << >>
      BY <1>5, <2>2, <2>4 DEF BeginInstruction, instructionVars
    <3>2. CallsInv' /\ ElementsMeanSource'
      BY <3>1 DEF CallsInv, ElementsMeanSource
    <3>. QED  BY <1>2, <2>1, <2>2, <3>2 DEF ParserInv
  <2>. QED  BY <2>3, <2>4
<1>6. ASSUME Call PROVE Parsed
  <2>1. At("parse")
    BY <1>6 DEF Call, ConsumeToken, Reg, Operand, Offset, JumpTarget, AppendElement, Calling
  <2>2. UNCHANGED << tokens, pc >> /\ token <= token' /\ ParserInv'
    BY <1>6, CallStep
  <2>3. token \in Nat /\ token' \in Nat
    <3>1. PICK t : t = token' /\ t \in 1 .. Len(tokens)
      BY <2>2 DEF ParserInv
    <3>. QED  BY <2>1, <3>1, TokenFacts
  <2>4. ASSUME NEW n \in DOMAIN tokens', token' <= n PROVE Named(tokens'[n])
    <3>1. n \in 1 .. Len(tokens) /\ token <= n
      BY <1>2, <2>2, <2>3, <2>4
    <3>. QED  BY <1>2, <2>2, <3>1
  <2>. QED  BY <1>2, <2>1, <2>2, <2>4 DEF At
<1>7. ASSUME EndParse PROVE Done
  <2>1. /\ pc' = "seman" /\ UNCHANGED << tokens, token, calls >> /\ calls = << >> /\ ir' = Append(ir, Eof)
    BY <1>7 DEF EndParse, AtStatement, instructionVars
  <2>2. ASSUME NEW x \in InstructionElements \cup LabelElements PROVE x \in Elements /\ ~IsEof(x)
    BY DEF Elements, IsEof, InstructionElements, LabelElements, R3Elements, R2ImmElements, R2LabelElements,
           R1ImmElements, R1LabelElements, MemElements
  <2>. DEFINE S == InstructionElements \cup LabelElements
              eof == Eof
  <2>3. eof \in Elements /\ IsEof(eof)
    BY DEF Eof, Elements, IsEof
  <2>4. \A x \in S : x \in Elements /\ ~IsEof(x)
    BY <2>2
  <2>5. ir \in Seq(S) /\ ir' = Append(ir, eof)
    BY <1>2, <2>1
  <2>. HIDE DEF S, eof
  <2>6. ir \in Seq(Elements)
    <3>1. \A n \in 1 .. Len(ir) : ir[n] \in Elements
      BY <2>4, <2>5
    <3>. QED  BY <2>5, <3>1
  <2>7. /\ ir' \in Seq(Elements) /\ Len(ir') = Len(ir) + 1 /\ Len(ir) \in Nat
        /\ DOMAIN ir' = 1 .. Len(ir) + 1 /\ ir' # << >>
    BY <2>3, <2>5, <2>6
  <2>8. ir'[Len(ir) + 1] = eof /\ \A n \in 1 .. Len(ir) : ir'[n] = ir[n]
    BY <2>3, <2>5, <2>6
  <2>9. ASSUME NEW n \in DOMAIN ir' PROVE IsEof(ir'[n]) <=> n = Len(ir')
    <3>1. CASE n = Len(ir) + 1
      BY <3>1, <2>3, <2>7, <2>8
    <3>2. CASE n \in 1 .. Len(ir)
      <4>1. ir[n] \in S /\ n # Len(ir) + 1
        BY <2>5, <2>7, <3>2
      <4>. QED  BY <3>2, <4>1, <2>4, <2>7, <2>8
    <3>. QED  BY <3>1, <3>2, <2>7
  <2>10. IsProgram(ir')
    BY <2>7, <2>9 DEF IsProgram
  <2>. QED  BY <2>1, <2>10
<1>8. Parsed \/ Done
  BY <1>3, <1>4, <1>5, <1>6, <1>7 DEF Parse
<1>9. pc' \in {"parse", "seman"}
  BY <1>8
<1>10. ProcessInv'
  <2>1. status' \in Statuses
    BY <1>2 DEF ProcessInv, Statuses, Parse, BeginParse, ParseNewline, ParseLabel, BeginInstruction, EndParse,
         Call, ConsumeToken, Reg, Operand, Offset, JumpTarget, AppendElement, Consume, Number, Identifier,
         Return, Exit, FailOrCrash
  <2>. QED  BY <1>1, <1>2, <1>9, <2>1, SMTT(30) DEF ProcessInv, driverVars, Functions, Scanning
<1>11. ScannerInv'
  BY <1>1, <1>2, <1>9 DEF ScannerInv, scannerVars, driverVars
<1>12. TokensInv'
  BY <1>1, <1>2, <1>8 DEF TokensInv, Scanning
<1>13. CallsInv'
  BY <1>8 DEF ParserInv, CallsInv
<1>14. ElementsInv'
  <2>1. CASE Parsed
    <3>1. PICK t, k : t = token' /\ k = Len(tokens') /\ t \in 1 .. k /\ k \in Nat /\ DOMAIN tokens' = 1 .. k
      BY <2>1 DEF ParserInv
    <3>2. t \in Nat \ {0}
      BY <3>1
    <3>. QED  BY <2>1, <3>1, <3>2 DEF ElementsInv, ParserInv, Scanning
  <2>2. CASE Done
    <3>1. ElementsMeanSource'
      BY <2>2 DEF ElementsMeanSource
    <3>. QED  BY <1>2, <2>2, <3>1 DEF ElementsInv, Scanning
  <2>. QED  BY <1>8, <2>1, <2>2
<1>. QED  BY <1>10, <1>11, <1>12, <1>13, <1>14 DEF CompilerInv

(* A process begins with nothing read.                                      *)
LEMMA CompilerInit == Init => CompilerInv
<1>. SUFFICES ASSUME Init PROVE CompilerInv
  OBVIOUS
<1>1. ProcessInv
  BY DEF Init, ProcessInv, ClassContents, Statuses, Functions, Scanning
<1>2. ScannerInv
  BY DEF Init, ScannerInv
<1>3. TokensInv
  BY DEF Init, TokensInv, Scanning, NoEof
<1>4. CallsInv /\ ElementsInv
  BY DEF Init, ParserInit, CallsInv, ElementsInv, ElementsMeanSource, Scanning
<1>. QED  BY <1>1, <1>2, <1>3, <1>4 DEF CompilerInv

(* The invariant holds of every process, on every command line.             *)
THEOREM CompilerInvariance == Spec => []CompilerInv
<1>1. CompilerInv /\ [Next]_compilerVars => CompilerInv'
  <2>. SUFFICES ASSUME CompilerInv, [Next]_compilerVars PROVE CompilerInv'
    OBVIOUS
  <2>1. CASE Lex
    BY <2>1, LexStep
  <2>2. CASE Parse
    BY <2>2, ParseStep
  <2>3. CASE Main \/ Check \/ Generate \/ OpenClass \/ WriteClass \/ CloseClass \/ CloseFails
    BY <2>3, DriverStep
  <2>4. CASE UNCHANGED compilerVars
    BY <2>4, ZenonT(60) DEF compilerVars, lexerVars, driverVars, scannerVars, parserVars, instructionVars, CompilerInv,
         ProcessInv, ScannerInv, TokensInv, CallsInv, ElementsInv, ElementsMeanSource, Means, Made
  <2>. QED  BY <2>1, <2>2, <2>3, <2>4 DEF Next
<1>. QED  BY <1>1, CompilerInit, PTL DEF Spec

-----------------------------------------------------------------------------
(* Lists joined into one.                                                   *)

(* f[n] is the first n of the lists s, joined.                              *)
Joins(f, s) == \A n \in DOMAIN s : f[n] = IF n = 1 THEN s[n] ELSE f[n - 1] \o s[n]

(* What the first n lists are joined to; none are joined to nothing.        *)
Joined(s, n) == IF n = 0 THEN << >> ELSE FlattenSeq(SubSeq(s, 1, n))

(* There is such a function, for any number of lists.                       *)
LEMMA JoinsExist ==
  ASSUME NEW X, NEW s \in Seq(Seq(X))
  PROVE  \E f \in [DOMAIN s -> Seq(X)] : Joins(f, s)
<1>. DEFINE N == Len(s)
            Upto(n, f) == \A k \in 1 .. n : f[k] = IF k = 1 THEN s[k] ELSE f[k - 1] \o s[k]
            Wrong == {n \in 0 .. N : ~ \E f \in [1 .. n -> Seq(X)] : Upto(n, f)}
<1>0. N \in Nat /\ DOMAIN s = 1 .. N /\ \A k \in 1 .. N : s[k] \in Seq(X)
  OBVIOUS
<1>1. ASSUME Wrong # {} PROVE FALSE
  <2>1. Wrong \subseteq Nat
    BY <1>0
  <2>2. PICK n \in Wrong : \A m \in Wrong : n <= m
    <3>. HIDE DEF Wrong
    <3>. QED  BY <1>1, <2>1, LeastPlace
  <2>3. n \in 0 .. N /\ ~ \E f \in [1 .. n -> Seq(X)] : Upto(n, f)
    BY <2>2
  <2>4. CASE n = 0
    <3>. DEFINE none == [m \in 1 .. 0 |-> << >>]
    <3>1. none \in [1 .. 0 -> Seq(X)] /\ \A m \in 1 .. 0 : FALSE
      OBVIOUS
    <3>2. Upto(0, none)
      BY <3>1
    <3>. HIDE DEF none, Upto
    <3>. QED  BY <2>3, <2>4, <3>1, <3>2
  <2>5. CASE n # 0
    <3>1. n - 1 \in 0 .. N /\ ~(n <= n - 1) /\ n \in 1 .. N
      BY <1>0, <2>3, <2>5
    <3>2. n - 1 \notin Wrong
      <4>. HIDE DEF Wrong
      <4>. QED  BY <2>2, <3>1
    <3>3. PICK f \in [1 .. n - 1 -> Seq(X)] : Upto(n - 1, f)
      <4>. HIDE DEF Upto
      <4>. QED  BY <3>1, <3>2
    <3>. DEFINE last == IF n = 1 THEN s[n] ELSE f[n - 1] \o s[n]
                g == [m \in 1 .. n |-> IF m = n THEN last ELSE f[m]]
    <3>4. last \in Seq(X)
      <4>1. s[n] \in Seq(X)
        BY <1>0, <3>1
      <4>2. n # 1 => f[n - 1] \in Seq(X)
        <5>1. n # 1 => n - 1 \in 1 .. n - 1
          BY <1>0, <3>1
        <5>. QED  BY <3>3, <5>1
      <4>. QED  BY <4>1, <4>2, ConcatProperties
    <3>5. g \in [1 .. n -> Seq(X)]
      <4>1. \A m \in 1 .. n : m # n => m \in 1 .. n - 1
        BY <1>0, <3>1
      <4>. HIDE DEF last
      <4>. QED  BY <3>3, <3>4, <4>1
    <3>6. ASSUME NEW m \in 1 .. n
          PROVE  g[m] = IF m = 1 THEN s[m] ELSE g[m - 1] \o s[m]
      <4>1. CASE m = n
        <5>1. m # 1 => m - 1 \in 1 .. n /\ m - 1 # n
          BY <1>0, <3>1, <4>1
        <5>. QED  BY <4>1, <5>1
      <4>2. CASE m # n
        <5>1. m \in 1 .. n - 1 /\ m - 1 # n /\ (m # 1 => m - 1 \in 1 .. n)
          BY <1>0, <3>1, <4>2
        <5>2. g[m] = f[m] /\ (m # 1 => g[m - 1] = f[m - 1])
          BY <4>2, <5>1
        <5>3. f[m] = IF m = 1 THEN s[m] ELSE f[m - 1] \o s[m]
          BY <3>3, <5>1
        <5>. QED  BY <5>2, <5>3
      <4>. QED  BY <4>1, <4>2
    <3>7. Upto(n, g)
      BY <3>6
    <3>. HIDE DEF g, Upto
    <3>. QED  BY <2>3, <3>5, <3>7
  <2>. QED  BY <2>4, <2>5
<1>2. N \notin Wrong
  <2>. HIDE DEF Wrong
  <2>. QED  BY <1>1
<1>3. \E f \in [1 .. N -> Seq(X)] : Upto(N, f)
  BY <1>0, <1>2
<1>. QED  BY <1>0, <1>3 DEF Joins

(* There is only one.                                                       *)
LEMMA JoinsUnique ==
  ASSUME NEW s, NEW N \in Nat, DOMAIN s = 1 .. N, NEW f, NEW g, Joins(f, s), Joins(g, s)
  PROVE  \A n \in 1 .. N : f[n] = g[n]
<1>. DEFINE Wrong == {n \in 1 .. N : f[n] # g[n]}
<1>1. ASSUME Wrong # {} PROVE FALSE
  <2>1. Wrong \subseteq Nat
    OBVIOUS
  <2>2. PICK n \in Wrong : \A m \in Wrong : n <= m
    <3>. HIDE DEF Wrong
    <3>. QED  BY <1>1, <2>1, LeastPlace
  <2>3. n \in 1 .. N /\ f[n] # g[n]
    BY <2>2
  <2>4. n # 1 => n - 1 \in 1 .. N /\ ~(n <= n - 1)
    BY <2>3
  <2>5. n # 1 => f[n - 1] = g[n - 1]
    BY <2>2, <2>4
  <2>. QED  BY <2>3, <2>5 DEF Joins
<1>. QED  BY <1>1

(* FlattenSeq computes its last value.                                      *)
LEMMA FlattenIsLast ==
  ASSUME NEW X, NEW s \in Seq(Seq(X)), s # << >>, NEW f \in [DOMAIN s -> Seq(X)], Joins(f, s)
  PROVE  FlattenSeq(s) = f[Len(s)]
<1>. DEFINE R(h) == h = [n \in 1 .. Len(s) |-> IF n = 1 THEN s[n] ELSE h[n - 1] \o s[n]]
            c == CHOOSE h : R(h)
<1>0. Len(s) \in Nat /\ Len(s) # 0 /\ DOMAIN s = 1 .. Len(s)
  OBVIOUS
<1>1. R(f)
  <2>. DEFINE r == [n \in 1 .. Len(s) |-> IF n = 1 THEN s[n] ELSE f[n - 1] \o s[n]]
  <2>1. DOMAIN f = 1 .. Len(s) /\ DOMAIN r = 1 .. Len(s)
    BY <1>0
  <2>2. \A n \in 1 .. Len(s) : f[n] = r[n]
    BY <1>0 DEF Joins
  <2>3. f = [n \in 1 .. Len(s) |-> f[n]] /\ r = [n \in 1 .. Len(s) |-> r[n]]
    BY <2>1
  <2>. HIDE DEF r
  <2>4. f = r
    BY <2>2, <2>3
  <2>. QED  BY <2>4 DEF r
<1>2. R(c)
  <2>. HIDE DEF R
  <2>. QED  BY <1>1
<1>3. \A n \in 1 .. Len(s) : c[n] = IF n = 1 THEN s[n] ELSE c[n - 1] \o s[n]
  <2>1. c = [n \in 1 .. Len(s) |-> IF n = 1 THEN s[n] ELSE c[n - 1] \o s[n]]
    BY <1>2
  <2>. HIDE DEF c
  <2>. QED  BY <2>1
<1>4. Joins(c, s)
  <2>. HIDE DEF c
  <2>. QED  BY <1>0, <1>3 DEF Joins
<1>5. FlattenSeq(s) = c[Len(s)]
  BY <1>0 DEF FlattenSeq
<1>. HIDE DEF c, R
<1>6. \A n \in 1 .. Len(s) : c[n] = f[n]
  BY <1>0, <1>4, JoinsUnique
<1>. QED  BY <1>0, <1>5, <1>6

(* Joined is that function, from nothing on.                                *)
LEMMA JoinedIs ==
  ASSUME NEW X, NEW s \in Seq(Seq(X)), NEW f \in [DOMAIN s -> Seq(X)], Joins(f, s),
         NEW n \in 1 .. Len(s)
  PROVE  Joined(s, n) = f[n]
<1>. DEFINE t == SubSeq(s, 1, n)
            g == [k \in 1 .. n |-> f[k]]
<1>0. Len(s) \in Nat /\ DOMAIN s = 1 .. Len(s) /\ n \in Nat /\ n # 0 /\ n <= Len(s)
  OBVIOUS
<1>1. /\ t \in Seq(Seq(X)) /\ Len(t) = n /\ DOMAIN t = 1 .. n /\ t # << >>
      /\ \A k \in 1 .. n : t[k] = s[k]
  <2>. DEFINE Y == Seq(X)
  <2>1. s \in Seq(Y)
    OBVIOUS
  <2>. HIDE DEF Y
  <2>2. t \in Seq(Y) /\ Len(t) = n /\ \A k \in 1 .. n : t[k] = s[k]
    BY <1>0, <2>1
  <2>3. DOMAIN t = 1 .. n /\ t # << >>
    <3>. HIDE DEF t
    <3>1. DOMAIN t = 1 .. Len(t)
      BY <2>2
    <3>2. Len(<< >>) = 0
      OBVIOUS
    <3>. QED  BY <1>0, <2>2, <3>1, <3>2
  <2>. QED  BY <2>2, <2>3 DEF Y
<1>2. \A k \in 1 .. n : k \in DOMAIN s /\ (k # 1 => k - 1 \in 1 .. n)
  BY <1>0
<1>3. g \in [DOMAIN t -> Seq(X)]
  BY <1>1, <1>2
<1>4. Joins(g, t)
  <2>1. ASSUME NEW k \in 1 .. n
        PROVE  g[k] = IF k = 1 THEN t[k] ELSE g[k - 1] \o t[k]
    <3>1. f[k] = IF k = 1 THEN s[k] ELSE f[k - 1] \o s[k]
      BY <1>2 DEF Joins
    <3>2. g[k] = f[k] /\ (k # 1 => g[k - 1] = f[k - 1]) /\ t[k] = s[k]
      BY <1>1, <1>2
    <3>. QED  BY <3>1, <3>2
  <2>. HIDE DEF g, t
  <2>. QED  BY <1>1, <2>1 DEF Joins
<1>5. FlattenSeq(t) = g[n]
  <2>. HIDE DEF g, t
  <2>. QED  BY <1>1, <1>3, <1>4, FlattenIsLast
<1>. QED  BY <1>0, <1>5 DEF Joined

(* One list more is one list more.                                          *)
LEMMA JoinedNext ==
  ASSUME NEW X, NEW s \in Seq(Seq(X))
  PROVE  /\ Joined(s, 0) = << >>
         /\ Joined(s, Len(s)) = FlattenSeq(s)
         /\ \A n \in 0 .. Len(s) : Joined(s, n) \in Seq(X)
         /\ \A n \in 0 .. Len(s) - 1 : Joined(s, n + 1) = Joined(s, n) \o s[n + 1]
<1>0. Len(s) \in Nat /\ DOMAIN s = 1 .. Len(s) /\ \A n \in 1 .. Len(s) : s[n] \in Seq(X)
  OBVIOUS
<1>1. PICK f \in [DOMAIN s -> Seq(X)] : Joins(f, s)
  BY JoinsExist
<1>2. \A n \in 1 .. Len(s) : Joined(s, n) = f[n]
  BY <1>1, JoinedIs
<1>3. Joined(s, 0) = << >>
  BY DEF Joined
<1>4. Joined(s, Len(s)) = FlattenSeq(s)
  <2>1. CASE Len(s) = 0
    <3>1. FlattenSeq(s) = s /\ s = << >>
      BY <2>1 DEF FlattenSeq
    <3>. QED  BY <2>1, <3>1 DEF Joined
  <2>2. CASE Len(s) # 0
    <3>1. Len(s) \in 1 .. Len(s) /\ s # << >>
      BY <1>0, <2>2
    <3>. QED  BY <1>1, <1>2, <3>1, FlattenIsLast
  <2>. QED  BY <2>1, <2>2
<1>5. ASSUME NEW n \in 0 .. Len(s) PROVE Joined(s, n) \in Seq(X)
  <2>1. CASE n = 0
    <3>1. << >> \in Seq(X)
      OBVIOUS
    <3>. QED  BY <1>3, <2>1, <3>1
  <2>2. CASE n # 0
    <3>1. n \in 1 .. Len(s)
      BY <1>0, <2>2
    <3>2. f[n] \in Seq(X)
      BY <1>0, <3>1
    <3>. QED  BY <1>2, <3>1, <3>2
  <2>. QED  BY <2>1, <2>2
<1>6. ASSUME NEW n \in 0 .. Len(s) - 1 PROVE Joined(s, n + 1) = Joined(s, n) \o s[n + 1]
  <2>1. n + 1 \in 1 .. Len(s) /\ (n # 0 => n \in 1 .. Len(s)) /\ (n + 1) - 1 = n /\ n \in Nat
    BY <1>0
  <2>2. s[n + 1] \in Seq(X)
    BY <1>0, <2>1
  <2>5. f[n + 1] = IF n + 1 = 1 THEN s[n + 1] ELSE f[(n + 1) - 1] \o s[n + 1]
    <3>. DEFINE k == n + 1
    <3>1. k \in DOMAIN s
      BY <1>0, <2>1
    <3>. HIDE DEF k
    <3>2. f[k] = IF k = 1 THEN s[k] ELSE f[k - 1] \o s[k]
      BY <1>1, <3>1 DEF Joins
    <3>. QED  BY <3>2 DEF k
  <2>3. CASE n = 0
    <3>1. f[n + 1] = s[n + 1]
      BY <2>3, <2>5
    <3>2. << >> \o s[n + 1] = s[n + 1]
      BY <2>2, ConcatEmptySeq
    <3>. QED  BY <1>2, <1>3, <2>1, <2>3, <3>1, <3>2
  <2>4. CASE n # 0
    <3>1. f[n + 1] = f[n] \o s[n + 1]
      <4>1. n + 1 # 1
        BY <2>1, <2>4
      <4>2. f[n + 1] = f[(n + 1) - 1] \o s[n + 1]
        BY <2>5, <4>1
      <4>. QED  BY <2>1, <4>2
    <3>. QED  BY <1>2, <2>1, <2>4, <3>1
  <2>. QED  BY <2>3, <2>4
<1>. QED  BY <1>3, <1>4, <1>5, <1>6

(* An empty list adds nothing.                                              *)
LEMMA JoinedSkip ==
  ASSUME NEW X, NEW s \in Seq(Seq(X)), NEW a \in 0 .. Len(s), NEW b \in a .. Len(s),
         \A n \in a + 1 .. b : s[n] = << >>
  PROVE  Joined(s, b) = Joined(s, a)
<1>. DEFINE Wrong == {n \in a .. b : Joined(s, n) # Joined(s, a)}
<1>0. Len(s) \in Nat /\ a \in Nat /\ b \in Nat /\ b \in a .. b
  OBVIOUS
<1>1. ASSUME Wrong # {} PROVE FALSE
  <2>1. Wrong \subseteq Nat
    BY <1>0
  <2>2. PICK n \in Wrong : \A m \in Wrong : n <= m
    <3>. HIDE DEF Wrong
    <3>. QED  BY <1>1, <2>1, LeastPlace
  <2>3. n \in a .. b /\ Joined(s, n) # Joined(s, a)
    BY <2>2
  <2>4. n # a
    BY <2>3
  <2>5. n - 1 \in a .. b /\ ~(n <= n - 1) /\ n - 1 \in 0 .. Len(s) - 1 /\ n \in a + 1 .. b
        /\ (n - 1) + 1 = n /\ n - 1 \in 0 .. Len(s)
    BY <1>0, <2>3, <2>4
  <2>6. Joined(s, n - 1) = Joined(s, a)
    BY <2>2, <2>5
  <2>7. Joined(s, n) = Joined(s, n - 1) \o s[n]
    <3>1. Joined(s, (n - 1) + 1) = Joined(s, n - 1) \o s[(n - 1) + 1]
      BY <2>5, JoinedNext
    <3>. QED  BY <2>5, <3>1
  <2>8. Joined(s, n - 1) \in Seq(X) /\ s[n] = << >>
    BY <2>5, JoinedNext
  <2>9. Joined(s, n - 1) \o << >> = Joined(s, n - 1)
    BY <2>8, ConcatEmptySeq
  <2>. QED  BY <2>3, <2>6, <2>7, <2>8, <2>9
<1>. QED  BY <1>0, <1>1

-----------------------------------------------------------------------------
(* Where the tokens of a text are.                                          *)

(* The bytes of a file up to the first NUL are its text.                    *)
LEMMA ContentFacts ==
  ASSUME NEW file \in Seq(STRING)
  PROVE  LET bytes == Append(file, NUL)
             text == Content(file)
         IN  /\ text \in Seq(Text) /\ Len(text) \in Nat /\ Len(text) + 1 \in DOMAIN bytes
             /\ bytes[Len(text) + 1] = NUL
             /\ \A k \in 1 .. Len(text) : text[k] = bytes[k] /\ bytes[k] # NUL
<1>. DEFINE bytes == Append(file, NUL)
            N == Len(file) + 1
            IsEnd(k) == bytes[k] = NUL /\ \A n \in 1 .. k - 1 : bytes[n] # NUL
            T == {k \in 1 .. N : bytes[k] = NUL}
            end == CHOOSE k \in DOMAIN bytes : IsEnd(k)
<1>0. NUL \in Text /\ file \in Seq(Text)
  BY DEF Text
<1>1. bytes \in Seq(Text) /\ N \in Nat /\ DOMAIN bytes = 1 .. N /\ bytes[N] = NUL
  BY <1>0
<1>. HIDE DEF bytes
<1>2. T # {} /\ T \subseteq Nat
  BY <1>1
<1>3. PICK k \in T : \A m \in T : k <= m
  <2>. HIDE DEF T
  <2>. QED  BY <1>2, LeastPlace
<1>4. k \in DOMAIN bytes /\ IsEnd(k)
  <2>1. k \in 1 .. N /\ bytes[k] = NUL
    BY <1>3
  <2>2. ASSUME NEW n \in 1 .. k - 1 PROVE bytes[n] # NUL
    <3>1. n \in 1 .. N /\ ~(k <= n)
      BY <1>1, <2>1
    <3>. QED  BY <1>3, <3>1
  <2>. QED  BY <1>1, <2>1, <2>2
<1>5. end \in DOMAIN bytes /\ IsEnd(end)
  <2>. HIDE DEF IsEnd
  <2>. QED  BY <1>4
<1>6. Content(file) = SubSeq(bytes, 1, end - 1)
  BY DEF Content, bytes
<1>. HIDE DEF end, T
<1>7. end - 1 \in 0 .. N /\ end \in 1 .. N
  BY <1>1, <1>5
<1>8. /\ SubSeq(bytes, 1, end - 1) \in Seq(Text) /\ Len(SubSeq(bytes, 1, end - 1)) = end - 1
      /\ \A n \in 1 .. end - 1 : SubSeq(bytes, 1, end - 1)[n] = bytes[n]
  BY <1>1, <1>7
<1>9. (end - 1) + 1 = end /\ end - 1 \in Nat
  BY <1>7
<1>. QED  BY <1>1, <1>5, <1>6, <1>8, <1>9 DEF bytes

(* Whether the scanner may begin at c: inside a word only where one starts. *)
Boundary(text, c) == IsWord(text, c) /\ IsWord(text, c - 1) => StartsToken(text, c)

(* The first place from a boundary on that holds no blank starts a token.   *)
LEMMA StartsHere ==
  ASSUME NEW text \in Seq(Text), NEW c \in 1 .. Len(text) + 1, Boundary(text, c),
         NEW k \in c .. Len(text), text[k] \notin Blanks, \A n \in c .. k - 1 : text[n] \in Blanks
  PROVE  StartsToken(text, k) /\ \A n \in c .. k - 1 : ~StartsToken(text, n)
<1>0. Len(text) \in Nat /\ DOMAIN text = 1 .. Len(text)
  OBVIOUS
<1>1. \A n \in c .. k - 1 : ~StartsToken(text, n)
  BY DEF StartsToken
<1>2. CASE k = c
  BY <1>2 DEF Boundary, StartsToken
<1>3. CASE k # c
  <2>1. k - 1 \in c .. k - 1
    BY <1>0, <1>3
  <2>2. text[k - 1] \in Blanks
    BY <2>1
  <2>3. ~IsWord(text, k - 1)
    BY <2>2, RunsAssumption DEF IsWord
  <2>. QED  BY <1>1, <2>3 DEF StartsToken
<1>. QED  BY <1>1, <1>2, <1>3

(* A token is from k up to e, where the scanner may begin again.            *)
IsCut(text, k, e) ==
  /\ \A n \in k + 1 .. e - 1 : GoesOn(text, n)
  /\ ~GoesOn(text, e)
  /\ Boundary(text, e)

(* What no word goes on with is where a token ends.                         *)
LEMMA CutAfter ==
  ASSUME NEW text, NEW e \in Int, ~IsWord(text, e) \/ ~IsWord(text, e - 1)
  PROVE  ~GoesOn(text, e) /\ Boundary(text, e)
BY DEF GoesOn, Boundary, StartsToken

(* Letters, and digits after them, are one token.                           *)
LEMMA IdentifierCut ==
  ASSUME NEW text \in Seq(Text), NEW k \in 1 .. Len(text), text[k] \in Letters,
         NEW e \in k + 1 .. Len(text) + 1, \A n \in k .. e - 1 : text[n] \in Letters \cup Digits,
         e <= Len(text) => text[e] \notin Letters \cup Digits
  PROVE  IsCut(text, k, e)
<1>0. Len(text) \in Nat /\ DOMAIN text = 1 .. Len(text)
  OBVIOUS
<1>1. ~IsWord(text, e)
  BY <1>0 DEF IsWord
<1>2. ASSUME NEW n \in k + 1 .. e - 1 PROVE GoesOn(text, n)
  <2>1. n \in DOMAIN text /\ n \in k .. e - 1 /\ n - 1 \in k .. e - 1 /\ n - 1 \in DOMAIN text
    BY <1>0
  <2>2. text[n] \in Letters \cup Digits /\ text[n - 1] \in Letters \cup Digits
    BY <2>1
  <2>3. IsWord(text, n) /\ IsWord(text, n - 1) /\ text[n] \notin Blanks
    BY <2>1, <2>2, RunsAssumption DEF IsWord
  <2>4. ASSUME NEW m \in 1 .. n - 1, ~IsWord(text, m - 1), \A x \in m .. n - 1 : text[x] \in Digits
        PROVE  FALSE
    <3>1. CASE m <= k
      <4>1. k \in m .. n - 1
        BY <1>0, <3>1
      <4>2. text[k] \in Digits
        BY <2>4, <4>1
      <4>. QED  BY <4>2, RunsAssumption
    <3>2. CASE m > k
      <4>1. m - 1 \in k .. e - 1 /\ m - 1 \in DOMAIN text
        BY <1>0, <3>2
      <4>2. text[m - 1] \in Letters \cup Digits
        BY <4>1
      <4>. QED  BY <2>4, <4>1, <4>2 DEF IsWord
    <3>. QED  BY <1>0, <3>1, <3>2
  <2>. QED  BY <2>1, <2>3, <2>4 DEF GoesOn, StartsToken
<1>3. e \in Int
  BY <1>0
<1>. QED  BY <1>1, <1>2, <1>3, CutAfter DEF IsCut

(* Digits are one token; a word may start after them.                       *)
LEMMA NumberCut ==
  ASSUME NEW text \in Seq(Text), NEW k \in 1 .. Len(text), StartsToken(text, k),
         NEW e \in k + 1 .. Len(text) + 1, \A n \in k .. e - 1 : text[n] \in Digits,
         e <= Len(text) => text[e] \notin Digits
  PROVE  IsCut(text, k, e)
<1>0. Len(text) \in Nat /\ DOMAIN text = 1 .. Len(text)
  OBVIOUS
<1>1. text[k] \in Digits
  <2>1. k \in k .. e - 1
    BY <1>0
  <2>. QED  BY <2>1
<1>2. ~IsWord(text, k - 1)
  <2>1. text[k] \notin Letters /\ IsWord(text, k)
    BY <1>0, <1>1, RunsAssumption DEF IsWord
  <2>. QED  BY <2>1 DEF StartsToken
<1>3. ASSUME NEW n \in k + 1 .. e - 1 PROVE GoesOn(text, n)
  <2>1. n \in DOMAIN text /\ n \in k .. e - 1 /\ n - 1 \in k .. e - 1 /\ n - 1 \in DOMAIN text
    BY <1>0
  <2>2. text[n] \in Digits /\ text[n - 1] \in Digits
    BY <2>1
  <2>3. IsWord(text, n) /\ IsWord(text, n - 1) /\ text[n] \notin Blanks /\ text[n] \notin Letters
    BY <2>1, <2>2, RunsAssumption DEF IsWord
  <2>. QED  BY <2>1, <2>3 DEF GoesOn, StartsToken
<1>4. ~GoesOn(text, e) /\ Boundary(text, e)
  <2>0. e \in Int
    BY <1>0
  <2>1. CASE ~IsWord(text, e)
    BY <2>0, <2>1, CutAfter
  <2>2. CASE IsWord(text, e)
    <3>1. text[e] \in Letters
      BY <1>0, <2>2 DEF IsWord
    <3>2. text[e] \notin Blanks
      BY <3>1, RunsAssumption
    <3>3. k \in 1 .. e - 1
      BY <1>0
    <3>4. StartsToken(text, e)
      BY <1>2, <3>1, <3>2, <3>3 DEF StartsToken
    <3>. QED  BY <3>4 DEF GoesOn, Boundary
  <2>. QED  BY <2>1, <2>2
<1>. QED  BY <1>3, <1>4 DEF IsCut

(* Any other character is a token of its own.                               *)
LEMMA MarkCut ==
  ASSUME NEW text \in Seq(Text), NEW k \in 1 .. Len(text), text[k] \notin Letters \cup Digits
  PROVE  IsCut(text, k, k + 1)
<1>1. k \in Int /\ k + 1 \in Int /\ (k + 1) - 1 = k
  OBVIOUS
<1>2. ~IsWord(text, k)
  BY DEF IsWord
<1>3. ~GoesOn(text, k + 1) /\ Boundary(text, k + 1)
  BY <1>1, <1>2, CutAfter
<1>4. \A n \in k + 1 .. (k + 1) - 1 : FALSE
  BY <1>1
<1>. QED  BY <1>3, <1>4 DEF IsCut

(* A token ends where it is cut off.                                        *)
LEMMA LastOfCut ==
  ASSUME NEW text \in Seq(Text), NEW k \in 1 .. Len(text), NEW e \in k + 1 .. Len(text) + 1,
         IsCut(text, k, e)
  PROVE  LastOf(text, k) = e - 1
<1>. DEFINE IsLast(m) == ~GoesOn(text, m + 1) /\ \A n \in k + 1 .. m : GoesOn(text, n)
<1>0. Len(text) \in Nat /\ e - 1 \in k .. Len(text) /\ (e - 1) + 1 = e
  OBVIOUS
<1>1. IsLast(e - 1)
  BY <1>0 DEF IsCut
<1>2. ASSUME NEW m \in k .. Len(text), IsLast(m) PROVE m = e - 1
  <2>1. CASE m < e - 1
    <3>1. m + 1 \in k + 1 .. e - 1
      BY <1>0, <2>1
    <3>. QED  BY <1>2, <3>1 DEF IsCut
  <2>2. CASE m > e - 1
    <3>1. e \in k + 1 .. m
      BY <1>0, <2>2
    <3>. QED  BY <1>2, <3>1 DEF IsCut
  <2>. QED  BY <1>0, <2>1, <2>2
<1>3. LastOf(text, k) = CHOOSE m \in k .. Len(text) : IsLast(m)
  BY DEF LastOf
<1>. HIDE DEF IsLast
<1>. QED  BY <1>0, <1>1, <1>2, <1>3

(* The lines a text has up to a place.                                      *)
LEMMA LineAtNext ==
  ASSUME NEW text, NEW k \in Nat
  PROVE  /\ LineAt(text, 0) = 1
         /\ LineAt(text, k) \in Nat
         /\ LineAt(text, k + 1) = IF text[k + 1] = "\n" THEN LineAt(text, k) + 1 ELSE LineAt(text, k)
<1>. DEFINE LineEnds(n) == {m \in 1 .. n : text[m] = "\n"}
<1>1. LineEnds(0) = {}
  OBVIOUS
<1>2. IsFiniteSet(LineEnds(k)) /\ Cardinality(LineEnds(k)) \in Nat
  <2>1. IsFiniteSet(1 .. k)
    BY FS_Interval
  <2>2. LineEnds(k) \subseteq 1 .. k
    OBVIOUS
  <2>. HIDE DEF LineEnds
  <2>3. IsFiniteSet(LineEnds(k))
    BY <2>1, <2>2, FS_Subset
  <2>. QED  BY <2>3, FS_CardinalityType
<1>3. LineEnds(k + 1) = IF text[k + 1] = "\n" THEN LineEnds(k) \cup {k + 1} ELSE LineEnds(k)
  <2>1. 1 .. k + 1 = (1 .. k) \cup {k + 1}
    OBVIOUS
  <2>. QED  BY <2>1
<1>4. k + 1 \notin LineEnds(k)
  OBVIOUS
<1>5. \A n : LineAt(text, n) = 1 + Cardinality(LineEnds(n))
  BY DEF LineAt
<1>. HIDE DEF LineEnds
<1>6. Cardinality({}) = 0
  BY FS_EmptySet
<1>7. Cardinality(LineEnds(k) \cup {k + 1}) = Cardinality(LineEnds(k)) + 1
  BY <1>2, <1>4, FS_AddElement
<1>8. LineAt(text, 0) = 1
  BY <1>1, <1>5, <1>6
<1>. QED  BY <1>2, <1>3, <1>5, <1>7, <1>8

(* Nothing but a line's end begins another.                                 *)
LEMMA LineAtSame ==
  ASSUME NEW text, NEW a \in Nat, NEW b \in Nat, a <= b, \A n \in a + 1 .. b : text[n] # "\n"
  PROVE  LineAt(text, b) = LineAt(text, a)
<1>. DEFINE Wrong == {n \in a .. b : LineAt(text, n) # LineAt(text, a)}
<1>1. ASSUME Wrong # {} PROVE FALSE
  <2>1. Wrong \subseteq Nat
    OBVIOUS
  <2>2. PICK n \in Wrong : \A m \in Wrong : n <= m
    <3>. HIDE DEF Wrong
    <3>. QED  BY <1>1, <2>1, LeastPlace
  <2>3. n \in a .. b /\ LineAt(text, n) # LineAt(text, a)
    BY <2>2
  <2>4. n - 1 \in a .. b /\ ~(n <= n - 1) /\ n \in a + 1 .. b /\ (n - 1) + 1 = n /\ n - 1 \in Nat
    BY <2>3
  <2>5. LineAt(text, n - 1) = LineAt(text, a)
    BY <2>2, <2>4
  <2>6. LineAt(text, (n - 1) + 1) = IF text[(n - 1) + 1] = "\n" THEN LineAt(text, n - 1) + 1 ELSE LineAt(text, n - 1)
    BY <2>4, LineAtNext
  <2>7. text[n] # "\n"
    BY <2>4
  <2>. QED  BY <2>3, <2>4, <2>5, <2>6, <2>7
<1>2. b \in a .. b
  OBVIOUS
<1>. QED  BY <1>1, <1>2

(* At each place of a text, the token that starts there.                    *)
TokenParts(text) ==
  [k \in DOMAIN text |-> IF StartsToken(text, k) THEN << TokenAt(text, k) >> ELSE << >>]
TokensAt(text) == {TokenAt(text, k) : k \in DOMAIN text}

(* They are as many lists as the text has places.                           *)
LEMMA TokenPartsType ==
  ASSUME NEW text \in Seq(Text)
  PROVE  /\ TokenParts(text) \in Seq(Seq(TokensAt(text))) /\ Len(TokenParts(text)) = Len(text)
         /\ \A k \in 1 .. Len(text) :
              TokenParts(text)[k] = IF StartsToken(text, k) THEN << TokenAt(text, k) >> ELSE << >>
         /\ TokensOf(text) = FlattenSeq(TokenParts(text))
<1>0. Len(text) \in Nat /\ DOMAIN text = 1 .. Len(text)
  OBVIOUS
<1>1. ASSUME NEW k \in 1 .. Len(text)
      PROVE  (IF StartsToken(text, k) THEN << TokenAt(text, k) >> ELSE << >>) \in Seq(TokensAt(text))
  <2>1. TokenAt(text, k) \in TokensAt(text)
    BY <1>0 DEF TokensAt
  <2>. QED  BY <2>1
<1>2. TokenParts(text) = [k \in 1 .. Len(text) |-> IF StartsToken(text, k) THEN << TokenAt(text, k) >> ELSE << >>]
  BY <1>0 DEF TokenParts
<1>3. TokenParts(text) \in [1 .. Len(text) -> Seq(TokensAt(text))]
  BY <1>1, <1>2
<1>4. TokenParts(text) \in Seq(Seq(TokensAt(text))) /\ Len(TokenParts(text)) = Len(text)
  <2>. DEFINE Y == Seq(TokensAt(text))
              t == TokenParts(text)
  <2>1. t \in [1 .. Len(text) -> Y]
    BY <1>3
  <2>. HIDE DEF Y, t
  <2>2. t \in Seq(Y) /\ Len(t) = Len(text)
    BY <1>0, <2>1
  <2>. QED  BY <2>2 DEF Y, t
<1>5. TokensOf(text) = FlattenSeq(TokenParts(text))
  BY DEF TokensOf, TokenParts
<1>. QED  BY <1>2, <1>4, <1>5

(* The tokens of a text up to a place.                                      *)
TokensUpto(text, n) == Joined(TokenParts(text), n)

(* One more token, and the scanner is where it ends.                        *)
LEMMA TokensUptoCut ==
  ASSUME NEW text \in Seq(Text), NEW c \in 1 .. Len(text) + 1, NEW k \in c .. Len(text),
         NEW e \in k + 1 .. Len(text) + 1, IsCut(text, k, e), StartsToken(text, k),
         \A n \in c .. k - 1 : ~StartsToken(text, n)
  PROVE  TokensUpto(text, e - 1) = TokensUpto(text, c - 1) \o << TokenAt(text, k) >>
<1>. DEFINE s == TokenParts(text)
            X == TokensAt(text)
<1>1. /\ s \in Seq(Seq(X)) /\ Len(s) = Len(text)
      /\ \A n \in 1 .. Len(text) : s[n] = IF StartsToken(text, n) THEN << TokenAt(text, n) >> ELSE << >>
  BY TokenPartsType
<1>. HIDE DEF s, X
<1>0. /\ Len(text) \in Nat /\ c - 1 \in 0 .. Len(s) /\ k - 1 \in c - 1 .. Len(s) /\ k - 1 \in 0 .. Len(s) - 1
      /\ k \in 0 .. Len(s) /\ e - 1 \in k .. Len(s) /\ (k - 1) + 1 = k /\ (c - 1) + 1 = c
      /\ k \in 1 .. Len(text)
  BY <1>1
<1>2. Joined(s, k - 1) = Joined(s, c - 1)
  <2>1. ASSUME NEW n \in (c - 1) + 1 .. k - 1 PROVE s[n] = << >>
    <3>1. n \in c .. k - 1 /\ n \in 1 .. Len(text)
      BY <1>0, <1>1
    <3>. QED  BY <1>1, <3>1
  <2>. QED  BY <1>0, <1>1, <2>1, JoinedSkip
<1>3. Joined(s, k) = Joined(s, k - 1) \o << TokenAt(text, k) >>
  <2>1. s[k] = << TokenAt(text, k) >>
    BY <1>0, <1>1
  <2>2. Joined(s, (k - 1) + 1) = Joined(s, k - 1) \o s[(k - 1) + 1]
    BY <1>0, <1>1, JoinedNext
  <2>. QED  BY <1>0, <2>1, <2>2
<1>4. Joined(s, e - 1) = Joined(s, k)
  <2>1. ASSUME NEW n \in k + 1 .. e - 1 PROVE s[n] = << >>
    <3>1. n \in 1 .. Len(text)
      BY <1>0, <1>1
    <3>2. ~StartsToken(text, n)
      BY DEF IsCut, GoesOn
    <3>. QED  BY <1>1, <3>1, <3>2
  <2>. QED  BY <1>0, <1>1, <2>1, JoinedSkip
<1>. QED  BY <1>2, <1>3, <1>4 DEF TokensUpto, s

(* The tokens of a text are those up to its end, and blanks add none.       *)
LEMMA TokensUptoEnd ==
  ASSUME NEW text \in Seq(Text), NEW c \in 1 .. Len(text) + 1,
         \A n \in c .. Len(text) : text[n] \in Blanks
  PROVE  TokensUpto(text, c - 1) = TokensOf(text)
<1>. DEFINE s == TokenParts(text)
            X == TokensAt(text)
<1>1. /\ s \in Seq(Seq(X)) /\ Len(s) = Len(text) /\ TokensOf(text) = FlattenSeq(s)
      /\ \A n \in 1 .. Len(text) : s[n] = IF StartsToken(text, n) THEN << TokenAt(text, n) >> ELSE << >>
  BY TokenPartsType
<1>. HIDE DEF s, X
<1>0. /\ Len(s) \in Nat /\ c - 1 \in 0 .. Len(s) /\ Len(s) \in c - 1 .. Len(s) /\ (c - 1) + 1 = c
  BY <1>1
<1>2. ASSUME NEW n \in (c - 1) + 1 .. Len(s) PROVE s[n] = << >>
  <2>1. n \in c .. Len(text) /\ n \in 1 .. Len(text)
    BY <1>0, <1>1
  <2>2. ~StartsToken(text, n)
    BY <2>1 DEF StartsToken
  <2>. QED  BY <1>1, <2>1, <2>2
<1>3. Joined(s, Len(s)) = Joined(s, c - 1)
  BY <1>0, <1>1, <1>2, JoinedSkip
<1>4. Joined(s, Len(s)) = FlattenSeq(s)
  BY <1>1, JoinedNext
<1>. QED  BY <1>1, <1>3, <1>4 DEF TokensUpto, s

-----------------------------------------------------------------------------
(* The tokens of the source.                                                *)

(* Those of each file.                                                      *)
FileTokens == [n \in DOMAIN files |-> TokensOf(Content(files[n]))]
FilesTokensAt == UNION {TokensAt(Content(files[n])) : n \in DOMAIN files}

(* The text being lexed.                                                    *)
FileText == Content(files[i])

(* What has been cut off a file: the tokens before the scanner's place,     *)
(* which is not inside a word, and the line of that place.                  *)
CutInv ==
  /\ current <= Len(FileText) + 1
  /\ line = LineAt(FileText, current - 1)
  /\ tokens = Joined(FileTokens, i - 1) \o TokensUpto(FileText, current - 1)
  /\ Boundary(FileText, current)

SourceInv ==
  /\ pc = "main" => tokens = << >>
  /\ pc = "read" => tokens = Joined(FileTokens, i - 1)
  /\ pc = "scan" => CutInv
  /\ TokensMatchSource

(* There are as many lists of tokens as files.                              *)
LEMMA FileTokensType ==
  ASSUME files \in CommandLines
  PROVE  /\ FileTokens \in Seq(Seq(FilesTokensAt)) /\ Len(FileTokens) = Len(files)
         /\ Len(files) \in Nat /\ DOMAIN files = 1 .. Len(files)
         /\ \A n \in 1 .. Len(files) :
              /\ files[n] \in Seq(STRING)
              /\ FileTokens[n] = TokensOf(Content(files[n]))
<1>1. /\ Len(files) \in Nat /\ DOMAIN files = 1 .. Len(files)
      /\ \A n \in 1 .. Len(files) : files[n] \in Seq(STRING)
  <2>. DEFINE C == Seq(STRING)
  <2>1. files \in Seq(C)
    BY CommandLinesAssumption
  <2>. HIDE DEF C
  <2>2. Len(files) \in Nat /\ DOMAIN files = 1 .. Len(files) /\ \A n \in 1 .. Len(files) : files[n] \in C
    BY <2>1
  <2>. QED  BY <2>2 DEF C
<1>2. ASSUME NEW n \in 1 .. Len(files)
      PROVE  TokensOf(Content(files[n])) \in Seq(FilesTokensAt)
  <2>. DEFINE text == Content(files[n])
              X == TokensAt(text)
              s == TokenParts(text)
  <2>1. text \in Seq(Text)
    BY <1>1, ContentFacts
  <2>2. s \in Seq(Seq(X)) /\ TokensOf(text) = FlattenSeq(s)
    BY <2>1, TokenPartsType
  <2>3. X \subseteq FilesTokensAt
    BY <1>1 DEF FilesTokensAt
  <2>. HIDE DEF s, X, text
  <2>4. Joined(s, Len(s)) = FlattenSeq(s) /\ Joined(s, Len(s)) \in Seq(X)
    <3>1. Len(s) \in 0 .. Len(s)
      BY <2>2
    <3>. QED  BY <2>2, <3>1, JoinedNext
  <2>5. TokensOf(text) \in Seq(FilesTokensAt)
    BY <2>2, <2>3, <2>4
  <2>. QED  BY <2>5 DEF text
<1>3. FileTokens = [n \in 1 .. Len(files) |-> TokensOf(Content(files[n]))]
  BY <1>1 DEF FileTokens
<1>4. FileTokens \in [1 .. Len(files) -> Seq(FilesTokensAt)]
  BY <1>2, <1>3
<1>5. FileTokens \in Seq(Seq(FilesTokensAt)) /\ Len(FileTokens) = Len(files)
  <2>. DEFINE Y == Seq(FilesTokensAt)
              t == FileTokens
  <2>1. t \in [1 .. Len(files) -> Y]
    BY <1>4
  <2>. HIDE DEF Y, t
  <2>2. t \in Seq(Y) /\ Len(t) = Len(files)
    BY <1>1, <2>1
  <2>. QED  BY <2>2 DEF Y, t
<1>. QED  BY <1>1, <1>3, <1>5

(* The buffer holds the text and a NUL.                                     *)
LEMMA TextFacts ==
  ASSUME CompilerInv, At("scan")
  PROVE  /\ FileText \in Seq(Text) /\ Len(FileText) \in Nat
         /\ source \in Seq(Text) /\ Len(source) \in Nat /\ Len(FileText) + 1 \in 1 .. Len(source)
         /\ source[Len(FileText) + 1] = NUL
         /\ \A k \in 1 .. Len(FileText) : FileText[k] = source[k] /\ source[k] # NUL
         /\ i \in 1 .. Len(files) /\ files \in CommandLines
<1>. DEFINE file == files[i]
            text == Content(file)
<1>1. files \in CommandLines /\ i \in 1 .. Len(files) /\ source \in Seq(Text) /\ Len(source) \in Nat
  BY ScanFacts
<1>2. file \in Seq(STRING)
  BY <1>1, FileTokensType
<1>3. source = Append(file, NUL)
  BY DEF At, CompilerInv, ScannerInv
<1>4. FileText = text
  BY DEF FileText
<1>. HIDE DEF file
<1>5. /\ text \in Seq(Text) /\ Len(text) \in Nat /\ Len(text) + 1 \in DOMAIN source
      /\ source[Len(text) + 1] = NUL
      /\ \A k \in 1 .. Len(text) : text[k] = source[k] /\ source[k] # NUL
  BY <1>2, <1>3, ContentFacts
<1>6. DOMAIN source = 1 .. Len(source)
  BY <1>1
<1>. HIDE DEF text
<1>. QED  BY <1>1, <1>4, <1>5, <1>6

(* No loop of the scanner goes beyond the first NUL.                        *)
LEMMA EndOfInText ==
  ASSUME CompilerInv, At("scan"), NEW k \in 1 .. Len(FileText) + 1, NEW set, NUL \notin set
  PROVE  /\ EndOf(k, set) \in k .. Len(FileText) + 1
         /\ EndOf(k, set) <= Len(FileText) => FileText[EndOf(k, set)] \notin set
         /\ \A n \in k .. EndOf(k, set) - 1 : n \in 1 .. Len(FileText) /\ FileText[n] \in set
<1>. DEFINE e == EndOf(k, set)
            L == Len(FileText)
            text == FileText
<1>1. /\ L \in Nat /\ L + 1 \in 1 .. Len(source) /\ source[L + 1] = NUL
      /\ source \in Seq(Text) /\ Len(source) \in Nat
      /\ \A n \in 1 .. L : text[n] = source[n]
  BY TextFacts
<1>2. source[Len(source)] = NUL
  BY ScanFacts
<1>3. k \in 1 .. Len(source)
  BY <1>1
<1>4. e \in k .. Len(source) /\ source[e] \notin set /\ \A n \in k .. e - 1 : source[n] \in set
  BY <1>1, <1>2, <1>3, EndOfInBuffer
<1>. HIDE DEF e, L, text
<1>5. e <= L + 1
  <2>1. CASE e > L + 1
    <3>1. L + 1 \in k .. e - 1
      BY <1>1, <1>4, <2>1 DEF L
    <3>. QED  BY <1>1, <1>4, <3>1
  <2>. QED  BY <1>1, <1>4, <2>1
<1>6. k \in Nat /\ k >= 1 /\ k <= L + 1
  BY <1>1 DEF L
<1>7. e \in k .. L + 1
  BY <1>1, <1>4, <1>5, <1>6
<1>8. e <= L => text[e] \notin set
  <2>1. e <= L => e \in 1 .. L
    BY <1>1, <1>6, <1>7
  <2>. QED  BY <1>1, <1>4, <2>1
<1>9. ASSUME NEW n \in k .. e - 1 PROVE n \in 1 .. L /\ text[n] \in set
  <2>1. n \in 1 .. L
    BY <1>1, <1>6, <1>7
  <2>. QED  BY <1>1, <1>4, <2>1
<1>. QED  BY <1>7, <1>8, <1>9 DEF e, L, text

(* Where the next token starts, and that one does.                          *)
LEMMA StartFacts ==
  ASSUME CompilerInv, SourceInv, At("scan")
  PROVE  /\ current \in 1 .. Len(FileText) + 1
         /\ Start \in current .. Len(FileText) + 1
         /\ \A n \in current .. Start - 1 :
              n \in 1 .. Len(FileText) /\ FileText[n] \in Blanks /\ ~StartsToken(FileText, n)
         /\ Start <= Len(FileText) =>
              /\ Start \in 1 .. Len(FileText) /\ source[Start] = FileText[Start]
              /\ source[Start] # NUL /\ StartsToken(FileText, Start)
         /\ Start = Len(FileText) + 1 => source[Start] = NUL
<1>1. CutInv
  BY DEF SourceInv, At
<1>2. /\ Len(FileText) \in Nat /\ FileText \in Seq(Text)
      /\ source[Len(FileText) + 1] = NUL
      /\ \A k \in 1 .. Len(FileText) : FileText[k] = source[k] /\ source[k] # NUL
  BY TextFacts
<1>3. current \in 1 .. Len(source)
  BY DEF CompilerInv, ScannerInv, At
<1>4. current \in 1 .. Len(FileText) + 1
  BY <1>1, <1>2, <1>3 DEF CutInv
<1>5. NUL \notin Blanks
  BY DEF NUL, Blanks
<1>6. /\ Start \in current .. Len(FileText) + 1
      /\ Start <= Len(FileText) => FileText[Start] \notin Blanks
      /\ \A n \in current .. Start - 1 : n \in 1 .. Len(FileText) /\ FileText[n] \in Blanks
  BY <1>4, <1>5, EndOfInText DEF Start
<1>7. Boundary(FileText, current)
  BY <1>1 DEF CutInv
<1>. DEFINE k == Start
            c == current
            text == FileText
<1>8. \A n \in c .. k - 1 : ~StartsToken(text, n)
  BY <1>6 DEF StartsToken
<1>9. ASSUME k <= Len(text)
      PROVE  /\ k \in 1 .. Len(text) /\ source[k] = text[k] /\ source[k] # NUL
             /\ StartsToken(text, k)
  <2>1. k \in c .. Len(text) /\ text[k] \notin Blanks /\ k \in 1 .. Len(text)
    BY <1>2, <1>4, <1>6, <1>9
  <2>2. \A n \in c .. k - 1 : text[n] \in Blanks
    BY <1>6
  <2>. HIDE DEF k, c, text
  <2>3. StartsToken(text, k)
    BY <1>2, <1>4, <1>7, <2>1, <2>2, StartsHere DEF c, text
  <2>. QED  BY <1>2, <2>1, <2>3 DEF text
<1>. QED  BY <1>2, <1>4, <1>6, <1>8, <1>9

(* A lexeme is the same part of the text as of the buffer.                  *)
LEMMA SamePart ==
  ASSUME NEW text \in Seq(Text), NEW bytes \in Seq(Text), Len(text) <= Len(bytes),
         \A k \in 1 .. Len(text) : text[k] = bytes[k],
         NEW a \in 1 .. Len(text), NEW b \in a .. Len(text)
  PROVE  SubSeq(bytes, a, b) = SubSeq(text, a, b)
<1>0. Len(text) \in Nat /\ Len(bytes) \in Nat /\ b - a + 1 \in Nat /\ a \in 1 .. Len(bytes) /\ b \in 1 .. Len(bytes)
  OBVIOUS
<1>1. /\ SubSeq(text, a, b) \in Seq(Text) /\ Len(SubSeq(text, a, b)) = b - a + 1
      /\ \A n \in 1 .. b - a + 1 : SubSeq(text, a, b)[n] = text[a + n - 1]
  BY <1>0
<1>2. /\ SubSeq(bytes, a, b) \in Seq(Text) /\ Len(SubSeq(bytes, a, b)) = b - a + 1
      /\ \A n \in 1 .. b - a + 1 : SubSeq(bytes, a, b)[n] = bytes[a + n - 1]
  BY <1>0
<1>3. \A n \in 1 .. b - a + 1 : a + n - 1 \in 1 .. Len(text)
  BY <1>0
<1>. DEFINE s == SubSeq(text, a, b)
            t == SubSeq(bytes, a, b)
<1>4. \A n \in 1 .. Len(s) : s[n] = t[n]
  BY <1>1, <1>2, <1>3
<1>5. s \in Seq(Text) /\ t \in Seq(Text) /\ Len(s) = Len(t)
  BY <1>1, <1>2
<1>. HIDE DEF s, t
<1>6. s = t
  BY <1>4, <1>5, SeqEqual
<1>. QED  BY <1>6 DEF s, t

(* An empty file, or the beginning of one.                                  *)
LEMMA NothingYet ==
  ASSUME files \in CommandLines, NEW n \in 1 .. Len(files)
  PROVE  LET text == Content(files[n])
         IN  /\ TokensUpto(text, 0) = << >>
             /\ Boundary(text, 1)
             /\ Joined(FileTokens, n - 1) \in Seq(FilesTokensAt)
             /\ Joined(FileTokens, n - 1) \o << >> = Joined(FileTokens, n - 1)
<1>. DEFINE text == Content(files[n])
<1>1. files[n] \in Seq(STRING)
  BY FileTokensType
<1>2. text \in Seq(Text)
  BY <1>1, ContentFacts
<1>. HIDE DEF text
<1>3. TokensUpto(text, 0) = << >>
  BY DEF TokensUpto, Joined
<1>4. Boundary(text, 1)
  <2>1. DOMAIN text = 1 .. Len(text) /\ Len(text) \in Nat /\ 1 - 1 = 0
    BY <1>2
  <2>2. 1 - 1 \notin DOMAIN text
    BY <2>1
  <2>. QED  BY <2>2 DEF Boundary, IsWord
<1>5. /\ FileTokens \in Seq(Seq(FilesTokensAt)) /\ Len(FileTokens) = Len(files) /\ Len(files) \in Nat
      /\ n - 1 \in 0 .. Len(files)
  BY FileTokensType
<1>6. Joined(FileTokens, n - 1) \in Seq(FilesTokensAt)
  BY <1>5, JoinedNext
<1>7. Joined(FileTokens, n - 1) \o << >> = Joined(FileTokens, n - 1)
  BY <1>6, ConcatEmptySeq
<1>. QED  BY <1>3, <1>4, <1>6, <1>7 DEF text

(* A token cut off where the text has one is the text's token.              *)
LEMMA CutStep ==
  ASSUME CompilerInv, SourceInv, At("scan"), Start <= Len(FileText),
         NEW type, NEW e \in Start + 1 .. Len(FileText) + 1, NEW its_line,
         IsCut(FileText, Start, e), type = TypeOf(FileText[Start]),
         its_line = LineAt(FileText, Start), LineAt(FileText, e - 1) = its_line,
         Emit(type, e, its_line)
  PROVE  SourceInv'
<1>. DEFINE k == Start
            text == FileText
            c == current
            before == Joined(FileTokens, i - 1)
<1>1. /\ text \in Seq(Text) /\ source \in Seq(Text) /\ Len(text) \in Nat /\ Len(source) \in Nat
      /\ Len(text) <= Len(source) /\ \A n \in 1 .. Len(text) : text[n] = source[n]
      /\ i \in 1 .. Len(files) /\ files \in CommandLines
  BY TextFacts
<1>2. /\ c \in 1 .. Len(text) + 1 /\ k \in c .. Len(text) + 1 /\ k \in 1 .. Len(text)
      /\ StartsToken(text, k) /\ \A n \in c .. k - 1 : ~StartsToken(text, n)
  BY StartFacts
<1>3. CutInv
  BY DEF SourceInv, At
<1>. HIDE DEF k, text, c
<1>4. e \in k + 1 .. Len(text) + 1 /\ IsCut(text, k, e) /\ e - 1 \in k .. Len(text)
  <2>1. e \in k + 1 .. Len(text) + 1 /\ IsCut(text, k, e)
    BY DEF k, text
  <2>. QED  BY <1>1, <1>2, <2>1
<1>5. Token(type, e, its_line) = TokenAt(text, k)
  <2>1. LastOf(text, k) = e - 1
    BY <1>1, <1>2, <1>4, LastOfCut
  <2>2. SubSeq(source, k, e - 1) = SubSeq(text, k, e - 1)
    BY <1>1, <1>2, <1>4, SamePart
  <2>3. TokenAt(text, k) = [type |-> type, lexeme |-> SubSeq(text, k, e - 1), line |-> its_line]
    BY <2>1 DEF TokenAt, text, k
  <2>4. Token(type, e, its_line) = [type |-> type, lexeme |-> SubSeq(source, k, e - 1), line |-> its_line]
    BY DEF Token, k
  <2>. QED  BY <2>2, <2>3, <2>4
<1>6. TokensUpto(text, e - 1) = TokensUpto(text, c - 1) \o << TokenAt(text, k) >>
  <2>1. k \in c .. Len(text)
    BY <1>1, <1>2
  <2>. QED  BY <1>1, <1>2, <1>4, <2>1, TokensUptoCut
<1>7. tokens = before \o TokensUpto(text, c - 1)
  BY <1>3 DEF CutInv, text, c
<1>8. tokens' = before \o TokensUpto(text, e - 1)
  <2>. DEFINE A == FilesTokensAt
              B == TokensAt(text)
              t == TokenAt(text, k)
              found == TokensUpto(text, c - 1)
  <2>1. before \in Seq(A)
    BY <1>1, NothingYet
  <2>2. found \in Seq(B)
    <3>1. c - 1 \in 0 .. Len(text)
      BY <1>1, <1>2
    <3>2. TokenParts(text) \in Seq(Seq(B)) /\ Len(TokenParts(text)) = Len(text)
      BY <1>1, TokenPartsType
    <3>. HIDE DEF B
    <3>. QED  BY <3>1, <3>2, JoinedNext DEF TokensUpto
  <2>3. tokens' = Append(tokens, t)
    BY <1>5 DEF Emit
  <2>. HIDE DEF A, B, t, found, before
  <2>. DEFINE Z == A \cup B \cup {t}
  <2>4. before \in Seq(Z) /\ found \in Seq(Z) /\ << t >> \in Seq(Z)
    BY <2>1, <2>2
  <2>5. before \o (found \o << t >>) = (before \o found) \o << t >>
    <3>. HIDE DEF Z
    <3>. QED  BY <2>4, ConcatAssociative, SMTT(30)
  <2>6. Append(before \o found, t) = (before \o found) \o << t >>
    <3>1. before \o found \in Seq(Z) /\ t \in Z
      <4>1. t \in Z
        OBVIOUS
      <4>. HIDE DEF Z
      <4>. QED  BY <2>4, <4>1, ConcatProperties
    <3>. HIDE DEF Z
    <3>. QED  BY <3>1, SMTT(30)
  <2>. QED  BY <1>6, <1>7, <2>3, <2>5, <2>6 DEF t, found
<1>9. /\ UNCHANGED << files, class, pc, status, i, source >>
      /\ current' = e /\ line' = its_line
  BY DEF Emit, driverVars
<1>10. FileText' = FileText /\ FileTokens' = FileTokens
  BY <1>9 DEF FileText, FileTokens
<1>11. /\ e <= Len(text) + 1 /\ its_line = LineAt(text, e - 1) /\ Boundary(text, e)
  BY <1>1, <1>4 DEF IsCut, text
<1>12. CutInv'
  BY <1>8, <1>9, <1>10, <1>11 DEF CutInv, text, before
<1>13. pc = "scan" /\ status = "running"
  BY DEF At
<1>. QED  BY <1>9, <1>12, <1>13 DEF SourceInv, TokensMatchSource

(* A mark has one type.                                                     *)
LEMMA TypeOfMark ==
  ASSUME NEW mark \in Punctuation
  PROVE  /\ TypeOf(mark[1]) = mark[2]
         /\ mark[1] \notin Letters \cup Digits /\ mark[1] # "\n" /\ mark[1] # NUL
<1>. DEFINE Mark(c) ==
       CASE c = "," -> << ",", "COMMA" >>
         [] c = "-" -> << "-", "MINUS" >>
         [] c = ":" -> << ":", "COLON" >>
         [] c = "(" -> << "(", "LPAREN" >>
         [] c = ")" -> << ")", "RPAREN" >>
<1>0. ASSUME NEW a \in Punctuation
      PROVE  \/ a = << ",", "COMMA" >> /\ a[1] = ","
             \/ a = << "-", "MINUS" >> /\ a[1] = "-"
             \/ a = << ":", "COLON" >> /\ a[1] = ":"
             \/ a = << "(", "LPAREN" >> /\ a[1] = "("
             \/ a = << ")", "RPAREN" >> /\ a[1] = ")"
  <2>1. CASE a = << ",", "COMMA" >>
    BY <2>1
  <2>2. CASE a = << "-", "MINUS" >>
    BY <2>2
  <2>3. CASE a = << ":", "COLON" >>
    BY <2>3
  <2>4. CASE a = << "(", "LPAREN" >>
    BY <2>4
  <2>5. CASE a = << ")", "RPAREN" >>
    BY <2>5
  <2>. QED  BY <2>1, <2>2, <2>3, <2>4, <2>5 DEF Punctuation
<1>1. ASSUME NEW a \in Punctuation, NEW b \in Punctuation, a[1] = b[1]
      PROVE  a = b
  <2>1. ASSUME NEW x \in Punctuation PROVE x = Mark(x[1])
    <3>1. CASE x = << ",", "COMMA" >> /\ x[1] = ","
      BY <3>1
    <3>2. CASE x = << "-", "MINUS" >> /\ x[1] = "-"
      BY <3>2
    <3>3. CASE x = << ":", "COLON" >> /\ x[1] = ":"
      BY <3>3
    <3>4. CASE x = << "(", "LPAREN" >> /\ x[1] = "("
      BY <3>4
    <3>5. CASE x = << ")", "RPAREN" >> /\ x[1] = ")"
      BY <3>5
    <3>. QED  BY <1>0, <3>1, <3>2, <3>3, <3>4, <3>5
  <2>. HIDE DEF Mark
  <2>2. a = Mark(a[1]) /\ b = Mark(b[1])
    BY <2>1
  <2>. QED  BY <1>1, <2>2
<1>2. mark[1] \in {",", "-", ":", "(", ")"}
  BY <1>0
<1>3. mark[1] \notin Letters \cup Digits
  BY <1>2, RunsAssumption
<1>4. mark[1] # "\n" /\ mark[1] # NUL
  BY <1>2 DEF NUL
<1>5. (CHOOSE a \in Punctuation : a[1] = mark[1]) = mark
  <2>. DEFINE c == CHOOSE a \in Punctuation : a[1] = mark[1]
  <2>1. c \in Punctuation /\ c[1] = mark[1]
    OBVIOUS
  <2>. HIDE DEF c
  <2>2. c = mark
    BY <1>1, <2>1
  <2>. QED  BY <2>2 DEF c
<1>6. TypeOf(mark[1]) = (CHOOSE a \in Punctuation : a[1] = mark[1])[2]
  BY <1>3, <1>4 DEF TypeOf
<1>. QED  BY <1>3, <1>4, <1>5, <1>6

(* Each loop of the scanner cuts off a token of the text.                   *)
LEMMA ScanCuts ==
  ASSUME CompilerInv, SourceInv,
         ScanIdentifier \/ ScanNumber \/ ScanPunctuation \/ ScanNewline
  PROVE  SourceInv'
<1>. DEFINE k == Start
            text == FileText
            L == Len(FileText)
            c == current
<1>0. At("scan")
  BY DEF ScanIdentifier, ScanNumber, ScanPunctuation, ScanNewline
<1>1. /\ text \in Seq(Text) /\ L \in Nat /\ L = Len(text)
      /\ c \in 1 .. L + 1 /\ k \in c .. L + 1
      /\ \A n \in c .. k - 1 : text[n] \in Blanks
      /\ k <= L => k \in 1 .. L /\ source[k] = text[k] /\ StartsToken(text, k)
      /\ k = L + 1 => source[k] = NUL
  BY <1>0, TextFacts, StartFacts
<1>2. line = LineAt(text, c - 1)
  BY <1>0 DEF SourceInv, At, CutInv
<1>3. "\n" \notin Blanks \cup Letters \cup Digits /\ NUL \notin Letters \cup Digits \cup {"\n"}
  <2>1. "\n" \notin Letters \cup Digits /\ NUL \notin Letters \cup Digits
    BY RunsAssumption
  <2>. QED  BY <2>1 DEF Blanks, NUL
<1>. HIDE DEF k, L, c, text
<1>4. line = LineAt(text, k - 1)
  <2>1. c - 1 \in Nat /\ k - 1 \in Nat /\ c - 1 <= k - 1 /\ (c - 1) + 1 = c
    BY <1>1
  <2>2. \A n \in (c - 1) + 1 .. k - 1 : text[n] # "\n"
    BY <1>1, <1>3, <2>1
  <2>. QED  BY <1>2, <2>1, <2>2, LineAtSame
<1>5. ASSUME k <= L PROVE LineAt(text, k) = IF text[k] = "\n" THEN line + 1 ELSE line
  <2>1. k - 1 \in Nat /\ (k - 1) + 1 = k
    BY <1>1
  <2>2. LineAt(text, (k - 1) + 1) = IF text[(k - 1) + 1] = "\n" THEN LineAt(text, k - 1) + 1 ELSE LineAt(text, k - 1)
    BY <2>1, LineAtNext
  <2>. QED  BY <1>4, <2>1, <2>2
<1>6. ASSUME k <= L, NEW e \in k + 1 .. L + 1, \A n \in k + 1 .. e - 1 : text[n] # "\n"
      PROVE  LineAt(text, e - 1) = LineAt(text, k)
  <2>1. k \in Nat /\ e - 1 \in Nat /\ k <= e - 1
    BY <1>1
  <2>. QED  BY <1>6, <2>1, LineAtSame
<1>7. ASSUME ScanIdentifier PROVE SourceInv'
  <2>. DEFINE e == EndOf(k, InIdentifier)
  <2>1. source[k] \in Letters /\ Emit("IDENTIFIER", e, line)
    BY <1>7 DEF ScanIdentifier, k
  <2>2. k <= L
    BY <1>1, <1>3, <2>1
  <2>3. text[k] \in Letters /\ k \in 1 .. L
    BY <1>1, <2>1, <2>2
  <2>4. /\ e \in k .. L + 1
        /\ e <= L => text[e] \notin InIdentifier
        /\ \A n \in k .. e - 1 : n \in 1 .. L /\ text[n] \in InIdentifier
    <3>1. k \in 1 .. Len(FileText) + 1 /\ NUL \notin InIdentifier
      BY <1>1, <1>3 DEF L, InIdentifier
    <3>. QED  BY <1>0, <3>1, EndOfInText DEF L, text
  <2>. HIDE DEF e
  <2>5. e # k
    BY <2>2, <2>3, <2>4 DEF InIdentifier
  <2>6. e \in k + 1 .. L + 1
    BY <1>1, <2>4, <2>5
  <2>7. IsCut(text, k, e)
    BY <1>1, <2>3, <2>4, <2>6, IdentifierCut DEF InIdentifier
  <2>8. "IDENTIFIER" = TypeOf(text[k])
    <3>1. text[k] \notin Digits /\ text[k] # "\n"
      BY <1>3, <2>3, RunsAssumption
    <3>. QED  BY <2>3, <3>1 DEF TypeOf
  <2>9. text[k] # "\n" /\ \A n \in k + 1 .. e - 1 : text[n] # "\n"
    <3>1. ASSUME NEW n \in k + 1 .. e - 1 PROVE text[n] # "\n"
      <4>1. n \in k .. e - 1
        BY <1>1, <2>6
      <4>. QED  BY <1>3, <2>4, <4>1 DEF InIdentifier
    <3>. QED  BY <1>3, <2>3, <3>1
  <2>10. line = LineAt(text, k) /\ LineAt(text, e - 1) = line
    <3>1. line = LineAt(text, k)
      BY <1>5, <2>2, <2>9
    <3>2. LineAt(text, e - 1) = LineAt(text, k)
      BY <1>6, <2>2, <2>6, <2>9
    <3>. QED  BY <3>1, <3>2
  <2>. QED  BY <1>0, <2>1, <2>2, <2>6, <2>7, <2>8, <2>10, CutStep DEF k, L, text
<1>8. ASSUME ScanNumber PROVE SourceInv'
  <2>. DEFINE e == EndOf(k, Digits)
  <2>1. source[k] \in Digits /\ Emit("DECIMAL", e, line)
    BY <1>8 DEF ScanNumber, k
  <2>2. k <= L
    BY <1>1, <1>3, <2>1
  <2>3. text[k] \in Digits /\ k \in 1 .. L /\ StartsToken(text, k)
    BY <1>1, <2>1, <2>2
  <2>4. /\ e \in k .. L + 1
        /\ e <= L => text[e] \notin Digits
        /\ \A n \in k .. e - 1 : n \in 1 .. L /\ text[n] \in Digits
    <3>1. k \in 1 .. Len(FileText) + 1 /\ NUL \notin Digits
      BY <1>1, <1>3 DEF L
    <3>. QED  BY <1>0, <3>1, EndOfInText DEF L, text
  <2>. HIDE DEF e
  <2>5. e # k
    BY <2>2, <2>3, <2>4
  <2>6. e \in k + 1 .. L + 1
    BY <1>1, <2>4, <2>5
  <2>7. IsCut(text, k, e)
    BY <1>1, <2>3, <2>4, <2>6, NumberCut
  <2>8. "DECIMAL" = TypeOf(text[k])
    <3>1. text[k] \notin Letters /\ text[k] # "\n"
      BY <1>3, <2>3, RunsAssumption
    <3>. QED  BY <2>3, <3>1 DEF TypeOf
  <2>9. text[k] # "\n" /\ \A n \in k + 1 .. e - 1 : text[n] # "\n"
    <3>1. ASSUME NEW n \in k + 1 .. e - 1 PROVE text[n] # "\n"
      <4>1. n \in k .. e - 1
        BY <1>1, <2>6
      <4>. QED  BY <1>3, <2>4, <4>1
    <3>. QED  BY <1>3, <2>3, <3>1
  <2>10. line = LineAt(text, k) /\ LineAt(text, e - 1) = line
    <3>1. line = LineAt(text, k)
      BY <1>5, <2>2, <2>9
    <3>2. LineAt(text, e - 1) = LineAt(text, k)
      BY <1>6, <2>2, <2>6, <2>9
    <3>. QED  BY <3>1, <3>2
  <2>. QED  BY <1>0, <2>1, <2>2, <2>6, <2>7, <2>8, <2>10, CutStep DEF k, L, text
<1>9. ASSUME k <= L, text[k] \notin Letters \cup Digits,
             Emit(TypeOf(text[k]), k + 1, LineAt(text, k))
      PROVE  SourceInv'
  <2>1. k \in 1 .. L /\ k + 1 \in k + 1 .. L + 1 /\ (k + 1) - 1 = k
    BY <1>1, <1>9
  <2>2. IsCut(text, k, k + 1)
    BY <1>1, <1>9, <2>1, MarkCut
  <2>3. LineAt(text, (k + 1) - 1) = LineAt(text, k)
    BY <2>1
  <2>. QED  BY <1>0, <1>9, <2>1, <2>2, <2>3, CutStep DEF k, L, text
<1>10. ASSUME ScanPunctuation PROVE SourceInv'
  <2>1. PICK mark \in Punctuation : source[k] = mark[1] /\ Emit(mark[2], k + 1, line)
    BY <1>10 DEF ScanPunctuation, k
  <2>2. /\ TypeOf(mark[1]) = mark[2]
        /\ mark[1] \notin Letters \cup Digits /\ mark[1] # "\n" /\ mark[1] # NUL
    BY TypeOfMark
  <2>3. k <= L
    BY <1>1, <2>1, <2>2
  <2>4. text[k] = mark[1]
    BY <1>1, <2>1, <2>3
  <2>5. LineAt(text, k) = line
    BY <1>5, <2>2, <2>3, <2>4
  <2>. QED  BY <1>9, <2>1, <2>2, <2>3, <2>4, <2>5
<1>11. ASSUME ScanNewline PROVE SourceInv'
  <2>1. source[k] = "\n" /\ Emit("NEWLINE", k + 1, line + 1)
    BY <1>11 DEF ScanNewline, k
  <2>2. k <= L
    BY <1>1, <1>3, <2>1
  <2>3. text[k] = "\n"
    BY <1>1, <2>1, <2>2
  <2>4. LineAt(text, k) = line + 1
    BY <1>5, <2>2, <2>3
  <2>5. TypeOf(text[k]) = "NEWLINE" /\ text[k] \notin Letters \cup Digits
    <3>1. text[k] \notin Letters \cup Digits
      BY <1>3, <2>3
    <3>. QED  BY <2>3, <3>1 DEF TypeOf
  <2>. QED  BY <1>9, <2>1, <2>2, <2>4, <2>5
<1>. QED  BY <1>7, <1>8, <1>10, <1>11

(* After a file's last token the tokens of one more file are complete.      *)
LEMMA EndFileCuts ==
  ASSUME CompilerInv, SourceInv, EndFile
  PROVE  SourceInv'
<1>. DEFINE k == Start
            text == FileText
            L == Len(FileText)
            c == current
            s == FileTokens
            X == FilesTokensAt
<1>0. At("scan") /\ pc = "scan" /\ status = "running" /\ source[k] = NUL
  BY DEF EndFile, At
<1>1. /\ text \in Seq(Text) /\ L \in Nat /\ L = Len(text)
      /\ c \in 1 .. L + 1 /\ k \in c .. L + 1
      /\ \A n \in c .. k - 1 : text[n] \in Blanks
      /\ k <= L => source[k] # NUL
      /\ i \in 1 .. Len(files) /\ files \in CommandLines
      /\ source \in Seq(Text) /\ Len(source) \in Nat
  BY <1>0, TextFacts, StartFacts
<1>2. /\ line = LineAt(text, c - 1)
      /\ tokens = Joined(s, i - 1) \o TokensUpto(text, c - 1)
  BY <1>0 DEF SourceInv, CutInv
<1>3. /\ s \in Seq(Seq(X)) /\ Len(s) = Len(files) /\ Len(files) \in Nat
      /\ s[i] = TokensOf(text)
  BY <1>1, FileTokensType DEF FileText
<1>4. "\n" \notin Blanks
  BY DEF Blanks
<1>. HIDE DEF k, text, L, c, s, X
<1>5. k = L + 1
  BY <1>0, <1>1
<1>6. line = LineAt(text, L)
  <2>1. c - 1 \in Nat /\ c - 1 <= L /\ (c - 1) + 1 = c
    BY <1>1
  <2>2. \A n \in (c - 1) + 1 .. L : text[n] # "\n"
    BY <1>1, <1>4, <1>5, <2>1
  <2>. QED  BY <1>1, <1>2, <2>1, <2>2, LineAtSame
<1>7. TokensUpto(text, c - 1) = TokensOf(text)
  BY <1>1, <1>5, TokensUptoEnd
<1>8. tokens = Joined(s, i)
  <2>1. i - 1 \in 0 .. Len(s) - 1 /\ (i - 1) + 1 = i
    BY <1>1, <1>3
  <2>2. Joined(s, (i - 1) + 1) = Joined(s, i - 1) \o s[(i - 1) + 1]
    BY <1>3, <2>1, JoinedNext
  <2>. QED  BY <1>2, <1>3, <1>7, <2>1, <2>2
<1>9. /\ UNCHANGED << files, class, status, source, line >>
      /\ tokens' = IF i = Len(files) THEN Append(tokens, Token("EOF", k, line)) ELSE tokens
      /\ i' = i + 1
      /\ pc' = IF i = Len(files) THEN "lexed" ELSE "read"
  BY DEF EndFile, KeepsEof, driverVars, k
<1>10. FileTokens' = FileTokens
  BY <1>9 DEF FileTokens
<1>11. CASE i # Len(files)
  <2>1. pc' = "read" /\ tokens' = tokens /\ i' - 1 = i
    BY <1>1, <1>9, <1>11
  <2>2. tokens' = Joined(FileTokens, i' - 1)
    BY <1>8, <2>1 DEF s
  <2>3. tokens' = Joined(FileTokens', i' - 1)
    BY <1>10, <2>2
  <2>. QED  BY <2>1, <2>3 DEF SourceInv, TokensMatchSource
<1>12. CASE i = Len(files)
  <2>1. pc' = "lexed" /\ tokens' = Append(tokens, Token("EOF", k, line))
    BY <1>9, <1>12
  <2>2. tokens = FlattenSeq(s)
    BY <1>3, <1>8, <1>12, JoinedNext
  <2>3. Token("EOF", k, line) = [type |-> "EOF", lexeme |-> << >>, line |-> LineAt(text, Len(text))]
    <3>1. SubSeq(source, k, k - 1) = << >>
      BY <1>1, SubSeqEmpty
    <3>. QED  BY <1>1, <1>6, <3>1 DEF Token, k
  <2>4. SourceTokens = Append(FlattenSeq(s), [type |-> "EOF", lexeme |-> << >>, line |-> LineAt(text, Len(text))])
    BY <1>12 DEF SourceTokens, s, FileTokens, text, FileText
  <2>5. SourceTokens' = SourceTokens
    BY <1>9 DEF SourceTokens
  <2>6. tokens' = SourceTokens'
    BY <2>1, <2>2, <2>3, <2>4, <2>5
  <2>. QED  BY <2>1, <2>6 DEF SourceInv, TokensMatchSource
<1>. QED  BY <1>11, <1>12

(* What the scanner stops at is in the file.                                *)
LEMMA UnexpectedIsThere ==
  ASSUME CompilerInv, SourceInv, UnexpectedCharacter
  PROVE  SourceInv'
<1>0. At("scan") /\ pc = "scan" /\ ~IsCharacter(source[Start])
  BY DEF UnexpectedCharacter, At
<1>1. /\ FileText \in Seq(Text) /\ Len(FileText) \in Nat
      /\ Start \in 1 .. Len(FileText) + 1
      /\ Start <= Len(FileText) => Start \in 1 .. Len(FileText) /\ source[Start] = FileText[Start]
      /\ Start = Len(FileText) + 1 => source[Start] = NUL
  BY <1>0, TextFacts, StartFacts
<1>2. IsCharacter(NUL)
  BY DEF IsCharacter
<1>3. Start \in 1 .. Len(FileText)
  BY <1>0, <1>1, <1>2
<1>4. Start \in DOMAIN FileText /\ ~IsCharacter(FileText[Start])
  BY <1>0, <1>1, <1>3
<1>5. ~IsReadable(files[i])
  BY <1>4 DEF IsReadable, FileText
<1>6. UNCHANGED << files, class, pc, i, source, current, line, tokens >>
  BY DEF UnexpectedCharacter, FailOrCrash, Exit, driverVars, scannerVars
<1>7. FileText' = FileText /\ FileTokens' = FileTokens /\ CutInv
  BY <1>0, <1>6 DEF FileText, FileTokens, SourceInv
<1>8. CutInv'
  BY <1>6, <1>7 DEF CutInv
<1>9. ~IsReadable(files[i])'
  BY <1>5, <1>6
<1>. QED  BY <1>0, <1>6, <1>8, <1>9 DEF SourceInv, TokensMatchSource

(* A file is begun with nothing cut off it.                                 *)
LEMMA ReadFileCuts ==
  ASSUME CompilerInv, SourceInv, ReadFile
  PROVE  SourceInv'
<1>0. pc = "read" /\ status = "running"
  BY DEF ReadFile, At
<1>1. i \in 1 .. Len(files) /\ files \in CommandLines
  BY <1>0 DEF CompilerInv, ScannerInv, ProcessInv
<1>2. /\ UNCHANGED << files, class, status, i, tokens >>
      /\ current' = 1 /\ line' = 1 /\ pc' = "scan"
  BY DEF ReadFile, driverVars
<1>3. /\ TokensUpto(FileText, 0) = << >> /\ Boundary(FileText, 1)
      /\ Joined(FileTokens, i - 1) \o << >> = Joined(FileTokens, i - 1)
  BY <1>1, NothingYet DEF FileText
<1>4. tokens = Joined(FileTokens, i - 1)
  BY <1>0 DEF SourceInv
<1>5. LineAt(FileText, 0) = 1
  BY LineAtNext
<1>6. FileText \in Seq(Text) /\ Len(FileText) \in Nat
  <2>1. files[i] \in Seq(STRING)
    BY <1>1, FileTokensType
  <2>. QED  BY <2>1, ContentFacts DEF FileText
<1>7. FileText' = FileText /\ FileTokens' = FileTokens
  BY <1>2 DEF FileText, FileTokens
<1>8. current' - 1 = 0 /\ current' <= Len(FileText) + 1
  BY <1>2, <1>6
<1>9. CutInv'
  BY <1>2, <1>3, <1>4, <1>5, <1>7, <1>8 DEF CutInv
<1>. QED  BY <1>0, <1>2, <1>9 DEF SourceInv, TokensMatchSource

(* A step outside the scanner, which has nothing more to say of the source. *)
LEMMA SourceElsewhere ==
  ASSUME pc' \notin {"main", "read", "scan", "lexed"}
  PROVE  SourceInv'
BY DEF SourceInv, TokensMatchSource

(* Every step keeps the tokens those of the source.                         *)
LEMMA SourceStep ==
  ASSUME CompilerInv, SourceInv, [Next]_compilerVars
  PROVE  SourceInv'
<1>1. CASE UNCHANGED compilerVars
  <2>1. UNCHANGED << files, class, pc, status, i, source, current, line, tokens >>
    BY <1>1 DEF compilerVars, lexerVars, driverVars, scannerVars
  <2>2. FileText' = FileText /\ FileTokens' = FileTokens /\ SourceTokens' = SourceTokens
        /\ IsReadable(files[i])' = IsReadable(files[i])
    BY <2>1 DEF FileText, FileTokens, SourceTokens, IsReadable
  <2>3. CutInv' = CutInv
    BY <2>1, <2>2 DEF CutInv
  <2>. QED  BY <2>1, <2>2, <2>3 DEF SourceInv, TokensMatchSource
<1>2. CASE Main
  <2>1. pc = "main" /\ UNCHANGED << files, tokens, i >> /\ pc' \in {"main", "read"}
    BY <1>2 DEF Main, At, Exit, driverVars, scannerVars
  <2>2. tokens = << >> /\ i = 1 /\ i - 1 = 0
    BY <2>1 DEF SourceInv, CompilerInv, ScannerInv
  <2>3. Joined(FileTokens, 0)' = << >>
    BY DEF Joined
  <2>4. tokens' = << >> /\ i' - 1 = 0
    BY <2>1, <2>2
  <2>. QED  BY <2>1, <2>3, <2>4 DEF SourceInv, TokensMatchSource
<1>3. CASE Lex
  <2>1. CASE ReadFile
    BY <2>1, ReadFileCuts
  <2>2. CASE ReadFails
    <3>1. pc = "read" /\ UNCHANGED << files, pc, i, tokens >>
      BY <2>2 DEF ReadFails, At, Exit, driverVars, scannerVars
    <3>2. FileTokens' = FileTokens
      BY <3>1 DEF FileTokens
    <3>. QED  BY <3>1, <3>2 DEF SourceInv, TokensMatchSource
  <2>3. CASE ScanIdentifier \/ ScanNumber \/ ScanPunctuation \/ ScanNewline
    BY <2>3, ScanCuts
  <2>4. CASE UnexpectedCharacter
    BY <2>4, UnexpectedIsThere
  <2>5. CASE EndFile
    BY <2>5, EndFileCuts
  <2>. QED  BY <1>3, <2>1, <2>2, <2>3, <2>4, <2>5 DEF Lex, ScanToken
<1>4. CASE BeginParse \/ EndParse
  BY <1>4, SourceElsewhere DEF BeginParse, EndParse
<1>5. CASE ParseNewline \/ ParseLabel \/ BeginInstruction \/ Call
  <2>1. pc = "parse" /\ pc' = pc
    <3>1. CASE ParseNewline \/ ParseLabel \/ BeginInstruction
      BY <3>1 DEF ParseNewline, ParseLabel, BeginInstruction, AtStatement, At, lexerVars, FailOrCrash, Exit
    <3>2. CASE Call
      <4>1. UNCHANGED pc
        BY <3>2, CallStep
      <4>2. pc = "parse"
        BY <3>2 DEF Call, ConsumeToken, Reg, Operand, Offset, JumpTarget, AppendElement, Calling, At
      <4>. QED  BY <4>1, <4>2
    <3>. QED  BY <1>5, <3>1, <3>2
  <2>. QED  BY <2>1, SourceElsewhere
<1>6. CASE Check \/ Generate
  BY <1>6, SourceElsewhere DEF Check, Generate, At, Exit, FailOrCrash
<1>7. CASE OpenClass \/ WriteClass \/ CloseClass \/ CloseFails
  BY <1>7, SourceElsewhere DEF OpenClass, WriteClass, WroteLess, CloseClass, CloseFails, At, Exit
<1>. QED  BY <1>1, <1>2, <1>3, <1>4, <1>5, <1>6, <1>7 DEF Next, Parse

-----------------------------------------------------------------------------
(* The ways to read a line.                                                 *)

(* Where a reading at k ends.                                               *)
EndsAt(k, r) == k + r.length

(* A reading of an item and one of the rest of the line make one.           *)
Both(r, rest) == [next |-> rest.next, values |-> r.values \o rest.values]

(* A reading of an item, and one of the rest of the line after it.          *)
Followed(readings, k, after) ==
  UNION { { Both(r, rest) : rest \in after[EndsAt(k, r)] } :
            r \in readings }

(* Those from its item n on, when after are those from the next one on.     *)
LineBody(ts, m, n, after) ==
  [k \in DOMAIN ts |->
     IF n > Len(ItemsOf(m)) THEN { [next |-> k, values |-> << >>] }
     ELSE Followed(Readings(ts, k, ItemsOf(m)[n]), k, after)]

(* There are such sets for all items of a line, and LineReadings are they.  *)
LEMMA LineReadingsAre ==
  ASSUME NEW ts, NEW m, Len(ItemsOf(m)) \in Nat
  PROVE  \A n \in 1 .. Len(ItemsOf(m)) + 1 :
           LineReadings(ts, m)[n] = LineBody(ts, m, n, LineReadings(ts, m)[n + 1])
<1>. DEFINE L == Len(ItemsOf(m))
            Body(n, after) == LineBody(ts, m, n, after)
            From(n, f) == \A k \in n .. L + 1 : f[k] = Body(k, f[k + 1])
            Wrong == {d \in 0 .. L : ~ \E f : From(L + 1 - d, f)}
            R(h) == h = [n \in 1 .. L + 1 |-> Body(n, h[n + 1])]
            c == CHOOSE h : R(h)
<1>0. L \in Nat
  OBVIOUS
<1>1. \A a, b : Body(L + 1, a) = Body(L + 1, b)
  <2>1. L + 1 > L
    BY <1>0
  <2>2. ASSUME NEW a
        PROVE  Body(L + 1, a) = [k \in DOMAIN ts |-> { [next |-> k, values |-> << >>] }]
    BY <2>1 DEF LineBody
  <2>. HIDE DEF Body
  <2>. QED  BY <2>2
<1>. HIDE DEF L, Body
<1>2. ASSUME Wrong # {} PROVE FALSE
  <2>1. Wrong \subseteq Nat
    BY <1>0
  <2>2. PICK d \in Wrong : \A e \in Wrong : d <= e
    <3>. HIDE DEF Wrong
    <3>. QED  BY <1>2, <2>1, LeastPlace
  <2>3. d \in 0 .. L /\ ~ \E f : From(L + 1 - d, f)
    BY <2>2
  <2>. DEFINE n == L + 1 - d
  <2>4. n \in 1 .. L + 1
    BY <1>0, <2>3
  <2>5. CASE d = 0
    <3>. DEFINE f == [k \in 1 .. L + 1 |-> Body(L + 1, 0)]
    <3>1. f[L + 1] = Body(L + 1, 0)
      BY <1>0
    <3>2. Body(L + 1, 0) = Body(L + 1, f[(L + 1) + 1])
      BY <1>1
    <3>3. \A k \in n .. L + 1 : k = L + 1
      BY <1>0, <2>5
    <3>. HIDE DEF f
    <3>4. From(n, f)
      BY <3>1, <3>2, <3>3
    <3>. HIDE DEF From
    <3>. QED  BY <2>3, <3>4
  <2>6. CASE d # 0
    <3>1. d - 1 \in 0 .. L /\ ~(d <= d - 1) /\ L + 1 - (d - 1) = n + 1
      BY <1>0, <2>3, <2>6
    <3>2. d - 1 \notin Wrong
      <4>. HIDE DEF Wrong
      <4>. QED  BY <2>2, <3>1
    <3>3. PICK f : From(n + 1, f)
      <4>1. \E f : From(L + 1 - (d - 1), f)
        <5>. HIDE DEF From, n
        <5>. QED  BY <3>1, <3>2
      <4>. HIDE DEF From, n
      <4>. QED  BY <3>1, <4>1
    <3>. DEFINE g == [k \in n .. L + 2 |-> IF k = n THEN Body(n, f[n + 1]) ELSE f[k]]
    <3>4. ASSUME NEW k \in n .. L + 1 PROVE g[k] = Body(k, g[k + 1])
      <4>1. k + 1 \in n .. L + 2 /\ k + 1 # n /\ k \in n .. L + 2
        BY <1>0, <2>4
      <4>2. g[k + 1] = f[k + 1]
        BY <4>1
      <4>3. CASE k = n
        <5>1. g[k] = Body(n, f[n + 1])
          BY <4>1, <4>3
        <5>. HIDE DEF g
        <5>. QED  BY <4>2, <4>3, <5>1
      <4>4. CASE k # n
        <5>1. k \in n + 1 .. L + 1
          BY <2>4, <4>4, <1>0
        <5>2. g[k] = f[k]
          BY <4>1, <4>4
        <5>3. f[k] = Body(k, f[k + 1])
          <6>. HIDE DEF n
          <6>. QED  BY <3>3, <5>1
        <5>. HIDE DEF g
        <5>. QED  BY <4>2, <5>2, <5>3
      <4>. QED  BY <4>3, <4>4
    <3>5. From(n, g)
      <4>. HIDE DEF g, n
      <4>. QED  BY <3>4
    <3>. HIDE DEF g, From
    <3>. QED  BY <2>3, <3>5
  <2>. QED  BY <2>5, <2>6
<1>3. L \notin Wrong
  <2>. HIDE DEF Wrong
  <2>. QED  BY <1>2
<1>4. PICK f : From(L + 1 - L, f)
  <2>1. L \in 0 .. L
    BY <1>0
  <2>. HIDE DEF From
  <2>. QED  BY <1>3, <2>1
<1>5. \A k \in 1 .. L + 1 : f[k] = Body(k, f[k + 1])
  <2>1. L + 1 - L = 1
    BY <1>0
  <2>. QED  BY <1>4, <2>1
<1>. DEFINE g == [n \in 1 .. L + 1 |-> f[n]]
<1>6. ASSUME NEW n \in 1 .. L + 1 PROVE g[n] = Body(n, g[n + 1])
  <2>1. g[n] = f[n] /\ f[n] = Body(n, f[n + 1])
    BY <1>5
  <2>2. CASE n = L + 1
    BY <1>1, <2>1, <2>2
  <2>3. CASE n # L + 1
    <3>1. n + 1 \in 1 .. L + 1
      BY <1>0, <2>3
    <3>2. g[n + 1] = f[n + 1]
      BY <3>1
    <3>. QED  BY <2>1, <3>2
  <2>. QED  BY <2>2, <2>3
<1>7. R(g)
  <2>. DEFINE r == [n \in 1 .. L + 1 |-> Body(n, g[n + 1])]
  <2>1. \A n \in 1 .. L + 1 : g[n] = r[n]
    <3>. HIDE DEF g
    <3>. QED  BY <1>6
  <2>2. g = [n \in 1 .. L + 1 |-> g[n]] /\ r = [n \in 1 .. L + 1 |-> r[n]]
    OBVIOUS
  <2>. HIDE DEF g, r
  <2>3. g = r
    BY <2>1, <2>2
  <2>. QED  BY <2>3 DEF r
<1>8. R(c)
  <2>. HIDE DEF R, g
  <2>. QED  BY <1>7
<1>9. \A n \in 1 .. L + 1 : c[n] = Body(n, c[n + 1])
  <2>1. c = [n \in 1 .. L + 1 |-> Body(n, c[n + 1])]
    BY <1>8
  <2>. HIDE DEF c
  <2>. QED  BY <2>1
<1>10. LineReadings(ts, m) = c
  BY DEF LineReadings, LineBody, Followed, Both, EndsAt, L, Body
<1>. HIDE DEF c
<1>. QED  BY <1>9, <1>10 DEF L, Body

(* A handler's calls are the items of its line, and the end of one.         *)
LEMMA ItemsAre ==
  ASSUME NEW m \in AllMnemonics, NEW h, h = Handler(m)
  PROVE  /\ ItemsOf(m) = Append(h, "NEWLINE")
         /\ Len(h) \in Nat /\ Len(ItemsOf(m)) = Len(h) + 1
         /\ \A n \in 1 .. Len(h) : ItemsOf(m)[n] = h[n] /\ h[n] \in Values \cup Separators
         /\ ItemsOf(m)[Len(h) + 1] = "NEWLINE"
<1>1. ItemsOf(m) = Append(h, "NEWLINE")
  BY DEF ItemsOf, Handler
<1>2. h \in Seq(Values \cup Separators \cup {"NEWLINE"})
  BY HandlerTurns
<1>3. h \in Seq(Values \cup Separators)
  BY HandlerTurns
<1>. HIDE DEF Values, Separators
<1>. QED  BY <1>1, <1>2, <1>3

(* A line begins with a register or a name, if anything; an offset is what  *)
(* stands before a parenthesis.                                             *)
LEMMA HandlerShape ==
  ASSUME NEW m \in AllMnemonics, NEW h, h = Handler(m)
  PROVE  /\ h # << >> => h[1] \in {"reg", "identifier"}
         /\ \A n \in 1 .. Len(h) : h[n] = "offset" => n + 1 \in 1 .. Len(h) /\ h[n + 1] = "LPAREN"
<1>1. CASE h = << "reg", "COMMA", "reg", "COMMA", "reg" >>
  BY <1>1
<1>2. CASE h = << "reg", "COMMA", "offset", "LPAREN", "reg", "RPAREN" >>
  BY <1>2
<1>3. CASE h = << "reg", "COMMA", "operand" >>
  BY <1>3
<1>4. CASE h = << "reg", "COMMA", "reg" >>
  BY <1>4
<1>5. CASE h = << "identifier" >> \/ h = << "reg" >>
  BY <1>5
<1>6. CASE h = << >>
  BY <1>6
<1>7. CASE h = << "reg", "COMMA", "reg", "COMMA", "operand" >>
  BY <1>7
<1>. QED  BY <1>1, <1>2, <1>3, <1>4, <1>5, <1>6, <1>7, HandlerIs

(* What the parser may count on in the lexer's list: its end, the names and *)
(* numbers in it, and that no colon is a register.                          *)
WellCut(ts) ==
  /\ ts \in Seq(Tokens) /\ EofEnds(ts)
  /\ \A n \in DOMAIN ts : Named(ts[n])
  /\ \A n \in DOMAIN ts : ts[n].type = "COLON" => ~IsRegister(ts[n].lexeme)

(* A token that is not the end of file has one after it.                    *)
LEMMA WellCutFacts ==
  ASSUME NEW ts, WellCut(ts)
  PROVE  /\ Len(ts) \in Nat /\ DOMAIN ts = 1 .. Len(ts) /\ 1 \in 1 .. Len(ts)
         /\ \A k \in 1 .. Len(ts) :
              /\ ts[k].type \in TokenTypes /\ ts[k].lexeme \in Seq(Text) /\ Named(ts[k])
              /\ ts[k].type # "EOF" => k + 1 \in 1 .. Len(ts)
              /\ ts[k].type = "EOF" => ts[k].lexeme = << >>
<1>1. ts \in Seq(Tokens) /\ ts # << >> /\ Len(ts) \in Nat /\ DOMAIN ts = 1 .. Len(ts)
  BY DEF WellCut, EofEnds
<1>2. Len(ts) # 0
  BY <1>1
<1>3. \A k \in 1 .. Len(ts) : ts[k] \in Tokens
  BY <1>1
<1>4. \A k \in 1 .. Len(ts) : ts[k].type \in TokenTypes /\ ts[k].lexeme \in Seq(Text)
  <2>. HIDE DEF TokenTypes, Text
  <2>. QED  BY <1>3, SMTT(30) DEF Tokens
<1>5. \A k \in 1 .. Len(ts) : ts[k].type = "EOF" <=> k = Len(ts)
  BY <1>1, ZenonT(60) DEF WellCut, EofEnds
<1>6. ASSUME NEW k \in 1 .. Len(ts), ts[k].type # "EOF" PROVE k + 1 \in 1 .. Len(ts)
  <2>1. k # Len(ts)
    BY <1>5, <1>6
  <2>2. \A a \in Nat : k \in 1 .. a /\ k # a => k + 1 \in 1 .. a
    OBVIOUS
  <2>. QED  BY <1>1, <2>1, <2>2
<1>7. \A k \in 1 .. Len(ts) : ts[k].type = "EOF" => ts[k].lexeme = << >>
  BY <1>5 DEF WellCut, EofEnds
<1>8. \A k \in 1 .. Len(ts) : Named(ts[k])
  BY <1>1 DEF WellCut
<1>9. 1 \in 1 .. Len(ts)
  BY <1>1, <1>2
<1>. QED  BY <1>1, <1>4, <1>6, <1>7, <1>8, <1>9

(* The ways to read each item.                                              *)
Only(condition, length, values) ==
  IF condition THEN { [length |-> length, values |-> values] } ELSE {}
Imm(n) == << [is |-> "imm", imm |-> n] >>
LabelRead(ts, k) ==
  Only(ts[k].type = "IDENTIFIER", 1, << [is |-> "label", label |-> ts[k].lexeme] >>)
NumberRead(ts, k) ==
  Only(ts[k].type = "DECIMAL", 1, Imm(Numerals[ts[k].lexeme[1]]))
  \cup Only(ts[k].type = "MINUS" /\ ts[k + 1].type = "DECIMAL", 2,
            Imm(-Numerals[ts[k + 1].lexeme[1]]))

(* What an item of each kind is read as.                                     *)
ItemReadings(ts, k) ==
  /\ Readings(ts, k, "reg")
       = Only(IsRegister(ts[k].lexeme), 1, << RegisterNumber(ts[k].lexeme) >>)
  /\ Readings(ts, k, "identifier") = LabelRead(ts, k)
  /\ Readings(ts, k, "operand") = NumberRead(ts, k) \cup LabelRead(ts, k)
  /\ Readings(ts, k, "offset") = NumberRead(ts, k) \cup Only(TRUE, 0, Imm(0))
  /\ \A item \in Separators \cup {"NEWLINE"} :
       Readings(ts, k, item) = Only(ts[k].type = item, 1, << >>)

(* That is what Readings gives.                                              *)
LEMMA ReadingsAre ==
  ASSUME NEW ts, NEW k
  PROVE  ItemReadings(ts, k)
<1>. USE DEF Only, Imm, LabelRead, NumberRead
<1>1. Readings(ts, k, "reg")
        = Only(IsRegister(ts[k].lexeme), 1, << RegisterNumber(ts[k].lexeme) >>)
  BY DEF Readings
<1>2. Readings(ts, k, "identifier") = LabelRead(ts, k)
  BY DEF Readings
<1>3. Readings(ts, k, "operand") = NumberRead(ts, k) \cup LabelRead(ts, k)
  BY DEF Readings
<1>4. Readings(ts, k, "offset") = NumberRead(ts, k) \cup Only(TRUE, 0, Imm(0))
  BY DEF Readings
<1>5. ASSUME NEW item \in Separators \cup {"NEWLINE"}
      PROVE  Readings(ts, k, item) = Only(ts[k].type = item, 1, << >>)
  <2>1. item # "reg" /\ item # "identifier" /\ item # "operand" /\ item # "offset"
    BY DEF Separators
  <2>. QED  BY <2>1 DEF Readings
<1>. QED  BY <1>1, <1>2, <1>3, <1>4, <1>5 DEF ItemReadings

(* What an item may be read as is an argument a handler can have, and ends  *)
(* at a token; only an offset may take none.                                *)
Args == Registers \cup Immediate \cup Target
Reads(ts, k, r) ==
  /\ r.length \in Nat /\ r.values \in Seq(Args) /\ k + r.length \in 1 .. Len(ts)

(* A number's digits have a value.                                          *)
LEMMA DigitsRead ==
  ASSUME NEW t, Named(t), t.type = "DECIMAL"
  PROVE  Numerals[t.lexeme[1]] \in Nat /\ -Numerals[t.lexeme[1]] \in Int
<1>1. t.lexeme[1] \in Digits
  BY DEF Named
<1>2. Numerals \in [Digits -> Nat]
  BY RunsAssumption
<1>. QED  BY <1>1, <1>2

(* An immediate is an argument.                                             *)
LEMMA ImmIsArg ==
  ASSUME NEW n \in Int
  PROVE  Imm(n) \in Seq(Args)
<1>1. [is |-> "imm", imm |-> n] \in Immediate
  BY DEF Immediate
<1>. QED  BY <1>1 DEF Imm, Args

(* A number is read as one.                                                 *)
LEMMA NumberReads ==
  ASSUME NEW ts, WellCut(ts), NEW k \in 1 .. Len(ts), NEW r \in NumberRead(ts, k)
  PROVE  Reads(ts, k, r)
<1>1. CASE r \in Only(ts[k].type = "DECIMAL", 1, Imm(Numerals[ts[k].lexeme[1]]))
  <2>1. ts[k].type = "DECIMAL" /\ r.length = 1 /\ r.values = Imm(Numerals[ts[k].lexeme[1]])
    BY <1>1 DEF Only
  <2>2. Numerals[ts[k].lexeme[1]] \in Int /\ k + 1 \in 1 .. Len(ts)
    <3>1. Named(ts[k])
      BY WellCutFacts
    <3>2. Numerals[ts[k].lexeme[1]] \in Nat
      BY <2>1, <3>1, DigitsRead
    <3>. QED  BY <2>1, <3>2, WellCutFacts
  <2>3. r.values \in Seq(Args)
    BY <2>1, <2>2, ImmIsArg
  <2>. QED  BY <2>1, <2>2, <2>3 DEF Reads
<1>2. CASE r \in Only(ts[k].type = "MINUS" /\ ts[k + 1].type = "DECIMAL", 2,
                      Imm(-Numerals[ts[k + 1].lexeme[1]]))
  <2>1. /\ ts[k].type = "MINUS" /\ ts[k + 1].type = "DECIMAL" /\ r.length = 2
        /\ r.values = Imm(-Numerals[ts[k + 1].lexeme[1]])
    BY <1>2 DEF Only
  <2>2. k + 1 \in 1 .. Len(ts)
    BY <2>1, WellCutFacts
  <2>3. -Numerals[ts[k + 1].lexeme[1]] \in Int /\ (k + 1) + 1 \in 1 .. Len(ts)
    <3>1. Named(ts[k + 1])
      BY <2>2, WellCutFacts
    <3>2. -Numerals[ts[k + 1].lexeme[1]] \in Int
      BY <2>1, <3>1, DigitsRead
    <3>3. (k + 1) + 1 \in 1 .. Len(ts)
      BY <2>1, <2>2, WellCutFacts
    <3>. QED  BY <3>2, <3>3
  <2>4. r.values \in Seq(Args)
    BY <2>1, <2>3, ImmIsArg
  <2>5. (k + 1) + 1 = k + 2
    OBVIOUS
  <2>. QED  BY <2>1, <2>3, <2>4, <2>5 DEF Reads
<1>. QED  BY <1>1, <1>2 DEF NumberRead

(* A name is read as one.                                                   *)
LEMMA LabelReads ==
  ASSUME NEW ts, WellCut(ts), NEW k \in 1 .. Len(ts), NEW r \in LabelRead(ts, k)
  PROVE  Reads(ts, k, r)
<1>1. /\ ts[k].type = "IDENTIFIER" /\ r.length = 1
      /\ r.values = << [is |-> "label", label |-> ts[k].lexeme] >>
  BY DEF LabelRead, Only
<1>2. Named(ts[k]) /\ k + 1 \in 1 .. Len(ts)
  BY <1>1, WellCutFacts
<1>3. [is |-> "label", label |-> ts[k].lexeme] \in Target
  BY <1>1, <1>2 DEF Named, Target
<1>4. r.values \in Seq(Args)
  BY <1>1, <1>3 DEF Args
<1>. QED  BY <1>1, <1>2, <1>4 DEF Reads

(* Every reading of an item is one of these.                                *)
LEMMA ReadingsType ==
  ASSUME NEW ts, WellCut(ts), NEW k \in 1 .. Len(ts),
         NEW item \in Values \cup Separators \cup {"NEWLINE"}, NEW r \in Readings(ts, k, item)
  PROVE  /\ Reads(ts, k, r)
         /\ item = "NEWLINE" => r.length = 1
<1>0. /\ Readings(ts, k, "reg")
           = Only(IsRegister(ts[k].lexeme), 1, << RegisterNumber(ts[k].lexeme) >>)
      /\ Readings(ts, k, "identifier") = LabelRead(ts, k)
      /\ Readings(ts, k, "operand") = NumberRead(ts, k) \cup LabelRead(ts, k)
      /\ Readings(ts, k, "offset") = NumberRead(ts, k) \cup Only(TRUE, 0, Imm(0))
      /\ \A x \in Separators \cup {"NEWLINE"} :
           Readings(ts, k, x) = Only(ts[k].type = x, 1, << >>)
  <2>1. ItemReadings(ts, k)
    BY ReadingsAre
  <2>. QED  BY <2>1 DEF ItemReadings
<1>1. CASE item = "reg"
  <2>1. /\ IsRegister(ts[k].lexeme) /\ r.length = 1
        /\ r.values = << RegisterNumber(ts[k].lexeme) >>
    BY <1>0, <1>1 DEF Only
  <2>2. ts[k].lexeme # << >> /\ k + 1 \in 1 .. Len(ts)
    BY <2>1, WellCutFacts DEF IsRegister
  <2>3. RegisterNumber(ts[k].lexeme) \in Registers
    <3>. DEFINE x == ts[k].lexeme
    <3>1. CASE Len(x) = 1
      BY <3>1, NamesAssumption DEF RegisterNumber
    <3>2. CASE Len(x) # 1
      <4>1. x[2] \in Digits /\ Numerals[x[2]] <= 31
        BY <2>1, <3>2 DEF IsRegister
      <4>2. Numerals[x[2]] \in Nat
        BY <4>1, RunsAssumption
      <4>3. RegisterNumber(x) = Numerals[x[2]]
        BY <3>2 DEF RegisterNumber
      <4>4. \A v \in Nat : v <= 31 => v \in 0 .. 31
        OBVIOUS
      <4>5. Numerals[x[2]] \in 0 .. 31
        BY <4>1, <4>2, <4>4
      <4>. QED  BY <4>3, <4>5, NamesAssumption
    <3>. QED  BY <3>1, <3>2
  <2>4. r.values \in Seq(Args)
    BY <2>1, <2>3 DEF Args
  <2>. QED  BY <1>1, <2>1, <2>2, <2>4 DEF Reads
<1>2. CASE item = "identifier"
  <2>1. r \in LabelRead(ts, k)
    BY <1>0, <1>2
  <2>. QED  BY <1>2, <2>1, LabelReads
<1>3. CASE item = "operand"
  <2>1. r \in LabelRead(ts, k) \/ r \in NumberRead(ts, k)
    BY <1>0, <1>3
  <2>. QED  BY <1>3, <2>1, LabelReads, NumberReads
<1>4. CASE item = "offset"
  <2>1. r \in NumberRead(ts, k) \/ r \in Only(TRUE, 0, Imm(0))
    BY <1>0, <1>4
  <2>2. CASE r \in Only(TRUE, 0, Imm(0))
    <3>1. r.length = 0 /\ r.values = Imm(0)
      BY <2>2 DEF Only
    <3>2. r.values \in Seq(Args)
      BY <3>1, ImmIsArg
    <3>3. k + 0 \in 1 .. Len(ts)
      OBVIOUS
    <3>. QED  BY <1>4, <3>1, <3>2, <3>3 DEF Reads
  <2>. QED  BY <1>4, <2>1, <2>2, NumberReads
<1>5. CASE item \in Separators \cup {"NEWLINE"}
  <2>1. ts[k].type = item /\ r.length = 1 /\ r.values = << >>
    BY <1>0, <1>5 DEF Only
  <2>2. item # "EOF"
    BY <1>5 DEF Separators
  <2>3. k + 1 \in 1 .. Len(ts)
    BY <2>1, <2>2, WellCutFacts
  <2>. QED  BY <2>1, <2>3 DEF Reads
<1>. QED  BY <1>1, <1>2, <1>3, <1>4, <1>5 DEF Values

(* One of them is made of one of each.                                      *)
LEMMA FollowedIs ==
  ASSUME NEW S, NEW k, NEW after, NEW w \in Followed(S, k, after)
  PROVE  \E r \in S : \E rest \in after[EndsAt(k, r)] : w = Both(r, rest)
BY DEF Followed

(* The ways to read a line from one of its items on, and from its end.      *)
LEMMA LineReadingsAt ==
  ASSUME NEW ts, NEW m \in AllMnemonics, NEW k \in DOMAIN ts
  PROVE  /\ LineReadings(ts, m)[Len(ItemsOf(m)) + 1][k] = { [next |-> k, values |-> << >>] }
         /\ \A n \in 1 .. Len(ItemsOf(m)) :
              LineReadings(ts, m)[n][k]
                = Followed(Readings(ts, k, ItemsOf(m)[n]), k, LineReadings(ts, m)[n + 1])
<1>. DEFINE L == Len(ItemsOf(m))
            R == LineReadings(ts, m)
<1>1. L \in Nat
  <2>1. Len(Handler(m)) \in Nat /\ L = Len(Handler(m)) + 1
    BY ItemsAre
  <2>. QED  BY <2>1
<1>2. \A n \in 1 .. L + 1 : R[n] = LineBody(ts, m, n, R[n + 1])
  BY <1>1, LineReadingsAre
<1>3. R[L + 1] = LineBody(ts, m, L + 1, R[(L + 1) + 1])
  <2>1. L + 1 \in 1 .. L + 1
    BY <1>1
  <2>. QED  BY <1>2, <2>1
<1>4. R[L + 1][k] = { [next |-> k, values |-> << >>] }
  <2>1. L + 1 > Len(ItemsOf(m))
    BY <1>1
  <2>2. \A a : LineBody(ts, m, L + 1, a)[k] = { [next |-> k, values |-> << >>] }
    BY <2>1 DEF LineBody
  <2>. QED  BY <1>3, <2>2
<1>5. ASSUME NEW n \in 1 .. L
      PROVE  R[n][k] = Followed(Readings(ts, k, ItemsOf(m)[n]), k, R[n + 1])
  <2>1. n \in 1 .. L + 1 /\ ~(n > Len(ItemsOf(m)))
    BY <1>1
  <2>2. ASSUME NEW a
        PROVE  LineBody(ts, m, n, a)[k]
                 = Followed(Readings(ts, k, ItemsOf(m)[n]), k, a)
    BY <2>1 DEF LineBody
  <2>3. R[n] = LineBody(ts, m, n, R[n + 1])
    BY <1>2, <2>1
  <2>. QED  BY <2>2, <2>3
<1>. QED  BY <1>4, <1>5

(* The items of a line, one by one.                                         *)
LEMMA ItemFacts ==
  ASSUME NEW m \in AllMnemonics
  PROVE  /\ Len(ItemsOf(m)) \in Nat
         /\ \A n \in 1 .. Len(ItemsOf(m)) :
              ItemsOf(m)[n] \in Values \cup Separators \cup {"NEWLINE"}
<1>. DEFINE h == Handler(m)
<1>1. /\ Len(h) \in Nat /\ Len(ItemsOf(m)) = Len(h) + 1
      /\ \A n \in 1 .. Len(h) : ItemsOf(m)[n] = h[n] /\ h[n] \in Values \cup Separators
      /\ ItemsOf(m)[Len(h) + 1] = "NEWLINE"
  BY ItemsAre
<1>. HIDE DEF h
<1>2. ASSUME NEW n \in 1 .. Len(ItemsOf(m))
      PROVE  ItemsOf(m)[n] \in Values \cup Separators \cup {"NEWLINE"}
  <2>1. n \in 1 .. Len(h) \/ n = Len(h) + 1
    BY <1>1
  <2>. QED  BY <1>1, <2>1
<1>. QED  BY <1>1, <1>2

(* They end at a token, not before the one they begin at, and give a        *)
(* handler arguments.                                                       *)
LEMMA LineReadingsType ==
  ASSUME NEW ts, WellCut(ts), NEW m \in AllMnemonics, NEW n \in 1 .. Len(ItemsOf(m)) + 1,
         NEW k \in 1 .. Len(ts), NEW w \in LineReadings(ts, m)[n][k]
  PROVE  w.next \in k .. Len(ts) /\ w.values \in Seq(Args)
<1>. DEFINE L == Len(ItemsOf(m))
            N == Len(ts)
            R == LineReadings(ts, m)
            Typed(j) == \A p \in 1 .. N : \A v \in R[j][p] : v.next \in p .. N /\ v.values \in Seq(Args)
            Wrong == {d \in 0 .. L : ~Typed(L + 1 - d)}
<1>0. L \in Nat /\ N \in Nat /\ DOMAIN ts = 1 .. N
  BY ItemFacts, WellCutFacts
<1>1. ASSUME NEW p \in 1 .. N
      PROVE  /\ R[L + 1][p] = { [next |-> p, values |-> << >>] }
             /\ \A j \in 1 .. L : R[j][p] = Followed(Readings(ts, p, ItemsOf(m)[j]), p, R[j + 1])
  <2>1. p \in DOMAIN ts
    BY <1>0
  <2>. HIDE DEF N
  <2>. QED  BY <2>1, LineReadingsAt
<1>3. \A j \in 1 .. L : \A p \in 1 .. N : \A r \in Readings(ts, p, ItemsOf(m)[j]) : Reads(ts, p, r)
  BY ItemFacts, ReadingsType
<1>. HIDE DEF L, N, R
<1>4. ASSUME Wrong # {} PROVE FALSE
  <2>1. Wrong \subseteq Nat
    BY <1>0
  <2>2. PICK d \in Wrong : \A e \in Wrong : d <= e
    <3>. HIDE DEF Wrong
    <3>. QED  BY <1>4, <2>1, LeastPlace
  <2>3. d \in 0 .. L /\ ~Typed(L + 1 - d)
    BY <2>2
  <2>4. CASE d = 0
    <3>1. L + 1 - d = L + 1
      BY <1>0, <2>4
    <3>2. ASSUME NEW p \in 1 .. N, NEW v \in R[L + 1][p]
          PROVE  v.next \in p .. N /\ v.values \in Seq(Args)
      <4>1. v = [next |-> p, values |-> << >>]
        BY <1>1
      <4>. QED  BY <1>0, <4>1
    <3>3. Typed(L + 1)
      BY <3>2
    <3>. HIDE DEF Typed
    <3>. QED  BY <2>3, <3>1, <3>3
  <2>5. CASE d # 0
    <3>1. d - 1 \in 0 .. L /\ ~(d <= d - 1) /\ L + 1 - (d - 1) = (L + 1 - d) + 1 /\ L + 1 - d \in 1 .. L
      BY <1>0, <2>3, <2>5
    <3>2. d - 1 \notin Wrong
      <4>. HIDE DEF Wrong
      <4>. QED  BY <2>2, <3>1
    <3>. DEFINE j == L + 1 - d
    <3>3. Typed(j + 1)
      <4>. HIDE DEF Typed
      <4>. QED  BY <3>1, <3>2
    <3>4. j \in 1 .. L
      BY <3>1
    <3>. HIDE DEF j
    <3>5. ASSUME NEW p \in 1 .. N, NEW v \in R[j][p]
          PROVE  v.next \in p .. N /\ v.values \in Seq(Args)
      <4>1. PICK r \in Readings(ts, p, ItemsOf(m)[j]) :
              \E rest \in R[j + 1][EndsAt(p, r)] :
                v = Both(r, rest)
        <5>. DEFINE S == Readings(ts, p, ItemsOf(m)[j])
                    after == R[j + 1]
        <5>1. v \in Followed(S, p, after)
          BY <1>1, <3>4
        <5>. HIDE DEF S, after
        <5>2. \E r \in S : \E rest \in after[EndsAt(p, r)] :
                v = Both(r, rest)
          BY <5>1, FollowedIs
        <5>. QED  BY <5>2 DEF S, after
      <4>2. PICK rest \in R[j + 1][EndsAt(p, r)] :
              v = Both(r, rest)
        BY <4>1
      <4>3. r.length \in Nat /\ r.values \in Seq(Args) /\ EndsAt(p, r) \in 1 .. N
           /\ EndsAt(p, r) = p + r.length
        BY <1>3, <3>4 DEF Reads, N, EndsAt
      <4>4. rest.next \in EndsAt(p, r) .. N /\ rest.values \in Seq(Args)
        BY <3>3, <4>3
      <4>5. r.values \o rest.values \in Seq(Args)
        BY <4>3, <4>4, ConcatProperties
      <4>6. v.next = rest.next /\ v.values = r.values \o rest.values
        BY <4>2 DEF Both
      <4>. QED  BY <1>0, <4>3, <4>4, <4>5, <4>6
    <3>6. Typed(j)
      BY <3>5
    <3>. HIDE DEF Typed
    <3>. QED  BY <2>3, <3>6 DEF j
  <2>. QED  BY <2>4, <2>5
<1>5. n \in 1 .. L + 1 /\ L + 1 - n \in 0 .. L /\ L + 1 - (L + 1 - n) = n /\ k \in 1 .. N /\ w \in R[n][k]
  BY <1>0 DEF L, N, R
<1>6. Typed(n)
  <2>1. L + 1 - n \notin Wrong
    <3>. HIDE DEF Wrong
    <3>. QED  BY <1>4
  <2>2. Typed(L + 1 - (L + 1 - n))
    <3>. HIDE DEF Typed
    <3>. QED  BY <1>5, <2>1, SMTT(30)
  <2>. HIDE DEF Typed
  <2>. QED  BY <1>5, <2>2
<1>. QED  BY <1>5, <1>6 DEF N

-----------------------------------------------------------------------------
(* The ways to read a source.                                               *)

(* All elements that may come of it, or that the parser has.                *)
Parts(ts) ==
  {Eof} \cup {Label(ts[k].lexeme) : k \in DOMAIN ts}
  \cup {Element(m, a) : m \in AllMnemonics, a \in Seq(Args)}
  \cup InstructionElements \cup LabelElements

(* A statement takes a token at least and ends at one.                      *)
LEMMA StatementsType ==
  ASSUME NEW ts, WellCut(ts), NEW k \in 1 .. Len(ts), ts[k].type # "EOF",
         NEW s \in Statements(ts, k)
  PROVE  s.next \in k + 1 .. Len(ts) /\ s.elements \in Seq(Parts(ts))
<1>. DEFINE word == LowerCase(ts[k].lexeme)
            m == Mnemonics[word[1]]
            N == Len(ts)
            R == LineReadings(ts, m)[1]
<1>1. N \in Nat /\ k + 1 \in 1 .. N /\ DOMAIN ts = 1 .. N
  BY WellCutFacts
<1>2. \/ s = [next |-> k + 1, elements |-> << >>]
      \/ ts[k + 1].type = "COLON" /\ s = [next |-> k + 2, elements |-> << Label(ts[k].lexeme) >>]
      \/ /\ IsMnemonic(word)
         /\ \E r \in R[k + 1] : s = [next |-> r.next, elements |-> << Element(m, r.values) >>]
  <2>. HIDE DEF R, m
  <2>. QED  BY DEF Statements, R, m
<1>3. CASE s = [next |-> k + 1, elements |-> << >>]
  BY <1>1, <1>3
<1>4. CASE ts[k + 1].type = "COLON" /\ s = [next |-> k + 2, elements |-> << Label(ts[k].lexeme) >>]
  <2>1. (k + 1) + 1 \in 1 .. N
    BY <1>1, <1>4, WellCutFacts
  <2>2. Label(ts[k].lexeme) \in Parts(ts)
    BY <1>1 DEF Parts
  <2>. HIDE DEF N
  <2>. QED  BY <1>1, <1>4, <2>1, <2>2 DEF N
<1>5. CASE /\ IsMnemonic(word)
           /\ \E r \in R[k + 1] : s = [next |-> r.next, elements |-> << Element(m, r.values) >>]
  <2>1. PICK r \in R[k + 1] : s = [next |-> r.next, elements |-> << Element(m, r.values) >>]
    BY <1>5
  <2>2. m \in AllMnemonics
    BY <1>5, MnemonicsFacts DEF IsMnemonic
  <2>3. r.next \in k + 1 .. N /\ r.values \in Seq(Args)
    <3>1. 1 \in 1 .. Len(ItemsOf(m)) + 1
      BY <2>2, ItemFacts
    <3>. HIDE DEF m, N
    <3>. QED  BY <1>1, <2>1, <2>2, <3>1, LineReadingsType DEF N
  <2>4. Element(m, r.values) \in Parts(ts)
    <3>. HIDE DEF m
    <3>. QED  BY <2>2, <2>3 DEF Parts
  <2>5. s.next = r.next /\ s.elements = << Element(m, r.values) >>
    BY <2>1
  <2>. HIDE DEF N, m
  <2>. QED  BY <2>3, <2>4, <2>5 DEF N
<1>. QED  BY <1>2, <1>3, <1>4, <1>5

(* A statement, and what is read after it.                                  *)
Beginning(s, rest) == s.elements \o rest
Continued(S, from) == UNION { { Beginning(s, rest) : rest \in from[s.next] } : s \in S }
FromBody(ts, k, from) ==
  IF ts[k].type = "EOF" THEN { << Eof >> } ELSE Continued(Statements(ts, k), from)

(* Only what may follow a statement matters to it.                          *)
LEMMA FromBodySame ==
  ASSUME NEW ts, NEW k, NEW f, NEW g,
         ts[k].type # "EOF" => \A s \in Statements(ts, k) : f[s.next] = g[s.next]
  PROVE  FromBody(ts, k, f) = FromBody(ts, k, g)
<1>1. CASE ts[k].type # "EOF"
  <2>. DEFINE S == Statements(ts, k)
  <2>1. \A s \in S : f[s.next] = g[s.next]
    BY <1>1
  <2>. HIDE DEF S
  <2>2. Continued(S, f) = Continued(S, g)
    BY <2>1 DEF Continued
  <2>. QED  BY <1>1, <2>2 DEF FromBody, S
<1>2. CASE ts[k].type = "EOF"
  BY <1>2 DEF FromBody
<1>. QED  BY <1>1, <1>2

(* There are such sets for all tokens, and ParsesFrom are they.             *)
LEMMA ParsesFromAre ==
  ASSUME NEW ts, WellCut(ts)
  PROVE  \A k \in 1 .. Len(ts) : ParsesFrom(ts)[k] = FromBody(ts, k, ParsesFrom(ts))
<1>. DEFINE N == Len(ts)
            Body(k, f) == FromBody(ts, k, f)
            From(n, f) == \A k \in n .. N : f[k] = Body(k, f)
            Wrong == {d \in 0 .. N : ~ \E f : From(N + 1 - d, f)}
            R(h) == h = [k \in 1 .. N |-> Body(k, h)]
            c == CHOOSE h : R(h)
<1>0. N \in Nat /\ DOMAIN ts = 1 .. N
  BY WellCutFacts
<1>1. ASSUME NEW k \in 1 .. N, NEW f, NEW g, \A j \in k + 1 .. N : f[j] = g[j]
      PROVE  Body(k, f) = Body(k, g)
  <2>1. ASSUME ts[k].type # "EOF", NEW s \in Statements(ts, k) PROVE f[s.next] = g[s.next]
    <3>1. s.next \in k + 1 .. N
      BY <2>1, StatementsType
    <3>. QED  BY <1>1, <3>1
  <2>. QED  BY <2>1, FromBodySame
<1>. HIDE DEF N, Body
<1>2. ASSUME Wrong # {} PROVE FALSE
  <2>1. Wrong \subseteq Nat
    BY <1>0
  <2>2. PICK d \in Wrong : \A e \in Wrong : d <= e
    <3>. HIDE DEF Wrong
    <3>. QED  BY <1>2, <2>1, LeastPlace
  <2>3. d \in 0 .. N /\ ~ \E f : From(N + 1 - d, f)
    BY <2>2
  <2>. DEFINE n == N + 1 - d
  <2>4. CASE d = 0
    <3>1. From(n, 0)
      <4>1. \A k \in n .. N : FALSE
        BY <1>0, <2>4
      <4>. QED  BY <4>1
    <3>. HIDE DEF From
    <3>. QED  BY <2>3, <3>1
  <2>5. CASE d # 0
    <3>1. d - 1 \in 0 .. N /\ ~(d <= d - 1) /\ N + 1 - (d - 1) = n + 1 /\ n \in 1 .. N
      BY <1>0, <2>3, <2>5
    <3>2. d - 1 \notin Wrong
      <4>. HIDE DEF Wrong
      <4>. QED  BY <2>2, <3>1
    <3>3. PICK f : From(n + 1, f)
      <4>1. \E f : From(N + 1 - (d - 1), f)
        <5>. HIDE DEF From, n
        <5>. QED  BY <3>1, <3>2
      <4>. HIDE DEF From, n
      <4>. QED  BY <3>1, <4>1
    <3>. DEFINE g == [k \in n .. N |-> IF k = n THEN Body(n, f) ELSE f[k]]
    <3>4. ASSUME NEW k \in n .. N PROVE g[k] = Body(k, g)
      <4>1. k \in 1 .. N
        BY <1>0, <3>1
      <4>2. ASSUME NEW j \in k + 1 .. N PROVE f[j] = g[j]
        <5>1. j \in n .. N /\ j # n
          BY <1>0, <3>1
        <5>. QED  BY <5>1
      <4>3. Body(k, f) = Body(k, g)
        <5>. HIDE DEF g
        <5>. QED  BY <1>1, <4>1, <4>2
      <4>4. CASE k = n
        <5>1. g[k] = Body(k, f)
          BY <4>4
        <5>. QED  BY <4>3, <5>1
      <4>5. CASE k # n
        <5>1. k \in n + 1 .. N
          BY <1>0, <3>1, <4>5
        <5>2. g[k] = f[k]
          BY <4>5
        <5>3. f[k] = Body(k, f)
          <6>. HIDE DEF n
          <6>. QED  BY <3>3, <5>1
        <5>. HIDE DEF g
        <5>. QED  BY <4>3, <5>2, <5>3
      <4>. HIDE DEF g
      <4>. QED  BY <4>4, <4>5
    <3>5. From(n, g)
      <4>. HIDE DEF g, n
      <4>. QED  BY <3>4
    <3>. HIDE DEF g, From
    <3>. QED  BY <2>3, <3>5
  <2>. QED  BY <2>4, <2>5
<1>3. PICK f : From(N + 1 - N, f)
  <2>1. N \in 0 .. N
    BY <1>0
  <2>2. N \notin Wrong
    <3>. HIDE DEF Wrong
    <3>. QED  BY <1>2
  <2>. HIDE DEF From
  <2>. QED  BY <2>1, <2>2
<1>4. \A k \in 1 .. N : f[k] = Body(k, f)
  <2>1. N + 1 - N = 1
    BY <1>0
  <2>. QED  BY <1>3, <2>1
<1>. DEFINE g == [k \in 1 .. N |-> f[k]]
<1>5. ASSUME NEW k \in 1 .. N PROVE g[k] = Body(k, g)
  <2>1. ASSUME NEW j \in k + 1 .. N PROVE f[j] = g[j]
    <3>1. j \in 1 .. N
      BY <1>0
    <3>. QED  BY <3>1
  <2>2. g[k] = f[k]
    OBVIOUS
  <2>. HIDE DEF g
  <2>3. Body(k, f) = Body(k, g)
    BY <1>1, <2>1
  <2>. QED  BY <1>4, <2>2, <2>3
<1>6. R(g)
  <2>. DEFINE r == [k \in 1 .. N |-> Body(k, g)]
  <2>1. \A k \in 1 .. N : g[k] = r[k]
    <3>. HIDE DEF g
    <3>. QED  BY <1>5
  <2>2. g = [k \in 1 .. N |-> g[k]] /\ r = [k \in 1 .. N |-> r[k]]
    OBVIOUS
  <2>. HIDE DEF g, r
  <2>3. g = r
    BY <2>1, <2>2
  <2>. QED  BY <2>3 DEF r
<1>7. R(c)
  <2>. HIDE DEF R, g
  <2>. QED  BY <1>6
<1>8. \A k \in 1 .. N : c[k] = Body(k, c)
  <2>1. c = [k \in 1 .. N |-> Body(k, c)]
    BY <1>7
  <2>. HIDE DEF c
  <2>. QED  BY <2>1
<1>9. ParsesFrom(ts) = c
  BY <1>0 DEF ParsesFrom, FromBody, Continued, Beginning, Body
<1>. HIDE DEF c
<1>. QED  BY <1>8, <1>9 DEF N, Body

(* What is read from a token on is a sequence of elements.                  *)
LEMMA ParsesFromType ==
  ASSUME NEW ts, WellCut(ts), NEW k \in 1 .. Len(ts)
  PROVE  ParsesFrom(ts)[k] \subseteq Seq(Parts(ts))
<1>. DEFINE N == Len(ts)
            P == ParsesFrom(ts)
            X == Parts(ts)
            Wrong == {d \in 0 .. N : N + 1 - d \in 1 .. N /\ ~(P[N + 1 - d] \subseteq Seq(X))}
<1>0. N \in Nat
  BY WellCutFacts
<1>1. ASSUME NEW j \in 1 .. N, NEW p \in P[j], \A q \in j + 1 .. N : P[q] \subseteq Seq(X)
      PROVE  p \in Seq(X)
  <2>1. P[j] = FromBody(ts, j, P)
    BY ParsesFromAre
  <2>2. CASE ts[j].type = "EOF"
    <3>1. p = << Eof >>
      BY <2>1, <2>2 DEF FromBody
    <3>2. Eof \in X
      BY DEF Parts
    <3>. HIDE DEF X
    <3>. QED  BY <3>1, <3>2
  <2>3. CASE ts[j].type # "EOF"
    <3>1. p \in Continued(Statements(ts, j), P)
      BY <2>1, <2>3 DEF FromBody
    <3>2. PICK s \in Statements(ts, j) : \E rest \in P[s.next] : p = Beginning(s, rest)
      <4>. DEFINE S == Statements(ts, j)
      <4>. HIDE DEF S, P
      <4>1. \E s \in S : \E rest \in P[s.next] : p = Beginning(s, rest)
        BY <3>1 DEF Continued, S
      <4>. QED  BY <4>1 DEF S
    <3>3. s.next \in j + 1 .. N /\ s.elements \in Seq(X)
      BY <2>3, StatementsType
    <3>4. PICK rest \in P[s.next] : p = Beginning(s, rest)
      BY <3>2
    <3>5. rest \in Seq(X)
      BY <1>1, <3>3
    <3>. HIDE DEF X
    <3>. QED  BY <3>3, <3>4, <3>5, ConcatProperties DEF Beginning
  <2>. QED  BY <2>2, <2>3
<1>. HIDE DEF N, P, X
<1>2. ASSUME Wrong # {} PROVE FALSE
  <2>1. Wrong \subseteq Nat
    BY <1>0
  <2>2. PICK d \in Wrong : \A e \in Wrong : d <= e
    <3>. HIDE DEF Wrong
    <3>. QED  BY <1>2, <2>1, LeastPlace
  <2>. DEFINE j == N + 1 - d
  <2>3. d \in 0 .. N /\ j \in 1 .. N /\ ~(P[j] \subseteq Seq(X))
    BY <2>2
  <2>4. ASSUME NEW q \in j + 1 .. N PROVE P[q] \subseteq Seq(X)
    <3>. DEFINE e == N + 1 - q
    <3>1. e \in 0 .. N /\ N + 1 - e = q /\ q \in 1 .. N /\ ~(d <= e)
      BY <1>0, <2>3
    <3>2. e \notin Wrong
      <4>. HIDE DEF Wrong, e
      <4>. QED  BY <2>2, <3>1
    <3>. HIDE DEF e
    <3>. QED  BY <3>1, <3>2
  <2>. HIDE DEF j
  <2>. QED  BY <1>1, <2>3, <2>4
<1>3. N + 1 - k \in 0 .. N /\ N + 1 - (N + 1 - k) = k /\ k \in 1 .. N
  BY <1>0 DEF N
<1>4. N + 1 - k \notin Wrong
  <2>. HIDE DEF Wrong
  <2>. QED  BY <1>2
<1>. QED  BY <1>3, <1>4 DEF P, X

(* Sequences that begin alike.                                              *)
Led(x, C) == {x \o c : c \in C}

(* What is to be said of them.                                              *)
LEMMA LedFacts ==
  ASSUME NEW X, NEW C, C \subseteq Seq(X), NEW x \in Seq(X)
  PROVE  /\ Led(x, {}) = {}
         /\ Led(<< >>, C) = C
         /\ Led(x, C) \subseteq Seq(X)
<1>1. Led(x, {}) = {}
  BY DEF Led
<1>2. Led(<< >>, C) = C
  <2>1. \A c \in C : << >> \o c = c
    OBVIOUS
  <2>. QED  BY <2>1 DEF Led
<1>3. Led(x, C) \subseteq Seq(X)
  <2>1. ASSUME NEW c \in C PROVE x \o c \in Seq(X)
    BY ConcatProperties
  <2>. QED  BY <2>1 DEF Led
<1>. QED  BY <1>1, <1>2, <1>3

(* Two beginnings are one.                                                  *)
JoinedBoth(x, y) == x \o y

(* And what begins with both begins with that.                              *)
LEMMA LedTwice ==
  ASSUME NEW X, NEW C, C \subseteq Seq(X), NEW x \in Seq(X), NEW y \in Seq(X)
  PROVE  Led(x, Led(y, C)) = Led(JoinedBoth(x, y), C)
<1>1. \A c \in C : x \o (y \o c) = (x \o y) \o c
  <2>1. ASSUME NEW c \in C PROVE x \o (y \o c) = (x \o y) \o c
    <3>1. c \in Seq(X)
      OBVIOUS
    <3>. QED  BY <3>1, ConcatAssociative, SMTT(60)
  <2>. QED  BY <2>1
<1>2. Led(x, Led(y, C)) = {x \o (y \o c) : c \in C}
  BY Zenon DEF Led
<1>3. {x \o (y \o c) : c \in C} = {(x \o y) \o c : c \in C}
  BY <1>1, Zenon
<1>. QED  BY <1>2, <1>3, Zenon DEF Led, JoinedBoth

-----------------------------------------------------------------------------
(* What is left to read in the middle of a line, from its item n on, for a  *)
(* handler that has been given a.                                           *)
WithLine(ts, m, a, w) == Led(<< Element(m, a \o w.values) >>, ParsesFrom(ts)[w.next])
RestOfLine(ts, m, n, k, a) == UNION {WithLine(ts, m, a, w) : w \in LineReadings(ts, m)[n][k]}

(* Where an item is read: a place in a line, with the arguments so far.      *)
AtItem(ts, m, n, k, a) ==
  /\ WellCut(ts) /\ m \in AllMnemonics /\ n \in 1 .. Len(ItemsOf(m)) /\ k \in 1 .. Len(ts)
  /\ a \in Seq(Args)

(* A reading that is the only one of use to the rest of the line.            *)
OnlyOfUse(ts, m, n, k, r) ==
  /\ r \in Readings(ts, k, ItemsOf(m)[n])
  /\ \A q \in Readings(ts, k, ItemsOf(m)[n]) :
       q # r => LineReadings(ts, m)[n + 1][k + q.length] = {}

(* The rest of the line is the reading of an item and what follows it.       *)
GoesOnWith(ts, m, n, k, a, r) ==
  RestOfLine(ts, m, n, k, a) = RestOfLine(ts, m, n + 1, k + r.length, a \o r.values)

(* An item that can be read in one way only, unless the other is of no use  *)
(* to the rest of the line.                                                 *)
LEMMA RestStep ==
  ASSUME NEW ts, NEW m, NEW n, NEW k, NEW a, NEW r,
         AtItem(ts, m, n, k, a), OnlyOfUse(ts, m, n, k, r)
  PROVE  GoesOnWith(ts, m, n, k, a, r)
<1>0. /\ WellCut(ts) /\ m \in AllMnemonics /\ n \in 1 .. Len(ItemsOf(m)) /\ k \in 1 .. Len(ts)
      /\ a \in Seq(Args) /\ r \in Readings(ts, k, ItemsOf(m)[n])
      /\ \A q \in Readings(ts, k, ItemsOf(m)[n]) :
           q # r => LineReadings(ts, m)[n + 1][k + q.length] = {}
  BY DEF AtItem, OnlyOfUse
<1>. USE <1>0
<1>. DEFINE R == LineReadings(ts, m)
            S == Readings(ts, k, ItemsOf(m)[n])
            W == R[n + 1][EndsAt(k, r)]
<1>1. k \in DOMAIN ts
  BY WellCutFacts
<1>2. R[n][k] = Followed(S, k, R[n + 1])
  BY <1>1, LineReadingsAt
<1>3. \A q \in S : q # r => R[n + 1][EndsAt(k, q)] = {}
  BY DEF EndsAt
<1>4. r \in S
  OBVIOUS
<1>5. R[n][k] = {Both(r, rest) : rest \in W}
  <2>. HIDE DEF R, S
  <2>1. \A w \in Followed(S, k, R[n + 1]) : \E rest \in W : w = Both(r, rest)
    <3>1. ASSUME NEW w \in Followed(S, k, R[n + 1]) PROVE \E rest \in W : w = Both(r, rest)
      <4>1. PICK q \in S : \E rest \in R[n + 1][EndsAt(k, q)] : w = Both(q, rest)
        BY FollowedIs
      <4>. QED  BY <1>3, <4>1
    <3>. QED  BY <3>1
  <2>2. \A rest \in W : Both(r, rest) \in Followed(S, k, R[n + 1])
    BY <1>4 DEF Followed
  <2>. HIDE DEF W
  <2>. QED  BY <1>2, <2>1, <2>2
<1>6. ASSUME NEW rest \in W
      PROVE  WithLine(ts, m, a, Both(r, rest)) = WithLine(ts, m, a \o r.values, rest)
  <2>1. ItemsOf(m)[n] \in Values \cup Separators \cup {"NEWLINE"}
    BY ItemFacts
  <2>2. r.values \in Seq(Args) /\ EndsAt(k, r) \in 1 .. Len(ts)
    <3>1. Reads(ts, k, r)
      BY <2>1, ReadingsType
    <3>. QED  BY <3>1 DEF Reads, EndsAt
  <2>3. rest.values \in Seq(Args)
    <3>1. n + 1 \in 1 .. Len(ItemsOf(m)) + 1
      BY ItemFacts
    <3>. QED  BY <2>2, <3>1, LineReadingsType
  <2>4. a \o (r.values \o rest.values) = (a \o r.values) \o rest.values
    <3>. DEFINE b == r.values
                c == rest.values
    <3>1. b \in Seq(Args) /\ c \in Seq(Args)
      BY <2>2, <2>3
    <3>. HIDE DEF b, c
    <3>2. a \o (b \o c) = (a \o b) \o c
      BY <3>1, ConcatAssociative, SMTT(60)
    <3>. QED  BY <3>2 DEF b, c
  <2>5. Both(r, rest).values = r.values \o rest.values /\ Both(r, rest).next = rest.next
    BY DEF Both
  <2>. QED  BY <2>4, <2>5 DEF WithLine
<1>7. RestOfLine(ts, m, n, k, a) = UNION {WithLine(ts, m, a, w) : w \in R[n][k]}
  BY DEF RestOfLine
<1>8. RestOfLine(ts, m, n + 1, k + r.length, a \o r.values)
        = UNION {WithLine(ts, m, a \o r.values, rest) : rest \in W}
  BY DEF RestOfLine, EndsAt
<1>. HIDE DEF R, W, S
<1>9. UNION {WithLine(ts, m, a, w) : w \in {Both(r, rest) : rest \in W}}
        = UNION {WithLine(ts, m, a \o r.values, rest) : rest \in W}
  <2>1. {WithLine(ts, m, a, w) : w \in {Both(r, rest) : rest \in W}}
          = {WithLine(ts, m, a, Both(r, rest)) : rest \in W}
    OBVIOUS
  <2>2. {WithLine(ts, m, a, Both(r, rest)) : rest \in W}
          = {WithLine(ts, m, a \o r.values, rest) : rest \in W}
    BY <1>6
  <2>. QED  BY <2>1, <2>2
<1>10. RestOfLine(ts, m, n, k, a) = RestOfLine(ts, m, n + 1, k + r.length, a \o r.values)
  BY <1>5, <1>7, <1>8, <1>9
<1>. QED  BY <1>10 DEF GoesOnWith

(* An item that cannot be read.                                             *)
LEMMA NothingRead ==
  ASSUME NEW ts, WellCut(ts), NEW m \in AllMnemonics, NEW n \in 1 .. Len(ItemsOf(m)),
         NEW k \in 1 .. Len(ts),
         \A r : r \notin Readings(ts, k, ItemsOf(m)[n])
  PROVE  /\ LineReadings(ts, m)[n][k] = {}
         /\ \A a : RestOfLine(ts, m, n, k, a) = {}
<1>1. k \in DOMAIN ts
  BY WellCutFacts
<1>. DEFINE R == LineReadings(ts, m)
            S == Readings(ts, k, ItemsOf(m)[n])
<1>2. R[n][k] = Followed(S, k, R[n + 1])
  BY <1>1, LineReadingsAt
<1>3. S = {}
  OBVIOUS
<1>. HIDE DEF S
<1>4. LineReadings(ts, m)[n][k] = {}
  BY <1>2, <1>3 DEF Followed
<1>. QED  BY <1>4 DEF RestOfLine

(* The end of the line.                                                     *)
AfterLine(ts, k) == IF ts[k].type = "NEWLINE" THEN ParsesFrom(ts)[k + 1] ELSE {}

LEMMA RestAtEnd ==
  ASSUME NEW ts, WellCut(ts), NEW m \in AllMnemonics, NEW k \in 1 .. Len(ts), NEW a \in Seq(Args)
  PROVE  RestOfLine(ts, m, Len(ItemsOf(m)), k, a) = Led(<< Element(m, a) >>, AfterLine(ts, k))
<1>. DEFINE L == Len(ItemsOf(m))
            R == LineReadings(ts, m)
<1>1. L \in Nat /\ L \in 1 .. L /\ ItemsOf(m)[L] = "NEWLINE"
  <2>1. Len(Handler(m)) \in Nat /\ L = Len(Handler(m)) + 1 /\ ItemsOf(m)[Len(Handler(m)) + 1] = "NEWLINE"
    BY ItemsAre
  <2>. QED  BY <2>1
<1>2. Readings(ts, k, ItemsOf(m)[L]) = Only(ts[k].type = "NEWLINE", 1, << >>)
  <2>1. Readings(ts, k, "NEWLINE") = Only(ts[k].type = "NEWLINE", 1, << >>)
    <3>1. \A x \in Separators \cup {"NEWLINE"} : Readings(ts, k, x) = Only(ts[k].type = x, 1, << >>)
      <4>1. ItemReadings(ts, k)
        BY ReadingsAre
      <4>. QED  BY <4>1 DEF ItemReadings
    <3>. QED  BY <3>1
  <2>. QED  BY <1>1, <2>1
<1>3. CASE ts[k].type # "NEWLINE"
  <2>1. Readings(ts, k, ItemsOf(m)[L]) = {}
    BY <1>2, <1>3 DEF Only
  <2>2. RestOfLine(ts, m, L, k, a) = {}
    BY <1>1, <2>1, NothingRead
  <2>3. AfterLine(ts, k) = {}
    BY <1>3 DEF AfterLine
  <2>. QED  BY <2>2, <2>3 DEF Led
<1>4. CASE ts[k].type = "NEWLINE"
  <2>. DEFINE r == [length |-> 1, values |-> << >>]
  <2>1. Readings(ts, k, ItemsOf(m)[L]) = {r}
    BY <1>2, <1>4 DEF Only
  <2>2. r.length = 1 /\ r.values = << >>
    OBVIOUS
  <2>. HIDE DEF r
  <2>3. RestOfLine(ts, m, L, k, a) = RestOfLine(ts, m, L + 1, k + r.length, a \o r.values)
    <3>1. AtItem(ts, m, L, k, a)
      BY <1>1 DEF AtItem
    <3>2. OnlyOfUse(ts, m, L, k, r)
      BY <2>1 DEF OnlyOfUse
    <3>3. GoesOnWith(ts, m, L, k, a, r)
      BY <3>1, <3>2, RestStep
    <3>. QED  BY <3>3 DEF GoesOnWith
  <2>4. k + 1 \in 1 .. Len(ts) /\ DOMAIN ts = 1 .. Len(ts)
    BY <1>4, WellCutFacts
  <2>. DEFINE w == [next |-> k + 1, values |-> << >>]
  <2>5. R[L + 1][k + 1] = {w}
    <3>. DEFINE j == k + 1
    <3>1. j \in DOMAIN ts
      BY <2>4
    <3>. HIDE DEF j
    <3>2. LineReadings(ts, m)[Len(ItemsOf(m)) + 1][j] = { [next |-> j, values |-> << >>] }
      BY <3>1, LineReadingsAt
    <3>. QED  BY <3>2 DEF j
  <2>6. w.next = k + 1 /\ w.values = << >>
    OBVIOUS
  <2>. HIDE DEF w, R, L
  <2>7. RestOfLine(ts, m, L + 1, k + 1, a \o << >>) = WithLine(ts, m, a \o << >>, w)
    BY <2>5 DEF RestOfLine, R
  <2>8. (a \o << >>) \o << >> = a
    OBVIOUS
  <2>9. WithLine(ts, m, a \o << >>, w) = Led(<< Element(m, a) >>, ParsesFrom(ts)[k + 1])
    BY <2>6, <2>8 DEF WithLine
  <2>10. AfterLine(ts, k) = ParsesFrom(ts)[k + 1]
    BY <1>4 DEF AfterLine
  <2>. QED  BY <2>2, <2>3, <2>7, <2>9, <2>10 DEF L
<1>. QED  BY <1>3, <1>4

-----------------------------------------------------------------------------
(* What stands at a token.                                                  *)

(* One statement, and what follows it.                                      *)
LEMMA ContinuedOne ==
  ASSUME NEW s, NEW from
  PROVE  Continued({s}, from) = Led(s.elements, from[s.next])
<1>1. Continued({s}, from) = {Beginning(s, rest) : rest \in from[s.next]}
  BY DEF Continued
<1>. QED  BY <1>1 DEF Beginning, Led

(* At a colon no line of an instruction goes on, nor can one end.           *)
LEMMA NoItemAtColon ==
  ASSUME NEW ts, WellCut(ts), NEW m \in AllMnemonics, NEW k \in 1 .. Len(ts),
         ts[k].type = "COLON"
  PROVE  LineReadings(ts, m)[1][k] = {}
<1>. DEFINE h == Handler(m)
<1>1. /\ Len(h) \in Nat /\ Len(ItemsOf(m)) = Len(h) + 1
      /\ \A n \in 1 .. Len(h) : ItemsOf(m)[n] = h[n]
      /\ ItemsOf(m)[Len(h) + 1] = "NEWLINE"
  BY ItemsAre
<1>2. h # << >> => h[1] \in {"reg", "identifier"}
  BY HandlerShape
<1>3. h \in Seq(Values \cup Separators)
  BY HandlerTurns
<1>. HIDE DEF h
<1>4. ItemsOf(m)[1] \in {"reg", "identifier", "NEWLINE"} /\ 1 \in 1 .. Len(ItemsOf(m))
  <2>1. CASE Len(h) = 0
    BY <1>1, <2>1
  <2>2. CASE Len(h) # 0
    <3>1. 1 \in 1 .. Len(h) /\ h # << >>
      BY <1>1, <1>3, <2>2
    <3>. QED  BY <1>1, <1>2, <3>1
  <2>. QED  BY <2>1, <2>2
<1>5. ~IsRegister(ts[k].lexeme)
  <2>1. k \in DOMAIN ts
    BY WellCutFacts
  <2>. QED  BY <2>1 DEF WellCut
<1>6. /\ Readings(ts, k, "reg")
           = Only(IsRegister(ts[k].lexeme), 1, << RegisterNumber(ts[k].lexeme) >>)
      /\ Readings(ts, k, "identifier") = LabelRead(ts, k)
      /\ \A x \in Separators \cup {"NEWLINE"} :
           Readings(ts, k, x) = Only(ts[k].type = x, 1, << >>)
  <2>1. ItemReadings(ts, k)
    BY ReadingsAre
  <2>. QED  BY <2>1 DEF ItemReadings
<1>7. Readings(ts, k, "reg") = {}
  BY <1>5, <1>6 DEF Only
<1>8. Readings(ts, k, "identifier") = {}
  BY <1>6 DEF Only, LabelRead
<1>9. Readings(ts, k, "NEWLINE") = {}
  BY <1>6 DEF Only
<1>10. \A r : r \notin Readings(ts, k, ItemsOf(m)[1])
  BY <1>4, <1>7, <1>8, <1>9
<1>. QED  BY <1>4, <1>10, NothingRead

(* The word at a token, the mnemonic it is, and the line of that.           *)
WordAt(ts, k) == LowerCase(ts[k].lexeme)
MnemonicAt(ts, k) == Mnemonics[WordAt(ts, k)[1]]
LineOf(ts, k) == RestOfLine(ts, MnemonicAt(ts, k), 1, k + 1, << >>)

(* What is read from a token on, by what stands there.                      *)
LEMMA ParsesAt ==
  ASSUME NEW ts, WellCut(ts), NEW k \in 1 .. Len(ts)
  PROVE  /\ ts[k].type = "EOF" => ParsesFrom(ts)[k] = { << Eof >> }
         /\ ts[k].type = "NEWLINE" => ParsesFrom(ts)[k] = ParsesFrom(ts)[k + 1]
         /\ ts[k].type \notin {"EOF", "NEWLINE"} =>
              /\ ts[k + 1].type = "COLON" =>
                   ParsesFrom(ts)[k] = Led(<< Label(ts[k].lexeme) >>, ParsesFrom(ts)[k + 2])
              /\ ts[k + 1].type # "COLON" =>
                   /\ IsMnemonic(WordAt(ts, k)) =>
                        MnemonicAt(ts, k) \in AllMnemonics /\ ParsesFrom(ts)[k] = LineOf(ts, k)
                   /\ ~IsMnemonic(WordAt(ts, k)) => ParsesFrom(ts)[k] = {}
<1>0. PICK word, m, P : /\ word = WordAt(ts, k) /\ m = MnemonicAt(ts, k) /\ P = ParsesFrom(ts)
                        /\ word = LowerCase(ts[k].lexeme) /\ m = Mnemonics[word[1]]
  BY DEF WordAt, MnemonicAt
<1>. DEFINE R == LineReadings(ts, m)[1]
            Line(r) == [next |-> r.next, elements |-> << Element(m, r.values) >>]
            label == [next |-> k + 2, elements |-> << Label(ts[k].lexeme) >>]
            S == Statements(ts, k)
<1>1. P[k] = FromBody(ts, k, P)
  BY <1>0, ParsesFromAre
<1>2. ASSUME ts[k].type = "EOF" PROVE P[k] = { << Eof >> }
  BY <1>1, <1>2 DEF FromBody
<1>3. ts[k].type # "EOF" =>
        P[k] = Continued(S, P) /\ k + 1 \in 1 .. Len(ts) /\ P[k + 1] \subseteq Seq(Parts(ts))
  <2>1. ts[k].type # "EOF" => P[k] = Continued(S, P)
    BY <1>1 DEF FromBody
  <2>2. ts[k].type # "EOF" => k + 1 \in 1 .. Len(ts)
    BY WellCutFacts
  <2>. QED  BY <1>0, <2>1, <2>2, ParsesFromType
<1>4. ASSUME ts[k].type = "NEWLINE" PROVE P[k] = P[k + 1]
  <2>. DEFINE s == [next |-> k + 1, elements |-> << >>]
  <2>1. S = {s}
    BY <1>4 DEF Statements
  <2>2. s.next = k + 1 /\ s.elements = << >>
    OBVIOUS
  <2>. HIDE DEF s, S
  <2>3. P[k] = Led(<< >>, P[k + 1])
    BY <1>3, <1>4, <2>1, <2>2, ContinuedOne
  <2>4. \A C, X : C \subseteq Seq(X) => Led(<< >>, C) = C
    <3>1. ASSUME NEW C, NEW X, C \subseteq Seq(X) PROVE Led(<< >>, C) = C
      <4>1. << >> \in Seq(X)
        OBVIOUS
      <4>. QED  BY <3>1, <4>1, LedFacts
    <3>. QED  BY <3>1
  <2>. QED  BY <1>3, <1>4, <2>3, <2>4
<1>5. ASSUME ts[k].type \notin {"EOF", "NEWLINE"}
      PROVE  S = (IF ts[k + 1].type = "COLON" THEN {label} ELSE {})
                 \cup {Line(r) : r \in IF IsMnemonic(word) THEN R[k + 1] ELSE {}}
  BY <1>0, <1>5 DEF Statements
<1>6. ASSUME IsMnemonic(word) PROVE m \in AllMnemonics
  BY <1>0, <1>6, MnemonicsFacts DEF IsMnemonic
<1>7. ASSUME ts[k].type \notin {"EOF", "NEWLINE"}, ts[k + 1].type = "COLON"
      PROVE  P[k] = Led(<< Label(ts[k].lexeme) >>, P[k + 2])
  <2>1. IsMnemonic(word) => R[k + 1] = {}
    <3>1. k + 1 \in 1 .. Len(ts)
      BY <1>3, <1>7
    <3>. DEFINE j == k + 1
    <3>2. j \in 1 .. Len(ts) /\ ts[j].type = "COLON"
      BY <1>7, <3>1
    <3>. HIDE DEF j
    <3>3. m \in AllMnemonics => LineReadings(ts, m)[1][j] = {}
      BY <3>2, NoItemAtColon
    <3>. QED  BY <1>6, <3>3 DEF j
  <2>. HIDE DEF R, label, S, Line
  <2>2. S = {label}
    BY <1>5, <1>7, <2>1
  <2>3. label.next = k + 2 /\ label.elements = << Label(ts[k].lexeme) >>
    BY DEF label
  <2>. QED  BY <1>3, <1>7, <2>2, <2>3, ContinuedOne
<1>8. ASSUME ts[k].type \notin {"EOF", "NEWLINE"}, ts[k + 1].type # "COLON", ~IsMnemonic(word)
      PROVE  P[k] = {}
  <2>1. S = {}
    BY <1>5, <1>8
  <2>. HIDE DEF S
  <2>2. Continued({}, P) = {}
    BY DEF Continued
  <2>. QED  BY <1>3, <1>8, <2>1, <2>2
<1>9. ASSUME ts[k].type \notin {"EOF", "NEWLINE"}, ts[k + 1].type # "COLON", IsMnemonic(word)
      PROVE  P[k] = RestOfLine(ts, m, 1, k + 1, << >>)
  <2>. DEFINE W == R[k + 1]
  <2>1. S = {Line(r) : r \in W}
    <3>. HIDE DEF Line, R, S
    <3>. QED  BY <1>5, <1>9
  <2>2. \A r \in W : r.values \in Seq(Args)
    <3>1. m \in AllMnemonics
      BY <1>6, <1>9
    <3>2. 1 \in 1 .. Len(ItemsOf(m)) + 1
      BY <3>1, ItemFacts
    <3>3. k + 1 \in 1 .. Len(ts)
      BY <1>3, <1>9
    <3>. DEFINE j == k + 1
    <3>. HIDE DEF j
    <3>4. \A w \in LineReadings(ts, m)[1][j] : w.values \in Seq(Args)
      <4>1. j \in 1 .. Len(ts)
        BY <3>3 DEF j
      <4>. QED  BY <3>1, <3>2, <4>1, LineReadingsType
    <3>. QED  BY <3>4 DEF j
  <2>3. ASSUME NEW r \in W
        PROVE  {Beginning(Line(r), rest) : rest \in P[Line(r).next]} = WithLine(ts, m, << >>, r)
    <3>1. Line(r).next = r.next /\ Line(r).elements = << Element(m, r.values) >>
      OBVIOUS
    <3>2. << >> \o r.values = r.values
      BY <2>2
    <3>. HIDE DEF Line, W
    <3>. QED  BY <1>0, <3>1, <3>2 DEF Beginning, WithLine, Led
  <2>4. Continued(S, P) = UNION {{Beginning(Line(r), rest) : rest \in P[Line(r).next]} : r \in W}
    <3>. HIDE DEF Line, W, S
    <3>1. Continued({Line(r) : r \in W}, P) = UNION {{Beginning(Line(r), rest) : rest \in P[Line(r).next]} : r \in W}
      BY DEF Continued
    <3>. QED  BY <2>1, <3>1
  <2>5. RestOfLine(ts, m, 1, k + 1, << >>) = UNION {WithLine(ts, m, << >>, r) : r \in W}
    BY DEF RestOfLine
  <2>. HIDE DEF Line, W, S, R
  <2>6. {{Beginning(Line(r), rest) : rest \in P[Line(r).next]} : r \in W} = {WithLine(ts, m, << >>, r) : r \in W}
    <3>. DEFINE F(r) == {Beginning(Line(r), rest) : rest \in P[Line(r).next]}
                G(r) == WithLine(ts, m, << >>, r)
    <3>1. \A r \in W : F(r) = G(r)
      BY <2>3
    <3>. HIDE DEF F, G
    <3>2. {F(r) : r \in W} = {G(r) : r \in W}
      BY <3>1
    <3>. QED  BY <3>2 DEF F, G
  <2>. QED  BY <1>3, <1>9, <2>4, <2>5, <2>6
<1>. HIDE DEF R, Line, label, S
<1>10. LineOf(ts, k) = RestOfLine(ts, m, 1, k + 1, << >>)
  BY <1>0 DEF LineOf
<1>. QED  BY <1>0, <1>2, <1>4, <1>6, <1>7, <1>8, <1>9, <1>10

-----------------------------------------------------------------------------
(* The parser, and what is left to read.                                    *)

(* From its current token on, the parser has the tokens of the source; of   *)
(* those before some are lower case by now.                                 *)
AheadIs(ts) ==
  Len(tokens) = Len(ts) /\ \A n \in token .. Len(ts) : tokens[n] = ts[n]

(* The other way to read an offset that begins like a number: as none,      *)
(* which leaves that number where a parenthesis has to be.                  *)
OfNoUse(ts, k, call, q) ==
  call = "offset" /\ q.length = 0 /\ ts[k].type \in {"DECIMAL", "MINUS"}

(* A call returns what is the only reading of its item that is of use, or   *)
(* the process stops and there is none.                                     *)
ReadsItem(ts, call) ==
  /\ Calling(call) /\ call \in Values \cup Separators \cup {"NEWLINE"}
  /\ \/ /\ status' # "running"
        /\ \A q \in Readings(ts, token, call) : OfNoUse(ts, token, call, q)
     \/ /\ UNCHANGED status
        /\ \E r \in Readings(ts, token, call) :
             /\ Return(r.values, r.length)
             /\ \A q \in Readings(ts, token, call) : q # r => OfNoUse(ts, token, call, q)

(* What the two have the same.                                              *)
LEMMA AheadFacts ==
  ASSUME CompilerInv, At("parse"), NEW ts, WellCut(ts), AheadIs(ts)
  PROVE  /\ token \in 1 .. Len(ts) /\ ts[token].type = Type /\ ts[token].lexeme = Lexeme
         /\ Type # "EOF" =>
              token + 1 \in 1 .. Len(ts) /\ tokens[token + 1] = ts[token + 1]
         /\ \A k \in 1 .. Len(ts) : k >= token => tokens[k] = ts[k]
<1>1. token \in 1 .. Len(tokens) /\ Len(tokens) = Len(ts) /\ Len(ts) \in Nat
  BY TokenFacts, WellCutFacts DEF AheadIs
<1>2. \A k \in 1 .. Len(ts) : k >= token => tokens[k] = ts[k]
  <2>1. \A k \in 1 .. Len(ts) : k >= token => k \in token .. Len(ts)
    BY <1>1
  <2>. QED  BY <2>1 DEF AheadIs
<1>3. tokens[token] = ts[token]
  <2>1. token \in 1 .. Len(ts) /\ token >= token
    BY <1>1
  <2>. QED  BY <1>2, <2>1
<1>4. Type # "EOF" => token + 1 \in 1 .. Len(ts)
  BY <1>1, TokenFacts
<1>5. Type # "EOF" => tokens[token + 1] = ts[token + 1]
  <2>1. token + 1 >= token
    BY <1>1
  <2>. QED  BY <1>2, <1>4, <2>1
<1>. QED  BY <1>1, <1>2, <1>3, <1>4, <1>5 DEF Type, Lexeme

(* A process that stops does not run.                                       *)
LEMMA ExitStops ==
  ASSUME NEW code \in {"EXIT_FAILURE", "SIGSEGV"}, Exit(code)
  PROVE  status' # "running"
BY DEF Exit

(* What a call that consumes a token reads.                                 *)
LEMMA ConsumeReads ==
  ASSUME CompilerInv, NEW ts, WellCut(ts), AheadIs(ts), ConsumeToken
  PROVE  \E call : ReadsItem(ts, call)
<1>1. PICK type \in {"COMMA", "LPAREN", "RPAREN", "NEWLINE"} : Calling(type) /\ Consume(type, << >>)
  BY DEF ConsumeToken
<1>2. type \in Separators \cup {"NEWLINE"}
  BY DEF Separators
<1>3. At("parse")
  BY <1>1 DEF Calling
<1>4. ts[token].type = Type
  BY <1>3, AheadFacts
<1>5. Readings(ts, token, type) = Only(Type = type, 1, << >>)
  <2>1. \A x \in Separators \cup {"NEWLINE"} : Readings(ts, token, x) = Only(ts[token].type = x, 1, << >>)
    <3>1. ItemReadings(ts, token)
      BY ReadingsAre
    <3>. QED  BY <3>1 DEF ItemReadings
  <2>. QED  BY <1>2, <1>4, <2>1
<1>6. CASE Type = type
  <2>. DEFINE r == [length |-> 1, values |-> << >>]
  <2>1. Readings(ts, token, type) = {r}
    BY <1>5, <1>6 DEF Only
  <2>2. r.length = 1 /\ r.values = << >>
    OBVIOUS
  <2>3. Return(<< >>, 1) /\ UNCHANGED status
    BY <1>1, <1>6 DEF Consume, Return
  <2>. HIDE DEF r
  <2>4. r \in Readings(ts, token, type) /\ Return(r.values, r.length)
    BY <2>1, <2>2, <2>3
  <2>5. \A q \in Readings(ts, token, type) : q # r => OfNoUse(ts, token, type, q)
    BY <2>1
  <2>. QED  BY <1>1, <1>2, <2>3, <2>4, <2>5 DEF ReadsItem
<1>7. CASE Type # type
  <2>1. Readings(ts, token, type) = {}
    BY <1>5, <1>7 DEF Only
  <2>2. status' # "running"
    BY <1>1, <1>7, ExitStops DEF Consume
  <2>. QED  BY <1>1, <1>2, <2>1, <2>2 DEF ReadsItem
<1>. QED  BY <1>6, <1>7

(* What parse_register reads.                                               *)
LEMMA RegReads ==
  ASSUME CompilerInv, NEW ts, WellCut(ts), AheadIs(ts), Reg
  PROVE  ReadsItem(ts, "reg")
<1>1. Calling("reg") /\ "reg" \in Values /\ At("parse")
  BY DEF Reg, Calling, Values
<1>2. ts[token].lexeme = Lexeme
  BY <1>1, AheadFacts
<1>3. Readings(ts, token, "reg") = Only(IsRegister(Lexeme), 1, << RegisterNumber(Lexeme) >>)
  <2>1. ItemReadings(ts, token)
    BY ReadingsAre
  <2>. QED  BY <1>2, <2>1 DEF ItemReadings
<1>4. CASE IsRegister(Lexeme)
  <2>. DEFINE r == [length |-> 1, values |-> << RegisterNumber(Lexeme) >>]
  <2>1. Readings(ts, token, "reg") = {r}
    BY <1>3, <1>4 DEF Only
  <2>2. r.length = 1 /\ r.values = << RegisterNumber(Lexeme) >>
    OBVIOUS
  <2>3. Return(<< RegisterNumber(Lexeme) >>, 1) /\ UNCHANGED status
    BY <1>4 DEF Reg, Return
  <2>. HIDE DEF r
  <2>4. r \in Readings(ts, token, "reg") /\ Return(r.values, r.length)
    BY <2>1, <2>2, <2>3
  <2>5. \A q \in Readings(ts, token, "reg") : q # r => OfNoUse(ts, token, "reg", q)
    BY <2>1
  <2>. QED  BY <1>1, <2>3, <2>4, <2>5 DEF ReadsItem
<1>5. CASE ~IsRegister(Lexeme)
  <2>1. Readings(ts, token, "reg") = {}
    BY <1>3, <1>5 DEF Only
  <2>2. FailOrCrash
    BY <1>5 DEF Reg
  <2>3. status' # "running"
    BY <2>2, ExitStops DEF FailOrCrash
  <2>. QED  BY <1>1, <2>1, <2>3 DEF ReadsItem
<1>. QED  BY <1>4, <1>5

(* What number reads: there is but one number at a token.                   *)
LEMMA NumberIsRead ==
  ASSUME CompilerInv, At("parse"), NEW ts, WellCut(ts), AheadIs(ts), StartsNumber, Number
  PROVE  \/ status' # "running" /\ NumberRead(ts, token) = {}
         \/ /\ UNCHANGED status
            /\ \E r : NumberRead(ts, token) = {r} /\ r.length # 0 /\ Return(r.values, r.length)
<1>. DEFINE minus == Type = "MINUS"
            digits == tokens[IF minus THEN token + 1 ELSE token]
            value == Numerals[digits.lexeme[1]]
<1>1. Type \in {"DECIMAL", "MINUS"}
  BY DEF StartsNumber
<1>2. ts[token].type = Type /\ ts[token].lexeme = Lexeme /\ tokens[token + 1] = ts[token + 1]
  <2>1. Type # "EOF"
    BY <1>1
  <2>. QED  BY <2>1, AheadFacts
<1>3. CASE Type = "DECIMAL"
  <2>1. digits = tokens[token] /\ digits.type = Type /\ digits.lexeme = Lexeme
    BY <1>3 DEF Type, Lexeme
  <2>2. Return(Imm(value), 1)
    BY <1>3, <2>1 DEF Number, Imm
  <2>. DEFINE r == [length |-> 1, values |-> Imm(value)]
  <2>3. NumberRead(ts, token) = {r}
    BY <1>2, <1>3, <2>1 DEF NumberRead, Only
  <2>4. r.length = 1 /\ r.values = Imm(value)
    OBVIOUS
  <2>. HIDE DEF r
  <2>5. NumberRead(ts, token) = {r} /\ r.length # 0 /\ Return(r.values, r.length)
    BY <2>2, <2>3, <2>4, SMTT(30)
  <2>. QED  BY <2>2, <2>5 DEF Return
<1>4. CASE Type = "MINUS" /\ tokens[token + 1].type = "DECIMAL"
  <2>1. digits = ts[token + 1] /\ digits.type = "DECIMAL"
    BY <1>2, <1>4
  <2>2. Return(Imm(-value), 2)
    BY <1>4, <2>1 DEF Number, Imm
  <2>. DEFINE r == [length |-> 2, values |-> Imm(-value)]
  <2>3. NumberRead(ts, token) = {r}
    BY <1>2, <1>4, <2>1 DEF NumberRead, Only
  <2>4. r.length = 2 /\ r.values = Imm(-value)
    OBVIOUS
  <2>. HIDE DEF r
  <2>5. NumberRead(ts, token) = {r} /\ r.length # 0 /\ Return(r.values, r.length)
    BY <2>2, <2>3, <2>4
  <2>. QED  BY <2>2, <2>5 DEF Return
<1>5. CASE Type = "MINUS" /\ tokens[token + 1].type # "DECIMAL"
  <2>1. NumberRead(ts, token) = {}
    BY <1>2, <1>5 DEF NumberRead, Only
  <2>2. Exit("EXIT_FAILURE")
    BY <1>5 DEF Number
  <2>. QED  BY <2>1, <2>2, ExitStops
<1>. QED  BY <1>1, <1>3, <1>4, <1>5

(* What is not a number is not read as one.                                 *)
LEMMA NoNumber ==
  ASSUME NEW ts, NEW k, ts[k].type \notin {"DECIMAL", "MINUS"}
  PROVE  NumberRead(ts, k) = {}
BY DEF NumberRead, Only

(* What a call for a name reads.                                            *)
LEMMA IdentifierIsRead ==
  ASSUME CompilerInv, At("parse"), NEW ts, WellCut(ts), AheadIs(ts), Identifier
  PROVE  \/ status' # "running" /\ LabelRead(ts, token) = {}
         \/ /\ UNCHANGED status
            /\ \E r : LabelRead(ts, token) = {r} /\ Return(r.values, r.length)
<1>1. ts[token].type = Type /\ ts[token].lexeme = Lexeme
  BY AheadFacts
<1>. DEFINE v == << [is |-> "label", label |-> Lexeme] >>
            r == [length |-> 1, values |-> v]
<1>2. CASE Type = "IDENTIFIER"
  <2>1. Return(v, 1)
    BY <1>2 DEF Identifier, Consume
  <2>2. LabelRead(ts, token) = {r}
    BY <1>1, <1>2 DEF LabelRead, Only
  <2>3. r.length = 1 /\ r.values = v
    OBVIOUS
  <2>. HIDE DEF r, v
  <2>. QED  BY <2>1, <2>2, <2>3 DEF Return
<1>3. CASE Type # "IDENTIFIER"
  <2>1. LabelRead(ts, token) = {}
    BY <1>1, <1>3 DEF LabelRead, Only
  <2>2. Exit("EXIT_FAILURE")
    BY <1>3 DEF Identifier, Consume
  <2>. QED  BY <2>1, <2>2, ExitStops
<1>. QED  BY <1>2, <1>3

(* A reading of an item that is the only one.                               *)
LEMMA OneReading ==
  ASSUME NEW ts, NEW call \in Values, Calling(call),
         \/ status' # "running" /\ Readings(ts, token, call) = {}
         \/ /\ UNCHANGED status
            /\ \E r : Readings(ts, token, call) = {r} /\ Return(r.values, r.length)
  PROVE  ReadsItem(ts, call)
<1>1. CASE status' # "running" /\ Readings(ts, token, call) = {}
  BY <1>1 DEF ReadsItem
<1>2. CASE /\ UNCHANGED status
           /\ \E r : Readings(ts, token, call) = {r} /\ Return(r.values, r.length)
  <2>1. PICK r : Readings(ts, token, call) = {r} /\ Return(r.values, r.length)
    BY <1>2
  <2>2. r \in Readings(ts, token, call)
        /\ \A q \in Readings(ts, token, call) : q # r => OfNoUse(ts, token, call, q)
    BY <2>1
  <2>. QED  BY <1>2, <2>1, <2>2 DEF ReadsItem
<1>. QED  BY <1>1, <1>2

(* What the call for a jump's target reads.                                 *)
LEMMA JumpTargetReads ==
  ASSUME CompilerInv, NEW ts, WellCut(ts), AheadIs(ts), JumpTarget
  PROVE  ReadsItem(ts, "identifier")
<1>1. Calling("identifier") /\ At("parse") /\ "identifier" \in Values /\ Identifier
  BY DEF JumpTarget, Calling, Values
<1>2. Readings(ts, token, "identifier") = LabelRead(ts, token)
  <2>1. ItemReadings(ts, token)
    BY ReadingsAre
  <2>. QED  BY <2>1 DEF ItemReadings
<1>3. \/ status' # "running" /\ LabelRead(ts, token) = {}
      \/ /\ UNCHANGED status
         /\ \E r : LabelRead(ts, token) = {r} /\ Return(r.values, r.length)
  BY <1>1, IdentifierIsRead
<1>. QED  BY <1>1, <1>2, <1>3, OneReading

(* What the call for an operand reads.                                      *)
LEMMA OperandReads ==
  ASSUME CompilerInv, NEW ts, WellCut(ts), AheadIs(ts), Operand
  PROVE  ReadsItem(ts, "operand")
<1>1. Calling("operand") /\ At("parse") /\ "operand" \in Values
  BY DEF Operand, Calling, Values
<1>2. Readings(ts, token, "operand") = NumberRead(ts, token) \cup LabelRead(ts, token)
  <2>1. ItemReadings(ts, token)
    BY ReadingsAre
  <2>. QED  BY <2>1 DEF ItemReadings
<1>3. ts[token].type = Type
  BY <1>1, AheadFacts
<1>4. CASE StartsNumber
  <2>1. LabelRead(ts, token) = {}
    BY <1>3, <1>4 DEF StartsNumber, LabelRead, Only
  <2>2. Number
    BY <1>4 DEF Operand
  <2>3. \/ status' # "running" /\ NumberRead(ts, token) = {}
        \/ /\ UNCHANGED status
           /\ \E r : NumberRead(ts, token) = {r} /\ r.length # 0 /\ Return(r.values, r.length)
    BY <1>1, <1>4, <2>2, NumberIsRead
  <2>4. Readings(ts, token, "operand") = NumberRead(ts, token)
    BY <1>2, <2>1
  <2>. QED  BY <1>1, <2>3, <2>4, OneReading
<1>5. CASE ~StartsNumber
  <2>1. NumberRead(ts, token) = {}
    BY <1>3, <1>5, NoNumber DEF StartsNumber
  <2>2. Readings(ts, token, "operand") = LabelRead(ts, token)
    BY <1>2, <2>1
  <2>3. \/ status' # "running" /\ LabelRead(ts, token) = {}
        \/ /\ UNCHANGED status
           /\ \E r : LabelRead(ts, token) = {r} /\ Return(r.values, r.length)
    <3>1. CASE Type = "IDENTIFIER"
      BY <1>1, <1>5, <3>1, IdentifierIsRead DEF Operand
    <3>2. CASE Type # "IDENTIFIER"
      <4>1. LabelRead(ts, token) = {}
        BY <1>3, <3>2 DEF LabelRead, Only
      <4>2. status' # "running"
        BY <1>5, <3>2, ExitStops DEF Operand, FailOrCrash
      <4>. QED  BY <4>1, <4>2
    <3>. QED  BY <3>1, <3>2
  <2>. QED  BY <1>1, <2>2, <2>3, OneReading
<1>. QED  BY <1>4, <1>5

(* What the call for an offset reads, which need not be there.              *)
LEMMA OffsetReads ==
  ASSUME CompilerInv, NEW ts, WellCut(ts), AheadIs(ts), Offset
  PROVE  ReadsItem(ts, "offset")
<1>. DEFINE none == [length |-> 0, values |-> Imm(0)]
            S == Readings(ts, token, "offset")
<1>1. Calling("offset") /\ At("parse") /\ "offset" \in Values
  BY DEF Offset, Calling, Values
<1>2. S = NumberRead(ts, token) \cup {none}
  <2>1. S = NumberRead(ts, token) \cup Only(TRUE, 0, Imm(0))
    <3>1. ItemReadings(ts, token)
      BY ReadingsAre
    <3>. QED  BY <3>1 DEF ItemReadings
  <2>. QED  BY <2>1 DEF Only
<1>3. ts[token].type = Type
  BY <1>1, AheadFacts
<1>4. none.length = 0 /\ none.values = Imm(0)
  OBVIOUS
<1>. HIDE DEF none, S
<1>5. CASE StartsNumber
  <2>1. OfNoUse(ts, token, "offset", none)
    BY <1>3, <1>4, <1>5 DEF OfNoUse, StartsNumber
  <2>2. Number
    BY <1>5 DEF Offset
  <2>3. \/ status' # "running" /\ NumberRead(ts, token) = {}
        \/ /\ UNCHANGED status
           /\ \E r : NumberRead(ts, token) = {r} /\ r.length # 0 /\ Return(r.values, r.length)
    BY <1>1, <1>5, <2>2, NumberIsRead
  <2>4. CASE status' # "running" /\ NumberRead(ts, token) = {}
    <3>1. \A q \in S : OfNoUse(ts, token, "offset", q)
      BY <1>2, <2>1, <2>4
    <3>. QED  BY <1>1, <2>4, <3>1 DEF ReadsItem, S
  <2>5. CASE /\ UNCHANGED status
             /\ \E r : NumberRead(ts, token) = {r} /\ r.length # 0 /\ Return(r.values, r.length)
    <3>1. PICK r : NumberRead(ts, token) = {r} /\ Return(r.values, r.length)
      BY <2>5
    <3>2. r \in S /\ \A q \in S : q # r => OfNoUse(ts, token, "offset", q)
      BY <1>2, <2>1, <3>1
    <3>. QED  BY <1>1, <2>5, <3>1, <3>2 DEF ReadsItem, S
  <2>. QED  BY <2>3, <2>4, <2>5
<1>6. CASE ~StartsNumber
  <2>1. NumberRead(ts, token) = {}
    BY <1>3, <1>6, NoNumber DEF StartsNumber
  <2>2. Return(Imm(0), 0) /\ UNCHANGED status
    BY <1>6 DEF Offset, Imm, Return
  <2>3. S = {none} /\ Return(none.values, none.length)
    BY <1>2, <1>4, <2>1, <2>2
  <2>. QED  BY <1>1, <2>2, <2>3, OneReading DEF S
<1>. QED  BY <1>5, <1>6

(* Every call that reads an item.                                           *)
LEMMA CallReads ==
  ASSUME CompilerInv, NEW ts, WellCut(ts), AheadIs(ts),
         ConsumeToken \/ Reg \/ Operand \/ Offset \/ JumpTarget
  PROVE  \E call : ReadsItem(ts, call)
BY ConsumeReads, RegReads, OperandReads, OffsetReads, JumpTargetReads

-----------------------------------------------------------------------------
(* The item about to be read: the first call that is still to be made, but  *)
(* for the one that appends the element.                                    *)
NextItem == Len(Handler(mnemonic)) + 3 - Len(calls)

(* What there is left to read.                                              *)
ToRead(ts) ==
  IF calls = << >> THEN ParsesFrom(ts)[token]
  ELSE IF calls = << "NEWLINE" >> THEN AfterLine(ts, token)
  ELSE RestOfLine(ts, mnemonic, NextItem, token, args)

(* What calls are left when some of them are.                               *)
LEMMA NextItemFacts ==
  ASSUME CompilerInv, NEW call, Calling(call), calls # << "NEWLINE" >>,
         NEW h, h = Handler(mnemonic), NEW N, N = NextItem
  PROVE  /\ At("parse") /\ mnemonic \in AllMnemonics /\ Len(h) \in Nat /\ N \in 1 .. Len(h) + 1
         /\ args \in Seq(Args)
         /\ N <= Len(h) =>
              /\ call = h[N] /\ call = ItemsOf(mnemonic)[N] /\ Tail(calls) # << >>
              /\ Tail(calls) # << "NEWLINE" >> /\ Len(Tail(calls)) = Len(calls) - 1
         /\ N = Len(h) + 1 => call = "append" /\ Tail(calls) = << "NEWLINE" >>
         /\ Len(calls) \in Nat /\ N = Len(h) + 3 - Len(calls)
<1>. DEFINE e == << "append", "NEWLINE" >>
            s == h \o e
<1>1. At("parse") /\ mnemonic \in AllMnemonics /\ h \in Seq(Values \cup Separators) /\ Len(h) \in Nat
  BY CallingFacts
<1>2. PICK p \in 0 .. Len(h) :
        /\ Made(p, h)
        /\ p = Len(h) => call = "append" /\ Tail(calls) = << "NEWLINE" >>
        /\ p < Len(h) => call = h[p + 1] /\ Tail(calls) = SubSeq(s, p + 2, Len(h) + 2)
  BY CallingFacts
<1>. DEFINE X == Values \cup Separators \cup {"append", "NEWLINE"}
            H == Len(h)
            C == Len(calls)
<1>3. s \in Seq(X) /\ Len(s) = H + 2
  <2>1. h \in Seq(X) /\ e \in Seq(X) /\ Len(e) = 2
    BY <1>1
  <2>. QED  BY <2>1
<1>4. calls = SubSeq(s, p + 1, H + 2)
  BY <1>2 DEF Made, s
<1>5. N = H + 3 - C
  BY DEF NextItem
<1>6. p \in 0 .. H /\ H \in Nat
  BY <1>1
<1>7. args \in Seq(Args)
  BY <1>2 DEF Made, Args
<1>8. p < H => call = h[p + 1] /\ Tail(calls) = SubSeq(s, p + 2, H + 2)
  BY <1>2
<1>9. p = H => call = "append" /\ Tail(calls) = << "NEWLINE" >>
  BY <1>2
<1>10. \A n \in 1 .. H : ItemsOf(mnemonic)[n] = h[n]
  BY <1>1, ItemsAre
<1>. HIDE DEF s, X, H
<1>11. C = H + 2 - p
  <2>1. p + 1 \in Int /\ H + 2 \in Int /\ p + 1 \in 1 .. Len(s) /\ H + 2 \in 1 .. Len(s) /\ p + 1 <= H + 2
    BY <1>3, <1>6
  <2>2. Len(SubSeq(s, p + 1, H + 2)) = (H + 2) - (p + 1) + 1
    BY <1>3, <1>6, <2>1, SubSeqProperties
  <2>. QED  BY <1>4, <1>6, <2>2
<1>. HIDE DEF C
<1>12. N = p + 1 /\ N \in 1 .. H + 1 /\ C \in Nat
  BY <1>5, <1>6, <1>11
<1>13. ASSUME N <= H
       PROVE  /\ call = h[N] /\ call = ItemsOf(mnemonic)[N] /\ Tail(calls) # << >>
              /\ Tail(calls) # << "NEWLINE" >> /\ Len(Tail(calls)) = C - 1
  <2>1. p < H /\ N \in 1 .. H
    BY <1>6, <1>12, <1>13
  <2>2. call = h[N] /\ Tail(calls) = SubSeq(s, p + 2, H + 2)
    BY <1>8, <1>12, <2>1
  <2>3. Len(SubSeq(s, p + 2, H + 2)) = (H + 2) - (p + 2) + 1
    <3>1. p + 2 \in 1 .. Len(s) /\ H + 2 \in 1 .. Len(s) /\ p + 2 <= H + 2
      BY <1>3, <1>6, <2>1
    <3>. QED  BY <1>3, <1>6, <3>1, SubSeqProperties
  <2>. DEFINE T == Len(Tail(calls))
  <2>4. T = (H + 2) - (p + 2) + 1
    BY <2>2, <2>3
  <2>. HIDE DEF T
  <2>5. T = C - 1 /\ T > 1
    BY <1>6, <1>11, <2>1, <2>4
  <2>6. Len(<< >>) = 0 /\ Len(<< "NEWLINE" >>) = 1
    OBVIOUS
  <2>7. \A a, b : a = b => Len(a) = Len(b)
    OBVIOUS
  <2>8. Tail(calls) # << >> /\ Tail(calls) # << "NEWLINE" >>
    BY <2>5, <2>6, <2>7 DEF T
  <2>9. call = ItemsOf(mnemonic)[N]
    BY <1>10, <2>1, <2>2
  <2>. QED  BY <2>2, <2>5, <2>8, <2>9 DEF T
<1>14. N = H + 1 => call = "append" /\ Tail(calls) = << "NEWLINE" >>
  BY <1>6, <1>9, <1>12
<1>. QED  BY <1>1, <1>5, <1>6, <1>7, <1>12, <1>13, <1>14 DEF H, C

(* A reading the rest of the line has no use for.                           *)
LEMMA NoUse ==
  ASSUME NEW ts, WellCut(ts), NEW m \in AllMnemonics, NEW h, h = Handler(m),
         NEW n \in 1 .. Len(h), NEW k \in 1 .. Len(ts), NEW q, OfNoUse(ts, k, h[n], q)
  PROVE  LineReadings(ts, m)[n + 1][k + q.length] = {}
<1>1. h[n] = "offset" /\ q.length = 0 /\ ts[k].type \in {"DECIMAL", "MINUS"}
  BY DEF OfNoUse
<1>2. n + 1 \in 1 .. Len(h) /\ h[n + 1] = "LPAREN"
  BY <1>1, HandlerShape
<1>3. n + 1 \in 1 .. Len(ItemsOf(m)) /\ ItemsOf(m)[n + 1] = "LPAREN"
  BY <1>2, ItemsAre
<1>4. Readings(ts, k, "LPAREN") = Only(ts[k].type = "LPAREN", 1, << >>)
  <2>1. \A x \in Separators \cup {"NEWLINE"} : Readings(ts, k, x) = Only(ts[k].type = x, 1, << >>)
    <3>1. ItemReadings(ts, k)
      BY ReadingsAre
    <3>. QED  BY <3>1 DEF ItemReadings
  <2>. QED  BY <2>1 DEF Separators
<1>5. Readings(ts, k, "LPAREN") = {}
  BY <1>1, <1>4 DEF Only
<1>. DEFINE j == n + 1
<1>6. j \in 1 .. Len(ItemsOf(m)) /\ \A r : r \notin Readings(ts, k, ItemsOf(m)[j])
  BY <1>3, <1>5
<1>. HIDE DEF j
<1>7. LineReadings(ts, m)[j][k] = {}
  BY <1>6, NothingRead
<1>8. k + q.length = k
  BY <1>1
<1>. QED  BY <1>7, <1>8 DEF j

(* An item none of whose readings is of use.                                *)
LEMMA NothingOfUse ==
  ASSUME NEW ts, WellCut(ts), NEW m \in AllMnemonics, NEW n \in 1 .. Len(ItemsOf(m)),
         NEW k \in 1 .. Len(ts),
         \A q \in Readings(ts, k, ItemsOf(m)[n]) : LineReadings(ts, m)[n + 1][k + q.length] = {}
  PROVE  \A a : RestOfLine(ts, m, n, k, a) = {}
<1>. DEFINE R == LineReadings(ts, m)
            S == Readings(ts, k, ItemsOf(m)[n])
<1>1. k \in DOMAIN ts
  BY WellCutFacts
<1>2. R[n][k] = Followed(S, k, R[n + 1])
  BY <1>1, LineReadingsAt
<1>3. \A q \in S : R[n + 1][EndsAt(k, q)] = {}
  BY DEF EndsAt
<1>4. R[n][k] = {}
  <2>. HIDE DEF R, S
  <2>1. ASSUME NEW w \in Followed(S, k, R[n + 1]) PROVE FALSE
    <3>1. PICK q \in S : \E rest \in R[n + 1][EndsAt(k, q)] : w = Both(q, rest)
      BY FollowedIs
    <3>. QED  BY <1>3, <3>1
  <2>. QED  BY <1>2, <2>1
<1>. QED  BY <1>4 DEF RestOfLine

(* What is there to read after a call, or nothing.                          *)
Kept(ts) ==
  \/ status' # "running" /\ Parses(ts) = {}
  \/ UNCHANGED status /\ AheadIs(ts)' /\ Parses(ts) = Led(ir', ToRead(ts)')

(* A call that ends a line.                                                 *)
LEMMA LastCallKept ==
  ASSUME CompilerInv, NEW ts, WellCut(ts), AheadIs(ts), Parses(ts) = Led(ir, ToRead(ts)),
         NEW call, ReadsItem(ts, call), calls = << "NEWLINE" >>, UNCHANGED tokens
  PROVE  Kept(ts)
<1>1. call = "NEWLINE" /\ At("parse") /\ Calling(call)
  BY DEF ReadsItem, Calling
<1>2. token \in 1 .. Len(ts) /\ Len(ts) \in Nat
  BY <1>1, AheadFacts, WellCutFacts
<1>3. Readings(ts, token, "NEWLINE") = Only(ts[token].type = "NEWLINE", 1, << >>)
  <2>1. \A x \in Separators \cup {"NEWLINE"} : Readings(ts, token, x) = Only(ts[token].type = x, 1, << >>)
    <3>1. ItemReadings(ts, token)
      BY ReadingsAre
    <3>. QED  BY <3>1 DEF ItemReadings
  <2>. QED  BY <2>1
<1>4. ToRead(ts) = AfterLine(ts, token)
  BY DEF ToRead
<1>5. CASE status' # "running" /\ \A q \in Readings(ts, token, call) : OfNoUse(ts, token, call, q)
  <2>1. Readings(ts, token, call) = {}
    BY <1>1, <1>5 DEF OfNoUse
  <2>2. ts[token].type # "NEWLINE"
    BY <1>1, <1>3, <2>1 DEF Only
  <2>3. Parses(ts) = {}
    BY <1>4, <2>2 DEF AfterLine, Led
  <2>. QED  BY <1>5, <2>3 DEF Kept
<1>6. CASE /\ UNCHANGED status
           /\ \E r \in Readings(ts, token, call) :
                /\ Return(r.values, r.length)
                /\ \A q \in Readings(ts, token, call) : q # r => OfNoUse(ts, token, call, q)
  <2>1. PICK r \in Readings(ts, token, call) : Return(r.values, r.length)
    BY <1>6
  <2>2. ts[token].type = "NEWLINE" /\ r.length = 1
    BY <1>1, <1>3, <2>1 DEF Only
  <2>3. token' = token + 1 /\ calls' = << >> /\ ir' = ir
    BY <2>1, <2>2 DEF Return
  <2>4. ToRead(ts)' = ParsesFrom(ts)[token + 1]
    BY <2>3 DEF ToRead
  <2>5. AfterLine(ts, token) = ParsesFrom(ts)[token + 1]
    BY <2>2 DEF AfterLine
  <2>6. AheadIs(ts)'
    BY <1>2, <2>3 DEF AheadIs
  <2>. QED  BY <1>4, <1>6, <2>3, <2>4, <2>5, <2>6 DEF Kept
<1>. QED  BY <1>5, <1>6 DEF ReadsItem

(* A call that reads an item of a line.                                     *)
LEMMA ItemCallKept ==
  ASSUME CompilerInv, NEW ts, WellCut(ts), AheadIs(ts), Parses(ts) = Led(ir, ToRead(ts)),
         NEW call, ReadsItem(ts, call), calls # << "NEWLINE" >>, UNCHANGED << tokens, mnemonic >>
  PROVE  Kept(ts)
<1>. DEFINE h == Handler(mnemonic)
            N == NextItem
<1>1. /\ At("parse") /\ mnemonic \in AllMnemonics /\ Len(h) \in Nat /\ N \in 1 .. Len(h) + 1
      /\ args \in Seq(Args)
      /\ N <= Len(h) =>
           /\ call = h[N] /\ call = ItemsOf(mnemonic)[N] /\ Tail(calls) # << >>
           /\ Tail(calls) # << "NEWLINE" >> /\ Len(Tail(calls)) = Len(calls) - 1
      /\ N = Len(h) + 1 => call = "append"
      /\ Len(calls) \in Nat /\ N = Len(h) + 3 - Len(calls)
  BY NextItemFacts DEF ReadsItem
<1>2. call \in Values \cup Separators \cup {"NEWLINE"} /\ call # "append" /\ calls # << >>
  BY DEF ReadsItem, Values, Separators, Calling
<1>3. N \in 1 .. Len(h) /\ call = h[N] /\ call = ItemsOf(mnemonic)[N]
  BY <1>1, <1>2
<1>4. N \in 1 .. Len(ItemsOf(mnemonic))
  <2>1. Len(ItemsOf(mnemonic)) = Len(h) + 1
    BY <1>1, ItemsAre
  <2>. QED  BY <1>1, <1>3, <2>1
<1>5. token \in 1 .. Len(ts) /\ Len(ts) \in Nat
  BY <1>1, AheadFacts, WellCutFacts
<1>6. ToRead(ts) = RestOfLine(ts, mnemonic, N, token, args)
  BY <1>2 DEF ToRead
<1>7. ASSUME NEW q, OfNoUse(ts, token, call, q)
      PROVE  LineReadings(ts, mnemonic)[N + 1][token + q.length] = {}
  <2>. HIDE DEF N
  <2>. QED  BY <1>1, <1>3, <1>5, <1>7, NoUse, ZenonT(60)
<1>. HIDE DEF N, h
<1>8. CASE status' # "running" /\ \A q \in Readings(ts, token, call) : OfNoUse(ts, token, call, q)
  <2>1. RestOfLine(ts, mnemonic, N, token, args) = {}
    <3>1. \A q \in Readings(ts, token, ItemsOf(mnemonic)[N]) :
            LineReadings(ts, mnemonic)[N + 1][token + q.length] = {}
      BY <1>3, <1>7, <1>8
    <3>. QED  BY <1>1, <1>4, <1>5, <3>1, NothingOfUse
  <2>2. Parses(ts) = {}
    BY <1>6, <2>1 DEF Led
  <2>. QED  BY <1>8, <2>2 DEF Kept
<1>9. CASE /\ UNCHANGED status
           /\ \E r \in Readings(ts, token, call) :
                /\ Return(r.values, r.length)
                /\ \A q \in Readings(ts, token, call) : q # r => OfNoUse(ts, token, call, q)
  <2>1. PICK r \in Readings(ts, token, call) :
               /\ Return(r.values, r.length)
               /\ \A q \in Readings(ts, token, call) : q # r => OfNoUse(ts, token, call, q)
    BY <1>9
  <2>2. RestOfLine(ts, mnemonic, N, token, args)
          = RestOfLine(ts, mnemonic, N + 1, token + r.length, args \o r.values)
    <3>1. AtItem(ts, mnemonic, N, token, args)
      BY <1>1, <1>4, <1>5 DEF AtItem
    <3>2. OnlyOfUse(ts, mnemonic, N, token, r)
      BY <1>3, <1>7, <2>1 DEF OnlyOfUse
    <3>3. GoesOnWith(ts, mnemonic, N, token, args, r)
      BY <3>1, <3>2, RestStep
    <3>. QED  BY <3>3 DEF GoesOnWith
  <2>3. token' = token + r.length /\ args' = args \o r.values /\ calls' = Tail(calls) /\ ir' = ir
        /\ mnemonic' = mnemonic /\ tokens' = tokens
    BY <2>1 DEF Return
  <2>4. r.length \in Nat
    <3>1. Reads(ts, token, r)
      BY <1>2, <1>5, ReadingsType
    <3>. QED  BY <3>1 DEF Reads
  <2>5. NextItem' = N + 1
    <3>1. NextItem' = Len(h) + 3 - Len(calls')
      BY <2>3 DEF NextItem, h
    <3>2. Len(calls') = Len(calls) - 1
      BY <1>1, <1>3, <2>3
    <3>. QED  BY <1>1, <3>1, <3>2
  <2>6. ToRead(ts)' = RestOfLine(ts, mnemonic, N + 1, token + r.length, args \o r.values)
    <3>1. calls' # << >> /\ calls' # << "NEWLINE" >>
      BY <1>1, <1>3, <2>3, SMTT(30)
    <3>2. ToRead(ts)' = RestOfLine(ts, mnemonic', NextItem', token', args')
      BY <3>1 DEF ToRead
    <3>. QED  BY <2>3, <2>5, <3>2
  <2>7. AheadIs(ts)'
    BY <1>5, <2>3, <2>4 DEF AheadIs
  <2>. QED  BY <1>6, <1>9, <2>2, <2>3, <2>6, <2>7 DEF Kept
<1>. QED  BY <1>8, <1>9 DEF ReadsItem

(* The parser's elements are among those that may come of a source, and so  *)
(* is what is read after a line.                                            *)
LEMMA PartsFacts ==
  ASSUME CompilerInv, At("parse"), NEW ts, WellCut(ts)
  PROVE  ir \in Seq(Parts(ts)) /\ \A k \in 1 .. Len(ts) : AfterLine(ts, k) \subseteq Seq(Parts(ts))
<1>1. ir \in Seq(InstructionElements \cup LabelElements)
  BY DEF CompilerInv, ElementsInv, At
<1>2. InstructionElements \cup LabelElements \subseteq Parts(ts)
  BY DEF Parts
<1>3. ir \in Seq(Parts(ts))
  <2>. DEFINE A == InstructionElements \cup LabelElements
              B == Parts(ts)
  <2>1. ir \in Seq(A) /\ A \subseteq B
    BY <1>1, <1>2
  <2>. HIDE DEF A, B
  <2>2. ir \in Seq(B)
    BY <2>1
  <2>. QED  BY <2>2 DEF B
<1>4. ASSUME NEW k \in 1 .. Len(ts) PROVE AfterLine(ts, k) \subseteq Seq(Parts(ts))
  <2>1. ts[k].type = "NEWLINE" => k + 1 \in 1 .. Len(ts)
    BY WellCutFacts
  <2>2. ts[k].type = "NEWLINE" => ParsesFrom(ts)[k + 1] \subseteq Seq(Parts(ts))
    BY <2>1, ParsesFromType
  <2>. QED  BY <2>2 DEF AfterLine
<1>. QED  BY <1>3, <1>4

(* The call that appends an instruction's element.                          *)
LEMMA AppendKept ==
  ASSUME CompilerInv, NEW ts, WellCut(ts), AheadIs(ts), Parses(ts) = Led(ir, ToRead(ts)),
         AppendElement, UNCHANGED << tokens, mnemonic >>
  PROVE  Kept(ts)
<1>. DEFINE h == Handler(mnemonic)
            N == NextItem
            e == Element(mnemonic, args)
<1>1. Calling("append") /\ calls # << "NEWLINE" >> /\ calls # << >>
  BY DEF AppendElement, Calling
<1>2. /\ At("parse") /\ mnemonic \in AllMnemonics /\ Len(h) \in Nat /\ N \in 1 .. Len(h) + 1
      /\ args \in Seq(Args)
      /\ N <= Len(h) => "append" = h[N]
      /\ N = Len(h) + 1 => Tail(calls) = << "NEWLINE" >>
  BY <1>1, NextItemFacts
<1>3. N = Len(h) + 1 /\ N = Len(ItemsOf(mnemonic))
  <2>1. /\ Len(ItemsOf(mnemonic)) = Len(h) + 1
        /\ \A n \in 1 .. Len(h) : h[n] \in Values \cup Separators
    BY <1>2, ItemsAre
  <2>2. "append" \notin Values \cup Separators
    BY DEF Values, Separators
  <2>. QED  BY <1>2, <2>1, <2>2
<1>4. token \in 1 .. Len(ts) /\ Len(ts) \in Nat
  BY <1>2, AheadFacts, WellCutFacts
<1>5. ToRead(ts) = RestOfLine(ts, mnemonic, N, token, args)
  BY <1>1 DEF ToRead
<1>6. RestOfLine(ts, mnemonic, N, token, args) = Led(<< e >>, AfterLine(ts, token))
  BY <1>2, <1>3, <1>4, RestAtEnd
<1>7. calls' = << "NEWLINE" >> /\ token' = token /\ UNCHANGED status /\ ir' = Append(ir, e)
  BY <1>2, <1>3 DEF AppendElement
<1>8. ToRead(ts)' = AfterLine(ts, token)
  BY <1>7 DEF ToRead
<1>9. e \in Parts(ts)
  BY <1>2 DEF Parts
<1>10. ir \in Seq(Parts(ts)) /\ AfterLine(ts, token) \subseteq Seq(Parts(ts))
  BY <1>2, <1>4, PartsFacts
<1>11. Led(ir, Led(<< e >>, AfterLine(ts, token))) = Led(ir', AfterLine(ts, token))
  <2>. DEFINE X == Parts(ts)
              C == AfterLine(ts, token)
              x == << e >>
  <2>1. x \in Seq(X) /\ ir \in Seq(X) /\ C \subseteq Seq(X)
    BY <1>9, <1>10
  <2>2. ir' = JoinedBoth(ir, x)
    BY <1>7, <1>10 DEF JoinedBoth
  <2>. HIDE DEF X, C, x
  <2>3. Led(ir, Led(x, C)) = Led(JoinedBoth(ir, x), C)
    BY <2>1, LedTwice
  <2>. QED  BY <2>2, <2>3 DEF x, C
<1>12. AheadIs(ts)'
  BY <1>7 DEF AheadIs
<1>. QED  BY <1>5, <1>6, <1>7, <1>8, <1>11, <1>12 DEF Kept

(* Every call of a handler.                                                 *)
LEMMA CallKept ==
  ASSUME CompilerInv, NEW ts, WellCut(ts), AheadIs(ts), Parses(ts) = Led(ir, ToRead(ts)), Call
  PROVE  Kept(ts)
<1>1. UNCHANGED << tokens, mnemonic >>
  BY DEF Call
<1>2. CASE AppendElement
  BY <1>1, <1>2, AppendKept
<1>3. CASE ConsumeToken \/ Reg \/ Operand \/ Offset \/ JumpTarget
  <2>1. PICK call : ReadsItem(ts, call)
    BY <1>3, CallReads
  <2>. QED  BY <1>1, <2>1, LastCallKept, ItemCallKept
<1>. QED  BY <1>2, <1>3 DEF Call

(* What is read from an empty line on.                                      *)
LEMMA NewlineReads ==
  ASSUME NEW ts, WellCut(ts), NEW k \in 1 .. Len(ts), ts[k].type = "NEWLINE"
  PROVE  ParsesFrom(ts)[k] = ParsesFrom(ts)[k + 1]
BY ParsesAt

(* An empty line.                                                           *)
LEMMA NewlineKept ==
  ASSUME CompilerInv, NEW ts, WellCut(ts), AheadIs(ts), Parses(ts) = Led(ir, ToRead(ts)),
         ParseNewline
  PROVE  Kept(ts)
<1>1. At("parse") /\ calls = << >> /\ Type = "NEWLINE" /\ token' = token + 1
      /\ UNCHANGED << tokens, status, calls, ir >>
  BY DEF ParseNewline, AtStatement, AfterNewline, instructionVars
<1>2. token \in 1 .. Len(ts) /\ Len(ts) \in Nat /\ ts[token].type = "NEWLINE"
  BY <1>1, AheadFacts, WellCutFacts
<1>3. ParsesFrom(ts)[token] = ParsesFrom(ts)[token + 1]
  <2>1. PICK k : k = token
    OBVIOUS
  <2>2. k \in 1 .. Len(ts) /\ ts[k].type = "NEWLINE"
    BY <1>2, <2>1
  <2>3. ParsesFrom(ts)[k] = ParsesFrom(ts)[k + 1]
    BY <2>2, NewlineReads
  <2>. QED  BY <2>1, <2>3
<1>4. ToRead(ts) = ParsesFrom(ts)[token] /\ ToRead(ts)' = ParsesFrom(ts)[token + 1]
  BY <1>1 DEF ToRead
<1>5. AheadIs(ts)'
  BY <1>1, <1>2 DEF AheadIs
<1>. QED  BY <1>1, <1>3, <1>4, <1>5 DEF Kept

(* A label.                                                                 *)
LEMMA LabelKept ==
  ASSUME CompilerInv, NEW ts, WellCut(ts), AheadIs(ts), Parses(ts) = Led(ir, ToRead(ts)),
         ParseLabel
  PROVE  Kept(ts)
<1>1. At("parse") /\ calls = << >> /\ Type \notin {"NEWLINE", "EOF"}
      /\ tokens[token + 1].type = "COLON" /\ token' = token + 2 /\ ir' = Append(ir, Label(Lexeme))
      /\ UNCHANGED << tokens, status, calls >>
  BY DEF ParseLabel, AtStatement, IsLabelHere, instructionVars
<1>2. /\ token \in 1 .. Len(ts) /\ ts[token].type = Type /\ ts[token].lexeme = Lexeme
      /\ token + 1 \in 1 .. Len(ts) /\ tokens[token + 1] = ts[token + 1]
  BY <1>1, AheadFacts
<1>3. Len(ts) \in Nat /\ (token + 1) + 1 \in 1 .. Len(ts) /\ DOMAIN ts = 1 .. Len(ts)
  BY <1>1, <1>2, WellCutFacts
<1>4. token + 2 \in 1 .. Len(ts)
  BY <1>2, <1>3
<1>. DEFINE e == Label(Lexeme)
            x == << e >>
            C == ParsesFrom(ts)[token + 2]
<1>5. ParsesFrom(ts)[token] = Led(<< Label(ts[token].lexeme) >>, C)
  BY <1>1, <1>2, ParsesAt
<1>6. ToRead(ts) = Led(x, C)
  BY <1>1, <1>2, <1>5 DEF ToRead
<1>7. ToRead(ts)' = C
  BY <1>1 DEF ToRead
<1>8. e \in Parts(ts)
  BY <1>2, <1>3 DEF Parts
<1>9. C \subseteq Seq(Parts(ts)) /\ ir \in Seq(Parts(ts))
  BY <1>1, <1>4, ParsesFromType, PartsFacts
<1>10. Led(ir, Led(x, C)) = Led(ir', C)
  <2>. DEFINE X == Parts(ts)
  <2>1. x \in Seq(X) /\ ir \in Seq(X) /\ C \subseteq Seq(X)
    BY <1>8, <1>9
  <2>2. ir' = JoinedBoth(ir, x)
    BY <1>1, <1>9 DEF JoinedBoth
  <2>. HIDE DEF X, C, x
  <2>3. Led(ir, Led(x, C)) = Led(JoinedBoth(ir, x), C)
    BY <2>1, LedTwice
  <2>. QED  BY <2>2, <2>3
<1>11. AheadIs(ts)'
  BY <1>1, <1>2 DEF AheadIs
<1>. QED  BY <1>1, <1>6, <1>7, <1>10, <1>11 DEF Kept

(* A mnemonic, or what should be one.                                       *)
LEMMA InstructionKept ==
  ASSUME CompilerInv, NEW ts, WellCut(ts), AheadIs(ts), Parses(ts) = Led(ir, ToRead(ts)),
         BeginInstruction
  PROVE  Kept(ts)
<1>1. At("parse") /\ calls = << >> /\ Type \notin {"NEWLINE", "EOF"}
      /\ tokens[token + 1].type # "COLON"
      /\ tokens' = [tokens EXCEPT ![token].lexeme = LowerCase(@)] /\ ir' = ir
  BY DEF BeginInstruction, AtStatement, IsLabelHere
<1>2. /\ token \in 1 .. Len(ts) /\ ts[token].type = Type /\ ts[token].lexeme = Lexeme
      /\ token + 1 \in 1 .. Len(ts) /\ tokens[token + 1] = ts[token + 1]
  BY <1>1, AheadFacts
<1>3. Len(ts) \in Nat
  BY WellCutFacts
<1>4. PICK word, m : word = WordAt(ts, token) /\ m = MnemonicAt(ts, token)
  OBVIOUS
<1>5. /\ IsMnemonic(word) => m \in AllMnemonics /\ ParsesFrom(ts)[token] = LineOf(ts, token)
      /\ ~IsMnemonic(word) => ParsesFrom(ts)[token] = {}
  BY <1>1, <1>2, <1>4, ParsesAt
<1>6. ToRead(ts) = ParsesFrom(ts)[token]
  BY <1>1 DEF ToRead
<1>7. CASE IsMnemonic(word)
  <2>1. mnemonic' = m /\ calls' = Calls(mnemonic') /\ args' = << >> /\ token' = token + 1
        /\ UNCHANGED status
    BY <1>2, <1>4, <1>7 DEF BeginInstruction, WordAt, MnemonicAt
  <2>2. calls' = Handler(m) \o << "append", "NEWLINE" >>
    BY <2>1 DEF Calls
  <2>3. Len(calls') = Len(Handler(m)) + 2 /\ Len(Handler(m)) \in Nat
    <3>1. PICK h : h = Handler(m)
      OBVIOUS
    <3>2. h \in Seq(Values \cup Separators) /\ Len(h) \in Nat
      BY <1>5, <1>7, <3>1, HandlerTurns
    <3>. HIDE DEF Handler
    <3>. QED  BY <2>2, <3>1, <3>2
  <2>4. calls' # << >> /\ calls' # << "NEWLINE" >>
    BY <2>3
  <2>5. NextItem' = 1
    BY <2>1, <2>3 DEF NextItem
  <2>6. ToRead(ts)' = LineOf(ts, token)
    <3>1. ToRead(ts)' = RestOfLine(ts, mnemonic', NextItem', token', args')
      BY <2>4 DEF ToRead
    <3>. QED  BY <1>4, <2>1, <2>5, <3>1 DEF LineOf
  <2>7. AheadIs(ts)'
    <3>1. Len(tokens) = Len(ts) /\ \A n \in token .. Len(ts) : tokens[n] = ts[n]
      BY DEF AheadIs
    <3>2. tokens \in Seq(Tokens)
      BY DEF CompilerInv, TokensInv
    <3>3. Len(tokens') = Len(tokens) /\ \A n \in 1 .. Len(tokens) : n # token => tokens'[n] = tokens[n]
      BY <1>1, <3>2
    <3>. QED  BY <1>2, <1>3, <2>1, <3>1, <3>3 DEF AheadIs
  <2>. QED  BY <1>1, <1>5, <1>6, <1>7, <2>1, <2>6, <2>7 DEF Kept
<1>8. CASE ~IsMnemonic(word)
  <2>1. status' # "running"
    BY <1>2, <1>4, <1>8 DEF WordAt, BeginInstruction, FailOrCrash, Exit
  <2>2. Parses(ts) = {}
    BY <1>5, <1>6, <1>8 DEF Led
  <2>. QED  BY <2>1, <2>2 DEF Kept
<1>. QED  BY <1>7, <1>8

(* The end of the source.                                                   *)
LEMMA EndReads ==
  ASSUME CompilerInv, NEW ts, WellCut(ts), AheadIs(ts), Parses(ts) = Led(ir, ToRead(ts)),
         EndParse
  PROVE  Parses(ts) = {ir'}
<1>1. At("parse") /\ calls = << >> /\ Type = "EOF" /\ ir' = Append(ir, Eof)
  BY DEF EndParse, AtStatement
<1>2. token \in 1 .. Len(ts) /\ ts[token].type = "EOF"
  BY <1>1, AheadFacts
<1>3. ToRead(ts) = { << Eof >> }
  BY <1>1, <1>2, ParsesAt DEF ToRead
<1>4. ir \in Seq(Parts(ts)) /\ Eof \in Parts(ts)
  BY <1>1, PartsFacts DEF Parts
<1>5. Led(ir, { << Eof >> }) = { ir \o << Eof >> }
  BY DEF Led
<1>6. ir \o << Eof >> = Append(ir, Eof)
  <2>. DEFINE X == Parts(ts)
              e == Eof
  <2>1. ir \in Seq(X) /\ e \in X
    BY <1>4
  <2>. HIDE DEF X, e
  <2>2. ir \o << e >> = Append(ir, e)
    BY <2>1
  <2>. QED  BY <2>2 DEF e
<1>. QED  BY <1>1, <1>3, <1>5, <1>6

-----------------------------------------------------------------------------
(* The parser reads the source.                                             *)

(* No colon the lexer finds could be read as a register.                    *)
ColonsPlain(s) == \A n \in DOMAIN s : s[n].type = "COLON" => ~IsRegister(s[n].lexeme)

(* What the elements so far are of the source; those after the parser are   *)
(* the one way to read it.                                                  *)
Finishing == {"seman", "codegen", "fopen", "fwrite", "fclose"}
ReadingOf(ts) ==
  /\ pc = "parse" =>
       /\ WellCut(ts)
       /\ status = "running" => AheadIs(ts) /\ Parses(ts) = Led(ir, ToRead(ts))
       /\ status # "running" => Parses(ts) = {}
  /\ pc \in Finishing => Parses(ts) = {ir}

ReadingInv ==
  /\ pc \in Scanning \cup {"lexed"} => ColonsPlain(tokens) /\ ir = << >>
  /\ ReadingOf(SourceTokens)

(* A token that is no register when it is a colon.                          *)
LEMMA EmitPlain ==
  ASSUME CompilerInv, At("scan"), ColonsPlain(tokens), NEW type, NEW end, NEW its_line,
         Emit(type, end, its_line),
         type = "COLON" => ~IsRegister(Token(type, end, its_line).lexeme)
  PROVE  ColonsPlain(tokens')
<1>. DEFINE t == Token(type, end, its_line)
<1>1. tokens' = Append(tokens, t) /\ t.type = type
  BY DEF Emit, Token
<1>2. tokens \in Seq(Tokens)
  BY DEF CompilerInv, TokensInv
<1>3. t.type = "COLON" => ~IsRegister(t.lexeme)
  BY <1>1
<1>. HIDE DEF t
<1>4. /\ DOMAIN tokens' = 1 .. Len(tokens) + 1 /\ DOMAIN tokens = 1 .. Len(tokens) /\ Len(tokens) \in Nat
      /\ tokens'[Len(tokens) + 1] = t /\ \A n \in 1 .. Len(tokens) : tokens'[n] = tokens[n]
  BY <1>1, <1>2
<1>5. ASSUME NEW n \in DOMAIN tokens', tokens'[n].type = "COLON" PROVE ~IsRegister(tokens'[n].lexeme)
  <2>1. CASE n = Len(tokens) + 1
    BY <1>3, <1>4, <1>5, <2>1
  <2>2. CASE n \in 1 .. Len(tokens)
    BY <1>4, <1>5, <2>2 DEF ColonsPlain
  <2>. QED  BY <1>4, <2>1, <2>2
<1>. QED  BY <1>5 DEF ColonsPlain

(* What the scanner finds.                                                  *)
LEMMA ScanPlain ==
  ASSUME CompilerInv, ColonsPlain(tokens),
         ScanIdentifier \/ ScanNumber \/ ScanPunctuation \/ ScanNewline
  PROVE  ColonsPlain(tokens')
<1>1. At("scan")
  BY DEF ScanIdentifier, ScanNumber, ScanPunctuation, ScanNewline
<1>2. CASE ScanIdentifier
  BY <1>1, <1>2, EmitPlain DEF ScanIdentifier
<1>3. CASE ScanNumber
  BY <1>1, <1>3, EmitPlain DEF ScanNumber
<1>4. CASE ScanNewline
  BY <1>1, <1>4, EmitPlain DEF ScanNewline
<1>5. CASE ScanPunctuation
  <2>1. PICK mark \in Punctuation : source[Start] = mark[1] /\ Emit(mark[2], Start + 1, line)
    BY <1>5 DEF ScanPunctuation
  <2>2. mark[2] = "COLON" => mark[1] = ":"
    <3>1. CASE mark = << ",", "COMMA" >>
      BY <3>1
    <3>2. CASE mark = << "-", "MINUS" >>
      BY <3>2
    <3>3. CASE mark = << ":", "COLON" >>
      BY <3>3
    <3>4. CASE mark = << "(", "LPAREN" >>
      BY <3>4
    <3>5. CASE mark = << ")", "RPAREN" >>
      BY <3>5
    <3>. QED  BY <3>1, <3>2, <3>3, <3>4, <3>5 DEF Punctuation
  <2>3. Token(mark[2], Start + 1, line).lexeme = SubSeq(source, Start, (Start + 1) - 1)
    BY DEF Token
  <2>4. source \in Seq(Text) /\ Start \in 1 .. Len(source) /\ Len(source) \in Nat
    BY <1>1, ScanFacts
  <2>5. (Start + 1) - 1 = Start /\ SubSeq(source, Start, Start)[1] = source[Start]
    BY <2>4
  <2>6. mark[2] = "COLON" => ~IsRegister(Token(mark[2], Start + 1, line).lexeme)
    BY <2>1, <2>2, <2>3, <2>5 DEF IsRegister
  <2>. QED  BY <1>1, <2>1, <2>6, EmitPlain
<1>. QED  BY <1>2, <1>3, <1>4, <1>5

(* The end of a file is no colon.                                           *)
LEMMA EndFilePlain ==
  ASSUME CompilerInv, ColonsPlain(tokens), EndFile
  PROVE  ColonsPlain(tokens')
<1>. DEFINE t == Token("EOF", Start, line)
<1>1. tokens' = tokens \/ tokens' = Append(tokens, t)
  BY DEF EndFile
<1>2. tokens \in Seq(Tokens)
  BY DEF CompilerInv, TokensInv
<1>3. t.type = "EOF"
  BY DEF Token
<1>. HIDE DEF t
<1>4. CASE tokens' = Append(tokens, t)
  <2>1. /\ DOMAIN tokens' = 1 .. Len(tokens) + 1 /\ DOMAIN tokens = 1 .. Len(tokens) /\ Len(tokens) \in Nat
        /\ tokens'[Len(tokens) + 1] = t /\ \A n \in 1 .. Len(tokens) : tokens'[n] = tokens[n]
    BY <1>2, <1>4
  <2>. QED  BY <1>3, <2>1 DEF ColonsPlain
<1>. QED  BY <1>1, <1>4

(* The lexer's list is what the parser may count on.                        *)
LEMMA LexedIsWellCut ==
  ASSUME CompilerInv, SourceInv, ReadingInv, At("lexed")
  PROVE  SourceTokens = tokens /\ WellCut(tokens) /\ token = 1 /\ calls = << >> /\ ir = << >>
<1>1. tokens \in Seq(Tokens) /\ EofEnds(tokens) /\ token = 1 /\ calls = << >>
  BY DEF At, CompilerInv, TokensInv, ElementsInv, Scanning
<1>2. \A n \in DOMAIN tokens : Named(tokens[n])
  BY <1>1 DEF At, CompilerInv, TokensInv
<1>3. ColonsPlain(tokens) /\ ir = << >> /\ SourceTokens = tokens
  BY DEF At, ReadingInv, SourceInv, TokensMatchSource
<1>. QED  BY <1>1, <1>2, <1>3 DEF WellCut, ColonsPlain

(* The parser begins with all of it to be read.                             *)
LEMMA BeginParseReads ==
  ASSUME CompilerInv, SourceInv, ReadingInv, NEW ts, ts = SourceTokens, BeginParse
  PROVE  ReadingOf(ts)'
<1>1. At("lexed") /\ pc' = "parse" /\ UNCHANGED << status, tokens, token, calls, ir >>
  BY DEF BeginParse, parserVars, instructionVars
<1>2. ts = tokens /\ WellCut(ts) /\ token = 1 /\ calls = << >> /\ ir = << >>
  BY <1>1, LexedIsWellCut
<1>3. AheadIs(ts)'
  BY <1>1, <1>2 DEF AheadIs
<1>4. ToRead(ts)' = ParsesFrom(ts)[1]
  BY <1>1, <1>2 DEF ToRead
<1>5. Led(<< >>, ParsesFrom(ts)[1]) = ParsesFrom(ts)[1]
  <2>. DEFINE C == ParsesFrom(ts)[1]
              X == Parts(ts)
  <2>1. 1 \in 1 .. Len(ts)
    BY <1>2, WellCutFacts
  <2>2. C \subseteq Seq(X)
    BY <1>2, <2>1, ParsesFromType
  <2>. HIDE DEF C, X
  <2>3. << >> \in Seq(X)
    OBVIOUS
  <2>4. Led(<< >>, C) = C
    BY <2>2, <2>3, LedFacts
  <2>. QED  BY <2>4 DEF C
<1>6. Parses(ts) = ParsesFrom(ts)[1]
  BY DEF Parses
<1>. QED  BY <1>1, <1>2, <1>3, <1>4, <1>5, <1>6 DEF ReadingOf, At, Finishing

(* Every step of the parser after that.                                     *)
LEMMA ParseReads ==
  ASSUME CompilerInv, NEW ts, ReadingOf(ts),
         ParseNewline \/ ParseLabel \/ BeginInstruction \/ Call \/ EndParse
  PROVE  ReadingOf(ts)'
<1>1. At("parse")
  BY DEF ParseNewline, ParseLabel, BeginInstruction, EndParse, AtStatement, Call, ConsumeToken, Reg, Operand,
         Offset, JumpTarget, AppendElement, Calling
<1>2. WellCut(ts) /\ AheadIs(ts) /\ Parses(ts) = Led(ir, ToRead(ts))
  BY <1>1 DEF ReadingOf, At
<1>3. CASE EndParse
  <2>1. Parses(ts) = {ir'} /\ pc' = "seman"
    BY <1>2, <1>3, EndReads DEF EndParse
  <2>. QED  BY <2>1 DEF ReadingOf
<1>4. CASE ParseNewline \/ ParseLabel \/ BeginInstruction \/ Call
  <2>1. pc' = "parse"
    <3>1. CASE ParseNewline \/ ParseLabel \/ BeginInstruction
      BY <1>1, <3>1 DEF ParseNewline, ParseLabel, BeginInstruction, At, lexerVars, FailOrCrash, Exit
    <3>2. CASE Call
      BY <1>1, <3>2, CallStep DEF At
    <3>. QED  BY <1>4, <3>1, <3>2
  <2>2. Kept(ts)
    BY <1>2, <1>4, NewlineKept, LabelKept, InstructionKept, CallKept
  <2>3. status = "running"
    BY <1>1 DEF At
  <2>. QED  BY <1>2, <2>1, <2>2, <2>3 DEF Kept, ReadingOf, Finishing
<1>. QED  BY <1>3, <1>4

(* Every step.                                                              *)
LEMMA ReadingStep ==
  ASSUME CompilerInv, SourceInv, ReadingInv, [Next]_compilerVars
  PROVE  ReadingInv'
<1>. DEFINE Still == pc \in Scanning \cup {"lexed"} => ColonsPlain(tokens) /\ ir = << >>
<1>1. PICK ts : ts = SourceTokens
  OBVIOUS
<1>2. ReadingOf(ts) /\ Still
  BY <1>1 DEF ReadingInv
<1>3. files' = files => SourceTokens' = ts
  BY <1>1 DEF SourceTokens
<1>4. ASSUME files' = files, Still', ReadingOf(ts)' PROVE ReadingInv'
  BY <1>3, <1>4 DEF ReadingInv
<1>5. CASE UNCHANGED compilerVars
  <2>1. UNCHANGED << files, pc, status, tokens, token, mnemonic, calls, args, ir >>
    BY <1>5 DEF compilerVars, lexerVars, driverVars, parserVars, instructionVars
  <2>2. ToRead(ts)' = ToRead(ts) /\ AheadIs(ts)' = AheadIs(ts)
    BY <2>1 DEF ToRead, AheadIs, NextItem
  <2>3. ReadingOf(ts)' = ReadingOf(ts)
    BY <2>1, <2>2 DEF ReadingOf
  <2>4. Still'
    BY <1>2, <2>1
  <2>. QED  BY <1>2, <1>4, <2>1, <2>3, <2>4
<1>6. CASE Main \/ Lex
  <2>1. pc \in Scanning /\ files' = files /\ ir' = ir /\ pc' \in Scanning \cup {"lexed"}
    BY <1>6 DEF Main, Lex, ReadFile, ReadFails, ScanToken, ScanIdentifier, ScanNumber, ScanPunctuation,
         ScanNewline, UnexpectedCharacter, EndFile, Emit, Exit, FailOrCrash, At, Scanning, driverVars, parserVars
  <2>2. ColonsPlain(tokens) /\ ir = << >>
    BY <1>2, <2>1
  <2>3. ColonsPlain(tokens')
    <3>1. CASE Main \/ ReadFile \/ ReadFails \/ UnexpectedCharacter
      BY <2>2, <3>1 DEF Main, ReadFile, ReadFails, UnexpectedCharacter
    <3>2. CASE ScanIdentifier \/ ScanNumber \/ ScanPunctuation \/ ScanNewline
      BY <2>2, <3>2, ScanPlain
    <3>3. CASE EndFile
      BY <2>2, <3>3, EndFilePlain
    <3>. QED  BY <1>6, <3>1, <3>2, <3>3 DEF Lex, ScanToken
  <2>4. pc' # "parse" /\ pc' \notin Finishing
    BY <2>1 DEF Scanning, Finishing
  <2>5. ReadingOf(ts)'
    BY <2>4 DEF ReadingOf
  <2>. QED  BY <1>4, <2>1, <2>2, <2>3, <2>5
<1>7. CASE BeginParse
  <2>1. ReadingOf(ts)'
    BY <1>1, <1>7, BeginParseReads
  <2>2. files' = files /\ pc' = "parse"
    BY <1>7 DEF BeginParse, driverVars
  <2>. QED  BY <1>4, <2>1, <2>2 DEF Scanning
<1>8. CASE ParseNewline \/ ParseLabel \/ BeginInstruction \/ Call \/ EndParse
  <2>1. ReadingOf(ts)'
    BY <1>2, <1>8, ParseReads
  <2>2. files' = files
    BY <1>8 DEF ParseNewline, ParseLabel, BeginInstruction, Call, EndParse, lexerVars, driverVars
  <2>3. pc' \in {"parse", "seman"}
    <3>1. CASE ParseNewline \/ ParseLabel \/ BeginInstruction \/ EndParse
      BY <3>1 DEF ParseNewline, ParseLabel, BeginInstruction, EndParse, AtStatement, At, lexerVars, FailOrCrash, Exit
    <3>2. CASE Call
      <4>1. UNCHANGED pc
        BY <3>2, CallStep
      <4>2. pc = "parse"
        BY <3>2 DEF Call, ConsumeToken, Reg, Operand, Offset, JumpTarget, AppendElement, Calling, At
      <4>. QED  BY <4>1, <4>2
    <3>. QED  BY <1>8, <3>1, <3>2
  <2>. QED  BY <1>4, <2>1, <2>2, <2>3 DEF Scanning
<1>9. CASE Check \/ Generate \/ OpenClass \/ WriteClass \/ CloseClass \/ CloseFails
  <2>1. pc \in Finishing /\ pc' \in Finishing /\ files' = files /\ ir' = ir
    BY <1>9 DEF Check, Generate, OpenClass, WriteClass, WroteLess, CloseClass, CloseFails, At, Exit,
         FailOrCrash, Finishing, driverVars, parserVars
  <2>2. ReadingOf(ts)'
    BY <1>2, <2>1 DEF ReadingOf, Finishing
  <2>. QED  BY <1>4, <2>1, <2>2 DEF Scanning, Finishing
<1>. QED  BY <1>5, <1>6, <1>7, <1>8, <1>9 DEF Next, Parse

-----------------------------------------------------------------------------
(* The class of an earlier run.                                             *)

(* What is known of the files, and of the elements, by the time the class   *)
(* is opened.                                                               *)
AfterCheck == {"codegen", "fopen", "fwrite", "fclose"}
PlainUpto(n) == \A k \in 1 .. n : k <= Len(FileText) => IsCharacter(FileText[k])

FilesInv ==
  /\ pc # "main" => files # << >>
  /\ pc \in {"read", "scan"} => \A n \in 1 .. i - 1 : IsReadable(files[n])
  /\ pc = "scan" => PlainUpto(current - 1)
  /\ pc \notin Scanning => \A n \in DOMAIN files : IsReadable(files[n])
  /\ pc \in AfterCheck => SemanAccepts(ir)
  /\ class # "old" => pc \in {"fwrite", "fclose"}

(* What a loop of the scanner goes over is what a file may have.            *)
LEMMA ScansCharacters ==
  ASSUME CompilerInv, SourceInv,
         ScanIdentifier \/ ScanNumber \/ ScanPunctuation \/ ScanNewline
  PROVE  \A n \in current .. current' - 1 : n <= Len(FileText) => IsCharacter(FileText[n])
<1>. SUFFICES ASSUME NEW n \in current .. current' - 1, n <= Len(FileText)
              PROVE  IsCharacter(FileText[n])
  OBVIOUS
<1>. DEFINE k == Start
            text == FileText
            L == Len(FileText)
            c == current
<1>0. At("scan")
  BY DEF ScanIdentifier, ScanNumber, ScanPunctuation, ScanNewline
<1>1. /\ text \in Seq(Text) /\ L \in Nat
      /\ c \in 1 .. L + 1 /\ k \in c .. L + 1
      /\ \A m \in c .. k - 1 : text[m] \in Blanks
      /\ k <= L => k \in 1 .. L /\ source[k] = text[k]
      /\ k \in 1 .. Len(FileText) + 1
  BY <1>0, TextFacts, StartFacts
<1>2. NUL \notin Letters \cup Digits
  BY RunsAssumption
<1>. HIDE DEF k, text, c, L
<1>3. \A m \in c .. k - 1 : IsCharacter(text[m])
  BY <1>1 DEF IsCharacter
<1>4. CASE ScanIdentifier
  <2>. DEFINE e == EndOf(k, InIdentifier)
  <2>1. current' = e
    BY <1>4 DEF ScanIdentifier, Emit, k
  <2>2. e \in k .. L + 1 /\ \A m \in k .. e - 1 : text[m] \in InIdentifier
    BY <1>0, <1>1, <1>2, EndOfInText DEF InIdentifier, L, text
  <2>. HIDE DEF e
  <2>3. \A m \in k .. e - 1 : IsCharacter(text[m])
    BY <2>2 DEF IsCharacter, InIdentifier
  <2>4. n \in c .. e - 1
    BY <2>1 DEF c
  <2>. QED  BY <1>1, <1>3, <2>2, <2>3, <2>4 DEF text
<1>5. CASE ScanNumber
  <2>. DEFINE e == EndOf(k, Digits)
  <2>1. current' = e
    BY <1>5 DEF ScanNumber, Emit, k
  <2>2. e \in k .. L + 1 /\ \A m \in k .. e - 1 : text[m] \in Digits
    BY <1>0, <1>1, <1>2, EndOfInText DEF L, text
  <2>. HIDE DEF e
  <2>3. \A m \in k .. e - 1 : IsCharacter(text[m])
    BY <2>2 DEF IsCharacter
  <2>4. n \in c .. e - 1
    BY <2>1 DEF c
  <2>. QED  BY <1>1, <1>3, <2>2, <2>3, <2>4 DEF text
<1>6. CASE ScanPunctuation \/ ScanNewline
  <2>1. current' = k + 1 /\ IsCharacter(source[k])
    <3>1. CASE ScanNewline
      BY <3>1 DEF ScanNewline, Emit, IsCharacter, k
    <3>2. CASE ScanPunctuation
      <4>1. PICK mark \in Punctuation : source[Start] = mark[1] /\ Emit(mark[2], Start + 1, line)
        BY <3>2 DEF ScanPunctuation
      <4>2. mark[1] \in Marks
        BY DEF Marks
      <4>. QED  BY <4>1, <4>2 DEF Emit, IsCharacter, k
    <3>. QED  BY <1>6, <3>1, <3>2
  <2>2. n \in c .. k /\ n <= L
    BY <1>1, <2>1 DEF c, L
  <2>3. CASE n = k
    BY <1>1, <2>1, <2>2, <2>3 DEF text
  <2>4. CASE n \in c .. k - 1
    BY <1>3, <2>4 DEF text
  <2>. QED  BY <1>1, <2>2, <2>3, <2>4
<1>. QED  BY <1>4, <1>5, <1>6

(* A file that has come to its end is readable.                             *)
LEMMA EndFileReadable ==
  ASSUME CompilerInv, SourceInv, EndFile, PlainUpto(current - 1)
  PROVE  IsReadable(files[i])
<1>. DEFINE k == Start
            text == FileText
            L == Len(FileText)
            c == current
<1>0. At("scan") /\ source[k] = NUL
  BY DEF EndFile
<1>1. /\ text \in Seq(Text) /\ L \in Nat /\ DOMAIN text = 1 .. L
      /\ c \in 1 .. L + 1 /\ k \in c .. L + 1
      /\ \A m \in c .. k - 1 : text[m] \in Blanks
      /\ k <= L => source[k] # NUL
  BY <1>0, TextFacts, StartFacts
<1>2. \A m \in 1 .. c - 1 : m <= L => IsCharacter(text[m])
  BY DEF PlainUpto
<1>. HIDE DEF k, text, c, L
<1>3. k = L + 1
  BY <1>0, <1>1
<1>4. ASSUME NEW m \in 1 .. L PROVE IsCharacter(text[m])
  <2>1. CASE m \in 1 .. c - 1
    BY <1>2, <2>1
  <2>2. CASE m \in c .. k - 1
    BY <1>1, <2>2 DEF IsCharacter
  <2>. QED  BY <1>1, <1>3, <2>1, <2>2
<1>. QED  BY <1>1, <1>4 DEF IsReadable, text, FileText

(* The scanner's steps.                                                     *)
LEMMA LexFiles ==
  ASSUME CompilerInv, SourceInv, FilesInv, Lex
  PROVE  FilesInv'
<1>1. UNCHANGED << files, class >> /\ pc \in {"read", "scan"} /\ class = "old" /\ files # << >>
  BY DEF Lex, ReadFile, ReadFails, ScanToken, ScanIdentifier, ScanNumber, ScanPunctuation, ScanNewline,
         UnexpectedCharacter, EndFile, Emit, At, driverVars, FilesInv
<1>2. \A n \in 1 .. i - 1 : IsReadable(files[n])
  BY <1>1 DEF FilesInv
<1>3. \A n : IsReadable(files[n])' = IsReadable(files'[n])
  BY DEF IsReadable
<1>4. i \in 1 .. Len(files) /\ files \in CommandLines
  BY <1>1 DEF CompilerInv, ScannerInv, ProcessInv
<1>5. CASE ReadFile
  <2>1. pc' = "scan" /\ current' = 1 /\ i' = i
    BY <1>5 DEF ReadFile
  <2>2. PlainUpto(current - 1)'
    BY <2>1 DEF PlainUpto
  <2>. QED  BY <1>1, <1>2, <2>1, <2>2 DEF FilesInv, Scanning, AfterCheck
<1>6. CASE ReadFails
  <2>1. pc = "read" /\ UNCHANGED << pc, i >>
    BY <1>6 DEF ReadFails, Exit, At, scannerVars
  <2>. QED  BY <1>1, <1>2, <2>1 DEF FilesInv, Scanning, AfterCheck
<1>7. CASE ScanIdentifier \/ ScanNumber \/ ScanPunctuation \/ ScanNewline
  <2>1. pc = "scan" /\ UNCHANGED << pc, i >>
    BY <1>7 DEF ScanIdentifier, ScanNumber, ScanPunctuation, ScanNewline, Emit, At
  <2>2. FileText' = FileText
    BY <1>1, <2>1 DEF FileText
  <2>3. current \in Nat /\ current' \in Nat
    <3>1. current \in Nat
      BY <2>1 DEF CompilerInv, ScannerInv
    <3>. QED  BY <1>7, <3>1, ScanStep
  <2>4. PlainUpto(current - 1)
    BY <2>1 DEF FilesInv
  <2>5. \A n \in current .. current' - 1 : n <= Len(FileText) => IsCharacter(FileText[n])
    BY <1>7, ScansCharacters
  <2>6. ASSUME NEW n \in 1 .. current' - 1, n <= Len(FileText) PROVE IsCharacter(FileText[n])
    <3>1. CASE n \in 1 .. current - 1
      BY <2>4, <2>6, <3>1 DEF PlainUpto
    <3>2. CASE n \in current .. current' - 1
      BY <2>6, <2>5, <3>2
    <3>3. \A c, d, m \in Nat : m \in 1 .. d - 1 => m \in 1 .. c - 1 \/ m \in c .. d - 1
      OBVIOUS
    <3>4. n \in Nat
      BY <2>3
    <3>5. n \in 1 .. current - 1 \/ n \in current .. current' - 1
      BY <2>3, <3>3, <3>4
    <3>. QED  BY <3>1, <3>2, <3>5
  <2>7. PlainUpto(current - 1)'
    BY <2>2, <2>6 DEF PlainUpto
  <2>. QED  BY <1>1, <1>2, <2>1, <2>7 DEF FilesInv, Scanning, AfterCheck
<1>8. CASE UnexpectedCharacter
  <2>1. pc = "scan" /\ UNCHANGED << pc, i, current >>
    BY <1>8 DEF UnexpectedCharacter, FailOrCrash, Exit, At, scannerVars
  <2>2. FileText' = FileText
    BY <1>1, <2>1 DEF FileText
  <2>3. PlainUpto(current - 1)'
    BY <2>1, <2>2 DEF FilesInv, PlainUpto
  <2>. QED  BY <1>1, <1>2, <2>1, <2>3 DEF FilesInv, Scanning, AfterCheck
<1>9. CASE EndFile
  <2>1. pc = "scan" /\ i' = i + 1 /\ pc' = IF i = Len(files) THEN "lexed" ELSE "read"
    BY <1>9 DEF EndFile, At
  <2>2. IsReadable(files[i])
    BY <1>9, <2>1, EndFileReadable DEF FilesInv
  <2>3. Len(files) \in Nat /\ DOMAIN files = 1 .. Len(files)
    BY <1>4, FileTokensType
  <2>4. \A n \in 1 .. i : IsReadable(files[n])
    BY <1>2, <1>4, <2>2
  <2>5. CASE i = Len(files)
    BY <1>1, <2>1, <2>3, <2>4, <2>5 DEF FilesInv, Scanning, AfterCheck
  <2>6. CASE i # Len(files)
    <3>1. \A n \in 1 .. i' - 1 : IsReadable(files[n])
      BY <1>4, <2>1, <2>4
    <3>. QED  BY <1>1, <2>1, <2>6, <3>1 DEF FilesInv, Scanning, AfterCheck
  <2>. QED  BY <2>5, <2>6
<1>. QED  BY <1>5, <1>6, <1>7, <1>8, <1>9 DEF Lex, ScanToken

(* Every step.                                                              *)
LEMMA FilesStep ==
  ASSUME CompilerInv, SourceInv, FilesInv, [Next]_compilerVars
  PROVE  FilesInv'
<1>1. CASE UNCHANGED compilerVars
  <2>1. UNCHANGED << files, class, pc, i, current, ir >>
    BY <1>1 DEF compilerVars, lexerVars, driverVars, scannerVars, parserVars
  <2>2. PlainUpto(current - 1)' = PlainUpto(current - 1)
    BY <2>1 DEF PlainUpto, FileText
  <2>. QED  BY <2>1, <2>2 DEF FilesInv
<1>2. CASE Lex
  BY <1>2, LexFiles
<1>3. CASE Main
  <2>1. /\ pc = "main" /\ UNCHANGED << files, class, i >>
        /\ pc' = "main" \/ (files # << >> /\ pc' = "read")
    BY <1>3 DEF Main, At, Exit, driverVars, scannerVars
  <2>2. i = 1 /\ class = "old"
    BY <2>1 DEF CompilerInv, ScannerInv, FilesInv
  <2>3. \A n \in 1 .. i' - 1 : IsReadable(files'[n])
    BY <2>1, <2>2
  <2>. QED  BY <2>1, <2>2, <2>3 DEF FilesInv, Scanning, AfterCheck
<1>4. CASE BeginParse \/ ParseNewline \/ ParseLabel \/ BeginInstruction \/ Call \/ EndParse
  <2>1. /\ pc \in {"lexed", "parse"} /\ pc' \in {"parse", "seman"} /\ UNCHANGED << files, class >>
    <3>1. CASE BeginParse \/ ParseNewline \/ ParseLabel \/ BeginInstruction \/ EndParse
      BY <3>1 DEF BeginParse, ParseNewline, ParseLabel, BeginInstruction, EndParse, AtStatement, At,
                  lexerVars, driverVars, FailOrCrash, Exit
    <3>2. CASE Call
      <4>1. UNCHANGED << pc, files, class >>
        BY <3>2, CallStep DEF Call, driverVars
      <4>2. pc = "parse"
        BY <3>2 DEF Call, ConsumeToken, Reg, Operand, Offset, JumpTarget, AppendElement, Calling, At
      <4>. QED  BY <4>1, <4>2
    <3>. QED  BY <1>4, <3>1, <3>2
  <2>. QED  BY <2>1 DEF FilesInv, Scanning, AfterCheck
<1>5. CASE Check \/ Generate \/ OpenClass \/ WriteClass \/ CloseClass \/ CloseFails
  <2>1. /\ pc \in {"seman"} \cup AfterCheck /\ files' = files /\ ir' = ir
        /\ pc' \in {"seman"} \cup AfterCheck
        /\ pc' \in AfterCheck => pc \in AfterCheck \/ SemanAccepts(ir)
        /\ class' # "old" => class # "old" \/ pc' \in {"fwrite", "fclose"}
        /\ pc \in {"fwrite", "fclose"} => pc' \in {"fwrite", "fclose"}
    BY <1>5 DEF Check, Accepted, Generate, OpenClass, WriteClass, WroteLess, CloseClass, CloseFails, At, Exit,
         FailOrCrash, AfterCheck, driverVars, parserVars
  <2>2. SemanAccepts(ir)' = SemanAccepts(ir')
    OBVIOUS
  <2>. QED  BY <2>1, <2>2 DEF FilesInv, Scanning, AfterCheck
<1>. QED  BY <1>1, <1>2, <1>3, <1>4, <1>5 DEF Next, Parse

-----------------------------------------------------------------------------
(* What follows.                                                            *)

(* TypeOK: the scanner's place is in its buffer and the parser's token is   *)
(* one of the tokens, on every command line of any number of files.         *)
THEOREM TypeCorrect == Spec => []TypeOK
<1>1. CompilerInv => TypeOK
  <2>. SUFFICES ASSUME CompilerInv PROVE TypeOK
    OBVIOUS
  <2>1. class \in ClassContents /\ status \in Statuses
    BY DEF CompilerInv, ProcessInv
  <2>2. pc = "scan" => current \in DOMAIN source
    <3>. SUFFICES ASSUME pc = "scan" PROVE current \in DOMAIN source
      OBVIOUS
    <3>1. i \in 1 .. Len(files) /\ source = Append(files[i], NUL) /\ current \in 1 .. Len(source)
      BY DEF CompilerInv, ScannerInv
    <3>2. files[i] \in Seq(STRING)
      <4>. DEFINE C == Seq(STRING)
      <4>1. files \in Seq(C)
        BY CommandLinesAssumption DEF CompilerInv, ProcessInv
      <4>. HIDE DEF C
      <4>2. files[i] \in C
        BY <3>1, <4>1
      <4>. QED  BY <4>2 DEF C
    <3>3. files[i] \in Seq(Text) /\ NUL \in Text
      BY <3>2 DEF Text
    <3>4. source \in Seq(Text)
      BY <3>1, <3>3
    <3>. QED  BY <3>1, <3>4
  <2>3. pc = "parse" =>
          token \in DOMAIN tokens /\ \A n \in DOMAIN tokens : tokens[n].type = "EOF" <=> n = Len(tokens)
    BY DEF CompilerInv, ElementsInv, TokensInv, EofEnds, Scanning
  <2>. QED  BY <2>1, <2>2, <2>3 DEF TypeOK
<1>. QED  BY <1>1, CompilerInvariance, PTL

(* TokensMatchSource: the lexer's list has every token of every file, where *)
(* and in which line it is, however its characters are laid out, and it     *)
(* gives up only on a file that has what no token begins with.              *)
THEOREM TokensMatchSourceCorrect == Spec => []TokensMatchSource
<1>1. Init => SourceInv
  BY DEF Init, SourceInv, TokensMatchSource
<1>2. CompilerInv /\ SourceInv /\ [Next]_compilerVars => SourceInv'
  BY SourceStep
<1>3. SourceInv => TokensMatchSource
  BY DEF SourceInv
<1>. QED  BY <1>1, <1>2, <1>3, CompilerInvariance, PTL DEF Spec

(* ParsesExactly: for every source the parser's elements are the one way to *)
(* read it by the grammar, and the parser gives up only on one that cannot  *)
(* be read at all, whatever mnemonics, registers, names and numbers it has. *)
THEOREM ParsesExactlyCorrect == Spec => []ParsesExactly
<1>1. Init => ReadingInv
  BY DEF Init, ParserInit, ReadingInv, ReadingOf, ColonsPlain, Finishing
<1>2. Init => SourceInv
  BY DEF Init, SourceInv, TokensMatchSource
<1>3. CompilerInv /\ SourceInv /\ [Next]_compilerVars => SourceInv'
  BY SourceStep
<1>4. CompilerInv /\ SourceInv /\ ReadingInv /\ [Next]_compilerVars => ReadingInv'
  BY ReadingStep
<1>5. ReadingInv => ParsesExactly
  BY DEF ReadingInv, ReadingOf, Finishing, ParsesExactly
<1>. QED  BY <1>1, <1>2, <1>3, <1>4, <1>5, CompilerInvariance, PTL DEF Spec

(* IrIsProgram: what the parser returns, for every source, is an array the  *)
(* semantic check and the code generator are modelled with.                 *)
THEOREM IrIsProgramCorrect == Spec => []IrIsProgram
<1>1. CompilerInv => IrIsProgram
  BY DEF CompilerInv, ElementsInv, IrIsProgram
<1>. QED  BY <1>1, CompilerInvariance, PTL

(* ElementsMeanSource: whatever registers, labels and numbers are written,  *)
(* the element has the mnemonic, each register in its place, and the label  *)
(* or the number's low bits; made of a pseudo-instruction, it does what the *)
(* manual says, on registers of three bits.                                 *)
THEOREM ElementsMeanSourceCorrect == Spec => []ElementsMeanSource
<1>1. CompilerInv => ElementsMeanSource
  BY DEF CompilerInv, ElementsInv
<1>. QED  BY <1>1, CompilerInvariance, PTL

(* OldClassKept: on no command line, with no list of files of any length,   *)
(* is the class of an earlier run touched unless every file can be read and *)
(* lexed, together they parse, and the labels of that parse are in order.   *)
THEOREM OldClassKeptCorrect == Spec => []OldClassKept
<1>1. Init => FilesInv /\ ReadingInv /\ SourceInv
  BY DEF Init, ParserInit, FilesInv, PlainUpto, AfterCheck, Scanning, ReadingInv, ReadingOf, ColonsPlain,
         Finishing, SourceInv, TokensMatchSource
<1>2. CompilerInv /\ SourceInv /\ [Next]_compilerVars => SourceInv'
  BY SourceStep
<1>3. CompilerInv /\ SourceInv /\ ReadingInv /\ [Next]_compilerVars => ReadingInv'
  BY ReadingStep
<1>4. CompilerInv /\ SourceInv /\ FilesInv /\ [Next]_compilerVars => FilesInv'
  BY FilesStep
<1>5. ReadingInv /\ FilesInv => OldClassKept
  <2>. SUFFICES ASSUME ReadingInv, FilesInv, class # "old" PROVE IsSource
    BY DEF OldClassKept
  <2>1. pc \in {"fwrite", "fclose"}
    BY DEF FilesInv
  <2>2. files # << >> /\ (\A n \in DOMAIN files : IsReadable(files[n])) /\ SemanAccepts(ir)
    BY <2>1 DEF FilesInv, Scanning, AfterCheck
  <2>3. Parses(SourceTokens) = {ir}
    BY <2>1 DEF ReadingInv, ReadingOf, Finishing
  <2>. QED  BY <2>2, <2>3 DEF IsSource
<1>. QED  BY <1>1, <1>2, <1>3, <1>4, <1>5, CompilerInvariance, PTL DEF Spec

(* SuccessMeansWritten: the only way to EXIT_SUCCESS is through a class     *)
(* written whole, a failing fclose excepted.                                *)
THEOREM SuccessMeansWrittenCorrect == Spec => SuccessMeansWritten
<1>1. CompilerInv /\ [Next]_compilerVars
        => [status' = "EXIT_SUCCESS" /\ ~CloseFails => class' = "new"]_compilerVars
  <2>. SUFFICES ASSUME CompilerInv, Next, status' = "EXIT_SUCCESS", ~CloseFails PROVE class' = "new"
    BY DEF Next
  <2>1. status = "running" => (pc = "fclose" => class = "buffered")
    BY DEF CompilerInv, ProcessInv
  <2>2. CASE CloseClass
    BY <2>1, <2>2 DEF CloseClass, At
  <2>3. CASE ~CloseClass
    <3>1. status' # "EXIT_SUCCESS" \/ ~Next
      BY <2>3
       DEF Next, Main, Lex, ReadFile, ReadFails, ScanToken, ScanIdentifier, ScanNumber, ScanPunctuation,
         ScanNewline, UnexpectedCharacter, EndFile, Emit, Parse, BeginParse, ParseNewline, ParseLabel,
         BeginInstruction, EndParse, Call, ConsumeToken, Reg, Operand, Offset, JumpTarget, AppendElement,
         Consume, Number, Identifier, Return, Calling, AtStatement, Check, Generate, OpenClass, WriteClass,
         WroteLess, Exit, FailOrCrash, At
    <3>. QED  BY <3>1, SMTT(30)
  <2>. QED  BY <2>2, <2>3
<1>. QED  BY <1>1, CompilerInvariance, PTL DEF Spec, SuccessMeansWritten
=================================================================================
