--------------------------------- MODULE Lexer ---------------------------------
(***************************************************************************)
(* lexer.c and read_file of file.c: the files of the command line are read *)
(* one after the other, each is cut into tokens before the next is opened, *)
(* and the tokens of all of them become one list that ends with the        *)
(* TOKEN_EOF of the last.  One action is one call of scan_token.           *)
(*                                                                         *)
(* A file is a sequence of runs: letters that stand together are one       *)
(* element, so are digits, and any other character is an element of its    *)
(* own.  A lexeme is a part of that sequence.                              *)
(***************************************************************************)
EXTENDS Integers, SequencesExt

CONSTANTS
  CommandLines,  (* the lists of files considered, each by its contents   *)
  Letters,       (* the runs of letters and '_'                           *)
  Numerals       (* the runs of digits, each with the value strtol gives  *)

Digits == DOMAIN Numerals
Blanks == {" ", "\r", "\t"}
NUL == "NUL"

ASSUME CommandLinesAssumption == CommandLines \subseteq Seq(Seq(STRING))
ASSUME RunsAssumption ==
  /\ Numerals \in [Digits -> Nat]
  /\ Letters \cap Digits = {}
  /\ (Letters \cup Digits) \cap (Blanks \cup {NUL, "\n", ",", "-", ":", "(", ")"}) = {}

VARIABLES
  files,    (* argv, by contents                                            *)
  class,    (* what RvRuntime.class holds                                   *)
  pc,       (* the function being executed                                  *)
  status,   (* how the process ended, "running" before                      *)
  i,        (* the file being lexed                                         *)
  source,   (* the buffer it was read into                                  *)
  current,  (* the place in it                                              *)
  line,     (* the line of that place                                       *)
  tokens    (* the tokens so far                                            *)

driverVars == << files, class >>
scannerVars == << i, source, current, line >>

At(function) == pc = function /\ status = "running"

(* exit; and what becomes of a message that prints the file of a token,     *)
(* which nothing in src/ ever sets: a message and an exit all the same, or  *)
(* a wild read that kills the process.                                      *)
Exit(code) == status' = code /\ UNCHANGED pc
FailOrCrash == \E code \in {"EXIT_FAILURE", "SIGSEGV"} : Exit(code)

-----------------------------------------------------------------------------
(* read_file, init_lexer and the loop around them.                          *)
ReadFile ==
  /\ At("read")
  /\ source' = Append(files[i], NUL)
  /\ current' = 1
  /\ line' = 1
  /\ pc' = "scan"
  /\ UNCHANGED << driverVars, status, i, tokens >>

(* It cannot be opened, is not read whole, or there is no memory for it.    *)
ReadFails ==
  /\ At("read")
  /\ \E code \in {"EX_IOERR", "EXIT_FAILURE"} : Exit(code)
  /\ UNCHANGED << driverVars, scannerVars, tokens >>

(* The first place from k on where none of the set stands.                  *)
EndOf(k, set) ==
  CHOOSE m \in k .. Len(source) :
    source[m] \notin set /\ \A n \in k .. m - 1 : source[n] \in set

Punctuation == { << ",", "COMMA" >>, << "-", "MINUS" >>, << ":", "COLON" >>,
                 << "(", "LPAREN" >>, << ")", "RPAREN" >> }
Marks == {mark[1] : mark \in Punctuation}

(* skip_whitespace: where the next token starts.                            *)
Start == EndOf(current, Blanks)

Token(type, end, its_line) ==
  [type |-> type, lexeme |-> SubSeq(source, Start, end - 1), line |-> its_line]

Emit(type, end, its_line) ==
  /\ tokens' = Append(tokens, Token(type, end, its_line))
  /\ current' = end
  /\ line' = its_line
  /\ UNCHANGED << driverVars, pc, status, i, source >>

InIdentifier_mutant == Letters
InIdentifier == Letters \cup Digits

ScanIdentifier ==
  /\ At("scan")
  /\ source[Start] \in Letters
  /\ Emit("IDENTIFIER", EndOf(Start, InIdentifier), line)

ScanNumber ==
  /\ At("scan")
  /\ source[Start] \in Digits
  /\ Emit("DECIMAL", EndOf(Start, Digits), line)

ScanPunctuation ==
  /\ At("scan")
  /\ \E mark \in Punctuation :
       source[Start] = mark[1] /\ Emit(mark[2], Start + 1, line)

(* The token of a line's end already has the next line's number.            *)
ScanNewline ==
  /\ At("scan")
  /\ source[Start] = "\n"
  /\ Emit("NEWLINE", Start + 1, line + 1)

IsCharacter(run) ==
  run \in Letters \cup Digits \cup Blanks \cup {NUL, "\n"} \cup Marks

UnexpectedCharacter ==
  /\ At("scan")
  /\ ~IsCharacter(source[Start])
  /\ FailOrCrash
  /\ UNCHANGED << driverVars, scannerVars, tokens >>

(* The end of a file, or a NUL in it.  Only the last file's token is kept.  *)
KeepsEof_mutant == TRUE
KeepsEof == i = Len(files)

EndFile ==
  /\ At("scan")
  /\ source[Start] = NUL
  /\ tokens' = IF KeepsEof THEN Append(tokens, Token("EOF", Start, line)) ELSE tokens
  /\ current' = Start
  /\ i' = i + 1
  /\ pc' = IF i = Len(files) THEN "lexed" ELSE "read"
  /\ UNCHANGED << driverVars, status, source, line >>

ScanToken ==
  \/ ScanIdentifier \/ ScanNumber \/ ScanPunctuation \/ ScanNewline
  \/ UnexpectedCharacter \/ EndFile

-----------------------------------------------------------------------------
(* Properties.                                                              *)

(* What a file has up to the first NUL.                                     *)
Content(file) ==
  LET bytes == Append(file, NUL)
      end == CHOOSE k \in DOMAIN bytes :
               bytes[k] = NUL /\ \A n \in 1 .. k - 1 : bytes[n] # NUL
  IN  SubSeq(bytes, 1, end - 1)

(* A token starts wherever there is no blank, except inside a word; after   *)
(* digits that are not themselves inside one, a word may start.             *)
IsWord(text, k) == k \in DOMAIN text /\ text[k] \in Letters \cup Digits

StartsToken(text, k) ==
  /\ text[k] \notin Blanks
  /\ IsWord(text, k) /\ IsWord(text, k - 1) =>
       /\ text[k] \in Letters
       /\ \E m \in 1 .. k - 1 :
            ~IsWord(text, m - 1) /\ \A n \in m .. k - 1 : text[n] \in Digits

(* It goes on to the next blank or token.                                   *)
GoesOn(text, k) == k \in DOMAIN text /\ text[k] \notin Blanks /\ ~StartsToken(text, k)

LastOf(text, k) ==
  CHOOSE m \in k .. Len(text) :
    ~GoesOn(text, m + 1) /\ \A n \in k + 1 .. m : GoesOn(text, n)

TypeOf(run) ==
  CASE run \in Letters -> "IDENTIFIER"
    [] run \in Digits -> "DECIMAL"
    [] run = "\n" -> "NEWLINE"
    [] OTHER -> (CHOOSE mark \in Punctuation : mark[1] = run)[2]

LineAt(text, k) == 1 + Cardinality({n \in 1 .. k : text[n] = "\n"})

TokenAt(text, k) ==
  [type |-> TypeOf(text[k]),
   lexeme |-> SubSeq(text, k, LastOf(text, k)),
   line |-> LineAt(text, k)]

TokensOf(text) ==
  FlattenSeq([k \in DOMAIN text |->
                IF StartsToken(text, k) THEN << TokenAt(text, k) >> ELSE << >>])

IsReadable(file) == \A k \in DOMAIN Content(file) : IsCharacter(Content(file)[k])

(* The tokens of a whole command line.                                      *)
SourceTokens ==
  LET last == Content(files[Len(files)])
  IN  Append(FlattenSeq([n \in DOMAIN files |-> TokensOf(Content(files[n]))]),
             [type |-> "EOF", lexeme |-> << >>, line |-> LineAt(last, Len(last))])

(* When the lexer is done, its list has every token of every file, in the   *)
(* order of the command line, cut where they start and numbered by line,    *)
(* and one end of file; nothing of a file is kept for the next but its      *)
(* unfinished line.  It gives up only on a file it cannot read to its end.  *)
TokensMatchSource ==
  /\ pc = "lexed" => tokens = SourceTokens
  /\ pc = "scan" /\ status # "running" => ~IsReadable(files[i])
=============================================================================
