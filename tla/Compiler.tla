-------------------------------- MODULE Compiler -------------------------------
(***************************************************************************)
(* The process: main and compile_files of main.c, compile of compiler.c,   *)
(* write_file of file.c, around the lexer and the parser.  The semantic    *)
(* check is one step (module Seman has its loops), and the code generator  *)
(* is one that may also fail (module MainMethod says when).                *)
(***************************************************************************)
EXTENDS Parser

compilerVars == << lexerVars, status, tokens, parserVars >>

(* Of RvRuntime.class: there from before; cut to nothing; a beginning of    *)
(* the new one; the same, the rest in the stream's buffer; all of it.       *)
ClassContents == {"old", "empty", "part", "buffered", "new"}

Init ==
  /\ files \in CommandLines
  /\ class = "old"
  /\ pc = "main"
  /\ status = "running"
  /\ i = 1
  /\ source = << >>
  /\ current = 1
  /\ line = 1
  /\ tokens = << >>
  /\ ParserInit

Main ==
  /\ At("main")
  /\ IF files = << >> THEN Exit("EX_USAGE") ELSE pc' = "read" /\ UNCHANGED status
  /\ UNCHANGED << driverVars, scannerVars, tokens, parserVars >>

Lex ==
  /\ ReadFile \/ ReadFails \/ ScanToken
  /\ UNCHANGED parserVars

Accepted_mutant == ReferencedLabelsExist(ir)
Accepted == SemanAccepts(ir)

Check ==
  /\ At("seman")
  /\ IF Accepted THEN pc' = "codegen" /\ UNCHANGED status
     ELSE Exit("EXIT_FAILURE")
  /\ UNCHANGED << driverVars, scannerVars, tokens, parserVars >>

Generate ==
  /\ At("codegen")
  /\ \/ pc' = "fopen" /\ UNCHANGED status
     \/ FailOrCrash
  /\ UNCHANGED << driverVars, scannerVars, tokens, parserVars >>

-----------------------------------------------------------------------------
(* write_file.                                                              *)
OpenClass ==
  /\ At("fopen")
  /\ \/ class' = "empty" /\ pc' = "fwrite" /\ UNCHANGED status
     \/ Exit("EX_IOERR") /\ UNCHANGED class
  /\ UNCHANGED << files, scannerVars, tokens, parserVars >>

WroteLess_mutant == class' = "part" /\ pc' = "fclose" /\ UNCHANGED status
WroteLess == class' = "part" /\ Exit("EX_IOERR")

WriteClass ==
  /\ At("fwrite")
  /\ \/ class' = "buffered" /\ pc' = "fclose" /\ UNCHANGED status
     \/ WroteLess
  /\ UNCHANGED << files, scannerVars, tokens, parserVars >>

(* fclose writes the buffer, or fails to, which nobody asks; main returns.  *)
CloseClass ==
  /\ At("fclose")
  /\ class' = IF class = "buffered" THEN "new" ELSE class
  /\ Exit("EXIT_SUCCESS")
  /\ UNCHANGED << files, scannerVars, tokens, parserVars >>

CloseFails ==
  /\ At("fclose")
  /\ class = "buffered"
  /\ class' = "part"
  /\ Exit("EXIT_SUCCESS")
  /\ UNCHANGED << files, scannerVars, tokens, parserVars >>

Next ==
  \/ Main \/ Lex \/ Parse \/ Check \/ Generate
  \/ OpenClass \/ WriteClass \/ CloseClass \/ CloseFails

Spec == Init /\ [][Next]_compilerVars

(* One sequential process, and calls into the system that return.           *)
FairSpec == Spec /\ WF_compilerVars(Next)

-----------------------------------------------------------------------------
(* Properties.                                                              *)

Statuses == {"running", "EXIT_SUCCESS", "EXIT_FAILURE", "EX_USAGE", "EX_IOERR", "SIGSEGV"}

(* The state of the process; the parser's current token is one of the       *)
(* tokens, and so is the one it looks ahead at unless it stands at the end. *)
TypeOK ==
  /\ class \in ClassContents
  /\ status \in Statuses
  /\ pc = "scan" => current \in DOMAIN source
  /\ pc = "parse" =>
       /\ token \in DOMAIN tokens
       /\ \A n \in DOMAIN tokens : tokens[n].type = "EOF" <=> n = Len(tokens)

(* The class of an earlier run is touched only for a source that is one: it *)
(* could be read, lexed and parsed whole, and its labels are in order.  No  *)
(* mistake in the last line of the last file costs what was there before.   *)
IsSource ==
  /\ files # << >>
  /\ \A n \in DOMAIN files : IsReadable(files[n])
  /\ \E p \in Parses(SourceTokens) : SemanAccepts(p)

OldClassKept == class # "old" => IsSource

(* A process that says it succeeded has written the class, all of it; but   *)
(* for one that failed in fclose.                                           *)
SuccessMeansWritten ==
  [][status' = "EXIT_SUCCESS" /\ ~CloseFails => class' = "new"]_compilerVars

(* Every command line comes to an end: each call of the scanner and of the  *)
(* parser moves on.                                                         *)
Ends == <>(status # "running")
=============================================================================
