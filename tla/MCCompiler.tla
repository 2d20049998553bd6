------------------------------- MODULE MCCompiler ------------------------------
(***************************************************************************)
(* Command lines of one and of two files, put together from lines that     *)
(* parse, that do not, and that do only with what another file begins.     *)
(***************************************************************************)
EXTENDS Compiler

MCRegisters == 0 .. 31
MCLetters ==
  {"add", "ADD", "addi", "beq", "ebreak", "foo", "J", "j", "jal", "jr", "lui", "mv", "nop", "not",
   "ret", "sb", "seqz", "snez", "x", "X", "Loop", "_"}
MCNumerals ==
  [run \in {"0", "5", "06", "31", "32", "100", "2047", "2048", "4097", "524288", "2147483647"} |->
     CASE run = "0" -> 0 [] run = "5" -> 5 [] run = "06" -> 6 [] run = "31" -> 31
       [] run = "32" -> 32 [] run = "100" -> 100 [] run = "2047" -> 2047 [] run = "2048" -> 2048
       [] run = "4097" -> 4097 [] run = "524288" -> 524288
       [] run = "2147483647" -> 2147483647]
MCLower ==
  [run \in {"ADD", "J", "X", "Loop"} |->
     CASE run = "ADD" -> "add" [] run = "J" -> "j" [] run = "X" -> "x" [] run = "Loop" -> "loop"]
MCLabels == Seq(MCLetters \cup DOMAIN MCNumerals \cup {",", "-", ":", "(", ")"}) \ {<< >>}

(* Operands, and lines with them.                                           *)
x0 == << "x", "0" >>
x5 == << "x", "5" >>
X06 == << "X", "06" >>
x32 == << "x", "32" >>
Then(a, b) == a \o << ",", " " >> \o b
Line(word, operands) == << word, " " >> \o operands \o << "\n" >>

GoodLines ==
  { Line("add", Then(x5, Then(X06, << "x" >>))), Line("ADD", Then(x5, Then(x5, x5))),
    Line("addi", Then(x5, Then(x0, << "2048" >>))),
    Line("addi", Then(x5, Then(x5, << "-", "2048" >>))),
    Line("addi", Then(x5, Then(x5, << "Loop" >>))),
    Line("beq", Then(x5, Then(x0, << "Loop" >>))),
    Line("beq", Then(x5, Then(x0, << "-", " ", "4097" >>))),
    Line("lui", Then(x5, << "524288" >>)), Line("lui", Then(x5, << "2147483647" >>)),
    Line("jal", Then(x0, << "_", "5" >>)),
    Line("sb", Then(x5, << "(", "X", "06", ")" >>)),
    Line("sb", Then(x5, << "-", "100", "(", "x", "5", ")" >>)),
    Line("sb", Then(x5, << "2147483647", "(", "x", "31", ")" >>)),
    Line("mv", Then(X06, x5)), Line("not", Then(x5, X06)), Line("seqz", Then(x5, x5)),
    Line("snez", Then(X06, x5)), Line("J", << "Loop" >>), Line("jr", x5),
    << "ret", "\r", "\n" >>, << "nop", "\n" >>, << "\t", "ebreak", "\n" >>,
    << "Loop", ":", "\n" >>, << "_", "5", " ", ":", " ", "nop", "\n" >>,
    << "5", ":" >>, << "add", ":" >>, << ":", ":", "\n" >>, << " ", "\n" >> }

BadLines ==
  { Line("add", Then(x5, x5)), Line("add", Then(x5, Then(x32, x5))),
    Line("addi", Then(x5, Then(x5, << "-", "Loop" >>))),
    Line("addi", Then(x5, Then(x5, << "(" >>))),
    Line("sb", Then(x5, << "5", "x", "5" >>)), Line("sb", Then(x5, << "Loop" >>)),
    Line("sb", Then(x5, << "-", "(", "x", "5", ")" >>)),
    Line("mv", x5 \o x5), Line("lui", Then(x5, << ")" >>)), Line("J", << "5" >>),
    Line("foo", x5), Line("jr", << "_" >>), << "5", "foo", "\n" >>, << "nop", " ", "nop", "\n" >>,
    << "nop", "%", "\n" >>, << "Loop", ".", "_", ":", "\n" >> }

(* Parts of lines, which another may go on with, and a NUL.                 *)
Fragments ==
  { << "beq", " ", "x", "5" >>, << ",", "x", "0", ",", "Loop", "\n" >>, << "Loop" >>,
    << ":", "\n" >>, << "nop" >>, << "\n", "nop", "NUL", "%" >> }

(* The lines files of two lines and of more are made of.                    *)
Few == { Line("beq", Then(x5, Then(x0, << "Loop" >>))), << "Loop", ":", "\n" >>,
         << "nop", "\n" >>, Line("foo", x5) } \cup Fragments

FilesOver(lines, length) == {FlattenSeq(file) : file \in BoundedSeq(lines, length)}

CommandLinesOver(length, length1, length2) ==
  { << >> }
  \cup { << file >> : file \in FilesOver(GoodLines \cup BadLines \cup Fragments, length) }
  \cup { << file >> : file \in FilesOver(Few, length1 + 1) }
  \cup { << file1, file2 >> : file1 \in FilesOver(Few, length1), file2 \in FilesOver(Few, length2) }

MCCommandLines == CommandLinesOver(2, 2, 1)
=============================================================================
