---------------------------------- MODULE Seman ---------------------------------
(***************************************************************************)
(* The semantic check of seman.c, one loop iteration per step: all labels  *)
(* are collected before any reference is looked up, so that a branch may   *)
(* go forward.  Either loop ends the program on the first error.           *)
(***************************************************************************)
EXTENDS Ir

CONSTANT Programs   (* the programs considered: what the parser returns      *)

ASSUME ProgramsAssumption == \A p \in Programs : IsProgram(p)

VARIABLES
  ir,               (* the program                                           *)
  loop,             (* the loop being executed, or how the check ended       *)
  it,               (* its index into ir                                     *)
  declared_labels   (* the keys of the table                                 *)

semanVars == << ir, loop, it, declared_labels >>

SemanInit ==
  /\ ir \in Programs
  /\ loop = "declarations"
  /\ it = 1
  /\ declared_labels = {}

NextIt_mutant == it
NextIt == it + 1

(* The first loop.                                                          *)
WithLabel_mutant(name) == {name}
WithLabel(name) == declared_labels \cup {name}

Declare ==
  /\ loop = "declarations"
  /\ IsLabel(ir[it])
  /\ ir[it].name \notin declared_labels
  /\ declared_labels' = WithLabel(ir[it].name)
  /\ it' = NextIt
  /\ UNCHANGED << ir, loop >>

DeclaredTwice ==
  /\ loop = "declarations"
  /\ IsLabel(ir[it])
  /\ ir[it].name \in declared_labels
  /\ loop' = "exit"
  /\ UNCHANGED << ir, it, declared_labels >>

SkipInstruction ==
  /\ loop = "declarations"
  /\ IsInstruction(ir[it])
  /\ it' = NextIt
  /\ UNCHANGED << ir, loop, declared_labels >>

FirstElement_mutant == 0
FirstElement == 1

EndDeclarations ==
  /\ loop = "declarations"
  /\ IsEof(ir[it])
  /\ loop' = "references"
  /\ it' = FirstElement
  /\ UNCHANGED << ir, declared_labels >>

(* The second loop: instructions whose operand is a label.                  *)
References_mutant(e) == HasLabel(e) /\ e.format = "R2_OP"
References(e) == HasLabel(e)

CheckReference ==
  /\ loop = "references"
  /\ ~IsEof(ir[it])
  /\ References(ir[it]) => ir[it].label \in declared_labels
  /\ it' = NextIt
  /\ UNCHANGED << ir, loop, declared_labels >>

ReferenceNotFound ==
  /\ loop = "references"
  /\ References(ir[it])
  /\ ir[it].label \notin declared_labels
  /\ loop' = "exit"
  /\ UNCHANGED << ir, it, declared_labels >>

EndReferences ==
  /\ loop = "references"
  /\ IsEof(ir[it])
  /\ loop' = "accepted"
  /\ UNCHANGED << ir, it, declared_labels >>

SemanNext ==
  \/ Declare \/ DeclaredTwice \/ SkipInstruction \/ EndDeclarations
  \/ CheckReference \/ ReferenceNotFound \/ EndReferences

SemanSpec == SemanInit /\ [][SemanNext]_semanVars

(* The check is one sequential process: while it can step, it does.         *)
SemanFairSpec == SemanSpec /\ WF_semanVars(SemanNext)

-----------------------------------------------------------------------------
(* Properties.                                                              *)
SemanTypeOK ==
  /\ IsProgram(ir)
  /\ loop \in {"declarations", "references", "accepted", "exit"}
  /\ it \in DOMAIN ir
  /\ declared_labels \subseteq Labels

(* What the check lets through is what the code generator relies on, and it *)
(* stops no program that has it.                                            *)
AcceptsOnlySound == loop = "accepted" => SemanAccepts(ir)
ExitsOnlyUnsound == loop = "exit" => ~SemanAccepts(ir)

(* Both loops end, whatever the program.                                    *)
CheckEnds == <>(loop \in {"accepted", "exit"})
=============================================================================
