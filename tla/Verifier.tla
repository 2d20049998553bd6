-------------------------------- MODULE Verifier -------------------------------
(***************************************************************************)
(* The JVM loads the class and verifies main before it runs: verification  *)
(* by type checking, JVM specification section 4.10.1, for the opcodes the *)
(* code generator uses.  The JVM is external to src/; it reads the Code    *)
(* attribute src/ wrote, one instruction per step, with the state types    *)
(* tell apart: the operand stack, whether local variable 1 holds the       *)
(* register array and 2 a long, and whether the instruction can be reached *)
(* from the one before it.                                                 *)
(***************************************************************************)
EXTENDS CodeAttribute

VARIABLES
  offset,      (* the offset of the instruction to check next              *)
  current,     (* the type state before it                                 *)
  frames_used, (* how many of the StackMapTable's frames are behind it     *)
  verdict      (* "none" until it is "accepted" or "rejected"              *)

verifierVars == << offset, current, frames_used, verdict >>
allVars == << vars, attributeVars, verifierVars >>

(* The code array, the frames and the limits, as the attribute has them.    *)
Method == SubSeq(res, 15, 14 + S4At(res, 10))
Frames == IF U2At(res, 16 + Len(Method)) = 0 THEN << >> ELSE Table!FrameOffsets
StackLimit == U2At(res, 6)

(* Every frame of the code generator says the same: both locals, no stack.  *)
FrameState == [reachable |-> TRUE, kinds |-> << >>, local_1 |-> TRUE, local_2 |-> TRUE]
Unreachable == [FrameState EXCEPT !.reachable = FALSE]

Assignable(state) == ~state.reachable \/ state = FrameState

VerifierInit ==
  /\ offset = 0
  /\ current = [FrameState EXCEPT !.local_1 = FALSE, !.local_2 = FALSE]
  /\ frames_used = 0
  /\ verdict = "none"

Opcode == At(Method, offset)

AtFrame == frames_used < Len(Frames) /\ Frames[frames_used + 1] = offset

(* No frame lies inside an instruction already checked.                     *)
FrameMissed == frames_used < Len(Frames) /\ Frames[frames_used + 1] < offset

(* The state an instruction is checked in.                                  *)
Incoming == IF AtFrame THEN FrameState ELSE current

IncomingFits ==
  /\ ~FrameMissed
  /\ IF AtFrame THEN Assignable(current) ELSE current.reachable

AfterOperands == [Incoming EXCEPT !.kinds = Below(@, Opcode)]

LocalsFit ==
  /\ Opcode = JVM_ALOAD_1 => Incoming.local_1
  /\ Opcode = JVM_LLOAD_2 => Incoming.local_2

BranchTarget ==
  offset + IF Opcode = JVM_GOTO_W THEN S4At(Method, offset + 1)
           ELSE S2At(Method, offset + 1)

BranchFits ==
  Opcode \in {JVM_IFEQ, JVM_IFGT, JVM_GOTO_W} =>
    /\ BranchTarget \in Range(Frames)
    /\ Assignable(AfterOperands)

Outgoing ==
  IF Opcode \in {JVM_GOTO_W, JVM_RETURN} THEN Unreachable
  ELSE [AfterOperands EXCEPT
          !.kinds = @ \o Results(Opcode),
          !.local_1 = @ \/ Opcode = JVM_ASTORE_1,
          !.local_2 = @ \/ Opcode = JVM_LSTORE_2]

InstructionFits ==
  /\ Opcode \in Opcodes
  /\ IncomingFits
  /\ OperandsOnTop(Incoming.kinds, Opcode)
  /\ LocalsFit
  /\ BranchFits
  /\ Slots(Outgoing.kinds) <= StackLimit

Verifying == step = "complete" /\ verdict = "none"

CheckInstruction ==
  /\ Verifying
  /\ offset < Len(Method)
  /\ InstructionFits
  /\ offset' = offset + Width(Opcode)
  /\ current' = Outgoing
  /\ frames_used' = IF AtFrame THEN frames_used + 1 ELSE frames_used
  /\ UNCHANGED << vars, attributeVars, verdict >>

(* The end of the code must not be reachable, and no frame may be left.     *)
MethodFits == ~current.reachable /\ frames_used = Len(Frames)

Conclude ==
  /\ Verifying
  /\ offset < Len(Method) => ~InstructionFits
  /\ verdict' = IF offset = Len(Method) /\ MethodFits THEN "accepted" ELSE "rejected"
  /\ UNCHANGED << vars, attributeVars, offset, current, frames_used >>

VerifierAllInit == Init /\ AttributeInit /\ VerifierInit

VerifierNext ==
  \/ AttributeNext /\ UNCHANGED verifierVars
  \/ CheckInstruction
  \/ Conclude

VerifierSpec == VerifierAllInit /\ [][VerifierNext]_allVars

(* The compiler and then the JVM run to their ends.                         *)
VerifierFairSpec == VerifierSpec /\ WF_allVars(VerifierNext)

-----------------------------------------------------------------------------
(* Which programs come out as a method the JVM accepts, in terms of the     *)
(* program and where its code went.                                         *)

StoresLong(e) == (IsR3(e) \/ IsAddi(e)) /\ e.rd # X0

(* An R3 instruction that is not supported leaves a long on the stack.      *)
LeavesLong(e) == IsR3(e) /\ e.mnemonic # "ADD"

LoadableAround(n) ==
  LeavesLong(ir[n]) =>
    /\ ir[n].rd = X0
    /\ \A m \in n + 1 .. Len(ir) : ~WritesCode(ir[m])
    /\ \A target \in BranchTargets : target <= starts[n]

(* One frame for each place branches go to.                                 *)
TargetsDistinct ==
  /\ \A n, m \in DOMAIN ir :
       n # m /\ IsJump(ir[n]) /\ IsJump(ir[m]) =>
         LabelStart(ir[n].label) # LabelStart(ir[m].label)
  /\ \A n, m \in DOMAIN ir :
       IsConditional(ir[n]) /\ IsJump(ir[m]) =>
         starts[n + 1] # LabelStart(ir[m].label)

(* The spare long is assigned before the first frame says it is.            *)
LongAssignedFirst ==
  \A target \in BranchTargets :
    \E n \in DOMAIN ir : StoresLong(ir[n]) /\ starts[n + 1] <= target

Loadable ==
  /\ TargetsDistinct
  /\ LongAssignedFirst
  /\ \A n \in DOMAIN ir : LoadableAround(n)

(* The JVM accepts exactly the loadable programs: code, branch offsets,     *)
(* stack depth, frame offsets and the types in the frames, each written by  *)
(* another part of the code generator, fit together.                        *)
AcceptedIffLoadable ==
  verdict # "none" /\ AttributeFits => (verdict = "accepted" <=> Loadable)

(* The loops of the code generator come to an end, the second pass too,     *)
(* which does not move on while references to a label are left; and every   *)
(* method that comes out is brought to a verdict.                           *)
VerdictReached == <>(verdict # "none" \/ pc \in {"exit", "undefined"})

(* What README.md claims, that programs become JVM bytecode: whatever comes *)
(* out of the code generator, a JVM of the version the class names accepts. *)
NeverRejected == verdict # "rejected"
=============================================================================
