------------------------ MODULE InterpreterProofs ------------------------
(* What the verifier and the instruction loop guarantee for every text      *)
(* section, of any length, and every jump budget.                           *)
EXTENDS Interpreter, TLAPS

(***************************************************************************)
(* Facts about one slot.                                                   *)
(***************************************************************************)

\* The verdict on a slot is one of the codes the verifier returns.
LEMMA CheckSlotCode ==
  ASSUME NEW p, NEW j
  PROVE  CheckSlot(p, j) \in PreflightCodes \cup {"OK"}
  BY DEF CheckSlot, PreflightCodes

\* A slot that passes is sound: the target that is checked is one less than
\* the slot the loop lands on.
LEMMA CheckedIsSound ==
  ASSUME NEW p, IsProgram(p), NEW j \in 0..(p.len - 1), CheckSlot(p, j) = "OK"
  PROVE  Sound(p, j)
<1>1. p.slot[j] \in Instr
  BY DEF IsProgram
<1>2. p.slot[j].regs
  BY <1>1 DEF CheckSlot, Instr
<1>3. p.slot[j].op \in {"JA", "JCC", "CALL"} => CheckTarget(p, j)
  BY <1>1, <1>2 DEF CheckSlot, BranchClass, Instr, Ops
<1>4. p.slot[j].op = "CALL" => p.slot[j].imm \in CallNumbers
  BY <1>1, <1>2, <1>3 DEF CheckSlot
<1>5. Target(p, j) \in Int
  BY <1>1 DEF Target, Instr
<1> QED
  BY <1>2, <1>3, <1>4, <1>5 DEF Sound, Destination, CheckTarget, IsProgram

\* The verifier looks at every instruction of a layout: the opcode-0 slot
\* behind an LDDW ends the run after one pair.
LEMMA LayoutLookedAt ==
  ASSUME NEW p, IsProgram(p), NEW S \in Layouts(p), NEW j \in S
  PROVE  ~Skipped(p, j)
<1>1. /\ p.len \in Nat /\ j \in 0..(p.len - 1)
      /\ IsLayout(p, S) /\ S \subseteq 0..(p.len - 1)
  BY DEF IsProgram, Layouts
<1> SUFFICES ASSUME NEW k \in 0..j, LddwRun(p, k, j), (j - k) % 2 = 1
             PROVE  FALSE
  BY DEF Skipped
<1>2. k < j /\ k \in 0..(p.len - 1)
  <2>1. k # j
    OBVIOUS
  <2> QED
    BY <1>1, <2>1
<1>3. p.slot[k].op = "LDDW" /\ Wide(p.slot[k])
  <2>1. k \in k..(j - 1)
    BY <1>1, <1>2
  <2> QED
    BY <2>1 DEF LddwRun, Wide
<1>4. k \in S
  <2> SUFFICES ASSUME k \notin S PROVE FALSE
    OBVIOUS
  <2>1. k - 1 \in S /\ Wide(p.slot[k - 1])
    BY <1>1, <1>2 DEF IsLayout
  <2>2. p.slot[(k - 1) + 1].op = "BAD" /\ (k - 1) + 1 = k
    BY <1>1, <1>2, <2>1 DEF IsLayout
  <2> QED
    BY <1>3, <2>2
<1>5. p.slot[k + 1].op = "BAD" /\ k + 1 < p.len
  BY <1>1, <1>3, <1>4 DEF IsLayout
<1>6. j = k + 1
  <2>1. k + 1 \notin k..(j - 1)
    BY <1>5 DEF LddwRun
  <2> QED
    BY <1>1, <1>2, <2>1
<1>7. j - 1 = k
  BY <1>2, <1>6
<1>8. j \notin S
  BY <1>1, <1>3, <1>4, <1>7 DEF IsLayout
<1> QED
  BY <1>8

(***************************************************************************)
(* Types.                                                                  *)
(***************************************************************************)

LEMMA TypeInit == Init => TypeOK
  BY ProgramsAssumption, ConfigsAssumption, LimitsAssumption
  DEF Init, TypeOK, IsProgram, Codes

\* The text section of an instance never changes.
LEMMA ProgStep == [Next]_vars => prog' = prog
  BY DEF Next, vars, RunVerified, RunBadLength, RunUnverified, Enter, Verify, VerifyNext,
         VerifyReject, VerifyNoReturn, VerifyAccept, Reject, Execute, Step, StepWide,
         JumpNotTaken, JumpTaken, JumpOutOfBranches, Fail, Return, Stray, Goto, Exit

\* The failures of an instruction are codes bpf_execute() documents.
LEMMA FailureCode == \A op \in DOMAIN Failure : Failure[op] \in Codes
  BY DEF Failure, Codes, PreflightCodes

LEMMA TypeStep == TypeOK /\ [Next]_vars => TypeOK'
<1> SUFFICES ASSUME TypeOK, [Next]_vars PROVE TypeOK'
  OBVIOUS
<1> USE LimitsAssumption
<1>1. /\ prog' = prog /\ IsProgram(prog)'
      /\ prog.len \in Nat /\ prog'.len = prog.len
  BY ProgStep DEF TypeOK, IsProgram
<1>2. CASE RunVerified \/ RunBadLength \/ RunUnverified
  <2>1. i' = 0 /\ pc' = 0 /\ flags' = flags /\ branches_remaining' = BranchesAllowed
    BY <1>2 DEF RunVerified, RunBadLength, RunUnverified, Enter
  <2>2. /\ status' \in {"idle", "verifying", "running"}
        /\ res' \in {res, "ILLEGAL_LEN"}
        /\ result' = "kept"
    BY <1>2 DEF RunVerified, RunBadLength, RunUnverified, Enter
  <2> QED
    BY <1>1, <2>1, <2>2 DEF TypeOK, Codes, PreflightCodes
<1>3. CASE VerifyNext
  BY <1>1, <1>3 DEF TypeOK, VerifyNext
<1>4. CASE VerifyReject
  BY <1>1, <1>4, CheckSlotCode DEF TypeOK, VerifyReject, Reject, Codes
<1>5. CASE VerifyNoReturn
  BY <1>1, <1>5 DEF TypeOK, VerifyNoReturn, Reject, Codes, PreflightCodes
<1>6. CASE VerifyAccept
  BY <1>1, <1>6 DEF TypeOK, VerifyAccept
<1>7. CASE Step \/ StepWide \/ JumpNotTaken
  <2>1. pc' \in {pc + 1, pc + 2} /\ branches_remaining' = branches_remaining
    BY <1>7 DEF Step, StepWide, JumpNotTaken, Goto
  <2>2. UNCHANGED <<flags, status, i, res, result>>
    BY <1>7 DEF Step, StepWide, JumpNotTaken, Goto
  <2> QED
    BY <1>1, <2>1, <2>2 DEF TypeOK
<1>8. CASE JumpTaken
  <2>1. prog.slot[pc] \in Instr
    BY <1>8 DEF JumpTaken, Fetch, InText, TypeOK, IsProgram
  <2>2. Target(prog, pc) \in Int
    BY <2>1 DEF Target, Instr, TypeOK
  <2> QED
    BY <1>1, <1>8, <2>2 DEF TypeOK, JumpTaken, BudgetLeft, Goto
<1>9. CASE JumpOutOfBranches
  BY <1>1, <1>9 DEF TypeOK, JumpOutOfBranches, Exit, Codes
<1>10. CASE Fail
  BY <1>1, <1>10, FailureCode DEF TypeOK, Fail, Exit, Fetch
<1>11. CASE Return
  BY <1>1, <1>11 DEF TypeOK, Return, Exit, Codes
<1>12. CASE Stray
  BY <1>1, <1>12 DEF TypeOK, Stray
<1>13. CASE UNCHANGED vars
  BY <1>13 DEF TypeOK, vars
<1> QED
  BY <1>2, <1>3, <1>4, <1>5, <1>6, <1>7, <1>8, <1>9, <1>10, <1>11, <1>12, <1>13
  DEF Next, Verify, Execute

\* Every reachable state is well typed: the verifier overshoots the text by at
\* most one slot, and the jump budget stays a 32-bit value.
THEOREM TypeCorrect == Spec => []TypeOK
  BY TypeInit, TypeStep, PTL DEF Spec

(***************************************************************************)
(* Nothing unsound is ever executed.                                       *)
(***************************************************************************)

LEMMA InitInv == Init => SafetyInv
<1> SUFFICES ASSUME Init PROVE SafetyInv
  OBVIOUS
<1>1. TypeOK
  BY TypeInit
<1>2. status = "idle" /\ "PREFLIGHT_DONE" \notin flags
  BY ConfigsAssumption DEF Init
<1> QED
  BY <1>1, <1>2 DEF Init, SafetyInv, Swept, NeverRunsUnsound, StartsAtZero, PcOnInstruction,
                    StrayOnlyAtEnd

\* A slot no LDDW precedes is looked at.
LEMMA FreshSlot ==
  ASSUME NEW p, NEW j \in Nat, j = 0 \/ p.slot[j - 1].op # "LDDW"
  PROVE  LookedAt(p, j)
<1>1. LddwRun(p, j, j)
  BY DEF LddwRun
<1>2. (j - j) % 2 = 0 /\ j \in 0..j
  OBVIOUS
<1> QED
  BY <1>1, <1>2 DEF LookedAt

\* One more LDDW makes the run before the next slot longer.
LEMMA RunGrows ==
  ASSUME NEW p, NEW j \in Nat, NEW k \in 0..j, LddwRun(p, k, j), p.slot[j].op = "LDDW"
  PROVE  k \in 0..(j + 1) /\ LddwRun(p, k, j + 1)
<1>1. \A l \in k..((j + 1) - 1) : l \in k..(j - 1) \/ l = j
  OBVIOUS
<1> QED
  BY <1>1 DEF LddwRun

\* An LDDW the verifier looks at pairs with the slot behind it; the one after
\* that is looked at again.
LEMMA PairSkipped ==
  ASSUME NEW p, NEW j \in Nat, LookedAt(p, j), p.slot[j].op = "LDDW"
  PROVE  Skipped(p, j + 1) /\ LookedAt(p, j + 2)
<1>1. PICK k \in 0..j : LddwRun(p, k, j) /\ (j - k) % 2 = 0
  BY DEF LookedAt
<1>2. k \in 0..(j + 1) /\ LddwRun(p, k, j + 1)
  BY <1>1, RunGrows
<1>3. ((j + 1) - k) % 2 = 1 /\ ((j + 2) - k) % 2 = 0
  BY <1>1
<1>4. Skipped(p, j + 1)
  BY <1>2, <1>3 DEF Skipped
<1>5. CASE p.slot[j + 1].op = "LDDW"
  <2>1. k \in 0..((j + 1) + 1) /\ LddwRun(p, k, (j + 1) + 1)
    BY <1>2, <1>5, RunGrows, j + 1 \in Nat
  <2>2. (j + 1) + 1 = j + 2
    OBVIOUS
  <2> QED
    BY <1>3, <1>4, <2>1, <2>2 DEF LookedAt
<1>6. CASE p.slot[j + 1].op # "LDDW"
  <2>1. j + 2 \in Nat /\ (j + 2) - 1 = j + 1
    OBVIOUS
  <2> QED
    BY <1>4, <1>6, <2>1, FreshSlot
<1> QED
  BY <1>5, <1>6

\* One accepted slot: what precedes i stays sound or skipped.
LEMMA SweepSlot ==
  ASSUME TypeOK, Swept, VerifyNext
  PROVE  SoundBelow(i') /\ (i' < prog.len => LookedAt(prog, i'))
<1>1. /\ IsProgram(prog) /\ prog.len \in Nat /\ i \in 0..(prog.len - 1) /\ i \in Nat
      /\ SoundBelow(i) /\ LookedAt(prog, i)
  BY DEF TypeOK, IsProgram, VerifyNext, Swept
<1>2. Sound(prog, i)
  BY <1>1, CheckedIsSound DEF VerifyNext
<1>3. CASE prog.slot[i].op = "LDDW"
  <2>1. i' = i + 2
    BY <1>3 DEF VerifyNext
  <2>2. Skipped(prog, i + 1) /\ LookedAt(prog, i + 2)
    BY <1>1, <1>3, PairSkipped
  <2>3. \A j \in 0..(prog.len - 1) : j < i + 2 => j < i \/ j = i \/ j = i + 1
    BY <1>1
  <2> QED
    BY <1>1, <1>2, <2>1, <2>2, <2>3 DEF SoundBelow
<1>4. CASE prog.slot[i].op # "LDDW"
  <2>1. i' = i + 1 /\ i + 1 \in Nat /\ (i + 1) - 1 = i
    BY <1>1, <1>4 DEF VerifyNext
  <2>2. LookedAt(prog, i + 1)
    BY <1>4, <2>1, FreshSlot
  <2>3. \A j \in 0..(prog.len - 1) : j < i + 1 => j < i \/ j = i
    BY <1>1
  <2> QED
    BY <1>1, <1>2, <2>1, <2>2, <2>3 DEF SoundBelow
<1> QED
  BY <1>3, <1>4

LEMMA SweptStep == TypeOK /\ Swept /\ [Next]_vars => Swept'
<1> SUFFICES ASSUME TypeOK, Swept, [Next]_vars
             PROVE  /\ status' = "verifying" =>
                         SoundBelow(i') /\ (i' < prog.len => LookedAt(prog, i'))
                    /\ status' = "running" \/ "PREFLIGHT_DONE" \in flags' =>
                         SoundBelow(prog.len)
  BY ProgStep DEF Swept, NeverRunsUnsound, SoundBelow
<1>1. prog.len \in Nat
  BY DEF TypeOK, IsProgram
<1>2. CASE RunVerified \/ RunBadLength
  BY <1>2 DEF RunVerified, RunBadLength, Enter, Swept, NeverRunsUnsound
<1>3. CASE RunUnverified
  <2>1. i' = 0 /\ flags' = flags /\ status' = "verifying"
    BY <1>3 DEF RunUnverified, Enter
  <2>2. LookedAt(prog, 0)
    BY FreshSlot
  <2>3. SoundBelow(0)
    BY <1>1 DEF SoundBelow
  <2> QED
    BY <2>1, <2>2, <2>3 DEF Swept, NeverRunsUnsound
<1>4. CASE VerifyNext
  <2>1. status' = "verifying" /\ flags' = flags
    BY <1>4 DEF VerifyNext
  <2> QED
    BY <1>4, <2>1, SweepSlot DEF Swept, NeverRunsUnsound
<1>5. CASE VerifyReject \/ VerifyNoReturn
  BY <1>5 DEF VerifyReject, VerifyNoReturn, Reject, Swept, NeverRunsUnsound
<1>6. CASE VerifyAccept
  <2>1. \A j \in 0..(prog.len - 1) : j < i
    BY <1>1, <1>6 DEF VerifyAccept, TypeOK
  <2>2. status = "verifying" /\ status' = "running"
    BY <1>6 DEF VerifyAccept
  <2> QED
    BY <2>1, <2>2 DEF Swept, SoundBelow
<1>7. CASE Execute
  <2>1. status = "running" /\ status' # "verifying" /\ flags' = flags
    BY <1>7 DEF Execute, Step, StepWide, JumpNotTaken, JumpTaken, JumpOutOfBranches, Fail,
                Return, Stray, Fetch, Goto, Exit
  <2> QED
    BY <2>1 DEF Swept, NeverRunsUnsound
<1>8. CASE UNCHANGED vars
  BY <1>8 DEF vars, Swept, NeverRunsUnsound
<1> QED
  BY <1>2, <1>3, <1>4, <1>5, <1>6, <1>7, <1>8 DEF Next, Verify

\* No call executes a text section with an unsound slot the verifier looks at,
\* not even a call that trusts the PREFLIGHT_DONE flag an earlier one left
\* behind: the unsound slots of any text that runs are second slots of an LDDW.
THEOREM SoundExecution == Spec => []NeverRunsUnsound
<1>1. Init => TypeOK /\ Swept
  BY InitInv DEF SafetyInv
<1>2. TypeOK /\ Swept /\ [Next]_vars => (TypeOK /\ Swept)'
  BY TypeStep, SweptStep
<1>3. TypeOK /\ Swept => NeverRunsUnsound
  BY DEF Swept
<1> QED
  BY <1>1, <1>2, <1>3, PTL DEF Spec

(***************************************************************************)
(* Where control goes.                                                     *)
(***************************************************************************)

LEMMA StartsAtZeroStep == StartsAtZero /\ [Next]_vars => StartsAtZero'
<1> SUFFICES ASSUME StartsAtZero, [Next]_vars PROVE StartsAtZero'
  OBVIOUS
<1>1. CASE RunVerified \/ RunBadLength \/ RunUnverified
  BY <1>1 DEF RunVerified, RunBadLength, RunUnverified, Enter, StartsAtZero
<1>2. CASE Verify
  BY <1>2 DEF Verify, VerifyNext, VerifyReject, VerifyNoReturn, VerifyAccept, Reject,
              StartsAtZero
<1>3. CASE Execute
  BY <1>3 DEF Execute, Step, StepWide, JumpNotTaken, JumpTaken, JumpOutOfBranches, Fail,
              Return, Stray, Fetch, Goto, Exit, StartsAtZero
<1>4. CASE UNCHANGED vars
  BY <1>4 DEF vars, StartsAtZero
<1> QED
  BY <1>1, <1>2, <1>3, <1>4 DEF Next

\* A call starts with the first slot, however it got past verification.
LEMMA EnterRunning ==
  ASSUME StartsAtZero, RunVerified \/ VerifyAccept
  PROVE  status' = "running" /\ pc' = 0
  BY DEF StartsAtZero, RunVerified, VerifyAccept, Enter

\* The steps after which a call is still running.
Advance == Step \/ StepWide \/ JumpNotTaken \/ JumpTaken

\* An instruction whose registers exist can be executed.
LEMMA SoundIsUsable ==
  ASSUME NEW p, NEW j, Sound(p, j)
  PROVE  Usable(p.slot[j])
  BY DEF Sound, Usable

\* Every step of the loop goes to a successor of the instruction.
LEMMA AdvanceToSuccessor ==
  ASSUME TypeOK, Advance
  PROVE  pc \in 0..(prog.len - 1) /\ pc' \in Successors(prog, pc)
<1>1. pc \in 0..(prog.len - 1)
  BY DEF Advance, Step, StepWide, JumpNotTaken, JumpTaken, Fetch, InText
<1>2. CASE Step
  BY <1>1, <1>2 DEF Step, Fetch, Goto, Successors, Wide
<1>3. CASE StepWide
  BY <1>1, <1>3 DEF StepWide, Fetch, Goto, Successors, Wide
<1>4. CASE JumpNotTaken
  BY <1>1, <1>4 DEF JumpNotTaken, Fetch, Goto, Successors
<1>5. CASE JumpTaken
  BY <1>1, <1>5 DEF JumpTaken, Fetch, Goto, Successors, Destination
<1> QED
  BY <1>1, <1>2, <1>3, <1>4, <1>5 DEF Advance

LEMMA ControlStep ==
  TypeOK /\ Swept /\ StartsAtZero /\ PcOnInstruction /\ [Next]_vars => PcOnInstruction'
<1> SUFFICES ASSUME TypeOK, Swept, StartsAtZero, PcOnInstruction, [Next]_vars,
                    NEW S \in Layouts(prog), IsClosed(prog, S)
             PROVE  (status' = "running" => pc' \in S) /\ status' # "undefined"
  BY ProgStep DEF PcOnInstruction
<1>1. 0 \in S /\ S \subseteq 0..(prog.len - 1) /\ prog.len \in Nat /\ IsProgram(prog)
  BY DEF IsClosed, Layouts, TypeOK, IsProgram
<1>2. /\ status = "running" => pc \in S /\ Sound(prog, pc)
      /\ status # "undefined"
  <2>1. (status = "running" => pc \in S) /\ status # "undefined"
    BY DEF PcOnInstruction
  <2>2. status = "running" => ~Skipped(prog, pc) /\ pc \in 0..(prog.len - 1)
    BY <1>1, <2>1, LayoutLookedAt
  <2> QED
    BY <1>1, <2>1, <2>2 DEF Swept, NeverRunsUnsound, SoundBelow
<1>3. CASE RunVerified \/ VerifyAccept
  BY <1>1, <1>3, EnterRunning
<1>4. CASE RunBadLength \/ RunUnverified \/ VerifyNext \/ VerifyReject \/ VerifyNoReturn
  BY <1>4 DEF RunBadLength, RunUnverified, Enter, VerifyNext, VerifyReject, VerifyNoReturn,
              Reject
<1>5. CASE Advance
  <2>1. status = "running" /\ status' = "running"
    BY <1>5 DEF Advance, Step, StepWide, JumpNotTaken, JumpTaken, Fetch, Goto
  <2> QED
    BY <1>2, <1>5, <2>1, AdvanceToSuccessor DEF IsClosed
<1>6. CASE JumpOutOfBranches \/ Fail \/ Return
  BY <1>6 DEF JumpOutOfBranches, Fail, Return, Exit
<1>7. CASE Stray
  BY <1>1, <1>2, <1>7, SoundIsUsable DEF Stray, InText
<1>8. CASE UNCHANGED vars
  BY <1>2, <1>8 DEF vars
<1> QED
  BY <1>3, <1>4, <1>5, <1>6, <1>7, <1>8 DEF Next, Verify, Execute, Advance

\* The instruction loop decodes only what the compiler laid out as an
\* instruction, and never leaves the text of a compiled program.
THEOREM ControlFlow == Spec => []PcOnInstruction
<1> DEFINE Inv == TypeOK /\ Swept /\ StartsAtZero /\ PcOnInstruction
<1>1. Init => Inv
  BY InitInv DEF SafetyInv
<1>2. Inv /\ [Next]_vars => Inv'
  BY TypeStep, SweptStep, StartsAtZeroStep, ControlStep
<1> QED
  BY <1>1, <1>2, PTL DEF Spec

\* In a text section without double-length instructions every slot is one.
LEMMA PlainLayout ==
  ASSUME NEW p, Plain(p), p.len \in Nat
  PROVE  0..(p.len - 1) \in Layouts(p)
  BY DEF Plain, Layouts, IsLayout

LEMMA StrayStep ==
  TypeOK /\ Swept /\ StartsAtZero /\ StrayOnlyAtEnd /\ [Next]_vars => StrayOnlyAtEnd'
<1> SUFFICES ASSUME TypeOK, Swept, StartsAtZero, StrayOnlyAtEnd, [Next]_vars, Plain(prog)
             PROVE  /\ status' = "running" => pc' \in 0..prog.len
                    /\ status' = "undefined" => pc' = prog.len
  BY ProgStep DEF StrayOnlyAtEnd
<1>1. prog.len \in Nat
  BY DEF TypeOK, IsProgram
<1>2. status = "running" => \A j \in 0..(prog.len - 1) : Sound(prog, j)
  <2>1. IsProgram(prog) /\ 0..(prog.len - 1) \in Layouts(prog)
    BY <1>1, PlainLayout DEF TypeOK
  <2>2. \A j \in 0..(prog.len - 1) : ~Skipped(prog, j)
    BY <2>1, LayoutLookedAt
  <2> QED
    BY <1>1, <2>2 DEF Swept, NeverRunsUnsound, SoundBelow
<1>3. /\ status = "running" => pc \in 0..prog.len
      /\ status = "undefined" => pc = prog.len
  BY DEF StrayOnlyAtEnd
<1>4. CASE RunVerified \/ VerifyAccept
  BY <1>1, <1>4, EnterRunning
<1>5. CASE RunBadLength \/ RunUnverified \/ VerifyNext \/ VerifyReject \/ VerifyNoReturn
  BY <1>5 DEF RunBadLength, RunUnverified, Enter, VerifyNext, VerifyReject, VerifyNoReturn,
              Reject
<1>6. CASE Advance
  <2>1. status = "running" /\ status' = "running"
    BY <1>6 DEF Advance, Step, StepWide, JumpNotTaken, JumpTaken, Fetch, Goto
  <2>2. pc \in 0..(prog.len - 1) /\ pc' \in Successors(prog, pc) /\ Sound(prog, pc)
    BY <1>2, <1>6, <2>1, AdvanceToSuccessor
  <2>3. ~Wide(prog.slot[pc])
    BY <2>2 DEF Plain
  <2>4. pc' = pc + 1 \/ pc' \in 1..prog.len
    BY <2>2, <2>3 DEF Successors, Sound
  <2> QED
    BY <1>1, <2>1, <2>2, <2>4
<1>7. CASE JumpOutOfBranches \/ Fail \/ Return
  BY <1>7 DEF JumpOutOfBranches, Fail, Return, Exit
<1>8. CASE Stray
  <2>1. status = "running" /\ status' = "undefined" /\ pc' = pc
    BY <1>8 DEF Stray
  <2>2. ~(pc \in 0..(prog.len - 1))
    BY <1>2, <1>8, <2>1, SoundIsUsable DEF Stray, InText
  <2> QED
    BY <1>1, <1>3, <2>1, <2>2
<1>9. CASE UNCHANGED vars
  BY <1>3, <1>9 DEF vars
<1> QED
  BY <1>4, <1>5, <1>6, <1>7, <1>8, <1>9 DEF Next, Verify, Execute, Advance

\* Whatever verified text does, it leaves its section only at the slot right
\* behind it, as long as it has no double-length instructions.
THEOREM StraysOnlyAtEnd == Spec => []StrayOnlyAtEnd
<1> DEFINE Inv == TypeOK /\ Swept /\ StartsAtZero /\ StrayOnlyAtEnd
<1>1. Init => Inv
  BY InitInv DEF SafetyInv
<1>2. Inv /\ [Next]_vars => Inv'
  BY TypeStep, SweptStep, StartsAtZeroStep, StrayStep
<1> QED
  BY <1>1, <1>2, PTL DEF Spec

(***************************************************************************)
(* Every call keeps the promise of Execution.                              *)
(***************************************************************************)

LEMMA Product == \A b, l \in Nat : b * l \in Nat
  OBVIOUS

LEMMA ProductLess == \A b \in Nat \ {0} : \A l \in Nat : (b - 1) * l = b * l - l
  OBVIOUS

\* What is left of the pass over the text a call is in.
Pass == IF InText(prog, pc) THEN prog.len - pc ELSE 0

\* What Fuel amounts to in each status.
FuelShape ==
  /\ branches_remaining * (prog.len + 1) \in Nat
  /\ Pass \in 0..prog.len
  /\ status = "idle" => Fuel = 0
  /\ status \in {"running", "undefined"} =>
       Fuel = branches_remaining * (prog.len + 1) + Pass
  /\ status = "verifying" =>
       Fuel = branches_remaining * (prog.len + 1) + Pass + (prog.len + 3 - i)

LEMMA FuelOf == TypeOK => FuelShape
<1> SUFFICES ASSUME TypeOK PROVE FuelShape
  OBVIOUS
<1>1. prog.len \in Nat /\ pc \in Int /\ i \in 0..(prog.len + 1) /\ branches_remaining \in Nat
  BY LimitsAssumption DEF TypeOK, IsProgram
<1>2. branches_remaining * (prog.len + 1) \in Nat
  BY <1>1, Product
<1>3. Pass \in 0..prog.len
  BY <1>1 DEF Pass, InText
<1> QED
  BY <1>1, <1>2, <1>3 DEF FuelShape, Fuel, Pass

LEMMA FuelOfNext == TypeOK' => FuelShape'
  BY FuelOf, PTL

LEMMA FuelNat == TypeOK => Fuel \in Nat
<1> SUFFICES ASSUME TypeOK PROVE Fuel \in Nat
  OBVIOUS
<1>1. prog.len \in Nat /\ i \in 0..(prog.len + 1)
  BY DEF TypeOK, IsProgram
<1> QED
  BY <1>1, FuelOf DEF TypeOK, FuelShape

\* A step of the loop uses fuel, unless it is a jump of an unbounded instance.
LEMMA AdvanceUsesFuel ==
  ASSUME TypeOK, TypeOK', Advance, "NO_RETURN" \notin flags
  PROVE  Fuel' < Fuel
<1> DEFINE L == prog.len + 1
<1>1. /\ prog.len \in Nat /\ pc \in 0..(prog.len - 1) /\ branches_remaining \in Nat
  BY AdvanceToSuccessor, LimitsAssumption DEF TypeOK, IsProgram
<1>2. prog' = prog /\ status = "running" /\ status' = "running"
  BY DEF Advance, Step, StepWide, JumpNotTaken, JumpTaken, Fetch, Goto
<1>3. Fuel = branches_remaining * L + Pass /\ Fuel' = branches_remaining' * L + Pass'
  BY <1>2, FuelOf, FuelOfNext DEF FuelShape
<1>4. /\ Pass = prog.len - pc
      /\ Pass' = IF pc' \in 0..(prog.len - 1) THEN prog.len - pc' ELSE 0
  BY <1>1, <1>2 DEF Pass, InText
<1>5. CASE Step \/ StepWide \/ JumpNotTaken
  <2>1. pc' \in {pc + 1, pc + 2} /\ branches_remaining' = branches_remaining
    BY <1>5 DEF Step, StepWide, JumpNotTaken, Goto
  <2>2. Pass' < Pass
    BY <1>1, <1>4, <2>1
  <2>3. branches_remaining * L \in Nat /\ Pass \in Nat /\ Pass' \in Nat
    BY <1>1, <1>4, <2>1, Product
  <2> QED
    BY <1>3, <2>1, <2>2, <2>3
<1>6. CASE JumpTaken
  <2>1. branches_remaining \in Nat \ {0} /\ branches_remaining' = branches_remaining - 1
    BY <1>1, <1>6 DEF JumpTaken, BudgetLeft
  <2>2. (branches_remaining - 1) * L = branches_remaining * L - L /\ branches_remaining * L \in Nat
    BY <1>1, <2>1, Product, ProductLess
  <2>3. pc' \in Int
    BY DEF TypeOK
  <2>4. Pass \in Nat /\ Pass' \in Nat /\ Pass > 0 /\ Pass' < L
    BY <1>1, <1>4, <2>3
  <2>5. Fuel' = (branches_remaining * L - L) + Pass'
    BY <1>3, <2>1, <2>2
  <2> QED
    BY <1>1, <1>3, <2>2, <2>4, <2>5
<1> QED
  BY <1>5, <1>6 DEF Advance

LEMMA FuelNatNext == TypeOK' => (Fuel \in Nat)'
  BY FuelNat, PTL

LEMMA VerifyUsesFuel ==
  ASSUME TypeOK, TypeOK', VerifyNext \/ VerifyAccept
  PROVE  Fuel' < Fuel
<1>1. prog.len \in Nat /\ i \in 0..(prog.len + 1)
  BY DEF TypeOK, IsProgram
<1>2. /\ prog' = prog /\ pc' = pc /\ branches_remaining' = branches_remaining
      /\ status = "verifying"
      /\ Pass' = Pass
  BY DEF VerifyNext, VerifyAccept, Pass
<1>3. /\ branches_remaining * (prog.len + 1) \in Nat /\ Pass \in Nat
      /\ Fuel = branches_remaining * (prog.len + 1) + Pass + (prog.len + 3 - i)
  BY <1>1, <1>2, FuelOf DEF FuelShape
<1>4. CASE VerifyNext
  <2>1. i' \in {i + 1, i + 2} /\ status' = "verifying"
    BY <1>2, <1>4 DEF VerifyNext
  <2>2. Fuel' = branches_remaining * (prog.len + 1) + Pass + (prog.len + 3 - i')
    BY <1>2, <2>1, FuelOfNext DEF FuelShape
  <2> QED
    BY <1>1, <1>3, <2>1, <2>2
<1>5. CASE VerifyAccept
  <2>1. Fuel' = branches_remaining * (prog.len + 1) + Pass
    BY <1>2, <1>5, FuelOfNext DEF FuelShape, VerifyAccept
  <2> QED
    BY <1>1, <1>3, <2>1
<1> QED
  BY <1>4, <1>5

LEMMA RefinementInit == Init => E!Init
  BY ConfigsAssumption DEF Init, E!Init, Fuel

LEMMA RefinementStep == TypeOK /\ TypeOK' /\ [Next]_vars => [E!Next]_E!execVars
<1> SUFFICES ASSUME TypeOK, TypeOK', [Next]_vars
             PROVE  [E!Next]_E!execVars
  OBVIOUS
<1> USE DEF E!Next, E!execVars
<1>1. /\ Fuel \in Nat /\ Fuel' \in Nat
      /\ status = "idle" => Fuel = 0
      /\ status' = "idle" => Fuel' = 0
  BY FuelNat, FuelNatNext DEF Fuel
<1>2. CASE RunVerified \/ RunUnverified
  <2>1. /\ status = "idle" /\ result' = "kept" /\ flags' = flags
        /\ status' = IF "PREFLIGHT_DONE" \in flags THEN "running" ELSE "verifying"
    BY <1>2 DEF RunVerified, RunUnverified, Enter
  <2> QED
    BY <1>1, <2>1 DEF E!Call
<1>3. CASE RunBadLength
  <2>1. /\ status = "idle" /\ status' = "idle" /\ result' = "kept" /\ flags' = flags
        /\ "PREFLIGHT_DONE" \notin flags
    BY <1>3 DEF RunBadLength, Enter
  <2> QED
    BY <1>1, <2>1 DEF E!Refuse
<1>4. CASE VerifyNext
  <2>1. status = "verifying" /\ status' = "verifying" /\ result' = result /\ flags' = flags
    BY <1>4 DEF VerifyNext
  <2> QED
    BY <1>1, <1>4, <2>1, VerifyUsesFuel DEF E!Work, E!UsesWork
<1>5. CASE VerifyAccept
  <2>1. /\ status = "verifying" /\ status' = "running" /\ result' = result
        /\ ("NO_RETURN" \in flags') = ("NO_RETURN" \in flags)
        /\ "PREFLIGHT_DONE" \in flags'
    BY <1>5 DEF VerifyAccept
  <2> QED
    BY <1>1, <1>5, <2>1, VerifyUsesFuel DEF E!Accept, E!UsesWork
<1>6. CASE VerifyReject \/ VerifyNoReturn
  <2>1. status = "verifying" /\ status' = "idle" /\ result' = result /\ flags' = flags
    BY <1>6 DEF VerifyReject, VerifyNoReturn, Reject
  <2> QED
    BY <1>1, <2>1 DEF E!Reject
<1>7. CASE Advance
  <2>1. status = "running" /\ status' = "running" /\ result' = result /\ flags' = flags
    BY <1>7 DEF Advance, Step, StepWide, JumpNotTaken, JumpTaken, Fetch, Goto
  <2> QED
    BY <1>1, <1>7, <2>1, AdvanceUsesFuel DEF E!Work, E!UsesWork
<1>8. CASE JumpOutOfBranches \/ Fail \/ Return
  <2>1. status = "running" /\ status' = "idle" /\ result' = "stored" /\ flags' = flags
    BY <1>8 DEF JumpOutOfBranches, Fail, Return, Fetch, Exit
  <2> QED
    BY <1>1, <2>1 DEF E!Finish
<1>9. CASE Stray
  <2>1. /\ status = "running" /\ status' = "undefined"
        /\ UNCHANGED <<prog, flags, i, pc, branches_remaining, result>>
    BY <1>9 DEF Stray
  <2>2. Fuel' = Fuel
    BY <2>1 DEF Fuel, InText
  <2> QED
    BY <2>1, <2>2
<1>10. CASE UNCHANGED vars
  BY <1>10 DEF vars, Fuel, InText
<1> QED
  BY <1>2, <1>3, <1>4, <1>5, <1>6, <1>7, <1>8, <1>9, <1>10
     DEF Next, Verify, Execute, Advance

\* bpf_run() implements Execution for every text section and every budget: a
\* rejected call stores no result, an executed one does, and a call on a
\* bounded instance works off a finite amount of work.
THEOREM KeepsPromiseAlways == Spec => KeepsPromise
<1>1. Spec => []TypeOK
  BY TypeCorrect
<1> QED
  BY <1>1, RefinementInit, RefinementStep, PTL DEF Spec, KeepsPromise, E!Spec

(***************************************************************************)
(* A text section that was rejected is never executed: which sections are  *)
(* accepted depends on the text and the configuration alone.               *)
(***************************************************************************)

RejectCodes == PreflightCodes \ {"ILLEGAL_CALL"}

\* Where the verifier goes from slot j.
After(p, j) == j + (IF p.slot[j].op = "LDDW" THEN 2 ELSE 1)

\* T holds every slot the verifier can get to.
FollowsSweep(p, T) == 0 \in T /\ \A j \in T : j < p.len => After(p, j) \in T

\* T shows that the verifier gets through p: it follows the sweep and all its
\* slots pass.
Certificate(p, T) ==
  /\ FollowsSweep(p, T)
  /\ \A j \in T : j < p.len => CheckSlot(p, j) = "OK"

ReturnsOrMayNot == LastSlot(prog).op = "EXIT" \/ "NO_RETURN" \in flags

Acceptable ==
  /\ prog.tail = 0
  /\ \E T \in SUBSET Nat : Certificate(prog, T)
  /\ ReturnsOrMayNot

\* The part of a certificate the verifier has been through.
PartialCertificate(p, k, T) ==
  /\ 0 \in T /\ k \in T /\ T \subseteq 0..k
  /\ \A j \in T : j < k => CheckSlot(p, j) = "OK" /\ After(p, j) \in T

VerdictInv ==
  /\ status = "verifying" =>
       /\ prog.tail = 0
       /\ \A T \in SUBSET Nat : FollowsSweep(prog, T) => i \in T
       /\ \E T \in SUBSET Nat : PartialCertificate(prog, i, T)
  /\ status = "running" \/ "PREFLIGHT_DONE" \in flags => Acceptable
  /\ res \in RejectCodes => ~Acceptable

LEMMA AcceptableStep == [Next]_vars => Acceptable' = Acceptable
<1> SUFFICES ASSUME [Next]_vars PROVE Acceptable' = Acceptable
  OBVIOUS
<1>1. prog' = prog
  BY ProgStep
<1>2. "NO_RETURN" \in flags' <=> "NO_RETURN" \in flags
  BY DEF Next, vars, RunVerified, RunBadLength, RunUnverified, Enter, Verify, VerifyNext,
         VerifyReject, VerifyNoReturn, VerifyAccept, Reject, Execute, Step, StepWide,
         JumpNotTaken, JumpTaken, JumpOutOfBranches, Fail, Return, Stray, Goto, Exit
<1> QED
  BY <1>1, <1>2 DEF Acceptable, ReturnsOrMayNot

LEMMA VerdictStep == TypeOK /\ VerdictInv /\ [Next]_vars => VerdictInv'
<1> SUFFICES ASSUME TypeOK, VerdictInv, [Next]_vars PROVE VerdictInv'
  OBVIOUS
<1>1. prog' = prog /\ Acceptable' = Acceptable
  BY ProgStep, AcceptableStep
<1>2. prog.len \in Nat /\ i \in Nat
  BY DEF TypeOK, IsProgram
<1>3. CASE RunVerified
  BY <1>1, <1>3 DEF RunVerified, Enter, VerdictInv
<1>4. CASE RunBadLength
  <2>1. ~Acceptable
    BY <1>4 DEF RunBadLength, Acceptable
  <2> QED
    BY <1>1, <1>4, <2>1 DEF RunBadLength, Enter, VerdictInv
<1>5. CASE RunUnverified
  <2>1. /\ i' = 0 /\ status' = "verifying" /\ prog.tail = 0
        /\ flags' = flags /\ res' = res
    BY <1>5 DEF RunUnverified, Enter
  <2>2. {0} \in SUBSET Nat /\ PartialCertificate(prog, 0, {0})
    BY DEF PartialCertificate
  <2>3. \A T \in SUBSET Nat : FollowsSweep(prog, T) => 0 \in T
    BY DEF FollowsSweep
  <2> QED
    BY <1>1, <2>1, <2>2, <2>3 DEF VerdictInv
<1>6. CASE VerifyNext
  <2>1. /\ i' = After(prog, i) /\ i < prog.len /\ CheckSlot(prog, i) = "OK"
        /\ status = "verifying" /\ status' = "verifying"
        /\ flags' = flags /\ res' = res
    BY <1>6 DEF VerifyNext, After
  <2>2. i' \in {i + 1, i + 2}
    BY <1>2, <2>1 DEF After
  <2>3. \A T \in SUBSET Nat : FollowsSweep(prog, T) => i' \in T
    BY <2>1 DEF VerdictInv, FollowsSweep
  <2>4. PICK T \in SUBSET Nat : PartialCertificate(prog, i, T)
    BY <2>1 DEF VerdictInv
  <2>5. PartialCertificate(prog, i', T \cup {i'})
    <3>1. \A j \in T : j < i \/ j = i
      BY <1>2, <2>4 DEF PartialCertificate
    <3>2. T \cup {i'} \subseteq 0..i'
      BY <1>2, <2>2, <2>4 DEF PartialCertificate
    <3>3. \A j \in T \cup {i'} : j < i' => j \in T
      BY <1>2, <2>2
    <3> QED
      BY <2>1, <2>4, <3>1, <3>2, <3>3 DEF PartialCertificate
  <2>6. T \cup {i'} \in SUBSET Nat
    BY <1>2, <2>2
  <2> QED
    BY <1>1, <2>1, <2>3, <2>5, <2>6 DEF VerdictInv
<1>7. CASE VerifyReject
  <2>1. /\ i < prog.len /\ CheckSlot(prog, i) # "OK"
        /\ status = "verifying" /\ status' = "idle" /\ flags' = flags
    BY <1>7 DEF VerifyReject, Reject
  <2>2. ~Acceptable
    BY <2>1 DEF VerdictInv, Acceptable, Certificate
  <2> QED
    BY <1>1, <2>1, <2>2 DEF VerdictInv
<1>8. CASE VerifyNoReturn
  <2>1. ~Acceptable /\ status' = "idle" /\ flags' = flags
    BY <1>8 DEF VerifyNoReturn, Reject, Acceptable, ReturnsOrMayNot
  <2> QED
    BY <1>1, <2>1 DEF VerdictInv
<1>9. CASE VerifyAccept
  <2>1. /\ i >= prog.len /\ ReturnsOrMayNot /\ prog.tail = 0
        /\ status = "verifying" /\ status' = "running" /\ res' = res
    BY <1>9 DEF VerifyAccept, ReturnsOrMayNot, VerdictInv
  <2>2. PICK T \in SUBSET Nat : PartialCertificate(prog, i, T)
    BY <2>1 DEF VerdictInv
  <2>3. Certificate(prog, T)
    BY <1>2, <2>1, <2>2 DEF PartialCertificate, Certificate, FollowsSweep
  <2>4. Acceptable
    BY <2>1, <2>3 DEF Acceptable
  <2> QED
    BY <1>1, <2>1, <2>4 DEF VerdictInv
<1>10. CASE Advance \/ Stray
  <2>1. /\ status = "running" /\ status' # "verifying"
        /\ flags' = flags /\ res' = res
    BY <1>10 DEF Advance, Step, StepWide, JumpNotTaken, JumpTaken, Stray, Fetch, Goto
  <2> QED
    BY <1>1, <2>1 DEF VerdictInv
<1>11. CASE JumpOutOfBranches \/ Fail \/ Return
  <2>1. /\ status = "running" /\ status' = "idle" /\ flags' = flags
        /\ res' \notin RejectCodes
    BY <1>11 DEF JumpOutOfBranches, Fail, Return, Fetch, Failure, Exit, RejectCodes,
                 PreflightCodes
  <2> QED
    BY <1>1, <2>1 DEF VerdictInv
<1>12. CASE UNCHANGED vars
  <2>1. UNCHANGED <<status, i, flags, res>>
    BY <1>12 DEF vars
  <2> QED
    BY <1>1, <2>1 DEF VerdictInv
<1> QED
  BY <1>3, <1>4, <1>5, <1>6, <1>7, <1>8, <1>9, <1>10, <1>11, <1>12
  DEF Next, Verify, Execute, Advance

\* A text section one call found wrong is not executed by a later one: no call
\* leaves PREFLIGHT_DONE behind on its way out of a failed verification.
THEOREM RejectionIsFinal == Spec => []RejectedForGood
<1>1. Init => TypeOK /\ VerdictInv
  <2>1. Init => VerdictInv
    BY ConfigsAssumption DEF Init, VerdictInv, RejectCodes, PreflightCodes
  <2> QED
    BY <2>1, TypeInit
<1>2. TypeOK /\ VerdictInv /\ [Next]_vars => (TypeOK /\ VerdictInv)'
  BY TypeStep, VerdictStep
<1>3. VerdictInv => RejectedForGood
  BY DEF VerdictInv, RejectedForGood, RejectCodes
<1> QED
  BY <1>1, <1>2, <1>3, PTL DEF Spec
=============================================================================
