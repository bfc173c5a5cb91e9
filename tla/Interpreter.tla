---------------------------- MODULE Interpreter ----------------------------
(***************************************************************************)
(* The preflight verifier (bpf/verify.c) and the instruction loop          *)
(* (bpf/jumptable.c) of one container instance.  bpf_run() is called any   *)
(* number of times; a call first verifies the text section, slot by slot,  *)
(* unless an earlier call did, and then executes it.                       *)
(*                                                                         *)
(* Slots are numbered from 0.  Register contents are abstracted: a         *)
(* conditional jump may go either way, a division may find a zero divisor  *)
(* and a memory access may be denied.  What the control flow depends on is *)
(* kept: opcode classes, register numbers (legal or not), jump offsets,    *)
(* call numbers, the second slot of double-length instructions, the        *)
(* jump budget and the flags of the instance.                              *)
(***************************************************************************)
EXTENDS Integers

CONSTANTS
  Programs,         \* the text sections a container may have
  Configs,          \* the flags the owner of the bpf_t may have set
  BranchesAllowed,  \* CONFIG_BPF_BRANCHES_ALLOWED
  UintMod,          \* 2^32, branches_remaining being a uint32_t
  CallNumbers       \* the numbers bpf_get_call() knows

\* LDDWX stands for LDDWD and LDDWR; BAD and BADJ for the opcodes without an
\* entry in the jump table, BADJ being those of the branch class.
Ops == {"ALU", "DIV", "MEM", "LDDW", "LDDWX", "JA", "JCC", "CALL", "EXIT", "BAD", "BADJ"}

Instr == [op : Ops, regs : BOOLEAN, off : Int, imm : Int]

\* "tail" is the number of bytes left over after the last whole slot, and
\* "before" is what the eight bytes in front of the text section read as.
IsProgram(p) ==
  /\ p.len \in Nat /\ p.tail \in 0..7
  /\ p.slot \in [0..(p.len - 1) -> Instr]
  /\ p.before \in Instr

ASSUME ProgramsAssumption == \A p \in Programs : IsProgram(p)

ASSUME ConfigsAssumption == Configs \subseteq SUBSET {"NO_RETURN"}

ASSUME LimitsAssumption ==
  /\ BranchesAllowed \in Nat /\ UintMod \in Nat
  /\ BranchesAllowed < UintMod

VARIABLES
  prog,                \* the text section
  flags,               \* bpf->flags, as far as this module uses them
  status,              \* where bpf_run() is; "undefined" once it left the text
  i,                   \* the slot the verifier looks at
  pc,                  \* the slot the instruction loop looks at
  branches_remaining,  \* bpf->branches_remaining
  res,                 \* what the last call returned
  result               \* whether the last call stored *result

vars == <<prog, flags, status, i, pc, branches_remaining, res, result>>

PreflightCodes ==
  {"ILLEGAL_LEN", "ILLEGAL_REGISTER", "ILLEGAL_JUMP", "ILLEGAL_CALL", "NO_RETURN"}

Codes == PreflightCodes \cup
  {"OK", "ILLEGAL_INSTRUCTION", "ILLEGAL_MEM", "ILLEGAL_DIV", "OUT_OF_BRANCHES"}

Init ==
  /\ prog \in Programs
  /\ flags \in Configs
  /\ status = "idle"
  /\ i = 0 /\ pc = 0
  /\ branches_remaining = 0
  /\ res = "OK"
  /\ result = "kept"

-----------------------------------------------------------------------------
\* The verifier.

BranchClass(instr) == instr.op \in {"JA", "JCC", "CALL", "EXIT", "BADJ"}

\* The target a branch is checked with.  The instruction loop adds one more.
Target(p, j) == j + p.slot[j].off

\* Mutants: the lower bound of a target, the number of a call unchecked.
CheckTargetUpperOnly(p, j) == Target(p, j) < p.len

CheckTarget(p, j) == Target(p, j) >= 0 /\ Target(p, j) < p.len

CheckSlotAnyCall(p, j) ==
  LET instr == p.slot[j] IN
  IF ~instr.regs THEN "ILLEGAL_REGISTER"
  ELSE IF BranchClass(instr) /\ ~CheckTarget(p, j) THEN "ILLEGAL_JUMP"
  ELSE "OK"

CheckSlot(p, j) ==
  LET instr == p.slot[j] IN
  IF ~instr.regs THEN "ILLEGAL_REGISTER"
  ELSE IF BranchClass(instr) /\ ~CheckTarget(p, j) THEN "ILLEGAL_JUMP"
  ELSE IF instr.op = "CALL" /\ instr.imm \notin CallNumbers THEN "ILLEGAL_CALL"
  ELSE "OK"

\* Entry of bpf_run(): the jump budget is refilled by every call.
Enter ==
  /\ status = "idle"
  /\ branches_remaining' = BranchesAllowed
  /\ i' = 0 /\ pc' = 0
  /\ result' = "kept"
  /\ UNCHANGED <<prog, flags>>

RunVerified ==
  /\ Enter
  /\ "PREFLIGHT_DONE" \in flags
  /\ status' = "running"
  /\ UNCHANGED res

RunBadLength ==
  /\ Enter
  /\ "PREFLIGHT_DONE" \notin flags /\ prog.tail # 0
  /\ res' = "ILLEGAL_LEN"
  /\ UNCHANGED status

RunUnverified ==
  /\ Enter
  /\ "PREFLIGHT_DONE" \notin flags /\ prog.tail = 0
  /\ status' = "verifying"
  /\ UNCHANGED res

\* Mutants: the flag set before the verdict is known; a rejected call that
\* goes through the common exit and stores a result.
RejectMarksDone(code) ==
  /\ status' = "idle" /\ i' = 0
  /\ res' = code
  /\ flags' = flags \cup {"PREFLIGHT_DONE"}
  /\ UNCHANGED <<prog, pc, branches_remaining, result>>

RejectStores(code) ==
  /\ status' = "idle" /\ i' = 0
  /\ res' = code
  /\ result' = "stored"
  /\ UNCHANGED <<prog, flags, pc, branches_remaining>>

Reject(code) ==
  /\ status' = "idle" /\ i' = 0
  /\ res' = code
  /\ UNCHANGED <<prog, flags, pc, branches_remaining, result>>

VerifyNext ==
  /\ status = "verifying" /\ i < prog.len
  /\ CheckSlot(prog, i) = "OK"
  /\ i' = i + (IF prog.slot[i].op = "LDDW" THEN 2 ELSE 1)
  /\ UNCHANGED <<prog, flags, status, pc, branches_remaining, res, result>>

VerifyReject ==
  /\ status = "verifying" /\ i < prog.len
  /\ CheckSlot(prog, i) # "OK"
  /\ Reject(CheckSlot(prog, i))

\* The slot application[num_instructions - 1].
LastSlot(p) == IF p.len = 0 THEN p.before ELSE p.slot[p.len - 1]

VerifyNoReturn ==
  /\ status = "verifying" /\ i >= prog.len
  /\ LastSlot(prog).op # "EXIT" /\ "NO_RETURN" \notin flags
  /\ Reject("NO_RETURN")

VerifyAccept ==
  /\ status = "verifying" /\ i >= prog.len
  /\ LastSlot(prog).op = "EXIT" \/ "NO_RETURN" \in flags
  /\ flags' = flags \cup {"PREFLIGHT_DONE"}
  /\ status' = "running" /\ i' = 0
  /\ UNCHANGED <<prog, pc, branches_remaining, res, result>>

-----------------------------------------------------------------------------
\* The instruction loop.  Its locals are reset when bpf_run() returns.

Wide(instr) == instr.op \in {"LDDW", "LDDWX"}

InText(p, j) == j \in 0..(p.len - 1)

\* The instruction does not index regmap out of its bounds.
Usable(instr) ==
  instr.op \in {"ALU", "DIV", "MEM", "LDDW", "LDDWX", "JCC"} => instr.regs

\* The loop has a slot of the text in front of it that it can execute.
Fetch(ops) ==
  /\ status = "running"
  /\ InText(prog, pc)
  /\ Usable(prog.slot[pc])
  /\ prog.slot[pc].op \in ops

Goto(next) ==
  /\ pc' = next
  /\ UNCHANGED <<prog, flags, status, i, res, result>>

Exit(code) ==
  /\ status' = "idle" /\ pc' = 0
  /\ res' = code
  /\ result' = "stored"
  /\ UNCHANGED <<prog, flags, i>>

KnownCall == prog.slot[pc].imm \in CallNumbers

Step ==
  /\ Fetch({"ALU", "DIV", "MEM", "CALL"})
  /\ prog.slot[pc].op = "CALL" => KnownCall
  /\ Goto(pc + 1)
  /\ UNCHANGED branches_remaining

\* Mutant: the second slot is not skipped.
StepWideOnce ==
  /\ Fetch({"LDDW", "LDDWX"})
  /\ Goto(pc + 1)
  /\ UNCHANGED branches_remaining

StepWide ==
  /\ Fetch({"LDDW", "LDDWX"})
  /\ Goto(pc + 2)
  /\ UNCHANGED branches_remaining

JumpNotTaken ==
  /\ Fetch({"JCC"})
  /\ Goto(pc + 1)
  /\ UNCHANGED branches_remaining

\* jump_instr: the budget is looked at only after pc has moved.
BudgetLeft == "NO_RETURN" \in flags \/ branches_remaining # 0

\* Mutant: the budget is looked at and never used.
JumpTakenFree ==
  /\ Fetch({"JA", "JCC"})
  /\ BudgetLeft
  /\ UNCHANGED branches_remaining
  /\ Goto(Target(prog, pc) + 1)

JumpTaken ==
  /\ Fetch({"JA", "JCC"})
  /\ BudgetLeft
  /\ branches_remaining' =
       IF "NO_RETURN" \in flags THEN branches_remaining ELSE branches_remaining - 1
  /\ Goto(Target(prog, pc) + 1)

\* Mutant: the counter does not wrap.
JumpOutOfBranchesSigned ==
  /\ Fetch({"JA", "JCC"})
  /\ ~BudgetLeft
  /\ branches_remaining' = branches_remaining - 1
  /\ Exit("OUT_OF_BRANCHES")

JumpOutOfBranches ==
  /\ Fetch({"JA", "JCC"})
  /\ ~BudgetLeft
  /\ branches_remaining' = (branches_remaining - 1) % UintMod
  /\ Exit("OUT_OF_BRANCHES")

\* The code an instruction fails with.
Failure ==
  [DIV |-> "ILLEGAL_DIV", MEM |-> "ILLEGAL_MEM", CALL |-> "ILLEGAL_CALL",
   BAD |-> "ILLEGAL_INSTRUCTION", BADJ |-> "ILLEGAL_INSTRUCTION"]

Fail ==
  /\ Fetch(DOMAIN Failure)
  /\ prog.slot[pc].op = "CALL" => ~KnownCall
  /\ Exit(Failure[prog.slot[pc].op])
  /\ UNCHANGED branches_remaining

Return ==
  /\ Fetch({"EXIT"})
  /\ Exit("OK")
  /\ UNCHANGED branches_remaining

\* pc is outside the text, or a register number outside regmap: what happens
\* next depends on memory that is not part of the program.
Stray ==
  /\ status = "running"
  /\ ~(InText(prog, pc) /\ Usable(prog.slot[pc]))
  /\ status' = "undefined"
  /\ UNCHANGED <<prog, flags, i, pc, branches_remaining, res, result>>

Verify == VerifyNext \/ VerifyReject \/ VerifyNoReturn \/ VerifyAccept

Execute ==
  \/ Step \/ StepWide \/ JumpNotTaken \/ JumpTaken \/ JumpOutOfBranches
  \/ Fail \/ Return \/ Stray

Next ==
  \/ RunVerified \/ RunBadLength \/ RunUnverified
  \/ Verify
  \/ Execute

Spec == Init /\ [][Next]_vars

\* bpf_run() is a loop on the caller's stack: once entered it keeps going.
FairSpec == Spec /\ WF_vars(Verify \/ Execute)
-----------------------------------------------------------------------------
\* The programs the properties speak of.

\* S holds the slots at which the instructions of p start: every slot does,
\* but the second one of a double-length instruction, which the tools write
\* with opcode 0 and register numbers 0.
IsLayout(p, S) ==
  /\ p.tail = 0
  /\ \A j \in 0..(p.len - 1) :
       j \in S <=> ~(j - 1 \in S /\ Wide(p.slot[j - 1]))
  /\ \A j \in S : Wide(p.slot[j]) =>
       /\ j + 1 < p.len
       /\ p.slot[j + 1].op = "BAD" /\ p.slot[j + 1].regs

Layouts(p) == {S \in SUBSET (0..(p.len - 1)) : IsLayout(p, S)}

Destination(p, j) == Target(p, j) + 1

Successors(p, j) ==
  IF p.slot[j].op \in {"EXIT", "BAD", "BADJ"} THEN {}
  ELSE IF p.slot[j].op = "JA" THEN {Destination(p, j)}
  ELSE IF p.slot[j].op = "JCC" THEN {Destination(p, j), j + 1}
  ELSE IF Wide(p.slot[j]) THEN {j + 2}
  ELSE {j + 1}

\* What a compiler produces: control never leaves the instructions.
IsClosed(p, S) ==
  /\ 0 \in S
  /\ \A j \in S : Successors(p, j) \subseteq S

WellFormed(p) == \E S \in Layouts(p) : IsClosed(p, S)

\* No double-length instructions: every slot is an instruction.
Plain(p) == p.tail = 0 /\ \A j \in 0..(p.len - 1) : ~Wide(p.slot[j])

-----------------------------------------------------------------------------
\* Properties.

\* Every variable has its type; the verifier overshoots the text by at most
\* one slot and the budget stays a 32-bit value, also when it underflows.
TypeOK ==
  /\ IsProgram(prog)
  /\ flags \subseteq {"NO_RETURN", "PREFLIGHT_DONE"}
  /\ status \in {"idle", "verifying", "running", "undefined"}
  /\ i \in 0..(prog.len + 1)
  /\ pc \in Int
  /\ branches_remaining \in 0..(UintMod - 1)
  /\ res \in Codes
  /\ result \in {"kept", "stored"}

\* What bpf_verify_preflight() is there to establish of an instruction: its
\* registers exist, a call it makes exists and a jump it makes lands on a slot
\* of the text or on the one right behind it.
Sound(p, j) ==
  /\ p.slot[j].regs
  /\ p.slot[j].op = "CALL" => p.slot[j].imm \in CallNumbers
  /\ p.slot[j].op \in {"JA", "JCC"} => Destination(p, j) \in 1..p.len

\* The LDDWs that directly precede slot j, all of them, begin at slot k.
LddwRun(p, k, j) ==
  /\ k = 0 \/ p.slot[k - 1].op # "LDDW"
  /\ \A l \in k..(j - 1) : p.slot[l].op = "LDDW"

\* The sweep takes the LDDWs of a run and the slots behind them in pairs.  It
\* looks at the first slot of a pair and skips the second one, whatever that
\* holds.
LookedAt(p, j) == \E k \in 0..j : LddwRun(p, k, j) /\ (j - k) % 2 = 0

Skipped(p, j) == \E k \in 0..j : LddwRun(p, k, j) /\ (j - k) % 2 = 1

\* Below slot n, a slot is sound or the second one of a pair.
SoundBelow(n) ==
  \A j \in 0..(prog.len - 1) : j < n => Sound(prog, j) \/ Skipped(prog, j)

\* No call, the first one or one that trusts PREFLIGHT_DONE, executes a text
\* section with an unsound slot, compiled or not, but for the one place the
\* verifier does not look at: what it takes for the second slot of an LDDW.  A
\* jump into such a slot executes what it holds.
NeverRunsUnsound ==
  status = "running" \/ "PREFLIGHT_DONE" \in flags => SoundBelow(prog.len)

\* The instruction loop only ever decodes the start of an instruction of a
\* compiled program, whatever the branches, the failures and the call before
\* it did; in particular it never leaves the text.
PcOnInstruction ==
  \A S \in Layouts(prog) : IsClosed(prog, S) =>
    /\ status = "running" => pc \in S
    /\ status # "undefined"

\* All that verification guarantees of text nobody compiled: without
\* double-length instructions, control can leave the text section only to the
\* slot right behind it, never in front of it and no further.
StrayOnlyAtEnd ==
  Plain(prog) =>
    /\ status = "running" => pc \in 0..prog.len
    /\ status = "undefined" => pc = prog.len

\* A text section that was found wrong is not executed by any later call.
RejectedForGood ==
  status = "running" => res \notin PreflightCodes \ {"ILLEGAL_CALL"}

\* Why these hold: between two steps of the verifier everything before i is
\* sound or skipped, and i is not at the second slot of a pair.
Swept ==
  /\ status = "verifying" => SoundBelow(i) /\ (i < prog.len => LookedAt(prog, i))
  /\ NeverRunsUnsound

\* Every call starts executing at slot 0.
StartsAtZero == status \in {"idle", "verifying"} => pc = 0

SafetyInv == TypeOK /\ Swept /\ StartsAtZero /\ PcOnInstruction /\ StrayOnlyAtEnd

\* What about.rst promises of every loaded application: its control flow stays
\* within the text section.  Stated of the texts that can only leave it by a
\* jump: those that end with a return and hold no double-length instruction.
PcInText ==
  Plain(prog) /\ prog.len > 0 /\ LastSlot(prog).op = "EXIT" =>
    (status = "running" => InText(prog, pc))

\* The steps a bounded call may still take: a taken jump pays for a whole pass
\* over the text.
Fuel ==
  IF status = "idle" THEN 0
  ELSE branches_remaining * (prog.len + 1)
         + (IF InText(prog, pc) THEN prog.len - pc ELSE 0)
         + (IF status = "verifying" THEN prog.len + 3 - i ELSE 0)

E == INSTANCE Execution WITH
  phase <- IF status = "idle" THEN "idle"
           ELSE IF status = "verifying" THEN "checking" ELSE "running",
  accepted <- "PREFLIGHT_DONE" \in flags,
  bounded <- "NO_RETURN" \notin flags,
  work <- Fuel

\* bpf_run() keeps the promise of Execution: a rejected call leaves *result
\* alone, an executed one stores it, only accepted text is executed, without
\* another check, and every step of a call on a bounded instance uses up some
\* of its work.
KeepsPromise == E!Spec

\* Verification ends, and so does every call on an instance whose jumps are
\* limited.
Terminates ==
  /\ (status = "verifying") ~> (status # "verifying")
  /\ (status \in {"verifying", "running"} /\ "NO_RETURN" \notin flags) ~> (status = "idle")
=============================================================================
