-------------------------------- MODULE Alu --------------------------------
(***************************************************************************)
(* What the instructions of the interpreter compute (bpf/jumptable.c), at  *)
(* a scaled width, against the eBPF instruction set it is to follow, and   *)
(* its jump table against the tool's tables (tools/rbpf/instructions.py).  *)
(*                                                                         *)
(* A container executes one instruction over and over, on registers that   *)
(* hold any value.  Loads, stores, calls and the return are decoded here;  *)
(* their effects are the subject of Regions and Interpreter.               *)
(***************************************************************************)
EXTENDS Integers

CONSTANTS
  Half,   \* the bits of a uint32_t; a register has twice as many
  Alu32,  \* CONFIG_BPF_ENABLE_ALU32
  Base,   \* the address of the data and rodata sections
  BitAnd(_, _), BitOr(_, _), BitXor(_, _)  \* the bitwise operators of C

\* Powers of 2.
Pow[n \in Nat] == IF n = 0 THEN 1 ELSE 2 * Pow[n - 1]

H == Pow[Half]
M == Pow[2 * Half]

Below(n) == 0..(Pow[n] - 1)

Word == Below(2 * Half)
Imm == (-(H \div 2))..(H \div 2 - 1)

\* The bits of an n-bit number, or of the last n digits of any other.
Bits(x, n) == {k \in 0..(n - 1) : (x \div Pow[k]) % 2 = 1}

Differ(A, B) == (A \ B) \cup (B \ A)

ASSUME AluAssumption == Half \in Nat \ {0} /\ Alu32 \in BOOLEAN /\ Base \in Word

\* What C says of &, | and ^ on unsigned numbers of either width.
ASSUME BitsAssumption ==
  \A n \in {Half, 2 * Half} : \A a, b \in Below(n) :
    /\ {BitAnd(a, b), BitOr(a, b), BitXor(a, b)} \subseteq Below(n)
    /\ Bits(BitAnd(a, b), n) = Bits(a, n) \cap Bits(b, n)
    /\ Bits(BitOr(a, b), n) = Bits(a, n) \cup Bits(b, n)
    /\ Bits(BitXor(a, b), n) = Differ(Bits(a, n), Bits(b, n))
-----------------------------------------------------------------------------
\* Decoding.  An entry of a table: opcode, kind of instruction, operation, operand.

AluCode ==
  [ADD |-> 0, SUB |-> 16, MUL |-> 32, DIV |-> 48, OR |-> 64, AND |-> 80, LSH |-> 96,
   RSH |-> 112, NEG |-> 128, MOD |-> 144, XOR |-> 160, MOV |-> 176, ARSH |-> 192]

JmpCode ==
  [EQ |-> 16, GT |-> 32, GE |-> 48, SET |-> 64, NE |-> 80, SGT |-> 96, SGE |-> 112,
   LT |-> 160, LE |-> 176, SLT |-> 192, SLE |-> 208]

MemCode == [STX |-> 99, ST |-> 98, LDX |-> 97]
SizeCode == [BYTE |-> 16, HALF |-> 8, WORD |-> 0, LONG |-> 24]

AluNames == DOMAIN AluCode

AluOpcodes(kind, imm, reg) ==
  {<<AluCode[op] + reg, kind, op, "REG">> : op \in AluNames} \cup
  {<<AluCode[op] + imm, kind, op, "IMM">> : op \in AluNames \ {"NEG"}}

\* Mutant: greater and less in each other's place.
JmpOpcodesSwapped ==
  LET code == [JmpCode EXCEPT !.SGT = 192, !.SLT = 96] IN
  {<<code[op] + 5, "JMP", op, "IMM">> : op \in DOMAIN code} \cup
  {<<code[op] + 13, "JMP", op, "REG">> : op \in DOMAIN code}

JmpOpcodes ==
  {<<JmpCode[op] + 5, "JMP", op, "IMM">> : op \in DOMAIN JmpCode} \cup
  {<<JmpCode[op] + 13, "JMP", op, "REG">> : op \in DOMAIN JmpCode}

MemOpcodes ==
  {<<MemCode[op] + SizeCode[size], "MEM", op, size>> :
     op \in DOMAIN MemCode, size \in DOMAIN SizeCode}

\* The jump table; opcodes without an entry are invalid.
JumpTable ==
  AluOpcodes("ALU64", 7, 15) \cup (IF Alu32 THEN AluOpcodes("ALU32", 4, 12) ELSE {})
  \cup JmpOpcodes \cup MemOpcodes
  \cup {<<5, "JMP", "ALWAYS", "NONE">>, <<24, "LDDW", "LDDW", "WIDE">>,
        <<184, "LDDW", "LDDWD", "WIDE">>, <<216, "LDDW", "LDDWR", "WIDE">>,
        <<133, "CALL", "CALL", "IMM">>, <<149, "RETURN", "RETURN", "NONE">>}

\* The classes of instructions.py, by their OPCODE attributes.
ToolAluImm ==
  [ADD |-> 7, SUB |-> 23, MUL |-> 39, DIV |-> 55, OR |-> 71, AND |-> 87, LSH |-> 103,
   RSH |-> 119, MOD |-> 151, XOR |-> 167, MOV |-> 183, ARSH |-> 199]

ToolAluReg ==
  [ADD |-> 15, SUB |-> 31, MUL |-> 47, DIV |-> 79, OR |-> 79, AND |-> 95, LSH |-> 111,
   RSH |-> 127, NEG |-> 135, MOD |-> 159, XOR |-> 175, MOV |-> 191, ARSH |-> 207]

ToolMemClasses ==
  [LDX |-> {121, 97, 105, 113}, STX |-> {123, 99, 107, 115}, ST |-> {122, 98, 106, 114}]

\* The size the tool reads from the opcode and prints: its 0 is a byte and its 2 a
\* word, the jump table's the other way round.
ToolSize(code) == <<"BYTE", "HALF", "WORD", "LONG">>[((code \div 8) % 4) + 1]

ToolMem ==
  UNION {{<<code, "MEM", op, ToolSize(code)>> : code \in ToolMemClasses[op]} :
           op \in DOMAIN ToolMemClasses}

ToolWide ==
  {<<24, "LDDW", "LDDW", "WIDE">>, <<184, "LDDW", "LDDWD", "WIDE">>, <<216, "LDDW", "LDDWR", "WIDE">>}

ToolBranch ==
  [EQ |-> 29, GT |-> 45, GE |-> 61, LT |-> 173, LE |-> 189, SET |-> 77, NE |-> 93,
   SGT |-> 109, SGE |-> 125, SLT |-> 205, SLE |-> 221]

ToolBranchImm ==
  [EQ |-> 21, GT |-> 37, GE |-> 53, LT |-> 165, LE |-> 181, SET |-> 69, NE |-> 85,
   SGT |-> 101, SGE |-> 117, SLT |-> 197, SLE |-> 213]

\* The dictionary: the entry of Or replaces that of Div, which has the same key.
ToolTable ==
  {<<ToolAluImm[op], "ALU64", op, "IMM">> : op \in DOMAIN ToolAluImm}
  \cup {<<ToolAluReg[op], "ALU64", op, "REG">> : op \in DOMAIN ToolAluReg \ {"DIV"}}
  \cup ToolMem \cup ToolWide
  \cup {<<ToolBranch[op], "JMP", op, "REG">> : op \in DOMAIN ToolBranch}
  \cup {<<ToolBranchImm[op], "JMP", op, "IMM">> : op \in DOMAIN ToolBranchImm}
  \cup {<<5, "JMP", "ALWAYS", "NONE">>, <<133, "CALL", "CALL", "IMM">>,
        <<149, "RETURN", "RETURN", "NONE">>}

Entry(table, opcode) == {e \in table : e[1] = opcode}
-----------------------------------------------------------------------------
VARIABLES
  opcode, immediate,
  high,       \* the immediate of the second slot of a double-length instruction
  dst, src,   \* the registers DST and SRC
  jump_cond,
  res

vars == <<opcode, immediate, high, dst, src, jump_cond, res>>

Signed(x, m) == IF x < m \div 2 THEN x ELSE x - m
U32(x) == x % H
I32(x) == Signed(U32(x), H)
I64(x) == Signed(x, M)

\* The C operators of the ALU macro, on unsigned operands below m.
Arith(op, a, b, m) ==
  CASE op = "ADD" -> (a + b) % m
    [] op = "SUB" -> (a - b) % m
    [] op = "MUL" -> (a * b) % m
    [] op = "AND" -> BitAnd(a, b)
    [] op = "OR" -> BitOr(a, b)
    [] op = "XOR" -> BitXor(a, b)
    [] op = "LSH" -> (a * Pow[b]) % m
    [] op = "RSH" -> a \div Pow[b]
    [] op = "DIV" -> a \div b
    [] op = "MOD" -> a % b

\* SRC, or the immediate as it is converted to uint64_t.
Operand(arg) == IF arg = "REG" THEN src ELSE immediate % M

\* Shift counts and negations that C leaves undefined, and divisions whose divisor
\* becomes zero after the check for zero: the 32-bit ones test all of SRC.
Undefined(kind, op, b) ==
  \/ op = "NEG" /\ (IF kind = "ALU64" THEN dst = M \div 2 ELSE U32(dst) = H \div 2)
  \/ kind = "ALU64" /\ op \in {"LSH", "RSH", "ARSH"} /\ b >= 2 * Half
  \/ kind = "ALU32" /\ op \in {"LSH", "RSH"} /\ U32(b) >= Half
  \/ kind = "ALU32" /\ op = "ARSH" /\ b >= Half
  \/ kind = "ALU32" /\ op \in {"DIV", "MOD"} /\ b # 0 /\ U32(b) = 0

\* The handlers written out: the int32_t results of NEG and ARSH are sign-extended, and
\* both MOV keep 32 bits.
Special(kind, op, b) ==
  CASE op = "NEG" -> IF kind = "ALU64" THEN (-dst) % M ELSE I32(-I32(dst)) % M
    [] op = "MOV" -> U32(b)
    [] op = "ARSH" -> ((IF kind = "ALU64" THEN I64(dst) ELSE I32(dst)) \div Pow[b]) % M

\* Mutant: 32-bit operations on the whole of DST.
ValueNoCast(kind, op, b) ==
  IF op \in {"NEG", "MOV", "ARSH"} THEN Special(kind, op, b)
  ELSE Arith(op, dst, IF kind = "ALU64" THEN b ELSE U32(b), M)

\* What the handlers store to DST.
Value(kind, op, b) ==
  IF op \in {"NEG", "MOV", "ARSH"} THEN Special(kind, op, b)
  ELSE IF kind = "ALU64" THEN Arith(op, dst, b, M)
  ELSE Arith(op, U32(dst), U32(b), H)

AluStep(kind, op, arg) ==
  /\ LET b == Operand(arg) IN
       \/ /\ op \in {"DIV", "MOD"} /\ b = 0
          /\ res' = "ILLEGAL_DIV" /\ UNCHANGED dst
       \/ /\ ~(op \in {"DIV", "MOD"} /\ b = 0) /\ ~Undefined(kind, op, b)
          /\ dst' = Value(kind, op, b) /\ UNCHANGED res
       \/ /\ Undefined(kind, op, b)
          /\ dst' \in Word /\ UNCHANGED res
  /\ UNCHANGED <<opcode, immediate, high, src, jump_cond>>

\* Mutant: the two halves in each other's place.
WideValueSwapped(op) ==
  IF op = "LDDW" THEN BitOr(high % M, (immediate * H) % M)
  ELSE (Base + high + immediate * H) % M

\* LDDW or-s the halves, LDDWD and LDDWR add them to an address; the low one is
\* sign-extended.
WideValue(op) ==
  IF op = "LDDW" THEN BitOr(immediate % M, (high * H) % M)
  ELSE (Base + immediate + high * H) % M

WideStep(op) ==
  /\ dst' = WideValue(op)
  /\ UNCHANGED <<opcode, immediate, high, src, jump_cond, res>>

\* Mutant: all comparisons unsigned.
ConditionUnsigned(op, b) ==
  CASE op = "ALWAYS" -> TRUE
    [] op = "EQ" -> dst = b
    [] op = "NE" -> dst # b
    [] op = "SET" -> BitAnd(dst, b) # 0
    [] op \in {"GT", "SGT"} -> dst > b
    [] op \in {"GE", "SGE"} -> dst >= b
    [] op \in {"LT", "SLT"} -> dst < b
    [] op \in {"LE", "SLE"} -> dst <= b

\* COND_JMP compares 64-bit values, signed or unsigned.
Condition(op, b) ==
  CASE op = "ALWAYS" -> TRUE
    [] op = "EQ" -> dst = b
    [] op = "NE" -> dst # b
    [] op = "SET" -> BitAnd(dst, b) # 0
    [] op = "GT" -> dst > b
    [] op = "GE" -> dst >= b
    [] op = "LT" -> dst < b
    [] op = "LE" -> dst <= b
    [] op = "SGT" -> I64(dst) > I64(b)
    [] op = "SGE" -> I64(dst) >= I64(b)
    [] op = "SLT" -> I64(dst) < I64(b)
    [] op = "SLE" -> I64(dst) <= I64(b)

JumpStep(op, arg) ==
  /\ jump_cond' = Condition(op, Operand(arg))
  /\ UNCHANGED <<opcode, immediate, high, dst, src, res>>

Invalid ==
  /\ Entry(JumpTable, opcode) = {}
  /\ res' = "ILLEGAL_INSTRUCTION"
  /\ UNCHANGED <<opcode, immediate, high, dst, src, jump_cond>>

\* The values of immediate, high, dst and src that make a difference to an instruction.
Operands(e) ==
  CASE e[4] = "REG" -> {0} \X {0} \X Word \X Word
    [] e[2] \in {"ALU64", "ALU32", "JMP"} /\ e[4] = "IMM" -> Imm \X {0} \X Word \X {0}
    [] e[4] = "WIDE" -> Imm \X Imm \X {0} \X {0}
    [] e[4] = "NONE" \/ e[2] \in {"CALL", "MEM"} -> {0} \X {0} \X {0} \X {0}

Init ==
  /\ opcode \in 0..255
  /\ \/ \E e \in Entry(JumpTable, opcode) : \E x \in Operands(e) :
          immediate = x[1] /\ high = x[2] /\ dst = x[3] /\ src = x[4]
     \/ /\ Entry(JumpTable, opcode) = {}
        /\ immediate = 0 /\ high = 0 /\ dst = 0 /\ src = 0
  /\ jump_cond = FALSE
  /\ res = "OK"

Next ==
  /\ res = "OK"
  /\ \/ \E e \in Entry(JumpTable, opcode) :
          \/ e[2] \in {"ALU64", "ALU32"} /\ AluStep(e[2], e[3], e[4])
          \/ e[2] = "LDDW" /\ WideStep(e[3])
          \/ e[2] = "JMP" /\ JumpStep(e[3], e[4])
     \/ Invalid

Spec == Init /\ [][Next]_vars
-----------------------------------------------------------------------------
\* The instruction set, on the bits of the operands: no sign but the top bit.

\* r is the result of op on the n-bit numbers a and b.
IsResult(op, a, b, n, r) ==
  CASE op = "ADD" -> (r - a - b) % Pow[n] = 0
    [] op = "SUB" -> (r + b - a) % Pow[n] = 0
    [] op = "MUL" -> (r - a * b) % Pow[n] = 0
    [] op = "NEG" -> (r + a) % Pow[n] = 0
    [] op = "MOV" -> r = b
    [] op = "DIV" -> r * b <= a /\ a < (r + 1) * b
    [] op = "MOD" -> r < b /\ \E q \in 0..a : a = q * b + r
    [] op = "AND" -> Bits(r, n) = Bits(a, n) \cap Bits(b, n)
    [] op = "OR" -> Bits(r, n) = Bits(a, n) \cup Bits(b, n)
    [] op = "XOR" -> Bits(r, n) = Differ(Bits(a, n), Bits(b, n))
    [] op = "LSH" -> Bits(r, n) = {k \in 0..(n - 1) : k - b \in Bits(a, n)}
    [] op = "RSH" -> Bits(r, n) = {k \in 0..(n - 1) : k + b \in Bits(a, n)}
    [] op = "ARSH" -> Bits(r, n) =
         {k \in 0..(n - 1) : (IF k + b < n THEN k + b ELSE n - 1) \in Bits(a, n)}

\* An operation on 32 bits clears the upper half of the register.
Correct(kind, op, b, r) ==
  LET n == IF kind = "ALU64" THEN 2 * Half ELSE Half IN
  r \in Below(n) /\ IsResult(op, dst % Pow[n], b % Pow[n], n, r)

\* Where the handlers do something else: MOV loses the upper half of its operand,
\* and the 32-bit NEG and ARSH extend the sign of their result into the upper half.
Deviates(kind, op, b) ==
  \/ kind = "ALU64" /\ op = "MOV" /\ b >= H
  \/ kind = "ALU32" /\ op = "NEG" /\ I32(dst) > 0
  \/ kind = "ALU32" /\ op = "ARSH" /\ I32(dst) < 0

\* The type that uint8_t, int32_t and uint64_t give them.
TypeOK ==
  /\ opcode \in 0..255 /\ immediate \in Imm /\ high \in Imm
  /\ dst \in Word /\ src \in Word /\ jump_cond \in BOOLEAN
  /\ res \in {"OK", "ILLEGAL_DIV", "ILLEGAL_INSTRUCTION"}

\* An arithmetic instruction with a defined outcome computes what the instruction
\* set prescribes, whatever the registers hold, but for the deviations named above.
Computes ==
  \A e \in Entry(JumpTable, opcode) :
    LET b == Operand(e[4]) IN
    e[2] \in {"ALU64", "ALU32"} /\ ~Undefined(e[2], e[3], b) /\ ~(e[3] \in {"DIV", "MOD"} /\ b = 0) =>
      (Correct(e[2], e[3], b, Value(e[2], e[3], b)) <=> ~Deviates(e[2], e[3], b))

\* A double-length instruction loads the 64 bits of its two immediates, or adds them
\* to the section's address, exactly when the first is not negative, or LDDW's second
\* is all ones: the sign extension of the low half then changes nothing.
Loads ==
  \A e \in Entry(JumpTable, opcode) :
    e[2] = "LDDW" =>
      LET whole == U32(immediate) + H * U32(high)
          start == IF e[3] = "LDDW" THEN 0 ELSE Base
      IN WideValue(e[3]) = (start + whole) % M <=>
           immediate >= 0 \/ (e[3] = "LDDW" /\ high = -1)

\* A jump is taken when the condition of the instruction set holds: with the top
\* bits of both operands inverted, the order of signed numbers is the unsigned one.
Branches ==
  \A e \in Entry(JumpTable, opcode) :
    e[2] = "JMP" =>
      LET b == Operand(e[4])
          Flip(x) == (x + M \div 2) % M
          Order(op, x, y) == \/ op \in {"GT", "GE"} /\ x > y
                             \/ op \in {"LT", "LE"} /\ x < y
                             \/ op \in {"GE", "LE"} /\ x = y
          bare == [SGT |-> "GT", SGE |-> "GE", SLT |-> "LT", SLE |-> "LE"]
          op == e[3]
      IN Condition(op, b) <=>
           \/ op = "ALWAYS"
           \/ op = "EQ" /\ Bits(dst, 2 * Half) = Bits(b, 2 * Half)
           \/ op = "NE" /\ Bits(dst, 2 * Half) # Bits(b, 2 * Half)
           \/ op = "SET" /\ Bits(dst, 2 * Half) \cap Bits(b, 2 * Half) # {}
           \/ Order(op, dst, b)
           \/ op \in DOMAIN bare /\ Order(bare[op], Flip(dst), Flip(b))

\* An opcode is to the tool the operation, the operand and the size that it is to the
\* interpreter, but for: bytes and words, which the tool takes for each other in every
\* load and store; NEG (0x8f in the jump table, 0x87 in the tool); DIV with a register
\* (0x3f; the tool's class has the opcode of OR, 0x4f); and the 32-bit operations,
\* which only the jump table has.
TablesAgree ==
  Entry(ToolTable, opcode) = Entry(JumpTable, opcode) <=>
    /\ opcode \notin {63, 97, 98, 99, 113, 114, 115, 135, 143}
    /\ \A e \in Entry(JumpTable, opcode) : e[2] # "ALU32"
=============================================================================
