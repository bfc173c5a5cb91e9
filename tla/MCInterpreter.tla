--------------------------- MODULE MCInterpreter ---------------------------
(* Small text sections for TLC: every program over a fixed set of slots.    *)
EXTENDS Interpreter

\* MaxLen bounds the slots of a text section.
CONSTANT MaxLen

I(op, regs, off, imm) == [op |-> op, regs |-> regs, off |-> off, imm |-> imm]

Simple(op) == I(op, TRUE, 0, 0)

Jumps(op, offs) == {I(op, TRUE, o, 0) : o \in offs}

\* Every opcode class, illegal registers, calls known and unknown, and jumps to
\* and beyond both ends of the text.
AllSlots ==
  {Simple(op) : op \in {"ALU", "DIV", "MEM", "LDDW", "LDDWX", "EXIT", "BAD", "BADJ"}}
  \cup {I("ALU", FALSE, 0, 0), I("EXIT", FALSE, 0, 0), I("EXIT", TRUE, 3, 0)}
  \cup {I("CALL", TRUE, 0, 1), I("CALL", TRUE, 0, 9), I("CALL", TRUE, -9, 1)}
  \cup Jumps("JA", -3..2)
  \cup Jumps("JCC", -3..2)

\* What a compiled program is made of; BAD is there for second slots.
CompiledSlots ==
  {Simple(op) : op \in {"MEM", "LDDWX", "EXIT", "BAD"}}
  \cup {I("CALL", TRUE, 0, 1), I("CALL", TRUE, 0, 9)}
  \cup Jumps("JA", {-3, -2, 1})
  \cup Jumps("JCC", {-4, -2, 1})

Texts(n, slots) ==
  [len : {n}, tail : {0}, before : {Simple("BAD")}, slot : [0..(n - 1) -> slots]]

\* Text sections without a whole slot, and with bytes left over.
OddTexts ==
  {[len |-> n, tail |-> t, before |-> b, slot |-> [j \in 0..(n - 1) |-> Simple("EXIT")]] :
     n \in {0, 1}, t \in {0, 3}, b \in {Simple("EXIT"), Simple("BAD")}}

AllPrograms == UNION {Texts(n, AllSlots) : n \in 1..MaxLen} \cup OddTexts

CompiledPrograms ==
  {p \in UNION {Texts(n, CompiledSlots) : n \in 1..MaxLen} : WellFormed(p)}

AllConfigs == {{}, {"NO_RETURN"}}
=============================================================================
