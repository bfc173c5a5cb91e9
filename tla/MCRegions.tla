----------------------------- MODULE MCRegions -----------------------------
(* A small address space for TLC: two instances, four images, two blocks.   *)
EXTENDS Linker, TLC

CONSTANTS v1, v2

Object(base, len) == [base |-> base, len |-> len]

Added(base, len, flag) == [base |-> base, len |-> len, flag |-> flag]

\* Data and constants, which are tacked on; no bss.
PlainElf ==
  [base |-> 1, data |-> 1, bss |-> 0, rodata |-> 0, names |-> 1, tacked |-> <<1>>, text |-> 1]

\* The padding of data holds the first byte of bss.
BssElf ==
  [base |-> 7, data |-> 1, bss |-> 2, rodata |-> 2, names |-> 0, tacked |-> <<>>, text |-> 1]

\* Not an image of the tool: data is not aligned, and its region with bss is longer
\* than the section.
UnalignedApp == [base |-> 13, data |-> 1, bss |-> 1, rodata |-> 1, text |-> 1]

\* Nothing but code.
CodeApp == [base |-> 17, data |-> 0, bss |-> 0, rodata |-> 0, text |-> 1]

AllElfs == {PlainElf, BssElf}
AllApps == {Linked(e) : e \in AllElfs} \cup {UnalignedApp, CodeApp}
TwoVMs == {v1, v2}
TwoBlocks == {Object(19, 2), Object(21, 4)}
Stacks == (v1 :> Object(25, 1)) @@ (v2 :> Object(26, 1))
OneContext == {Object(27, 1)}
OneExtra == {Added(28, 1, {"READ"})}

AccessAddrs == (-1)..32
\* Memory that containers reach at its own address.
PlainAddrs == 25..28
AllAddrs == 1..28
=============================================================================
