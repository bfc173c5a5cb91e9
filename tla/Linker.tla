------------------------------- MODULE Linker -------------------------------
(***************************************************************************)
(* How the tool turns an ELF file into an application image                *)
(* (tools/rbpf/rbf.py): the layout of its sections, and the relocations    *)
(* that tell the program where its variables and constants are.            *)
(*                                                                         *)
(* The tool and the interpreter never meet: bpf_setup() lays out data and  *)
(* bss by the lengths in the header, the tool computed offsets before it   *)
(* rounded these lengths up.  A program finds its variables only when both *)
(* agree, which References states of the instances of Regions.             *)
(***************************************************************************)
EXTENDS Regions

CONSTANTS
  Elfs,  \* the ELF files, each with the address its image is put at
  Pad    \* what section lengths are rounded up to, 8

\* The lengths of the sections of an ELF file; names are those of its global
\* functions, and each relocation to a .rodata.* section tacks a copy of it on.
IsElf(e) ==
  /\ {e.data, e.bss, e.rodata, e.names, e.text} \subseteq Nat
  /\ e.tacked \in Seq(Nat)

ASSUME ElfsAssumption == Pad \in Nat \ {0} /\ \A e \in Elfs : IsElf(e)

\* _round_len()
Rounded(n) == ((n + Pad - 1) \div Pad) * Pad

\* The lengths of rodata before each section is tacked on, and after the last.
RodataBefore(e) ==
  LET upTo[k \in 1..(Len(e.tacked) + 1)] ==
        IF k = 1 THEN e.rodata + e.names ELSE upTo[k - 1] + e.tacked[k - 1]
  IN upTo

\* from_elf() and format(): what the header of the image says.
Linked(e) ==
  [base |-> e.base,
   data |-> Rounded(e.data),
   bss |-> e.bss,
   rodata |-> Rounded(RodataBefore(e)[Len(e.tacked) + 1]),
   text |-> e.text]

\* Where in a section the program refers to: one byte of an object, its own offset
\* and the addend in the instruction taken together.
Symbols(e) ==
  [section : {"data"}, of : {0}, at : 0..(e.data - 1)]
  \cup [section : {"bss"}, of : {0}, at : 0..(e.bss - 1)]
  \cup [section : {"rodata"}, of : {0}, at : 0..(e.rodata - 1)]
  \cup UNION {[section : {"tacked"}, of : {k}, at : 0..(e.tacked[k] - 1)] : k \in DOMAIN e.tacked}

\* Mutant: bss is thought to start with the data region.
OffsetNoData(e, s) == IF s.section = "tacked" THEN RodataBefore(e)[s.of] + s.at ELSE s.at

\* _patch_text(): the immediate of the patched instruction.  bss follows the bytes
\* of data there are, not the rounded ones.
Offset(e, s) ==
  IF s.section = "bss" THEN e.data + s.at
  ELSE IF s.section = "tacked" THEN RodataBefore(e)[s.of] + s.at
  ELSE s.at

\* LDDWD and LDDWR add the address of the data or the rodata section.
AddressOf(e, s) ==
  Offset(e, s) +
    (IF s.section \in {"data", "bss"} THEN DataAddr(Linked(e)) ELSE RodataAddr(Linked(e)))
-----------------------------------------------------------------------------
Instance(v, e) == setup[v] /\ app[v] = Linked(e)

\* Rodata that the data region covers, at whose addresses bss is found.
Covered(e, s) ==
  s.section \in {"rodata", "tacked"} /\ Offset(e, s) < DataLen(Linked(e)) - Linked(e).data

\* Where symbol s of an instance is found.
Seen(v, e, s) == GetMem(v, 1, AddressOf(e, s), "READ")

\* What is found there before the instance writes it: the bytes of data are as in
\* the image, bss is zero, be it from the padding of data or from memset, and
\* constants stay where they are in the image.
Sound(v, e, s) ==
  \E p \in Seen(v, e, s) :
    /\ Seen(v, e, s) = {p}
    /\ s.section = "data" => mem[p] \in {v, "data"}
    /\ s.section = "bss" => mem[p] \in {v, "zero"} \/ (mem[p] = "data" /\ s.at < Linked(e).data - e.data)
    /\ IF s.section \in {"data", "bss"} THEN StoreAllowed(v, AddressOf(e, s), 1)
       ELSE mem[p] = "rodata" /\ p = AddressOf(e, s)

\* In every instance of an image the tool made, each variable is readable and
\* writable and starts as the program defines it, each constant is read at its own
\* place, and no two of them share a byte; constants that bss covers are the
\* exception.
References ==
  \A v \in VMs, e \in Elfs :
    Instance(v, e) =>
      LET sound == {s \in Symbols(e) : ~Covered(e, s)}
      IN /\ \A s \in sound : Sound(v, e, s)
         /\ \A s, t \in sound : s # t => Seen(v, e, s) \cap Seen(v, e, t) = {}
=============================================================================
