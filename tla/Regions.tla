------------------------------ MODULE Regions ------------------------------
(***************************************************************************)
(* The memory of container instances (bpf/bpf.c) and the host calls that   *)
(* write through a container's pointer (src/call.cpp).                     *)
(*                                                                         *)
(* An instance sees memory through a chain of regions: stack, data and     *)
(* bss, rodata, the context of the current call, and the regions its owner *)
(* added, newest first.  Data and bss live in a heap block and are reached *)
(* through the address their image in the application has; every other     *)
(* region is reached at its own address.                                   *)
(*                                                                         *)
(* Memory is a function from the addresses of images and heap blocks to    *)
(* tags that say where a byte came from: a section of an application       *)
(* image, the memset of bss, the instance that wrote it, or nobody         *)
(* ("junk").                                                               *)
(***************************************************************************)
EXTENDS Integers, Sequences

CONSTANTS
  VMs,          \* the bpf_t instances
  Apps,         \* the application images
  StackOf,      \* the stack of each instance
  Blocks,       \* the blocks malloc() can hand out
  Contexts,     \* the contexts bpf_execute_ctx() is called with
  Extras,       \* the regions bpf_add_region() is called with
  HeaderLen,    \* sizeof(rbpf_header_t)
  Align,        \* what ALIGNUP4 rounds up to, 4
  SizeMod,      \* 2^8, bpf_get_mem() takes a uint8_t size
  FetchLen,     \* sizeof(uint32_t)
  IntMax,       \* INTPTR_MAX
  MemTop,       \* up to where the model keeps the contents of memory
  Addresses,    \* the addresses containers compute
  AccessSizes,  \* the sizes of the ST and STX instructions
  PassedAddrs,  \* the addresses containers pass to host calls
  PassedSizes,  \* the sizes containers pass to bpf_memcpy()
  MaxExtras     \* how many regions an instance is given

NULL == 0

Perms == {"READ", "WRITE"}

Interval(base, len) == base .. (base + len - 1)

\* Objects keep clear of address 0 and of the last bytes of the address space.
IsObject(o) ==
  /\ o.base \in Nat \ {NULL} /\ o.len \in Nat
  /\ o.base + o.len + SizeMod <= IntMax

IsApp(p) ==
  /\ p.base \in Nat \ {NULL}
  /\ p.data \in Nat /\ p.bss \in Nat /\ p.rodata \in Nat /\ p.text \in Nat
  /\ p.base + HeaderLen + p.data + p.bss + p.rodata + p.text + Align <= MemTop

ASSUME SizesAssumption ==
  /\ HeaderLen \in Nat \ {0} /\ Align \in Nat \ {0} /\ FetchLen \in Nat \ {0}
  /\ SizeMod \in Nat \ {0, 1} /\ IntMax \in Nat \ {0} /\ MemTop \in 0..(IntMax - SizeMod)
  /\ AccessSizes \subseteq 1..(SizeMod - 1)
  /\ Addresses \subseteq (-IntMax - 1) .. IntMax
  /\ PassedSizes \subseteq Nat /\ PassedAddrs \subseteq 1..IntMax

\* rbpf_data(), rbpf_rodata(), and the end of the image.
DataAddr(p) == p.base + HeaderLen
RodataAddr(p) == p.base + HeaderLen + p.data
TextAddr(p) == RodataAddr(p) + p.rodata
Image(p) == Interval(p.base, HeaderLen + p.data + p.rodata + p.text)

Objects == {StackOf[v] : v \in VMs} \cup Blocks \cup Contexts \cup Extras

Bytes(o) == Interval(o.base, o.len)

ASSUME ObjectsAssumption ==
  /\ \A p \in Apps : IsApp(p)
  /\ \A o \in Objects : IsObject(o)
  /\ \A b \in Blocks : b.len # 0 /\ b.base + b.len <= MemTop
  /\ \A o \in Extras : o.flag \subseteq Perms

\* Different objects share no memory; only a context or an added region may be
\* seen by several instances.
ASSUME DisjointAssumption ==
  /\ \A u, v \in VMs : u # v => Bytes(StackOf[u]) \cap Bytes(StackOf[v]) = {}
  /\ \A v \in VMs, o \in Blocks \cup Contexts \cup Extras : Bytes(StackOf[v]) \cap Bytes(o) = {}
  /\ \A b, c \in Blocks : b # c => Bytes(b) \cap Bytes(c) = {}
  /\ \A b \in Blocks, o \in Contexts \cup Extras : Bytes(b) \cap Bytes(o) = {}
  /\ \A p \in Apps, o \in Objects : Image(p) \cap Bytes(o) = {}
  /\ \A p, q \in Apps : p # q => Image(p) \cap Image(q) = {}

AlignUp(n) == ((n + Align - 1) \div Align) * Align

\* The bytes bpf_setup() asks malloc() for.
DataLen(p) == AlignUp(p.data + p.bss)

Region(start, phys, len, flag) == [start |-> start, phys |-> phys, len |-> len, flag |-> flag]

Blank == Region(NULL, NULL, 0, {})

NoApp == [base |-> NULL]

NoContext == [base |-> NULL, len |-> 0]

VARIABLES
  app,      \* the application of each instance, NoApp when it is zeroed
  setup,    \* BPF_FLAG_SETUP_DONE
  stack, data, rodata, arg,  \* the four regions of each instance
  extra,    \* the regions chained behind arg_region
  added,    \* history: what the owner gave each instance since it set it up
  running,  \* the instances with a call in progress
  ctx,      \* the context of the last call of each instance
  heap,     \* the blocks allocated
  mem       \* the tag of each byte

regionVars == <<stack, data, rodata, arg, extra, added>>
vars == <<app, setup, regionVars, running, ctx, heap, mem>>

SectionTag(p, a) ==
  IF a < DataAddr(p) THEN "header"
  ELSE IF a < RodataAddr(p) THEN "data"
  ELSE IF a < TextAddr(p) THEN "rodata"
  ELSE "text"

ImageBytes == UNION {Image(p) : p \in Apps}

ImageTag(a) == SectionTag(CHOOSE p \in Apps : a \in Image(p), a)

Init ==
  /\ app = [v \in VMs |-> NoApp]
  /\ setup = [v \in VMs |-> FALSE]
  /\ stack = [v \in VMs |-> Blank]
  /\ data = [v \in VMs |-> Blank]
  /\ rodata = [v \in VMs |-> Blank]
  /\ arg = [v \in VMs |-> Blank]
  /\ extra = [v \in VMs |-> <<>>]
  /\ added = [v \in VMs |-> {}]
  /\ running = {}
  /\ ctx = [v \in VMs |-> NoContext]
  /\ heap = {}
  /\ mem = [a \in 1..MemTop |-> IF a \in ImageBytes THEN ImageTag(a) ELSE "junk"]

-----------------------------------------------------------------------------
\* The life of an instance.

StackRegion(v) == Region(StackOf[v].base, StackOf[v].base, StackOf[v].len, Perms)

\* Mutant: data is used where it lies in the image.
DataRegionInPlace(p, b) == Region(DataAddr(p), DataAddr(p), DataLen(p), Perms)

DataRegion(p, b) == Region(DataAddr(p), b.base, DataLen(p), Perms)

\* Mutant: the permissions of the other regions.
RodataRegionWritable(p) == Region(RodataAddr(p), RodataAddr(p), p.rodata, Perms)

RodataRegion(p) == Region(RodataAddr(p), RodataAddr(p), p.rodata, {"READ"})

\* Mutant: the memset comes first.
FilledZeroFirst(p, b) ==
  [a \in 1..MemTop |->
     IF a \in Interval(b.base, AlignUp(p.data)) THEN mem[DataAddr(p) + (a - b.base)]
     ELSE IF a \in Interval(b.base + p.data, p.bss) THEN "zero"
     ELSE mem[a]]

\* The block once bpf_setup() copied data into it and zeroed bss: the copy is
\* rounded up, and the memset comes after it.
Filled(p, b) ==
  [a \in 1..MemTop |->
     IF a \in Interval(b.base + p.data, p.bss) THEN "zero"
     ELSE IF a \in Interval(b.base, AlignUp(p.data)) THEN mem[DataAddr(p) + (a - b.base)]
     ELSE mem[a]]

\* The end of bpf_setup().
SetupDone(v, p) ==
  /\ app' = [app EXCEPT ![v] = p]
  /\ stack' = [stack EXCEPT ![v] = StackRegion(v)]
  /\ rodata' = [rodata EXCEPT ![v] = RodataRegion(p)]
  /\ arg' = [arg EXCEPT ![v] = Blank]
  /\ extra' = [extra EXCEPT ![v] = <<>>]
  /\ setup' = [setup EXCEPT ![v] = TRUE]
  /\ UNCHANGED <<added, running, ctx>>

\* bpf_setup() of an instance its owner zeroed but for application and stack.
Setup(v, p, b) ==
  /\ ~setup[v]
  /\ DataLen(p) # 0
  /\ b \notin heap /\ DataLen(p) <= b.len
  /\ heap' = heap \cup {b}
  /\ mem' = Filled(p, b)
  /\ data' = [data EXCEPT ![v] = DataRegion(p, b)]
  /\ SetupDone(v, p)

SetupNoData(v, p) ==
  /\ ~setup[v]
  /\ DataLen(p) = 0
  /\ data' = [data EXCEPT ![v] = Blank]
  /\ SetupDone(v, p)
  /\ UNCHANGED <<heap, mem>>

\* malloc() returns NULL: only the stack region has been set.
SetupNoMemory(v, p) ==
  /\ ~setup[v]
  /\ DataLen(p) # 0
  /\ app' = [app EXCEPT ![v] = p]
  /\ stack' = [stack EXCEPT ![v] = StackRegion(v)]
  /\ UNCHANGED <<setup, data, rodata, arg, extra, added, running, ctx, heap, mem>>

\* The memset of bpf_destroy().
Zeroed(v) ==
  /\ app' = [app EXCEPT ![v] = NoApp]
  /\ setup' = [setup EXCEPT ![v] = FALSE]
  /\ stack' = [stack EXCEPT ![v] = Blank]
  /\ data' = [data EXCEPT ![v] = Blank]
  /\ rodata' = [rodata EXCEPT ![v] = Blank]
  /\ arg' = [arg EXCEPT ![v] = Blank]
  /\ extra' = [extra EXCEPT ![v] = <<>>]
  /\ added' = [added EXCEPT ![v] = {}]
  /\ ctx' = [ctx EXCEPT ![v] = NoContext]

\* The blocks of an instance: the one its data region points to.
Held(v) == {b \in heap : b.base = data[v].phys}

\* free(): what a free block holds is nobody's business.
Free(blocks) ==
  /\ heap' = heap \ blocks
  /\ mem' = [a \in 1..MemTop |-> IF \E b \in blocks : a \in Bytes(b) THEN "junk" ELSE mem[a]]

\* Mutants: the block stays allocated; the regions survive.
DestroyKeepsBlock(v) ==
  /\ app[v] # NoApp /\ v \notin running
  /\ Zeroed(v)
  /\ UNCHANGED <<running, heap, mem>>

DestroyKeepsRegions(v) ==
  /\ app[v] # NoApp /\ v \notin running
  /\ Free(Held(v))
  /\ app' = [app EXCEPT ![v] = NoApp]
  /\ setup' = [setup EXCEPT ![v] = FALSE]
  /\ added' = [added EXCEPT ![v] = {}]
  /\ UNCHANGED <<stack, data, rodata, arg, extra, running, ctx>>

\* bpf_destroy(): free() what data_region points to, then zero the instance.
Destroy(v) ==
  /\ app[v] # NoApp /\ v \notin running
  /\ Free(Held(v))
  /\ Zeroed(v)
  /\ UNCHANGED running

\* Mutant: phys_start is not filled in.
AddRegionNoPhys(v, o) ==
  /\ setup[v] /\ Len(extra[v]) < MaxExtras
  /\ extra' = [extra EXCEPT ![v] = <<Region(o.base, NULL, o.len, o.flag)>> \o @]
  /\ added' = [added EXCEPT ![v] = @ \cup {o}]
  /\ UNCHANGED <<app, setup, stack, data, rodata, arg, running, ctx, heap, mem>>

\* The region as bpf_add_region() chains it.
AddedRegion(o) == Region(o.base, o.base, o.len, o.flag)

AddRegion(v, o) ==
  /\ setup[v] /\ Len(extra[v]) < MaxExtras
  /\ extra' = [extra EXCEPT ![v] = <<AddedRegion(o)>> \o @]
  /\ added' = [added EXCEPT ![v] = @ \cup {o}]
  /\ UNCHANGED <<app, setup, stack, data, rodata, arg, running, ctx, heap, mem>>

\* Mutant: the context of the call before stays mapped.
ExecuteKeepsArg(v) ==
  /\ setup[v] /\ v \notin running
  /\ ctx' = [ctx EXCEPT ![v] = NoContext]
  /\ running' = running \cup {v}
  /\ UNCHANGED <<app, setup, regionVars, heap, mem>>

\* bpf_execute(): phys_start and flag of the argument region keep their values.
Execute(v) ==
  /\ setup[v] /\ v \notin running
  /\ arg' = [arg EXCEPT ![v] = Region(NULL, @.phys, 0, @.flag)]
  /\ ctx' = [ctx EXCEPT ![v] = NoContext]
  /\ running' = running \cup {v}
  /\ UNCHANGED <<app, setup, stack, data, rodata, extra, added, heap, mem>>

ExecuteCtx(v, c) ==
  /\ setup[v] /\ v \notin running
  /\ arg' = [arg EXCEPT ![v] = Region(c.base, c.base, c.len, Perms)]
  /\ ctx' = [ctx EXCEPT ![v] = c]
  /\ running' = running \cup {v}
  /\ UNCHANGED <<app, setup, stack, data, rodata, extra, added, heap, mem>>

\* The call ends, with a result or an error.
Finish(v) ==
  /\ v \in running
  /\ running' = running \ {v}
  /\ UNCHANGED <<app, setup, regionVars, ctx, heap, mem>>

-----------------------------------------------------------------------------
\* Memory access.

\* addr + size, which wraps around the top of the address space.
End(addr, n) == IF addr + n <= IntMax THEN addr + n ELSE addr + n - 2 * (IntMax + 1)

Chain(v) == <<stack[v], data[v], rodata[v], arg[v]>> \o extra[v]

Matches(r, addr, n) == addr >= r.start /\ End(addr, n) <= r.start + r.len

\* The first region that matches decides.
FirstMatch(chain, addr, n) ==
  {k \in DOMAIN chain :
     /\ Matches(chain[k], addr, n)
     /\ \A l \in 1..(k - 1) : ~Matches(chain[l], addr, n)}

\* What bpf_get_mem() returns: the empty set stands for NULL.
GetMem(v, size, addr, type) ==
  LET chain == Chain(v) IN
  {chain[k].phys + (addr - chain[k].start) :
     k \in {m \in FirstMatch(chain, addr, size % SizeMod) : type \in chain[m].flag}}

StoreAllowed(v, addr, size) == GetMem(v, size, addr, "WRITE") # {}
LoadAllowed(v, addr, size) == GetMem(v, size, addr, "READ") # {}

Overwrite(v, base, n) ==
  mem' = [a \in 1..MemTop |-> IF a \in Interval(base, n) THEN v ELSE mem[a]]

OnlyMemChanges == UNCHANGED <<app, setup, regionVars, running, ctx, heap>>

\* A store instruction.  Loads change nothing; a denied access ends the call.
Store(v, addr, n) ==
  /\ v \in running
  /\ \E p \in GetMem(v, n, addr, "WRITE") : Overwrite(v, p, n)
  /\ OnlyMemChanges

\* bpf_memcpy(): the pointers are checked, and used as they were passed.
Memcpy(v, dest, src, size) ==
  /\ v \in running
  /\ StoreAllowed(v, dest, size) /\ LoadAllowed(v, src, size)
  /\ Overwrite(v, dest, size)
  /\ OnlyMemChanges

\* bpf_fetch_local() and bpf_fetch_global() store the value through the pointer,
\* also when the store is full.
Fetch(v, value) ==
  /\ v \in running
  /\ StoreAllowed(v, value, FetchLen)
  /\ Overwrite(v, value, FetchLen)
  /\ OnlyMemChanges

Next ==
  \E v \in VMs :
    \/ \E p \in Apps, b \in Blocks : Setup(v, p, b)
    \/ \E p \in Apps : SetupNoData(v, p) \/ SetupNoMemory(v, p)
    \/ Destroy(v)
    \/ \E o \in Extras : AddRegion(v, o)
    \/ Execute(v)
    \/ \E c \in Contexts : ExecuteCtx(v, c)
    \/ Finish(v)
    \/ \E a \in Addresses, n \in AccessSizes : Store(v, a, n)
    \/ \E d \in PassedAddrs, s \in PassedAddrs, n \in PassedSizes : Memcpy(v, d, s, n)
    \/ \E a \in PassedAddrs : Fetch(v, a)

Spec == Init /\ [][Next]_vars
-----------------------------------------------------------------------------
\* Properties.

RegionType == [start : Int, phys : Int, len : Int, flag : SUBSET Perms]

ExtraRegions == {AddedRegion(o) : o \in Extras}

\* Every variable has its type.
TypeOK ==
  /\ app \in [VMs -> Apps \cup {NoApp}]
  /\ setup \in [VMs -> BOOLEAN]
  /\ {stack, data, rodata, arg} \subseteq [VMs -> RegionType]
  /\ extra \in [VMs -> Seq(ExtraRegions)]
  /\ added \in [VMs -> SUBSET Extras]
  /\ running \subseteq VMs
  /\ ctx \in [VMs -> Contexts \cup {NoContext}]
  /\ heap \subseteq Blocks
  /\ DOMAIN mem = 1..MemTop

\* What the owner gave instance v, as regions.
GivenRegions(v) == {AddedRegion(o) : o \in added[v]}

\* The regions of an instance are those of its application, its stack, its block
\* and its current call, and behind them only what its owner gave to this very
\* instance since it set it up, whatever calls failed or what the instance was
\* used for before; an instance that is not set up has at most a stack, and runs
\* nothing.
Match(v) ==
  /\ setup[v] => app[v] # NoApp
  /\ v \in running => setup[v]
  /\ stack[v] = IF app[v] = NoApp THEN Blank ELSE StackRegion(v)
  /\ rodata[v] = IF setup[v] THEN RodataRegion(app[v]) ELSE Blank
  /\ IF setup[v] /\ DataLen(app[v]) # 0
     THEN \E b \in heap : data[v] = DataRegion(app[v], b) /\ DataLen(app[v]) <= b.len
     ELSE data[v] = Blank
  /\ arg[v].start = ctx[v].base /\ arg[v].len = ctx[v].len
  /\ arg[v].len # 0 => arg[v].phys = arg[v].start
  /\ extra[v] \in Seq(GivenRegions(v))
  /\ ~setup[v] => arg[v] = Blank /\ extra[v] = <<>>

RegionsMatch == \A v \in VMs : Match(v)

\* What instance v was given: n bytes at p lie in one object it may access.
Within(p, n, base, len) == base <= p /\ p + n <= base + len

Given(v, p, n, type) ==
  \/ Within(p, n, StackOf[v].base, StackOf[v].len)
  \/ \E b \in Held(v) : Within(p, n, b.base, b.len)
  \/ type = "READ" /\ Within(p, n, RodataAddr(app[v]), app[v].rodata)
  \/ Within(p, n, ctx[v].base, ctx[v].len)
  \/ \E o \in added[v] : type \in o.flag /\ Within(p, n, o.base, o.len)

\* bpf_get_mem() grants access only to the instance's own stack and block, to
\* the rodata of its application for reading, to the context of its current
\* call and to the regions its owner added to it since it set it up: not to the
\* block of a destroyed or another instance, nor to the context of an earlier
\* call, nor to a region given to another instance or to this one before it was
\* destroyed.  A request that wraps around the top of the address space is not
\* covered: see End.
Isolation ==
  \A v \in VMs, a \in Addresses, n \in 1..(SizeMod - 1), type \in Perms :
    a + n <= IntMax =>
      \A p \in GetMem(v, n, a, type) : setup[v] => Given(v, p, n, type)

\* Every allocated block is the data of exactly one instance: nothing leaks,
\* nothing is shared, and bpf_destroy() frees no block a second time.
HeapAccounted ==
  /\ \A b \in heap : \E v \in VMs : Held(v) = {b}
  /\ \A u, v \in VMs : u # v => Held(u) \cap Held(v) = {}

\* Container code is not modified and instances do not see each other's data:
\* each byte of data and bss is what bpf_setup() put there, the image's data or
\* zero, or was written by the instance itself.
OwnData ==
  \A v \in VMs : data[v].len # 0 =>
    \A k \in 0..(app[v].data + app[v].bss - 1) :
      mem[data[v].phys + k] \in {v, IF k < app[v].data THEN "data" ELSE "zero"}

\* No byte of an application image is ever overwritten.
ImageIntact == \A a \in ImageBytes : mem[a] = ImageTag(a)

\* Each byte of rodata is readable, at its own place, and not writable.
RodataReadOnly(v) ==
  \A a \in Interval(RodataAddr(app[v]), app[v].rodata) :
    GetMem(v, 1, a, "READ") = {a} /\ GetMem(v, 1, a, "WRITE") = {}

\* The data section ends where rodata starts.
Compact(p) == DataLen(p) = p.data

\* Rodata is protected in every application whose data region does not extend
\* beyond the data section of the image.
RodataProtected == \A v \in VMs : setup[v] /\ Compact(app[v]) => RodataReadOnly(v)

\* bpf.h says so of every application.
ReadOnlyRegions == \A v \in VMs : setup[v] => RodataReadOnly(v)

\* bpf_store_allowed() is a check of the whole block: each byte of a permitted
\* block is permitted.
AllowedIsAll ==
  \A v \in VMs, a \in PassedAddrs, n \in PassedSizes :
    StoreAllowed(v, a, n) => \A b \in Interval(a, n) : StoreAllowed(v, b, 1)
=============================================================================
