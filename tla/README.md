# rBPF: specifications and proofs

TLA+ specifications of the rBPF virtual machine for Sming: the C interpreter
under `bpf/`, the C++ host classes under `src/` and the Python tool under
`tools/`. Paths below are relative to the repository root.

rBPF runs small programs ("containers") compiled to eBPF. A container is a file
image of five parts: header, data, rodata, text, symbols. The host loads it into
an instance (`bpf_t`), gives it a stack and perhaps memory regions, and calls its
entry point. The container can compute, jump, load and store through checked
addresses, and call numbered host functions. Everything runs in one thread: a
host function runs inside the call of the container that invoked it.

## 1. Inventory

| Component | State | Operations | Talks to |
|---|---|---|---|
| Preflight verifier, `bpf/verify.c` | `PREFLIGHT_DONE` flag | `bpf_verify_preflight` | reads text and flags; asks `bpf_get_call` |
| Instruction loop, `bpf/jumptable.c` | `pc`, `regmap`, `branches_remaining` | `bpf_run` | verifier, `bpf_get_mem`, host calls |
| Instances and regions, `bpf/bpf.c` | four regions and a chain, data block, flags | `bpf_setup`, `bpf_destroy`, `bpf_add_region`, `bpf_execute(_ctx)`, `bpf_get_mem`, `bpf_*_allowed` | heap, image, loop |
| Host calls, `src/call.cpp`, `src/appcode/call.cpp` | none | `bpf_memcpy`, `bpf_fetch_*`, `bpf_store_*`, `bpf_printf`, `bpf_now_ms` | `bpf_*_allowed`, store |
| Key-value store, `bpf/store.c` | `_global` tree, `bpf_t.btree` of each instance, node pool | update, fetch, iterate | tree, pool |
| Balanced tree, `bpf/btree.c` | nodes with left, right, parent, key | find, insert, remove, traverse | caller's nodes |
| Node pool, `bpf/memarray.c` | free list through the elements | init, alloc, free, extend, reduce | - |
| `VirtualMachine`, `Store`, `src/*.cpp` | `inst`, `stack`, `stackSize`, `lastError`, `initialised` | load, unload, execute, locals, globals | all of `bpf.h` |
| Tool, `tools/rbpf/rbf.py` | file image | layout, relocation | image as `bpf.h` reads it |
| Tool, `tools/rbpf/instructions.py` | opcode tables | encode, print | must agree with the jump table |

What is hard here. There is no concurrency and no persistence; what a unit test
hardly reaches is

* *agreement of two passes over one text*: the verifier decides once, and the
  loop trusts its verdict for the rest of the instance's life;
* *boundaries*: jump targets checked before the last increment, sizes cut to 8
  bits, sections rounded up to 4 bytes, a budget that wraps below zero;
* *long sequences of legal calls*: set up that fails half way, destroy, set up
  again with another application on a recycled heap block, a call with a context
  followed by one without;
* *two address spaces*: data and bss are addressed where they lie in the image
  and live in a heap block, and host calls must not confuse the two;
* *a shared pool*: the store's nodes are shared by all instances, readers
  allocate, and nobody returns a node.

`PROJECT.json` lists these hazards one by one, at their lines, with the
properties that cover them.

What makes each component correct:

* verifier: no text is executed unless every slot of it that the verifier looks at
  was found sound; a rejected text stays rejected;
* loop: control rests only on starts of instructions; a call ends; the caller's
  result is stored by executed calls only;
* regions: an instance reaches its own stack and data, its rodata for
  reading, its current context and the regions it was given, nothing else; its data
  is its own; no block is leaked or freed twice; images are never modified;
* store: each of the maps behaves as a map until the pool is used up, and
  failing calls change nothing; a node is in one tree or in the pool;
* tree: ordered, balanced within one level, parent links consistent, traversal
  in order;
* pool: the free list holds each free element once;
* `VirtualMachine`: what load established, unload takes down; `getLastError`
  tells how the last run of the container that is loaded ended;
* tool: each reference to a variable or a constant leads, through the regions of
  an instance, to that variable or constant; the tool decodes what the
  interpreter runs.

## 2. Plan

| # | Modules | Content | State |
|---|---|---|---|
| 1 | `Execution`, `Interpreter`, `MCInterpreter`, `InterpreterProofs` | verifier and loop; they implement the promise of `bpf_execute` | done |
| 2 | `Regions`, `MCRegions`, `RegionsProofs` | instances, regions, memory, pointer-writing host calls | done |
| 3 | `Dictionary`, `BTree`, `BTreeProofs` | the tree with rebalancing and removal, refining a set of keys | done |
| 4 | `Memarray`, `KVStore`, `Store`, `StoreProofs` | free list and store over pool and trees, refining maps over a shared room; nodes lost with `bpf_destroy` | done |
| 5 | `VirtualMachine`, `MCVirtualMachine`, `VirtualMachineProofs` | load, unload, execute, initialisation and stores; composed with `Store` | done |
| 6 | `Alu`, `MCAlu`, `AluProofs`, `Induction` | instruction results and branches at a scaled word width against the instruction set; the two opcode tables | done |
| 7 | `Linker`, `LinkerProofs` | layout and relocation of the tool, composed with the regions of an instance | done |

Left: the rest of the pool (`memarray_reduce`); an instance executed inside its own
call.

How the modules fit together: `VirtualMachine` extends `Store`, which uses
`Memarray`; what an instance does with memory is `Regions`, which `Linker`
extends by the images the tool makes; what a container does between entry and
return is `Interpreter`, and what one of its instructions computes `Alu`.

## 3. Modules and code

### Execution

What `bpf_execute()` promises, without an instruction set: a call on a container
not accepted yet checks it and may reject it, leaving the caller's `*result`
alone; a container that is accepted runs, now and in every later call, and the
call stores a result. `work` is the number of steps a bounded call may still
take; each step of such a call lowers it.

### Interpreter (`bpf/verify.c`, `bpf/jumptable.c`)

One instance, called any number of times. `prog` is its text section, a function
from slots (8 bytes, numbered from 0) to instructions, together with what follows
the last whole slot (`tail`) and what precedes the first (`before`, which the
verifier reads when the text is empty). `flags` holds the configuration flag
`NO_RETURN` and `PREFLIGHT_DONE`; `status` says where `bpf_run()` is; `i` is the
verifier's loop variable and `pc` the loop's; `branches_remaining`, `res` and
`result` are the code's.

| Code | Actions |
|---|---|
| entry of `bpf_run`, first checks of the verifier | `RunVerified`, `RunBadLength`, `RunUnverified` |
| one turn of the verifier's loop | `VerifyNext`, `VerifyReject` |
| after the loop | `VerifyNoReturn`, `VerifyAccept` |
| one instruction that goes on | `Step`, `StepWide`, `JumpNotTaken`, `JumpTaken` |
| one instruction that ends the call | `JumpOutOfBranches`, `Fail`, `Return` |
| decoding memory that is no part of the text, or using a register that does not exist | `Stray`, into the status `undefined`, which has no next step |

Abstractions. Register contents are not modelled: a conditional jump goes either
way, a division may fail, a memory access may be denied. An opcode is one of
eleven classes, `LDDWX` being LDDWD and LDDWR, `BAD` and `BADJ` the opcodes
without a jump table entry. Register numbers are legal or not. The offset is
an integer, and jumps count in slots as pointer arithmetic on
`bpf_instruction_t*` does.

Properties speak of *layouts*: the sets of slots at which the instructions of a
compiled text can start. A text is *closed* under a layout if every successor of
an instruction is one. `PcOnInstruction` is about closed texts, which is what compilers
make; `NeverRunsUnsound` is about all texts. Of those it says what the sweep over the
text establishes: `LookedAt` and `Skipped` follow the pairs of an LDDW and the slot
behind it through each row of LDDWs, and only a skipped slot may be unsound.

### Regions (`bpf/bpf.c`, `src/call.cpp`)

Any number of instances, applications and heap blocks. Memory, `mem`, maps the
addresses of images and blocks to tags that tell where a byte came from: a section
of an image, the memset of bss, the instance that wrote it, or nobody. `stack`,
`data`, `rodata`, `arg` are the four regions of each instance and `extra` those chained
behind `arg_region`; `app` and `setup` stand for the application pointer and
`SETUP_DONE`; `running` and `ctx` describe the call in progress; `heap` is the
set of allocated blocks. `added` is a history variable, no part of the code's state: the
regions the owner of each instance added since it set the instance up, by which
`Isolation` tells its own regions from those of others.

| Code | Actions and operators |
|---|---|
| `bpf_setup` | `Setup` (data is copied), `SetupNoData` (nothing to copy), `SetupNoMemory` (`malloc` fails) |
| `bpf_destroy` | `Destroy` |
| `bpf_add_region` | `AddRegion` |
| `bpf_execute`, `bpf_execute_ctx`, their return | `Execute`, `ExecuteCtx`, `Finish` |
| `bpf_get_mem`, `bpf_store_allowed`, `bpf_load_allowed` | `GetMem`, `StoreAllowed`, `LoadAllowed` |
| ST and STX instructions | `Store` |
| `bpf_memcpy`, `bpf_fetch_local/global` | `Memcpy`, `Fetch` |

`malloc` hands out any free block that is long enough; `free` makes its content
arbitrary (`junk`). The `uint8_t` size parameter (`% SizeMod`) and the wrapping
`addr + size` (`End`) are modelled. `setup[v]` guards the calls that the
assertion in `_execute` guards. Preconditions taken from `bpf.h`: an instance is
zeroed before `bpf_setup` and set up once; one call per instance at a time; an
added region structure is not in the chain yet.

### Dictionary and BTree (`bpf/btree.c`)

`Dictionary` is what a sorted tree promises: a set of keys that changes by one key
at a time. `BTree` is the tree as a heap of nodes: `tree` holds the root pointer
and the `left`, `right` and `parent` pointers of all nodes, and a key stands for the
node that carries it. An operation of the interface is one action; inside, the
operators follow the code's functions name by name (`FindKey`, `WalkStep` for a turn of the loop
of `btree_traverse`, `MaxPath`, `RotateLeft`, `Balance`, `Replacement`, ...) and take and
return the whole heap, so that pointers a function forgets to update stay
wrong. A node keeps its pointers while it is in no tree; whether its owner clears
it when it gets it back is the constant `Cleared`. The set of keys of
`Dictionary` is what a search finds.

Each loop of the code is a number of `Rounds` of its body, which leaves a finished state
alone: as many as there are keys for a search, three times as many for a walk, which enters
a node from above and from either side, and four times as many for the balancing, which
climbs and goes down again by one step for each rotation. These numbers are no bounds on
the code: the proofs show that in a balanced tree every loop has ended by then.

### Memarray, KVStore and Store (`bpf/memarray.c`, `bpf/store.c`)

`Memarray` holds the operators of the pool: the free list is the sequence of free
elements from its head on. `Store` is the state of the store: `free`, the
contents `key` and `value` of the nodes, `tree` (which nodes each tree holds), and
what the last operation left with its caller, `ret` and `out` (`*value`; unset
after an update, which has none, so that a fetch is seen to write it).

| Code | Actions and operators |
|---|---|
| `bpf_init`, `bpf_store_init` | `Open` |
| `_alloc_value` | `AllocValue` |
| `_store_value`, `bpf_store_update_*` | `Update` |
| `_fetch_value`, `bpf_store_fetch_*` | `Fetch` |
| the `memset` of `bpf_destroy` | `DropTree` |

A tree is the set of its nodes: `BTree` is about the pointers, and a tree that
is only inserted into, as the store's are, is shown there to be a sorted
dictionary. `KVStore` is what `store.h` promises: a map for each instance and a
global one, in a room they share; a missing key that is fetched is added with 0;
when the room is used up new keys are refused, and nothing but `*value` changes.
The refinement maps a tree to the pairs in its nodes and the free list to its length.

### VirtualMachine (`src/VirtualMachine.cpp`, `src/Store.cpp`, `src/init.cpp`)

Any number of machines. `inst` is the container of the instance of a machine,
`given` the stack the instance was created with, `stack` and `stackSize` are the
members of the class, `lastError` too; `blocks` counts allocated data blocks; `calls`
is the C++ call stack, as machines: a container may call a host function that
runs another machine. `ended` is a history variable: the error with which the last
`execute` of each machine since its last `load` ended, `RBPF_NO_MEMORY` included.

| Code | Actions |
|---|---|
| `load` | `Load`; `LoadNoStack` and `LoadFails` (no instance, or `bpf_setup` fails) for its failures |
| `unload` and the destructor | `Unload` |
| `execute` | `Execute` up to `bpf_execute_ctx`, `Return` after it; `ExecuteUnloaded` without an instance |
| `globals`, `locals` | `UseGlobals`, `UseLocals` |

Preconditions, left to the users of the class by its code: a machine that runs
is neither run again nor loaded nor unloaded; locals are those of a loaded
machine.

### Alu (`bpf/jumptable.c`, `tools/rbpf/instructions.py`)

One instruction over registers with arbitrary contents: `JumpTable` decodes the
opcode, `AluStep`, `WideStep`, `JumpStep` and `Invalid` are the handlers. `Half`
is the width of `uint32_t`, registers have twice as many bits; conversions between
signed and unsigned, 32 and 64 bits are done where C does them, and what C leaves
undefined (shift counts, negation of the minimum, a 32-bit division by zero that
the check on the whole register let through) gives any value. The reference
definitions, `IsResult` and the right side of `Branches`, speak of the bits of the
operands and of no conversion. The operators `&`, `|` and `^` of C are constants, of which
`BitsAssumption` says what they do to each bit; `MCAlu` gives them TLC's. `JumpTable` is
the interpreter's table, `ToolTable` the dictionary of the tool: an entry's operation
and operand are those of its class, the size of a load or store is the one the
tool reads from the opcode (`ToolSize`). How the tool spells an operation is left out;
it prints ARSH like RSH and a signed comparison like the unsigned one.

### Linker (`tools/rbpf/rbf.py`)

`Linked` is the image the tool makes of an ELF file: section lengths, what is
tacked on rodata, the padding to 8. `Offset` is the immediate that `_patch_text`
writes for a reference, `AddressOf` the address LDDWD and LDDWR make of it at
run time. The images of `MCRegions` are made with `Linked`, so `References`
follows a reference through the tool, the header, `bpf_setup` and `bpf_get_mem`.
The accumulation over the rodata symbols (`RodataBefore`) is a recursive function.

## 4. Runs

| Run | Shows |
|---|---|
| `text` | For every text of up to three slots, compiled or not (and texts of no slot, or with bytes left over), with and without `NO_RETURN`: `NeverRunsUnsound`, `PcOnInstruction`, `StrayOnlyAtEnd`, `RejectedForGood`. |
| `contract` | For every closed text of up to four slots: `KeepsPromise` (the interpreter implements `Execution`) and `Terminates`. |
| `isolation` | Two instances, four applications (data and constants; bss behind unaligned data; data not aligned, as the tool never makes it; code only), two blocks, one context, one added region: `RegionsMatch`, `Isolation`, `HeapAccounted`, `OwnData`, `ImageIntact`, `RodataProtected`, `References`. |
| `vm` | Two machines, one container with data, two stack sizes, two keys, two values, a pool of two nodes: `NodesOwned`, `StackMatches`, `BlocksAccounted`, `LastErrors`, `IsKVStore`. |
| `alu` | All 256 opcodes with all operands of 6-bit registers and 3-bit immediates: `Computes`, `Loads`, `Branches`, `TablesAgree`. |
| `tree` | Nine keys inserted in every order, mixed with removals from trees of at most three keys: `Linked`, `InOrder`, `Balanced`, `IsDictionary`. |
| `pc_in_text` | Violated: about.rst's promise that control stays in the text section, by a jump in a text that has no double-length instruction and ends with a return. |
| `image` | Violated: bpf.h's promise that data is copied so that container code is not modified, once containers pass pointers into data to host calls. |
| `read_only` | Violated: bpf.h's promise that a read-only region refuses writes, for an application with bss. |
| `allowed` | Violated: bpf.h's description of `bpf_store_allowed` as a check of the given block, for sizes above 255. |
| `removal` | Violated: btree.h's promise that a traversal visits the keys in ascending order, after a removal from a tree of four. |
| `leak` | Violated: bpf.h's promise that `bpf_destroy` releases what an instance used. |

Bounds and why they are enough.

* `MaxLen` 3 (`text`), 4 (`contract`): three slots hold a double-length
  instruction followed by a target, jumps over and behind both ends, and a jump
  into a second half; four hold a loop with a double-length instruction in it
  and an exit behind it. Offsets go from before the first to behind the last
  slot. The proofs remove the bound.
* `BranchesAllowed` 2 for 200, `UintMod` 8 for 2^32: the budget is used up and
  wraps within a call.
* Addresses up to 28, with `IntMax` 32: the images, the blocks, the stacks, the
  context and the added region, with a few addresses around them so that
  requests below, above, across two objects, and across the top of the address
  space occur. `MemTop` 25 ends the part of memory whose content is tracked, images and
  blocks; stacks, contexts and added regions are written without a record.
* `Align` 2 for 4, `Pad` 2 for 8, `SizeMod` 3 for 2^8, `HeaderLen` 1 for 32,
  `FetchLen` 1 for 4: each rounding and truncation occurs. Accesses have length 2;
  passed sizes are 1 and 2 in `isolation` (within `uint8_t`), 4 in `allowed` (beyond it).
  Blocks of 2 and 4 bytes: one of them is too short for an application.
* In `vm` the pool is used up by two keys, which may be in one tree, in two, or
  lost with an instance; two stack sizes give a stack that is kept, replaced
  and missing. The only container has data; containers without are covered by the
  theorems. Machines are symmetric: no definition tells them apart.
* `Half` 3 in `alu`: a register of 6 bits has a low half with and without its
  sign bit, immediates of both signs, and shifts up to and beyond each width.
  `Alu32` is TRUE, so that the 32-bit instructions are in the table; `Base` 21 is an address with
  bits in both halves.
* `MaxExtras` 1 region added to an instance.
* In `isolation` the addresses passed to host calls (`PassedAddrs`) are those of
  memory that has one address only; `image` shows why that restriction is needed.
  In `RodataProtected` the restriction is to applications whose data region ends with their data section
  (`Compact`); `read_only` shows why.
* Nine keys in `tree`: rotations at inner nodes, with subtrees that change
  sides on both sides, need six or seven; trees reach four levels. `MaxKey` is above
  all keys and 0 below, as the searches for the extremes assume.
* `RemoveBound` 3 in `tree`: trees from which removal is correct; 4 in
  `removal`. The library itself never removes a key. `Cleared` is TRUE: the store, the only user, never reuses a node.

Deadlock is checked except in `text` and `pc_in_text`, where a call that left
the text has no defined next step, and in `alu`, which ends with the instruction
that fails.

Fairness. `FairSpec` asks for weak fairness of the verifier's and the loop's
steps: `bpf_run()` runs on the caller's stack and nothing else can run until it
returns, so a step that can be taken is taken. Entering a call is not fair:
the owner may stop calling.

Mutants. For every property of a passing run a mutated definition stands next
to the original, marked as such; with it the property is violated. They are the
plausible slips: a dropped lower bound, an unchecked call number, a second slot not
skipped, a flag set too early, a region or a block that survives `bpf_destroy`,
a context that survives its call, a parent pointer that a rotation forgets, an
unsigned comparison, bss believed to start at the data section, a pool
initialised twice.

## 5. Theorems

`tlapm` checks them for every value of the constants under the assumptions named
in the modules (`ProgramsAssumption`, `ConfigsAssumption`, `LimitsAssumption`;
`SizesAssumption`, `ObjectsAssumption`, `DisjointAssumption`; `StoreAssumption`,
`MachineAssumption`, `NoneAssumption`; `KeysAssumption`; `AluAssumption`, `BitsAssumption`), which say
that programs are well typed, limits are positive and fit their width, distinct objects
do not overlap, there are finitely many machines, keys are numbers up to UINT32_MAX, and `&`, `|`, `^` work bit by bit.

`Induction` has what the proofs about recursive functions need: induction stated for
sets of naturals (`Inductive`), derived from well-foundedness of Nat, and the existence
of a function given by its value at 0 and a step (`IterationExists`), which lets a
recursive function be unfolded.

`InterpreterProofs`:

* `TypeCorrect`, `SoundExecution`, `ControlFlow`, `StraysOnlyAtEnd`, `RejectionIsFinal`: the invariants of the run `text`, for programs of any length.
  `NeverRunsUnsound` and `PcOnInstruction` are not inductive: while the verifier
  is at slot `i` nothing says yet that what lies behind is sound. `SafetyInv`
  adds `Swept` (everything the verifier has passed is sound or skipped, and `i` is not
  at the second slot of a pair) and `StartsAtZero`. That the verifier
  rejects each unsound slot it looks at is `CheckedIsSound`; which slots these are is read off
  the text alone (`RunGrows`, `PairSkipped`), and in a text with a layout every
  start of an instruction is among them (`LayoutLookedAt`), so that `PcOnInstruction`
  follows from the same sweep.
* `KeepsPromiseAlways`: the interpreter implements `Execution`. The mapping
  gives a call the work `Fuel`: a whole pass over the text for every jump left,
  the rest of the pass, and the verifier's remaining slots. Every action
  maps to a step of `Execution` or to a stutter; a taken jump pays for the pass
  it starts.

`RegionsProofs`:

* `TypeCorrect`, `RegionsAlwaysMatch`, `HeapAlwaysAccounted`: `RegionsMatch` and
  `HeapAccounted` are inductive only together: that a set up takes a block
  nobody holds needs the accounting, and that destruction frees the instance's own
  block needs the match.
* `AlwaysIsolated`: what a region grants lies in the object it was made from
  (`GrantedByRegion`), and by `RegionsMatch` that object is the instance's own; the chain
  behind `arg_region` holds only what was added to this instance since its set up
  (`AddedMatches`).
* `RodataAlwaysProtected`: a write is granted by the first matching region of
  the chain; stack and data lie elsewhere, and rodata itself comes before every
  region that could grant it.
* `ImagesStayIntact`, `DataStaysOwn`: each write of the model goes to an address
  the instance was granted, and by `RegionsMatch` that is its stack, its block, a
  context or an added region, none of which is in an image or a foreign block.
  Two hypotheses restrict the instances. `NoWrap`: no access wraps around the top
  of the address space, where the signed overflow of `bpf_get_mem` leaves the
  outcome to the build. `PassedClear`: the pointers passed to host calls lie
  in no image and no block, without which `image` shows the first theorem wrong.

`LinkerProofs`:

* `ReferencesHold`: every reference the tool writes into a text leads to the variable
  or constant it names, in the instance's block or in the image, and to nothing else.
  The sums of `RodataBefore` place each constant apart from the others; `RegionsMatch` says
  that the data region starts where the header puts it and is as long as the block's content;
  `RodataFound` says which region answers. Beyond `NoWrap` and `PassedClear` it needs
  `BssClear`: the addresses of bss, which lie behind the data section in the image or
  beyond its end, are not those of the stack, because `bpf_get_mem` asks the stack first and
  nothing in the code keeps the two apart. `RegionsMatch` was strengthened for this proof
  by the length of the block (`DataLen(app[v]) <= b.len`).

`BTreeProofs`, for every set of keys:

* `LinkedAlways`, `InOrderAlways`, `BalancedAlways`, `ImplementsDictionary`. The inductive
  invariant, `BalancedTree`, says that the heap is a levelled tree of some set of keys: there
  is a map `S` from each node to the keys below it that agrees with the pointers, the parents
  and the order (`Forest`), and a map `H` from each node to its height, the heights of two
  sides differing by at most one (`Level`). It quantifies over all such maps, so TLC checks
  what follows from it, the four properties, rather than the invariant itself.
* *Walks.* A traversal from a node lists what is below it in order, in at most three steps
  a node, and its greatest depth is the height; a search for a key ends at it, or at the node a new
  key is attached to. Heights are unique, so what `_max_path` measures is `H`.
* *Rotations.* They change `S` at two nodes only (`Rotated`). What holds of one side
  holds of the other by the tree mirrored (`Mirror`), which swaps left and right and reverses
  the order.
* *Balancing.* While `_balance` climbs, one node `c`, the one it comes from, is higher than the nodes
  above it know (`Count`), and no other node is out of balance. Each round moves this node up
  or ends the growth; after a rotation there is nothing left to fix, and the loop goes down one step
  and up to the root. That the code's `childBalance` is the balance of `c` is part of the argument.
* *Removal.* The library never removes a node, and removal from larger trees is wrong
  (section 6). The hypothesis `RemovesLittle` admits what is right: removal of the last node,
  or from trees of up to three nodes, provided that owners clear a node they get back (`Cleared`)
  and that 0 and UINT32_MAX, for which the code searches to find the extremes, are no keys
  (`Extremes`). No part of it can be dropped: without any one of them TLC finds
  `IsDictionary` violated. `RemoveBound = 0` is the tree as the store uses it, for which nothing else
  is assumed.

`AluProofs`, at every width of `uint32_t` of at least one bit:

* `AlwaysComputes`, `AlwaysLoads`, `AlwaysBranches`: each follows from the types of the
  registers, which C guarantees and no run asks (`TypeOK`, here only a lemma's
  conclusion). The
  lemmas say how bits move under `%`, `\div` and multiplication with a power of two
  (`BitMod`, `BitDiv`, `BitShift`), that a number is determined by its bits
  (`BitsUnique`), and that a shift of a signed number copies its top bit
  (`SignedShift`). The properties are equivalences, so the proofs also show that each
  named deviation is a wrong result and that there are no others.
* `AlwaysAgree`: the parts the two tables share are equal entry by entry (`JumpTableIs`, `ToolTableIs`),
  no shared entry has one of the nine opcodes that differ (`Apart`), and at each of these the
  tables do differ (`Differences`).

`StoreProofs` and `VirtualMachineProofs`:

* `StoreOwnsNodes`, `StoreImplementsMaps`: with `NodesOwned` a search finds at
  most one node, and a node taken from the free list is in no tree; so each
  operation changes the pairs of one map and no other.
* `MachinesAreAStore`: every step of a machine is a step of the store or leaves
  it alone (`Unload` and `Load` drop a tree, the first `Load` also opens
  the pool). What is proved of the store then holds of the machines:
  `MachinesKeepMaps`, `MachinesOwnNodes`.
* `MachineTypes`, `BlocksAlwaysAccounted`: only together, the count staying
  natural because it counts machines with a block. `StacksAlwaysMatch` says
  that the stack is never newer or older than the instance. `LastErrorsAlways` needs that
  what runs is loaded and that `lastError` is 0 without an instance (`ErrorsKept`).

Only model-checked: `Terminates`, liveness being out of the prover's reach. `KeepsPromise` carries the safety half of termination into the proof.

## 6. Disagreements between code and documentation

Six, each shown by a run of its own and quoted in `PROJECT.json`: jump targets
are checked one slot short of where the jump goes (`verify.c:50`); host calls
write through the untranslated pointer (`call.cpp:72`); the data region covers
the addresses of rodata when there is bss (`bpf.c:104`); block sizes are
truncated to 8 bits (`bpf.c:38`); removal takes the wrong node as replacement
(`btree.c:221`); `bpf_destroy` does not return the nodes of the local store (`bpf.c:135`).

Also met, each where a property names it as an exception, without a run of its own:

* *Skipped slots run.* about.rst:30-43 has the checks of the branch and jump code
  keep the application in bounds; the verifier skips the slot behind an LDDW (`verify.c:40-43`) whatever
  it holds, and nothing keeps a jump from going there. A text
  [LDDW; a slot with registers above 10; JA -2] with `BPF_CONFIG_NO_RETURN` is accepted, jumps to
  its slot 1 and executes it, using a register that does not exist (the action `Stray`). `NeverRunsUnsound`
  is exact about it: skipped slots, and no others, may be unsound. Texts that are closed under
  their layout never get there (`PcOnInstruction`).
* *An error that is not reported.* VirtualMachine.h:70 says of `getLastError()`: "Get error code from
  last call to execute()". Without an instance `execute` returns `RBPF_NO_MEMORY`
  and leaves `lastError` at 0 (`VirtualMachine.cpp:96-98`), which is success. `LastErrors` admits 0 or the
  error for a machine without an instance, and only the last error for one that has one.
* *Bytes and words.* The tool takes size bits of 0 for `uint8_t` and 0x10 for `uint32_t`
  (`instructions.py:262-276`), `MEM_OPCODE` (`jumptable.c:102-108`) and the names of the tool's own classes
  the other way round: it prints LDXW as a load of a byte, and so for the six
  loads and stores of bytes and words. `TablesAgree` names their opcodes.

A removed node that is inserted again into an empty tree is linked to its former
parent and lost (`btree.c:185`, against btree.h:67); with `Cleared = FALSE` and `RemoveBound = 2`
TLC finds `IsDictionary` violated. The search for the least or the greatest key below a
node finds nothing when that node has the key 0 or UINT32_MAX itself (`btree.c:80`), so a removal
above it drops the subtree.

about.rst:25-26 says the virtual machine follows the eBPF instruction set of
Linux. The exceptions that `Computes`, `Loads` and `TablesAgree` name are where
it does not: MOV64 keeps the low 32 bits of its operand (`jumptable.c:283`,
`:286`), LDDW or-s a sign-extended low half (`:306`), NEG has the opcode 0x8f
instead of 0x87 (`:140`, through `ALU_OPCODE_REG`), and, with 32-bit instructions enabled, NEG and
ARSH extend the sign of their result (`:271`, `:298`) and the divisions test
the whole register for zero but divide by its low half (`:219`, `:250`). In the
tool, DIV with a register has the opcode of OR (`instructions.py:167`).

An access whose `addr + size` wraps passes the end check of `bpf_get_mem`
(`bpf.c:21`); `End` models it, and `Isolation` is stated for accesses that do not
wrap.

A load whose stack cannot be allocated leaves `stackSize` at its old value
(`VirtualMachine.cpp:62`): the next load with that size runs without a stack.
`StackMatches` allows it, and says that nothing worse happens.

## 7. Not modelled

* `memarray_reduce`, `memarray_available`, `memarray_calloc`: no caller.
* An instance executed inside its own call; a region structure added twice;
  locals of a machine without an instance; entries of a store nobody assigned
  to. The first two are out of what `bpf.h` allows or the library does itself, the others are undefined
  behaviour that no modelled state follows.
* `bpf_printf` and the clock, ELF parsing, dumping, the compressed format and
  command lines, build files, the container-side forwarders and the samples:
  input, output and forwarding.
