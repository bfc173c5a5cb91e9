--------------------------- MODULE VirtualMachine ---------------------------
(***************************************************************************)
(* The host's VirtualMachine objects (src/VirtualMachine.cpp) with their   *)
(* stores (src/Store.cpp): loading, unloading and running containers.      *)
(*                                                                         *)
(* A machine owns a stack, which it keeps while containers come and go,    *)
(* and an instance, created by load() and destroyed by unload().  What an  *)
(* instance does with memory is the subject of Regions; here it stands for *)
(* the stack it was given, its data block and its local tree.  Containers  *)
(* run inside execute(), and a user call of theirs may run other machines, *)
(* load and unload them.  A machine that runs is neither run again nor     *)
(* loaded nor unloaded, and locals are those of a loaded machine: the      *)
(* class leaves that to its users.                                         *)
(***************************************************************************)
EXTENDS Store, FiniteSets

CONSTANTS
  Containers,
  WithData,    \* the containers with data or bss, which need a block
  StackSizes,
  Errors       \* what bpf_execute_ctx() returns

ASSUME MachineAssumption ==
  /\ IsFiniteSet(Owners)
  /\ WithData \subseteq Containers
  /\ StackSizes \subseteq Nat \ {0}
  /\ 0 \in Errors

\* A null pointer, as instance or as stack.
None == 0

ASSUME NoneAssumption == None \notin Containers

\* RBPF_NO_MEMORY, what execute() returns without an instance.
NoMemory == -100

NoStack == [block |-> None, size |-> 0]

VARIABLES
  inst,       \* the container of the instance of each machine
  given,      \* the stack the instance was created with
  stack,      \* the length of the stack the machine holds
  stackSize,
  lastError,
  ended,      \* history: the error the last execute() ended with since load()
  blocks,     \* how many data blocks are allocated
  calls       \* the machines that run, innermost last

machineVars == <<inst, given, stack, stackSize, lastError, ended, blocks, calls>>
vars == <<storeVars, machineVars>>

Loaded(m) == inst[m] # None

Running == {calls[k] : k \in DOMAIN calls}

Init ==
  /\ StoreInit
  /\ inst = [m \in Owners |-> None]
  /\ given = [m \in Owners |-> NoStack]
  /\ stack = [m \in Owners |-> None]
  /\ stackSize = [m \in Owners |-> 0]
  /\ lastError = [m \in Owners |-> 0]
  /\ ended = [m \in Owners |-> 0]
  /\ blocks = 0
  /\ calls = <<>>

\* Mutant: the flag is not kept.
OpenAlways ==
  /\ initialised' = TRUE
  /\ free' = Fresh(NumValues)
  /\ UNCHANGED <<key, value, ret, out>>

\* check_init(), which only the first load() has something to do for.
CheckInit ==
  /\ initialised' = TRUE
  /\ free' = IF initialised THEN free ELSE Fresh(NumValues)
  /\ UNCHANGED <<key, value, ret, out>>

Held(m) == IF inst[m] \in WithData THEN 1 ELSE 0

\* Mutant: the instance goes without bpf_destroy().
UnloadedNoDestroy(m) ==
  /\ tree' = [tree EXCEPT ![m] = {}]
  /\ lastError' = [lastError EXCEPT ![m] = 0]
  /\ UNCHANGED blocks

\* unload() up to the new value of inst: the local tree and the block go.
Unloaded(m) ==
  /\ tree' = [tree EXCEPT ![m] = {}]
  /\ blocks' = blocks - Held(m)
  /\ lastError' = [lastError EXCEPT ![m] = 0]

Cleared(m) ==
  /\ inst' = [inst EXCEPT ![m] = None]
  /\ given' = [given EXCEPT ![m] = NoStack]

Unload(m) ==
  /\ m \notin Running
  /\ Unloaded(m)
  /\ Cleared(m)
  /\ UNCHANGED <<initialised, free, key, value, ret, out, stack, stackSize, ended, calls>>

\* No execute() since a load(), failed or not.
NotRun(m) == ended' = [ended EXCEPT ![m] = 0]

\* The old stack is released even when no new one can be allocated; stackSize is
\* then not changed.
LoadNoStack(m, size) ==
  /\ m \notin Running
  /\ size # stackSize[m]
  /\ CheckInit
  /\ Unloaded(m)
  /\ Cleared(m)
  /\ NotRun(m)
  /\ stack' = [stack EXCEPT ![m] = None]
  /\ UNCHANGED <<stackSize, calls>>

\* Mutant: the new size is not remembered.
RestackedForgets(m, size) ==
  /\ stack' = [stack EXCEPT ![m] = IF size = stackSize[m] THEN @ ELSE size]
  /\ UNCHANGED stackSize

\* The stack is replaced only when the size differs from the last one.
Restacked(m, size) ==
  /\ stack' = [stack EXCEPT ![m] = IF size = stackSize[m] THEN @ ELSE size]
  /\ stackSize' = [stackSize EXCEPT ![m] = size]

\* Mutant: bpf_destroy() of an instance whose set up failed.
LoadFailsFrees(m, size) ==
  /\ m \notin Running
  /\ CheckInit
  /\ Restacked(m, size)
  /\ tree' = [tree EXCEPT ![m] = {}]
  /\ blocks' = blocks - Held(m) - 1
  /\ lastError' = [lastError EXCEPT ![m] = 0]
  /\ Cleared(m)
  /\ NotRun(m)
  /\ UNCHANGED calls

\* bpf_setup() fails: there is no memory for a container's data block, or there was
\* none for the instance of any container.
LoadFails(m, size) ==
  /\ m \notin Running
  /\ CheckInit
  /\ Restacked(m, size)
  /\ Unloaded(m)
  /\ Cleared(m)
  /\ NotRun(m)
  /\ UNCHANGED calls

\* load() succeeds: a new, zeroed instance is given the stack.
Load(m, c, size) ==
  /\ m \notin Running
  /\ CheckInit
  /\ Restacked(m, size)
  /\ tree' = [tree EXCEPT ![m] = {}]
  /\ lastError' = [lastError EXCEPT ![m] = 0]
  /\ blocks' = blocks - Held(m) + (IF c \in WithData THEN 1 ELSE 0)
  /\ inst' = [inst EXCEPT ![m] = c]
  /\ given' = [given EXCEPT ![m] = [block |-> stack'[m], size |-> size]]
  /\ NotRun(m)
  /\ UNCHANGED calls

\* execute() without an instance returns RBPF_NO_MEMORY at once and leaves
\* lastError as it is.
ExecuteUnloaded(m) ==
  /\ ~Loaded(m)
  /\ ended' = [ended EXCEPT ![m] = NoMemory]
  /\ UNCHANGED <<storeVars, inst, given, stack, stackSize, lastError, blocks, calls>>

\* execute() up to bpf_execute_ctx(), which returns in Return.
Execute(m) ==
  /\ Loaded(m) /\ m \notin Running
  /\ calls' = Append(calls, m)
  /\ UNCHANGED <<storeVars, inst, given, stack, stackSize, lastError, ended, blocks>>

\* Mutant: only failures are noted.
ReturnNotesFailures(err) ==
  /\ calls # <<>>
  /\ LET m == calls[Len(calls)] IN
       /\ lastError' = [lastError EXCEPT ![m] = IF err # 0 THEN err ELSE @]
       /\ ended' = [ended EXCEPT ![m] = err]
  /\ calls' = SubSeq(calls, 1, Len(calls) - 1)
  /\ UNCHANGED <<storeVars, inst, given, stack, stackSize, blocks>>

Return(err) ==
  /\ calls # <<>>
  /\ LET m == calls[Len(calls)] IN
       /\ lastError' = [lastError EXCEPT ![m] = err]
       /\ ended' = [ended EXCEPT ![m] = err]
  /\ calls' = SubSeq(calls, 1, Len(calls) - 1)
  /\ UNCHANGED <<storeVars, inst, given, stack, stackSize, blocks>>

UseStore(t) ==
  /\ \E k \in Keys : Fetch(t, k) \/ \E v \in Values : Update(t, k, v)
  /\ UNCHANGED machineVars

\* The host or a container uses a store: globals at any time, even before the
\* first load(), locals of a machine that is loaded.
UseGlobals == UseStore("global")
UseLocals(m) == Loaded(m) /\ UseStore(m)

Next ==
  \/ \E m \in Owners :
       \/ Unload(m)
       \/ Execute(m)
       \/ ExecuteUnloaded(m)
       \/ UseLocals(m)
       \/ \E size \in StackSizes :
            \/ LoadNoStack(m, size)
            \/ LoadFails(m, size)
            \/ \E c \in Containers : Load(m, c, size)
  \/ \E err \in Errors : Return(err)
  \/ UseGlobals

Spec == Init /\ [][Next]_vars
-----------------------------------------------------------------------------
\* Properties.

\* Every variable has its type.
TypeOK ==
  /\ StoreTypeOK
  /\ inst \in [Owners -> Containers \cup {None}]
  /\ given \in [Owners -> [block : StackSizes \cup {None}, size : StackSizes \cup {0}]]
  /\ stack \in [Owners -> StackSizes \cup {None}]
  /\ stackSize \in [Owners -> StackSizes \cup {0}]
  /\ lastError \in [Owners -> Errors]
  /\ ended \in [Owners -> Errors \cup {NoMemory}]
  /\ blocks \in Nat
  /\ calls \in Seq(Owners)

\* An instance works on the stack its machine holds, not on one that was
\* released, and with its length; that stack is as long as the machine believes,
\* or is missing because an allocation failed (then the next load() with the size
\* before runs without one).
StackMatches ==
  \A m \in Owners :
    /\ stack[m] \in {stackSize[m], None}
    /\ Loaded(m) => given[m] = [block |-> stack[m], size |-> stackSize[m]]

\* Each loaded container with data has a block, and no other blocks are
\* allocated: reloading, failing and unloading neither leak nor free twice.
BlocksAccounted == blocks = Cardinality({m \in Owners : inst[m] \in WithData})

\* getLastError() reports what the last execute() ended with, however calls of
\* machines nest and whatever containers came before: for a loaded machine exactly
\* that, and success before the first call.  A machine without an instance may
\* instead report success for calls that failed (VirtualMachine.cpp:96-98), where
\* VirtualMachine.h promises the error of the last call.
LastErrors ==
  \A m \in Owners :
    IF Loaded(m) THEN lastError[m] = ended[m] ELSE lastError[m] \in {0, ended[m]}
=============================================================================
