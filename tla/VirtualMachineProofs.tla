------------------------ MODULE VirtualMachineProofs ------------------------
(* Machines and their stores for any number of machines, containers, stack    *)
(* sizes, nodes, keys and values.                                             *)
EXTENDS VirtualMachine, StoreProofs, FiniteSetTheorems

\* What LastErrors rests on: without an instance, lastError is clear, and what runs
\* has one.
ErrorsKept ==
  /\ \A m \in Owners : lastError[m] = IF Loaded(m) THEN ended[m] ELSE 0
  /\ \A m \in Owners : m \in Running => Loaded(m)

Inv == StoreInv /\ TypeOK /\ StackMatches /\ BlocksAccounted /\ ErrorsKept

(***************************************************************************)
(* What machines do to the store are operations of the store.              *)
(***************************************************************************)

\* Whatever load() and unload() do, the store sees its initialisation or the end
\* of one instance's tree; before the initialisation the tree is empty anyway.
LEMMA LoadingIsStoreStep ==
  ASSUME StoreInv, NEW m \in Owners, CheckInit, tree' = [tree EXCEPT ![m] = {}]
  PROVE  [StoreNext]_storeVars
<1>1. CASE initialised
  <2>1. DropTree(m)
    BY <1>1 DEF CheckInit, DropTree
  <2> QED
    BY <2>1 DEF StoreNext
<1>2. CASE ~initialised
  <2>1. m \in Trees /\ tree[m] = {} /\ tree \in [Trees -> SUBSET Nodes]
    BY <1>2 DEF StoreInv, Unopened, StoreTypeOK, Trees
  <2>2. tree' = tree
    BY <2>1
  <2>3. Open
    BY <1>2, <2>2 DEF CheckInit, Open
  <2> QED
    BY <2>3 DEF StoreNext
<1> QED
  BY <1>1, <1>2

LEMMA MachineIsStoreStep == StoreInv /\ [Next]_vars => [StoreNext]_storeVars
<1> SUFFICES ASSUME StoreInv, [Next]_vars PROVE [StoreNext]_storeVars
  OBVIOUS
<1>1. ASSUME NEW m \in Owners, Unload(m) PROVE StoreNext
  BY <1>1 DEF Unload, Unloaded, DropTree, StoreNext
<1>2. ASSUME NEW m \in Owners, NEW size \in StackSizes, LoadNoStack(m, size)
      PROVE [StoreNext]_storeVars
  BY <1>2, LoadingIsStoreStep DEF LoadNoStack, Unloaded
<1>3. ASSUME NEW m \in Owners, NEW size \in StackSizes, NEW c \in Containers, Load(m, c, size)
      PROVE [StoreNext]_storeVars
  BY <1>3, LoadingIsStoreStep DEF Load
<1>4. ASSUME NEW m \in Owners, NEW size \in StackSizes, LoadFails(m, size)
      PROVE [StoreNext]_storeVars
  BY <1>4, LoadingIsStoreStep DEF LoadFails, Unloaded
<1>5. ASSUME NEW t \in Trees, UseStore(t) PROVE StoreNext
  BY <1>5 DEF UseStore, StoreNext
<1>6. ASSUME NEW m \in Owners, UseLocals(m) PROVE StoreNext
  BY <1>5, <1>6 DEF UseLocals, Trees
<1>7. CASE UseGlobals
  BY <1>5, <1>7 DEF UseGlobals, Trees
<1>8. ASSUME NEW m \in Owners, Execute(m) PROVE UNCHANGED storeVars
  BY <1>8 DEF Execute
<1>11. ASSUME NEW m \in Owners, ExecuteUnloaded(m) PROVE UNCHANGED storeVars
  BY <1>11 DEF ExecuteUnloaded
<1>9. ASSUME NEW err \in Errors, Return(err) PROVE UNCHANGED storeVars
  BY <1>9 DEF Return
<1>10. CASE UNCHANGED vars
  BY <1>10 DEF vars
<1> QED
  BY <1>1, <1>2, <1>3, <1>4, <1>6, <1>7, <1>8, <1>9, <1>10, <1>11 DEF Next

LEMMA StoreInvAlways == Spec => []StoreInv
<1>1. Init => StoreInv
  BY InvInit DEF Init
<1>2. StoreInv /\ [Next]_vars => StoreInv'
  BY MachineIsStoreStep, InvStep
<1> QED
  BY <1>1, <1>2, PTL DEF Spec

\* The stores of the machines together are a store.
THEOREM MachinesAreAStore == Spec => StoreSpec
<1>1. Init => StoreInit
  BY DEF Init
<1> QED
  BY <1>1, StoreInvAlways, MachineIsStoreStep, PTL DEF Spec, StoreSpec

\* Globals and locals of the machines behave as maps over a shared room.
THEOREM MachinesKeepMaps == Spec => IsKVStore
  BY MachinesAreAStore, StoreImplementsMaps

\* No node is in two trees, or in a tree and free.
THEOREM MachinesOwnNodes == Spec => []NodesOwned
  BY StoreInvAlways, PTL DEF StoreInv

(***************************************************************************)
(* Data blocks.                                                            *)
(***************************************************************************)

LEMMA NoneApart == None \notin WithData /\ None \notin Containers /\ WithData \subseteq Containers
  BY NoneAssumption, MachineAssumption

\* Changing the container of one machine changes the number of blocks by what it
\* had and what it gets.
LEMMA BlocksFollow ==
  ASSUME inst \in [Owners -> Containers \cup {None}], BlocksAccounted, NEW m \in Owners, NEW c,
         inst' = [inst EXCEPT ![m] = c],
         blocks' = blocks - Held(m) + (IF c \in WithData THEN 1 ELSE 0)
  PROVE  BlocksAccounted' /\ blocks' \in Nat
<1> DEFINE others == {u \in Owners \ {m} : inst[u] \in WithData}
           before == {u \in Owners : inst[u] \in WithData}
           after == {u \in Owners : inst'[u] \in WithData}
<1>1. IsFiniteSet(others) /\ m \notin others
  BY MachineAssumption, FS_Subset
<1>2. /\ Cardinality(others) \in Nat /\ Cardinality(others \cup {m}) = Cardinality(others) + 1
  BY <1>1, FS_CardinalityType, FS_AddElement
<1>3. before = IF inst[m] \in WithData THEN others \cup {m} ELSE others
  OBVIOUS
<1>4. after = IF c \in WithData THEN others \cup {m} ELSE others
  OBVIOUS
<1>5. blocks = Cardinality(others) + Held(m)
  BY <1>2, <1>3 DEF BlocksAccounted, Held
<1>6. blocks' = Cardinality(others) + (IF c \in WithData THEN 1 ELSE 0)
  BY <1>2, <1>5 DEF Held
<1> HIDE DEF others, after
<1>7. blocks' = Cardinality(after) /\ blocks' \in Nat
  <2>1. CASE c \in WithData
    BY <1>2, <1>4, <1>6, <2>1
  <2>2. CASE c \notin WithData
    BY <1>2, <1>4, <1>6, <2>2
  <2> QED
    BY <2>1, <2>2
<1> QED
  BY <1>7 DEF BlocksAccounted, after

(***************************************************************************)
(* The invariant of the machines.                                          *)
(***************************************************************************)

LEMMA MachineInit == Init => Inv
<1> SUFFICES ASSUME Init PROVE Inv
  OBVIOUS
<1>1. StoreInv
  BY InvInit DEF Init
<1>2. {m \in Owners : inst[m] \in WithData} = {}
  BY NoneApart DEF Init
<1>3. BlocksAccounted /\ blocks \in Nat
  <2>1. Cardinality({m \in Owners : inst[m] \in WithData}) = 0
    BY <1>2, FS_EmptySet
  <2> QED
    BY <2>1 DEF Init, BlocksAccounted
<1>4. calls \in Seq(Owners) /\ Running = {}
  BY EmptySeq DEF Init, Running
<1>5. TypeOK
  BY <1>1, <1>3, <1>4, MachineAssumption DEF Init, TypeOK, StoreInv, NoStack, None
<1>6. StackMatches /\ ErrorsKept
  BY <1>4 DEF Init, StackMatches, ErrorsKept, Loaded, None
<1> QED
  BY <1>1, <1>3, <1>5, <1>6 DEF Inv

\* unload(), and load() that fails: the machine is left without an instance, its
\* stack released, kept or replaced.
LEMMA UnloadedKept ==
  ASSUME Inv, StoreInv', NEW m \in Owners, m \notin Running, Unloaded(m), Cleared(m), UNCHANGED calls,
         UNCHANGED ended \/ NotRun(m),
         \/ UNCHANGED <<stack, stackSize>>
         \/ stack' = [stack EXCEPT ![m] = None] /\ UNCHANGED stackSize
         \/ \E size \in StackSizes : Restacked(m, size)
  PROVE  Inv'
<1>1. /\ stack' \in [Owners -> StackSizes \cup {None}]
      /\ stackSize' \in [Owners -> StackSizes \cup {0}]
  <2>1. stack \in [Owners -> StackSizes \cup {None}] /\ stackSize \in [Owners -> StackSizes \cup {0}]
    BY DEF Inv, TypeOK
  <2>2. CASE UNCHANGED <<stack, stackSize>>
    BY <2>1, <2>2
  <2>3. CASE stack' = [stack EXCEPT ![m] = None] /\ UNCHANGED stackSize
    BY <2>1, <2>3
  <2>4. ASSUME NEW size \in StackSizes, Restacked(m, size)
        PROVE  /\ stack' \in [Owners -> StackSizes \cup {None}]
               /\ stackSize' \in [Owners -> StackSizes \cup {0}]
    BY <2>1, <2>4 DEF Restacked
  <2> QED
    BY <2>2, <2>3, <2>4
<1>2. \A u \in Owners \ {m} : stack'[u] = stack[u] /\ stackSize'[u] = stackSize[u]
  BY DEF Inv, TypeOK, Restacked
<1>3. stack'[m] \in {stackSize'[m], None}
  BY DEF Inv, TypeOK, Restacked, StackMatches
<1>4. /\ inst' = [inst EXCEPT ![m] = None] /\ given' = [given EXCEPT ![m] = NoStack]
      /\ lastError' = [lastError EXCEPT ![m] = 0] /\ blocks' = blocks - Held(m)
  BY DEF Unloaded, Cleared
<1>5. Held(m) \in Int /\ blocks \in Int
  BY DEF Held, Inv, TypeOK
<1>6. BlocksAccounted' /\ blocks' \in Nat
  <2>1. blocks' = blocks - Held(m) + (IF None \in WithData THEN 1 ELSE 0)
    BY <1>4, <1>5, NoneApart
  <2>2. inst \in [Owners -> Containers \cup {None}] /\ BlocksAccounted
    BY DEF Inv, TypeOK
  <2> QED
    BY <1>4, <2>1, <2>2, BlocksFollow
<1>7. NoStack \in [block : StackSizes \cup {None}, size : StackSizes \cup {0}] /\ 0 \in Errors
  BY MachineAssumption DEF NoStack
<1>11. ended' \in [Owners -> Errors \cup {NoMemory}]
  BY <1>7 DEF NotRun, Inv, TypeOK
<1>8. TypeOK'
  BY <1>1, <1>4, <1>6, <1>7, <1>11 DEF Inv, TypeOK, StoreInv
<1>9. StackMatches'
  BY <1>2, <1>3, <1>4 DEF Inv, TypeOK, StackMatches, Loaded
<1>10. ErrorsKept'
  BY <1>4 DEF Inv, TypeOK, ErrorsKept, Loaded, NotRun, Running
<1> QED
  BY <1>6, <1>8, <1>9, <1>10 DEF Inv

LEMMA LoadKept ==
  ASSUME Inv, StoreInv', NEW m \in Owners, NEW c \in Containers, NEW size \in StackSizes,
         Load(m, c, size)
  PROVE  Inv'
<1>1. /\ inst' = [inst EXCEPT ![m] = c]
      /\ given' = [given EXCEPT ![m] = [block |-> stack'[m], size |-> size]]
      /\ lastError' = [lastError EXCEPT ![m] = 0] /\ ended' = [ended EXCEPT ![m] = 0] /\ UNCHANGED calls
      /\ blocks' = blocks - Held(m) + (IF c \in WithData THEN 1 ELSE 0)
  BY DEF Load, NotRun
<1>2. /\ stack' \in [Owners -> StackSizes \cup {None}]
      /\ stackSize' \in [Owners -> StackSizes \cup {0}]
      /\ \A u \in Owners \ {m} : stack'[u] = stack[u] /\ stackSize'[u] = stackSize[u]
      /\ stack'[m] \in {size, None} /\ stackSize'[m] = size
  BY DEF Inv, TypeOK, Load, Restacked, StackMatches
<1>3. BlocksAccounted' /\ blocks' \in Nat
  BY <1>1, BlocksFollow DEF Inv, TypeOK
<1>4. [block |-> stack'[m], size |-> size] \in [block : StackSizes \cup {None}, size : StackSizes \cup {0}]
  BY <1>2
<1>5. given' \in [Owners -> [block : StackSizes \cup {None}, size : StackSizes \cup {0}]]
  BY <1>1, <1>4 DEF Inv, TypeOK
<1>6. TypeOK'
  BY <1>1, <1>2, <1>3, <1>5, MachineAssumption DEF Inv, TypeOK, StoreInv
<1>7. StackMatches'
  BY <1>1, <1>2 DEF Inv, TypeOK, StackMatches, Loaded
<1>8. ErrorsKept'
  BY <1>1, NoneApart DEF Inv, TypeOK, ErrorsKept, Loaded, Running
<1> QED
  BY <1>3, <1>6, <1>7, <1>8 DEF Inv

LEMMA ExecuteKept ==
  ASSUME Inv, StoreInv', NEW m \in Owners, Execute(m)
  PROVE  Inv'
<1>1. calls' = Append(calls, m) /\ calls \in Seq(Owners)
  BY DEF Execute, Inv, TypeOK
<1>2. calls' \in Seq(Owners) /\ Running' \subseteq Running \cup {m}
  BY <1>1, AppendProperties, LenProperties DEF Running
<1> QED
  BY <1>2 DEF Execute, Inv, TypeOK, StoreInv, StackMatches, BlocksAccounted, ErrorsKept, Loaded

LEMMA ExecuteUnloadedKept ==
  ASSUME Inv, StoreInv', NEW m \in Owners, ExecuteUnloaded(m)
  PROVE  Inv'
<1>1. /\ ended' = [ended EXCEPT ![m] = NoMemory] /\ ~Loaded(m)
      /\ UNCHANGED <<inst, given, stack, stackSize, lastError, blocks, calls>>
  BY DEF ExecuteUnloaded
<1>2. ended' \in [Owners -> Errors \cup {NoMemory}]
  BY <1>1 DEF Inv, TypeOK
<1>3. TypeOK'
  BY <1>1, <1>2 DEF Inv, TypeOK, StoreInv
<1>4. StackMatches' /\ BlocksAccounted'
  BY <1>1 DEF Inv, StackMatches, BlocksAccounted, Loaded
<1>5. ErrorsKept'
  <2> SUFFICES ASSUME NEW u \in Owners
               PROVE  lastError'[u] = IF Loaded(u)' THEN ended'[u] ELSE 0
    BY <1>1 DEF Inv, ErrorsKept, Running, Loaded
  <2>1. CASE u = m
    BY <1>1, <2>1 DEF Loaded, ErrorsKept, Inv, TypeOK
  <2>2. CASE u # m
    <3>1. ended'[u] = ended[u] /\ lastError'[u] = lastError[u] /\ inst' = inst
      BY <1>1, <2>2 DEF Inv, TypeOK
    <3> QED
      BY <3>1 DEF Inv, ErrorsKept, Loaded
  <2> QED
    BY <2>1, <2>2
<1> QED
  BY <1>3, <1>4, <1>5 DEF Inv

LEMMA ReturnKept ==
  ASSUME Inv, StoreInv', NEW err \in Errors, Return(err)
  PROVE  Inv'
<1> DEFINE m == calls[Len(calls)]
<1>1. calls \in Seq(Owners) /\ Len(calls) \in Nat \ {0} /\ DOMAIN calls = 1..Len(calls)
  BY EmptySeq, LenProperties DEF Return, Inv, TypeOK
<1>2. m \in Owners /\ m \in Running
  BY <1>1, ElementOfSeq DEF Running
<1>3. \A i \in 1..(Len(calls) - 1) : calls[i] \in Owners
  BY <1>1, ElementOfSeq
<1>4. calls' \in Seq(Owners) /\ DOMAIN calls' = 1..(Len(calls) - 1)
      /\ \A i \in DOMAIN calls' : calls'[i] = calls[i]
  BY <1>1, <1>3, SubSeqProperties, LenProperties DEF Return
<1>5. Running' \subseteq Running
  BY <1>1, <1>4 DEF Running
<1>6. lastError' = [lastError EXCEPT ![m] = err] /\ ended' = [ended EXCEPT ![m] = err]
  BY DEF Return
<1> QED
  BY <1>2, <1>4, <1>5, <1>6
  DEF Return, Inv, TypeOK, StoreInv, StackMatches, BlocksAccounted, ErrorsKept, Loaded

LEMMA UseKept ==
  ASSUME Inv, StoreInv', UNCHANGED machineVars
  PROVE  Inv'
  BY DEF machineVars, Inv, TypeOK, StoreInv, StackMatches, BlocksAccounted, ErrorsKept, Loaded, Running

LEMMA MachineStep == Inv /\ [Next]_vars => Inv'
<1> SUFFICES ASSUME Inv, [Next]_vars PROVE Inv'
  OBVIOUS
<1>0. StoreInv'
  BY MachineIsStoreStep, InvStep DEF Inv
<1>1. ASSUME NEW m \in Owners, Unload(m) PROVE Inv'
  BY <1>0, <1>1, UnloadedKept DEF Unload
<1>2. ASSUME NEW m \in Owners, NEW size \in StackSizes, LoadNoStack(m, size) PROVE Inv'
  BY <1>0, <1>2, UnloadedKept DEF LoadNoStack
<1>3. ASSUME NEW m \in Owners, NEW size \in StackSizes, NEW c \in Containers, Load(m, c, size)
      PROVE Inv'
  BY <1>0, <1>3, LoadKept
<1>4. ASSUME NEW m \in Owners, NEW size \in StackSizes, LoadFails(m, size)
      PROVE Inv'
  BY <1>0, <1>4, UnloadedKept DEF LoadFails
<1>5. ASSUME NEW t, UseStore(t) PROVE Inv'
  BY <1>0, <1>5, UseKept DEF UseStore
<1>6. ASSUME NEW m \in Owners, Execute(m) PROVE Inv'
  BY <1>0, <1>6, ExecuteKept
<1>9. ASSUME NEW m \in Owners, ExecuteUnloaded(m) PROVE Inv'
  BY <1>0, <1>9, ExecuteUnloadedKept
<1>7. ASSUME NEW err \in Errors, Return(err) PROVE Inv'
  BY <1>0, <1>7, ReturnKept
<1>8. CASE UNCHANGED vars
  BY <1>0, <1>8, UseKept DEF vars
<1> QED
  BY <1>1, <1>2, <1>3, <1>4, <1>5, <1>6, <1>7, <1>8, <1>9 DEF Next, UseLocals, UseGlobals

LEMMA MachineAlways == Spec => []Inv
  BY MachineInit, MachineStep, PTL DEF Spec

THEOREM MachineTypes == Spec => []TypeOK
  BY MachineAlways, PTL DEF Inv

\* An instance never works on a stack its machine released, or with another length.
THEOREM StacksAlwaysMatch == Spec => []StackMatches
  BY MachineAlways, PTL DEF Inv

\* Machines neither leak nor free twice the blocks of their containers.
THEOREM BlocksAlwaysAccounted == Spec => []BlocksAccounted
  BY MachineAlways, PTL DEF Inv

\* getLastError() of a loaded machine is what its last execute() ended with; without
\* an instance it is that or success.
THEOREM LastErrorsAlways == Spec => []LastErrors
<1>1. Inv => LastErrors
  BY DEF Inv, ErrorsKept, LastErrors
<1> QED
  BY <1>1, MachineAlways, PTL
=============================================================================
