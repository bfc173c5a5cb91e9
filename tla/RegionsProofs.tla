--------------------------- MODULE RegionsProofs ---------------------------
(* What containers can reach, for any number of instances, applications,    *)
(* blocks, contexts and added regions, at any size of the address space.    *)
EXTENDS Regions, SequenceTheorems, TLAPS

(***************************************************************************)
(* Types.                                                                  *)
(***************************************************************************)

LEMMA RegionTyped ==
  ASSUME NEW s \in Int, NEW p \in Int, NEW l \in Int, NEW f \in SUBSET Perms
  PROVE  Region(s, p, l, f) \in RegionType
  BY DEF Region, RegionType

LEMMA BlankTyped == Blank \in RegionType
  BY RegionTyped DEF Blank, NULL

\* Sections and blocks lie at integer addresses.
LEMMA AppTyped ==
  ASSUME NEW p \in Apps
  PROVE  /\ p.base \in Int /\ p.data \in Nat /\ p.bss \in Nat /\ p.rodata \in Nat
         /\ DataAddr(p) \in Int /\ RodataAddr(p) \in Int /\ DataLen(p) \in Int
<1>1. /\ p.base \in Int /\ p.data \in Nat /\ p.bss \in Nat /\ p.rodata \in Nat
      /\ HeaderLen \in Nat /\ Align \in Nat \ {0}
  BY ObjectsAssumption, SizesAssumption DEF IsApp
<1>2. (p.data + p.bss + Align - 1) \div Align \in Int
  BY <1>1
<1>3. DataLen(p) \in Int
  BY <1>1, <1>2 DEF DataLen, AlignUp
<1> QED
  BY <1>1, <1>3 DEF DataAddr, RodataAddr

LEMMA ObjectTyped ==
  ASSUME NEW o \in Objects
  PROVE  o.base \in Nat \ {NULL} /\ o.len \in Nat
  BY ObjectsAssumption DEF IsObject

LEMMA StackTyped == \A v \in VMs : StackRegion(v) \in RegionType
<1> SUFFICES ASSUME NEW v \in VMs PROVE StackRegion(v) \in RegionType
  OBVIOUS
<1>1. StackOf[v] \in Objects
  BY DEF Objects
<1> QED
  BY <1>1, ObjectTyped, RegionTyped DEF StackRegion

LEMMA DataTyped == \A p \in Apps, b \in Blocks : DataRegion(p, b) \in RegionType
<1> SUFFICES ASSUME NEW p \in Apps, NEW b \in Blocks PROVE DataRegion(p, b) \in RegionType
  OBVIOUS
<1>1. b \in Objects
  BY DEF Objects
<1> QED
  BY <1>1, AppTyped, ObjectTyped, RegionTyped DEF DataRegion

LEMMA RodataTyped == \A p \in Apps : RodataRegion(p) \in RegionType
<1> SUFFICES ASSUME NEW p \in Apps PROVE RodataRegion(p) \in RegionType
  OBVIOUS
<1> QED
  BY AppTyped, RegionTyped DEF RodataRegion, Perms

LEMMA TypeInit == Init => TypeOK
  BY BlankTyped DEF Init, TypeOK

\* The steps that change no region, instance or call.
Access(v) ==
  \/ \E a \in Addresses, n \in AccessSizes : Store(v, a, n)
  \/ \E d \in PassedAddrs, s \in PassedAddrs, n \in PassedSizes : Memcpy(v, d, s, n)
  \/ \E a \in PassedAddrs : Fetch(v, a)

LEMMA AccessSteps ==
  ASSUME NEW v \in VMs, Access(v)
  PROVE  /\ UNCHANGED <<app, setup, stack, data, rodata, arg, extra, added, running, ctx, heap>>
         /\ DOMAIN mem' = 1..MemTop
  BY DEF Access, Store, Memcpy, Fetch, OnlyMemChanges, regionVars, Overwrite

LEMMA ArgTyped ==
  ASSUME NEW c \in Contexts
  PROVE  Region(c.base, c.base, c.len, Perms) \in RegionType
<1>1. c \in Objects
  BY DEF Objects
<1> QED
  BY <1>1, ObjectTyped, RegionTyped

LEMMA TypeStep == TypeOK /\ [Next]_vars => TypeOK'
<1> SUFFICES ASSUME TypeOK, [Next]_vars PROVE TypeOK'
  OBVIOUS
<1>1. ASSUME NEW v \in VMs, NEW p \in Apps, NEW b \in Blocks, Setup(v, p, b)
      PROVE  TypeOK'
  <2>1. /\ StackRegion(v) \in RegionType /\ DataRegion(p, b) \in RegionType
        /\ RodataRegion(p) \in RegionType
    BY StackTyped, DataTyped, RodataTyped
  <2> QED
    BY <1>1, <2>1, BlankTyped DEF TypeOK, Setup, SetupDone, Filled
<1>2. ASSUME NEW v \in VMs, NEW p \in Apps, SetupNoData(v, p)
      PROVE  TypeOK'
  <2>1. StackRegion(v) \in RegionType /\ RodataRegion(p) \in RegionType
    BY StackTyped, RodataTyped
  <2> QED
    BY <1>2, <2>1, BlankTyped DEF TypeOK, SetupNoData, SetupDone
<1>3. ASSUME NEW v \in VMs, NEW p \in Apps, SetupNoMemory(v, p)
      PROVE  TypeOK'
  BY <1>3, StackTyped DEF TypeOK, SetupNoMemory
<1>4. ASSUME NEW v \in VMs, Destroy(v)
      PROVE  TypeOK'
  BY <1>4, BlankTyped DEF TypeOK, Destroy, Free, Zeroed
<1>5. ASSUME NEW v \in VMs, NEW o \in Extras, AddRegion(v, o)
      PROVE  TypeOK'
  <2>1. AddedRegion(o) \in ExtraRegions
    BY DEF ExtraRegions
  <2>2. <<AddedRegion(o)>> \o extra[v] \in Seq(ExtraRegions)
    BY <2>1 DEF TypeOK
  <2>3. extra' \in [VMs -> Seq(ExtraRegions)]
    BY <1>5, <2>2 DEF TypeOK, AddRegion
  <2> QED
    BY <1>5, <2>3 DEF TypeOK, AddRegion
<1>6. ASSUME NEW v \in VMs, Execute(v)
      PROVE  TypeOK'
  <2>1. arg[v].phys \in Int /\ arg[v].flag \in SUBSET Perms
    BY DEF TypeOK, RegionType
  <2>2. Region(NULL, arg[v].phys, 0, arg[v].flag) \in RegionType
    BY <2>1, RegionTyped DEF NULL
  <2>3. arg' \in [VMs -> RegionType]
    BY <1>6, <2>2 DEF TypeOK, Execute
  <2> QED
    BY <1>6, <2>3 DEF TypeOK, Execute
<1>7. ASSUME NEW v \in VMs, NEW c \in Contexts, ExecuteCtx(v, c)
      PROVE  TypeOK'
  BY <1>7, ArgTyped DEF TypeOK, ExecuteCtx
<1>8. ASSUME NEW v \in VMs, Finish(v)
      PROVE  TypeOK'
  BY <1>8 DEF TypeOK, Finish, regionVars
<1>9. ASSUME NEW v \in VMs, Access(v)
      PROVE  TypeOK'
  BY <1>9, AccessSteps DEF TypeOK
<1>10. CASE UNCHANGED vars
  BY <1>10 DEF TypeOK, vars, regionVars
<1> QED
  BY <1>1, <1>2, <1>3, <1>4, <1>5, <1>6, <1>7, <1>8, <1>9, <1>10 DEF Next, Access

\* Every reachable state is well typed.
THEOREM TypeCorrect == Spec => []TypeOK
  BY TypeInit, TypeStep, PTL DEF Spec

(***************************************************************************)
(* Regions and blocks.                                                     *)
(***************************************************************************)

MatchInv == TypeOK /\ RegionsMatch /\ HeapAccounted

\* Every application has a base address, and no application is NoApp.
LEMMA AppIsSet == \A p \in Apps : p # NoApp
  BY ObjectsAssumption DEF IsApp, NoApp, NULL

\* Two blocks never start at the same address.
LEMMA BlockBases ==
  ASSUME NEW b \in Blocks, NEW c \in Blocks, b.base = c.base
  PROVE  b = c
<1>1. b \in Objects /\ c \in Objects /\ b.len # 0 /\ c.len # 0
  BY ObjectsAssumption DEF Objects
<1>2. b.base \in Nat /\ b.len \in Nat \ {0} /\ c.len \in Nat \ {0}
  BY <1>1, ObjectTyped
<1>3. b.base \in Bytes(b) /\ b.base \in Bytes(c)
  BY <1>2 DEF Bytes, Interval
<1> QED
  BY <1>3, DisjointAssumption

\* An instance holds no block, or the one its data region is in.
LEMMA HeldBlock ==
  ASSUME TypeOK, NEW v \in VMs
  PROVE  /\ data[v] = Blank => Held(v) = {}
         /\ \A b \in heap : data[v] = DataRegion(app[v], b) => Held(v) = {b}
<1>1. \A b \in heap : b \in Blocks /\ b.base # NULL
  BY ObjectTyped DEF TypeOK, Objects
<1>2. CASE data[v] = Blank
  BY <1>1, <1>2 DEF Held, Blank, Region, DataRegion
<1>3. ASSUME NEW b \in heap, data[v] = DataRegion(app[v], b)
      PROVE  Held(v) = {b}
  <2>1. data[v].phys = b.base
    BY <1>3 DEF DataRegion, Region
  <2>2. \A c \in heap : c.base = b.base => c = b
    BY <1>1, BlockBases
  <2> QED
    BY <2>1, <2>2 DEF Held
<1>4. data[v] = Blank => Held(v) = {}
  BY <1>2, <1>1 DEF Held, Blank, Region
<1> QED
  BY <1>3, <1>4

LEMMA MatchInit == Init => RegionsMatch /\ HeapAccounted
<1>1. \A S : <<>> \in Seq(S)
  OBVIOUS
<1> QED
  BY <1>1 DEF Init, RegionsMatch, Match, HeapAccounted, Held, NoContext, Blank, Region

\* An instance whose variables and block a step leaves alone still matches.
LEMMA MatchKept ==
  ASSUME NEW w \in VMs, Match(w),
         app'[w] = app[w], setup'[w] = setup[w], stack'[w] = stack[w],
         data'[w] = data[w], rodata'[w] = rodata[w], arg'[w] = arg[w],
         extra'[w] = extra[w], added'[w] = added[w], ctx'[w] = ctx[w],
         w \in running' => w \in running,
         Held(w) \subseteq heap', heap \subseteq Blocks
  PROVE  Match(w)'
<1>1. \A b \in heap : data[w] = DataRegion(app[w], b) => b \in heap'
  BY DEF Held, DataRegion, Region
<1>2. GivenRegions(w)' = GivenRegions(w)
  BY DEF GivenRegions
<1> QED
  BY <1>1, <1>2 DEF Match

\* What one step does to the instances it is not about: nothing.
Others(v) ==
  \A w \in VMs \ {v} :
    /\ app'[w] = app[w] /\ setup'[w] = setup[w] /\ stack'[w] = stack[w]
    /\ data'[w] = data[w] /\ rodata'[w] = rodata[w] /\ arg'[w] = arg[w]
    /\ extra'[w] = extra[w] /\ added'[w] = added[w] /\ ctx'[w] = ctx[w]
    /\ w \in running' => w \in running

\* Only bpf_destroy() takes blocks away, and only its own instance's.
KeepsOthersBlocks(v) == \A w \in VMs \ {v} : Held(w) \subseteq heap'

LEMMA OthersMatch ==
  ASSUME MatchInv, NEW v \in VMs, Others(v), KeepsOthersBlocks(v), Match(v)'
  PROVE  RegionsMatch'
<1> SUFFICES ASSUME NEW w \in VMs PROVE Match(w)'
  BY DEF RegionsMatch
<1>1. CASE w = v
  BY <1>1
<1>2. CASE w # v
  BY <1>2, MatchKept DEF Others, KeepsOthersBlocks, MatchInv, TypeOK, RegionsMatch
<1> QED
  BY <1>1, <1>2

\* After a step that leaves the blocks and who holds them alone.
LEMMA SameHeap ==
  ASSUME HeapAccounted, heap' = heap, \A w \in VMs : data'[w].phys = data[w].phys
  PROVE  HeapAccounted'
<1>1. \A w \in VMs : Held(w)' = Held(w)
  BY DEF Held
<1> QED
  BY <1>1 DEF HeapAccounted

LEMMA SetupMatches ==
  ASSUME MatchInv, NEW v \in VMs, NEW p \in Apps, NEW b \in Blocks, Setup(v, p, b)
  PROVE  RegionsMatch' /\ HeapAccounted'
<1>1. /\ ~setup[v] /\ heap' = heap \cup {b} /\ b \notin heap
      /\ data' = [data EXCEPT ![v] = DataRegion(p, b)]
  BY DEF Setup
<1>2. Others(v) /\ KeepsOthersBlocks(v)
  BY DEF Others, KeepsOthersBlocks, Setup, SetupDone, MatchInv, TypeOK, Held
<1>3. Match(v)'
  <2>1. /\ app'[v] = p /\ setup'[v] = TRUE /\ stack'[v] = StackRegion(v)
        /\ data'[v] = DataRegion(p, b) /\ rodata'[v] = RodataRegion(p)
        /\ arg'[v] = Blank /\ extra'[v] = <<>> /\ ctx'[v] = ctx[v] /\ b \in heap'
        /\ DataLen(p) # 0 /\ DataLen(p) <= b.len
    BY DEF Setup, SetupDone, MatchInv, TypeOK
  <2>2. arg[v] = Blank /\ arg[v].start = ctx[v].base /\ arg[v].len = ctx[v].len
    BY <1>1 DEF MatchInv, RegionsMatch, Match
  <2>3. p # NoApp /\ Blank.len = 0 /\ \A S : <<>> \in Seq(S)
    BY AppIsSet DEF Blank, Region
  <2> QED
    BY <2>1, <2>2, <2>3 DEF Match
<1>4. RegionsMatch'
  BY <1>2, <1>3, OthersMatch
<1>5. Held(v)' = {b}
  <2>1. \A c \in heap \cup {b} : c \in Blocks
    BY DEF MatchInv, TypeOK
  <2>2. data'[v].phys = b.base
    BY <1>1 DEF MatchInv, TypeOK, DataRegion, Region
  <2> QED
    BY <1>1, <2>1, <2>2, BlockBases DEF Held
<1>6. \A w \in VMs \ {v} : Held(w)' = Held(w)
  <2> SUFFICES ASSUME NEW w \in VMs \ {v} PROVE Held(w)' = Held(w)
    OBVIOUS
  <2>1. data'[w] = data[w]
    BY <1>2 DEF Others
  <2>2. data[w] = Blank \/ \E c \in heap : data[w] = DataRegion(app[w], c)
    BY DEF MatchInv, RegionsMatch, Match
  <2>3. b.base # data[w].phys
    <3>1. b.base # NULL
      BY ObjectTyped DEF Objects
    <3>2. \A c \in heap : c.base # b.base
      BY <1>1, BlockBases DEF MatchInv, TypeOK
    <3>3. CASE data[w] = Blank
      BY <3>1, <3>3 DEF Blank, Region
    <3>4. CASE \E c \in heap : data[w] = DataRegion(app[w], c)
      <4>1. PICK c \in heap : data[w] = DataRegion(app[w], c)
        BY <3>4
      <4> QED
        BY <3>2, <4>1 DEF DataRegion, Region
    <3> QED
      BY <2>2, <3>3, <3>4
  <2> QED
    BY <1>1, <2>1, <2>3 DEF Held
<1>7. Held(v) = {}
  BY <1>1, HeldBlock DEF MatchInv, RegionsMatch, Match
<1>8. HeapAccounted'
  <2>1. \A c \in heap' : \E w \in VMs : Held(w)' = {c}
    BY <1>1, <1>5, <1>6, <1>7 DEF MatchInv, HeapAccounted
  <2>2. \A w \in VMs \ {v} : Held(w)' \cap Held(v)' = {}
    BY <1>1, <1>5, <1>6 DEF Held
  <2>3. \A u, w \in VMs \ {v} : u # w => Held(u)' \cap Held(w)' = {}
    BY <1>6 DEF MatchInv, HeapAccounted
  <2> QED
    BY <2>1, <2>2, <2>3 DEF HeapAccounted
<1> QED
  BY <1>4, <1>8

LEMMA DestroyMatches ==
  ASSUME MatchInv, NEW v \in VMs, Destroy(v)
  PROVE  RegionsMatch' /\ HeapAccounted'
<1>1. /\ heap' = heap \ Held(v) /\ v \notin running' /\ running' = running
      /\ app'[v] = NoApp /\ setup'[v] = FALSE /\ stack'[v] = Blank
      /\ data'[v] = Blank /\ rodata'[v] = Blank /\ arg'[v] = Blank
      /\ extra'[v] = <<>> /\ ctx'[v] = NoContext
  BY DEF Destroy, Free, Zeroed, MatchInv, TypeOK
<1>2. Others(v)
  BY DEF Others, Destroy, Zeroed, MatchInv, TypeOK
<1>3. KeepsOthersBlocks(v)
  BY <1>1 DEF KeepsOthersBlocks, MatchInv, HeapAccounted, Held
<1>4. Match(v)'
  <2>1. \A S : <<>> \in Seq(S)
    OBVIOUS
  <2> QED
    BY <1>1, <2>1 DEF Match, Blank, Region, NoContext
<1>5. RegionsMatch'
  BY <1>2, <1>3, <1>4, OthersMatch
<1>6. \A w \in VMs \ {v} : Held(w)' = Held(w)
  BY <1>1, <1>2, <1>3 DEF Held, Others, KeepsOthersBlocks
<1>7. Held(v)' = {}
  <2>1. \A b \in heap' : b.base # NULL
    BY <1>1, ObjectTyped DEF MatchInv, TypeOK, Objects
  <2> QED
    BY <1>1, <2>1 DEF Held, Blank, Region
<1>8. \A b \in heap' : \E w \in VMs : Held(w)' = {b}
  <2> SUFFICES ASSUME NEW b \in heap' PROVE \E w \in VMs : Held(w)' = {b}
    OBVIOUS
  <2>1. PICK w \in VMs : Held(w) = {b}
    BY <1>1 DEF MatchInv, HeapAccounted
  <2>2. w # v
    BY <1>1, <2>1
  <2> QED
    BY <1>6, <2>1, <2>2
<1>9. HeapAccounted'
  BY <1>6, <1>7, <1>8 DEF MatchInv, HeapAccounted
<1> QED
  BY <1>5, <1>9

\* The steps that neither allocate nor free.
LEMMA QuietMatches ==
  ASSUME MatchInv, NEW v \in VMs, Others(v), Match(v)',
         heap' = heap, data'[v].phys = data[v].phys
  PROVE  RegionsMatch' /\ HeapAccounted'
<1>1. KeepsOthersBlocks(v)
  BY DEF KeepsOthersBlocks, Held
<1>2. \A w \in VMs : data'[w].phys = data[w].phys
  BY DEF Others
<1> QED
  BY <1>1, <1>2, OthersMatch, SameHeap DEF MatchInv

\* bpf_add_region() puts what it is given in front of what there was.
LEMMA AddedMatches ==
  ASSUME MatchInv, NEW v \in VMs, NEW o \in Extras, AddRegion(v, o)
  PROVE  extra'[v] \in Seq(GivenRegions(v)')
<1>1. /\ extra'[v] = <<AddedRegion(o)>> \o extra[v]
      /\ added'[v] = added[v] \cup {o}
  BY DEF AddRegion, MatchInv, TypeOK
<1> DEFINE T == GivenRegions(v)'
<1>2. AddedRegion(o) \in T /\ GivenRegions(v) \subseteq T
  BY <1>1 DEF GivenRegions, AddedRegion
<1>3. extra[v] \in Seq(GivenRegions(v))
  BY DEF MatchInv, RegionsMatch, Match
<1> HIDE DEF T
<1>4. extra[v] \in Seq(T)
  BY <1>2, <1>3, SeqMonotonic
<1>5. <<AddedRegion(o)>> \in Seq(T)
  BY <1>2
<1>6. <<AddedRegion(o)>> \o extra[v] \in Seq(T)
  BY <1>4, <1>5, ConcatProperties, Zenon
<1> QED
  BY <1>1, <1>6 DEF T

LEMMA MatchStep == MatchInv /\ [Next]_vars => RegionsMatch' /\ HeapAccounted'
<1> SUFFICES ASSUME MatchInv, [Next]_vars PROVE RegionsMatch' /\ HeapAccounted'
  OBVIOUS
<1> DEFINE Goal == RegionsMatch' /\ HeapAccounted'
<1>1. ASSUME NEW v \in VMs, NEW p \in Apps, NEW b \in Blocks, Setup(v, p, b) PROVE Goal
  BY <1>1, SetupMatches
<1>2. ASSUME NEW v \in VMs, NEW p \in Apps, SetupNoData(v, p) PROVE Goal
  <2>1. /\ app'[v] = p /\ setup'[v] = TRUE /\ stack'[v] = StackRegion(v)
        /\ data'[v] = Blank /\ rodata'[v] = RodataRegion(p)
        /\ arg'[v] = Blank /\ extra'[v] = <<>> /\ ctx'[v] = ctx[v] /\ ~setup[v] /\ heap' = heap
        /\ DataLen(p) = 0
    BY <1>2 DEF SetupNoData, SetupDone, MatchInv, TypeOK
  <2>2. arg[v] = Blank /\ arg[v].start = ctx[v].base /\ arg[v].len = ctx[v].len /\ data[v] = Blank
    BY <2>1 DEF MatchInv, RegionsMatch, Match
  <2>3. p # NoApp /\ Blank.len = 0 /\ \A S : <<>> \in Seq(S)
    BY AppIsSet DEF Blank, Region
  <2>4. Match(v)'
    BY <2>1, <2>2, <2>3 DEF Match
  <2>5. Others(v)
    BY <1>2 DEF Others, SetupNoData, SetupDone, MatchInv, TypeOK
  <2> QED
    BY <2>1, <2>2, <2>4, <2>5, QuietMatches
<1>3. ASSUME NEW v \in VMs, NEW p \in Apps, SetupNoMemory(v, p) PROVE Goal
  <2>1. /\ app'[v] = p /\ stack'[v] = StackRegion(v) /\ ~setup[v]
        /\ UNCHANGED <<setup, data, rodata, arg, extra, added, running, ctx, heap>>
    BY <1>3 DEF SetupNoMemory, MatchInv, TypeOK
  <2>2. Match(v)'
    BY <2>1, AppIsSet DEF MatchInv, RegionsMatch, Match, GivenRegions
  <2>3. Others(v)
    BY <1>3 DEF Others, SetupNoMemory, MatchInv, TypeOK
  <2> QED
    BY <2>1, <2>2, <2>3, QuietMatches
<1>4. ASSUME NEW v \in VMs, Destroy(v) PROVE Goal
  BY <1>4, DestroyMatches
<1>5. ASSUME NEW v \in VMs, NEW o \in Extras, AddRegion(v, o) PROVE Goal
  <2>1. /\ setup[v]
        /\ UNCHANGED <<app, setup, stack, data, rodata, arg, running, ctx, heap>>
    BY <1>5 DEF AddRegion
  <2>2. Match(v)'
    BY <1>5, <2>1, AddedMatches DEF MatchInv, RegionsMatch, Match
  <2>3. Others(v)
    BY <1>5 DEF Others, AddRegion, MatchInv, TypeOK
  <2> QED
    BY <2>1, <2>2, <2>3, QuietMatches
<1>6. ASSUME NEW v \in VMs, Execute(v) PROVE Goal
  <2>1. /\ setup[v] /\ ctx'[v] = NoContext
        /\ arg'[v] = Region(NULL, arg[v].phys, 0, arg[v].flag)
        /\ UNCHANGED <<app, setup, stack, data, rodata, extra, added, heap>>
    BY <1>6 DEF Execute, MatchInv, TypeOK
  <2>2. Match(v)'
    BY <2>1, SMTT(30) DEF MatchInv, RegionsMatch, Match, GivenRegions, Region, NoContext
  <2>3. Others(v)
    BY <1>6 DEF Others, Execute, MatchInv, TypeOK
  <2> QED
    BY <2>1, <2>2, <2>3, QuietMatches
<1>7. ASSUME NEW v \in VMs, NEW c \in Contexts, ExecuteCtx(v, c) PROVE Goal
  <2>1. /\ setup[v] /\ ctx'[v] = c /\ arg'[v] = Region(c.base, c.base, c.len, Perms)
        /\ UNCHANGED <<app, setup, stack, data, rodata, extra, added, heap>>
    BY <1>7 DEF ExecuteCtx, MatchInv, TypeOK
  <2>2. Match(v)'
    BY <2>1 DEF MatchInv, RegionsMatch, Match, GivenRegions, Region
  <2>3. Others(v)
    BY <1>7 DEF Others, ExecuteCtx, MatchInv, TypeOK
  <2> QED
    BY <2>1, <2>2, <2>3, QuietMatches
<1>8. ASSUME NEW v \in VMs, Finish(v) PROVE Goal
  <2>1. /\ running' = running \ {v}
        /\ UNCHANGED <<app, setup, stack, data, rodata, arg, extra, added, ctx, heap>>
    BY <1>8 DEF Finish, regionVars
  <2>2. Match(v)'
    BY <2>1 DEF MatchInv, RegionsMatch, Match, GivenRegions
  <2>3. Others(v)
    BY <2>1 DEF Others
  <2> QED
    BY <2>1, <2>2, <2>3, QuietMatches
<1>9. ASSUME NEW v \in VMs, Access(v) PROVE Goal
  <2>1. UNCHANGED <<app, setup, stack, data, rodata, arg, extra, added, running, ctx, heap>>
    BY <1>9, AccessSteps
  <2>2. Match(v)' /\ Others(v)
    BY <2>1 DEF MatchInv, RegionsMatch, Match, GivenRegions, Others
  <2> QED
    BY <2>1, <2>2, QuietMatches
<1>10. CASE UNCHANGED vars
  <2>1. UNCHANGED <<app, setup, stack, data, rodata, arg, extra, added, running, ctx, heap>>
    BY <1>10 DEF vars, regionVars
  <2>2. RegionsMatch'
    BY <2>1 DEF MatchInv, RegionsMatch, Match, GivenRegions
  <2> QED
    BY <2>1, <2>2, SameHeap DEF MatchInv
<1> QED
  BY <1>1, <1>2, <1>3, <1>4, <1>5, <1>6, <1>7, <1>8, <1>9, <1>10 DEF Next, Access

LEMMA MatchAlways == Spec => []MatchInv
<1>1. Init => MatchInv
  BY TypeInit, MatchInit DEF MatchInv
<1>2. MatchInv /\ [Next]_vars => MatchInv'
  BY TypeStep, MatchStep DEF MatchInv
<1> QED
  BY <1>1, <1>2, PTL DEF Spec

\* The regions of an instance are its own, whatever became of earlier calls and
\* of failed attempts to set it up.
THEOREM RegionsAlwaysMatch == Spec => []RegionsMatch
  BY MatchAlways, PTL DEF MatchInv

\* No block is leaked, shared or freed twice.
THEOREM HeapAlwaysAccounted == Spec => []HeapAccounted
  BY MatchAlways, PTL DEF MatchInv

(***************************************************************************)
(* What bpf_get_mem() grants.                                              *)
(***************************************************************************)

\* The chain is the four regions of the instance, then the added ones.
LEMMA ChainParts ==
  ASSUME TypeOK, NEW v \in VMs, Match(v), NEW k \in DOMAIN Chain(v)
  PROVE  \/ Chain(v)[k] \in {stack[v], data[v], rodata[v], arg[v]}
         \/ Chain(v)[k] \in GivenRegions(v)
<1> DEFINE four == <<stack[v], data[v], rodata[v], arg[v]>>
           T == RegionType \cup GivenRegions(v)
<1>1. extra[v] \in Seq(GivenRegions(v))
  BY DEF Match
<1>2. Len(extra[v]) \in Nat /\ \A l \in 1..Len(extra[v]) : extra[v][l] \in GivenRegions(v)
  BY <1>1
<1>3. four \in Seq(T) /\ Len(four) = 4
  BY DEF TypeOK
<1>4. \A l \in 1..4 : four[l] \in {stack[v], data[v], rodata[v], arg[v]}
  OBVIOUS
<1>5. extra[v] \in Seq(T)
  <2>1. GivenRegions(v) \subseteq T
    OBVIOUS
  <2> QED
    BY <1>1, <2>1, SeqMonotonic
<1>6. Chain(v) = four \o extra[v]
  BY DEF Chain
<1> HIDE DEF four, T
<1>7. /\ Chain(v) \in Seq(T)
      /\ Len(Chain(v)) = 4 + Len(extra[v])
      /\ \A l \in 1..(4 + Len(extra[v])) :
           Chain(v)[l] = IF l <= 4 THEN four[l] ELSE extra[v][l - 4]
  <2>1. /\ four \o extra[v] \in Seq(T)
        /\ Len(four \o extra[v]) = Len(four) + Len(extra[v])
        /\ \A l \in 1..(Len(four) + Len(extra[v])) :
             (four \o extra[v])[l] =
               IF l <= Len(four) THEN four[l] ELSE extra[v][l - Len(four)]
    BY <1>3, <1>5, ConcatProperties, Zenon
  <2> QED
    BY <2>1, <1>3, <1>6
<1>8. k \in 1..(4 + Len(extra[v]))
  BY <1>7
<1>9. CASE k <= 4
  <2>1. k \in 1..4
    BY <1>2, <1>8, <1>9
  <2> QED
    BY <1>4, <1>7, <1>8, <1>9, <2>1
<1>10. CASE ~(k <= 4)
  <2>1. k - 4 \in 1..Len(extra[v])
    BY <1>2, <1>8, <1>10
  <2> QED
    BY <1>2, <1>7, <1>8, <1>10, <2>1
<1> QED
  BY <1>9, <1>10

\* A granted pointer points into the region that granted it.
LEMMA GrantedByRegion ==
  ASSUME TypeOK, NEW v \in VMs, NEW a \in Int, NEW n \in 1..(SizeMod - 1), NEW type \in Perms,
         a + n <= IntMax, NEW p \in GetMem(v, n, a, type)
  PROVE  \E k \in DOMAIN Chain(v) :
           LET r == Chain(v)[k] IN
           /\ type \in r.flag
           /\ a >= r.start /\ a + n <= r.start + r.len
           /\ p = r.phys + (a - r.start)
<1>1. n % SizeMod = n
  BY SizesAssumption
<1>2. PICK k \in FirstMatch(Chain(v), a, n) :
        type \in Chain(v)[k].flag /\ p = Chain(v)[k].phys + (a - Chain(v)[k].start)
  BY <1>1 DEF GetMem
<1>3. k \in DOMAIN Chain(v) /\ Matches(Chain(v)[k], a, n)
  BY <1>2 DEF FirstMatch
<1>4. End(a, n) = a + n
  BY DEF End
<1> QED
  BY <1>2, <1>3, <1>4 DEF Matches

LEMMA MatchImpliesIsolation == MatchInv => Isolation
<1> SUFFICES ASSUME MatchInv,
                    NEW v \in VMs, NEW a \in Addresses, NEW n \in 1..(SizeMod - 1),
                    NEW type \in Perms, a + n <= IntMax,
                    NEW p \in GetMem(v, n, a, type), setup[v]
             PROVE  Given(v, p, n, type)
  BY DEF Isolation
<1>1. a \in Int /\ n \in Int /\ n > 0
  BY SizesAssumption
<1>2. TypeOK /\ Match(v) /\ app[v] \in Apps
  BY DEF MatchInv, RegionsMatch, TypeOK, Match
<1>3. PICK k \in DOMAIN Chain(v) :
        LET r == Chain(v)[k] IN
        /\ type \in r.flag
        /\ a >= r.start /\ a + n <= r.start + r.len
        /\ p = r.phys + (a - r.start)
  BY <1>1, <1>2, GrantedByRegion
<1> DEFINE r == Chain(v)[k]
<1>4. r \in {stack[v], data[v], rodata[v], arg[v]} \/ r \in GivenRegions(v)
  BY <1>2, ChainParts
<1>5. CASE r = stack[v]
  <2>1. StackOf[v] \in Objects
    BY DEF Objects
  <2>2. StackOf[v].base \in Int /\ StackOf[v].len \in Int
    BY <2>1, ObjectTyped
  <2>3. r = Region(StackOf[v].base, StackOf[v].base, StackOf[v].len, Perms)
    BY <1>2, <1>5 DEF Match, StackRegion
  <2>4. Within(p, n, StackOf[v].base, StackOf[v].len)
    BY <1>1, <1>3, <2>2, <2>3 DEF Within, Region
  <2> QED
    BY <2>4 DEF Given
<1>6. CASE r = data[v]
  <2>1. data[v] # Blank
    BY <1>3, <1>6 DEF Blank, Region
  <2>2. PICK b \in heap : data[v] = DataRegion(app[v], b) /\ DataLen(app[v]) <= b.len
    BY <1>2, <2>1 DEF Match
  <2>3. b \in Objects /\ b \in Blocks
    BY <1>2 DEF TypeOK, Objects
  <2>4. /\ b.base \in Int /\ b.len \in Int
        /\ DataAddr(app[v]) \in Int /\ DataLen(app[v]) \in Int
    BY <1>2, <2>3, ObjectTyped, AppTyped
  <2>5. r = Region(DataAddr(app[v]), b.base, DataLen(app[v]), Perms)
    BY <1>6, <2>2 DEF DataRegion
  <2>6. Within(p, n, b.base, b.len)
    BY <1>1, <1>3, <2>2, <2>4, <2>5 DEF Within, Region
  <2>7. b \in Held(v)
    BY <1>2, <2>2, HeldBlock
  <2> QED
    BY <2>6, <2>7 DEF Given
<1>7. CASE r = rodata[v]
  <2>1. r = Region(RodataAddr(app[v]), RodataAddr(app[v]), app[v].rodata, {"READ"})
    BY <1>2, <1>7 DEF Match, RodataRegion
  <2>2. RodataAddr(app[v]) \in Int /\ app[v].rodata \in Int
    BY <1>2, AppTyped
  <2>3. type = "READ"
    BY <1>3, <2>1 DEF Region
  <2>4. Within(p, n, RodataAddr(app[v]), app[v].rodata)
    BY <1>1, <1>3, <2>1, <2>2 DEF Within, Region
  <2> QED
    BY <2>3, <2>4 DEF Given
<1>8. CASE r = arg[v]
  <2>1. r.start = ctx[v].base /\ r.len = ctx[v].len /\ (r.len # 0 => r.phys = r.start)
    BY <1>2, <1>8 DEF Match
  <2>2. r.start \in Int /\ r.len \in Int /\ r.phys \in Int
    BY <1>2, <1>8 DEF TypeOK, RegionType
  <2>3. r.len # 0
    BY <1>1, <1>3, <2>2
  <2>4. Within(p, n, ctx[v].base, ctx[v].len)
    BY <1>1, <1>3, <2>1, <2>2, <2>3 DEF Within
  <2> QED
    BY <2>4 DEF Given
<1>9. CASE r \in GivenRegions(v)
  <2>1. PICK o \in added[v] : r = Region(o.base, o.base, o.len, o.flag)
    BY <1>9 DEF GivenRegions, AddedRegion
  <2>2. o.base \in Int /\ o.len \in Int
    BY <1>2, ObjectTyped DEF TypeOK, Objects
  <2>3. type \in o.flag /\ Within(p, n, o.base, o.len)
    BY <1>1, <1>3, <2>1, <2>2 DEF Within, Region
  <2> QED
    BY <2>3 DEF Given
<1> QED
  BY <1>4, <1>5, <1>6, <1>7, <1>8, <1>9

\* An instance is never granted memory that is not its own: not the stack or
\* the block of another instance, not freed memory, not the context of a call
\* that is over, not the image of its application for writing, and of the added
\* regions only those its owner gave to it since it set it up.
THEOREM AlwaysIsolated == Spec => []Isolation
  BY MatchAlways, MatchImpliesIsolation, PTL

(***************************************************************************)
(* What happens to memory: images keep their contents, and the data of an  *)
(* instance is its own.  Host calls write through untranslated pointers,   *)
(* and an access may wrap around the top of the address space; what is     *)
(* said of stores holds as long as neither reaches an image or a block.    *)
(***************************************************************************)

BlockBytes == UNION {Bytes(b) : b \in Blocks}

\* No access wraps around.
NoWrap == \A a \in Addresses, n \in AccessSizes : a + n <= IntMax

\* What is passed to host calls lies in neither an image nor a block.
PassedClear ==
  \A a \in PassedAddrs, n \in PassedSizes \cup {FetchLen} :
    Interval(a, n) \cap (ImageBytes \cup BlockBytes) = {}

(***************************************************************************)
(* Rodata.                                                                 *)
(***************************************************************************)

\* The first three regions of the chain.
LEMMA ChainStart ==
  ASSUME TypeOK, NEW v \in VMs
  PROVE  /\ \E len \in Nat : len >= 3 /\ DOMAIN Chain(v) = 1..len
         /\ Chain(v)[1] = stack[v] /\ Chain(v)[2] = data[v] /\ Chain(v)[3] = rodata[v]
<1> DEFINE four == <<stack[v], data[v], rodata[v], arg[v]>>
           T == RegionType \cup ExtraRegions
<1>1. extra[v] \in Seq(ExtraRegions)
  BY DEF TypeOK
<1>2. ExtraRegions \subseteq T
  OBVIOUS
<1>3. extra[v] \in Seq(T)
  BY <1>1, <1>2, SeqMonotonic
<1>4. four \in Seq(T) /\ Len(four) = 4
  BY DEF TypeOK
<1>5. Chain(v) = four \o extra[v]
  BY DEF Chain
<1>6. four[1] = stack[v] /\ four[2] = data[v] /\ four[3] = rodata[v]
  OBVIOUS
<1> HIDE DEF four, T
<1>7. /\ Chain(v) \in Seq(T)
      /\ Len(Chain(v)) = Len(four) + Len(extra[v])
      /\ \A l \in 1..(Len(four) + Len(extra[v])) :
           Chain(v)[l] = IF l <= Len(four) THEN four[l] ELSE extra[v][l - Len(four)]
  <2>1. /\ four \o extra[v] \in Seq(T)
        /\ Len(four \o extra[v]) = Len(four) + Len(extra[v])
        /\ \A l \in 1..(Len(four) + Len(extra[v])) :
             (four \o extra[v])[l] = IF l <= Len(four) THEN four[l] ELSE extra[v][l - Len(four)]
    BY <1>3, <1>4, ConcatProperties, Zenon
  <2> QED
    BY <2>1, <1>5
<1>8. Len(extra[v]) \in Nat
  BY <1>1, LenProperties
<1>9. DOMAIN Chain(v) = 1..(4 + Len(extra[v])) /\ 4 + Len(extra[v]) \in Nat /\ 4 + Len(extra[v]) >= 3
  BY <1>4, <1>7, <1>8, LenProperties
<1> QED
  BY <1>4, <1>6, <1>7, <1>8, <1>9

\* The bytes of an image have addresses the model keeps the contents of.
LEMMA ImageAddresses ==
  ASSUME NEW p \in Apps
  PROVE  /\ DataAddr(p) \in Nat /\ RodataAddr(p) \in Nat /\ TextAddr(p) \in Nat
         /\ DataAddr(p) <= RodataAddr(p) /\ RodataAddr(p) <= TextAddr(p)
         /\ Interval(DataAddr(p), p.data) \subseteq Image(p)
         /\ Interval(RodataAddr(p), p.rodata) \subseteq Image(p)
         /\ Image(p) \subseteq 1..MemTop
<1>1. /\ IsApp(p) /\ HeaderLen \in Nat \ {0} /\ Align \in Nat \ {0} /\ MemTop \in Int
  BY ObjectsAssumption, SizesAssumption
<1>2. /\ p.base \in Nat \ {0} /\ p.data \in Nat /\ p.bss \in Nat /\ p.rodata \in Nat /\ p.text \in Nat
      /\ p.base + HeaderLen + p.data + p.bss + p.rodata + p.text + Align <= MemTop
  BY <1>1 DEF IsApp, NULL
<1> DEFINE base == p.base  d == p.data  r == p.rodata  x == p.text
<1>3. /\ base \in Nat \ {0} /\ d \in Nat /\ r \in Nat /\ x \in Nat
      /\ HeaderLen \in Nat \ {0}
      /\ base + HeaderLen + d + r + x <= MemTop
  BY <1>1, <1>2
<1>4. /\ DataAddr(p) = base + HeaderLen /\ RodataAddr(p) = base + HeaderLen + d
      /\ TextAddr(p) = base + HeaderLen + d + r
  BY DEF DataAddr, RodataAddr, TextAddr
<1>5. \A a : a \in Image(p) <=> a \in base..(base + (HeaderLen + d + r + x) - 1)
  BY DEF Image, Interval
<1> HIDE DEF base, d, r, x
<1>6. \A a : a \in Interval(DataAddr(p), d) \cup Interval(RodataAddr(p), r) => a \in Image(p)
  BY <1>3, <1>4, <1>5 DEF Interval
<1>7. \A a \in Image(p) : a \in 1..MemTop
  BY <1>1, <1>3, <1>5
<1>8. /\ DataAddr(p) \in Nat /\ RodataAddr(p) \in Nat /\ TextAddr(p) \in Nat
      /\ DataAddr(p) <= RodataAddr(p) /\ RodataAddr(p) <= TextAddr(p)
  BY <1>3, <1>4
<1> QED
  BY <1>6, <1>7, <1>8 DEF d, r

\* What a region matches, where nothing wraps.
LEMMA MatchPlain ==
  ASSUME NEW r \in RegionType, NEW a \in Int, NEW n \in Nat, a + n <= IntMax
  PROVE  Matches(r, a, n) <=> r.start <= a /\ a + n <= r.start + r.len
<1>1. r.start \in Int /\ r.len \in Int
  BY DEF RegionType
<1>2. End(a, n) = a + n
  BY DEF End
<1> QED
  BY <1>1, <1>2 DEF Matches

\* The stack is not in front of rodata, and neither is the data region where it
\* has ended.
LEMMA RodataFound ==
  ASSUME MatchInv, NEW v \in VMs, setup[v],
         NEW a \in Interval(RodataAddr(app[v]), app[v].rodata),
         DataAddr(app[v]) + DataLen(app[v]) <= a
  PROVE  FirstMatch(Chain(v), a, 1) = {3}
<1> DEFINE p == app[v]
<1>1. TypeOK /\ Match(v) /\ p \in Apps
  BY DEF MatchInv, RegionsMatch, TypeOK, Match
<1>2. /\ DataAddr(p) \in Nat /\ RodataAddr(p) \in Nat /\ p.rodata \in Nat /\ p.data \in Nat
      /\ RodataAddr(p) = DataAddr(p) + p.data
      /\ a \in Image(p) /\ a \in 1..MemTop /\ a + 1 <= IntMax /\ a \in Int
      /\ RodataAddr(p) <= a /\ a + 1 <= RodataAddr(p) + p.rodata
  <2>1. /\ DataAddr(p) \in Nat /\ RodataAddr(p) \in Nat /\ p.rodata \in Nat /\ p.data \in Nat
    BY <1>1, ImageAddresses, AppTyped
  <2>2. a \in Image(p) /\ a \in 1..MemTop
    BY <1>1, ImageAddresses
  <2>3. MemTop \in Int /\ IntMax \in Int /\ MemTop + 1 <= IntMax
    BY SizesAssumption
  <2> QED
    BY <2>1, <2>2, <2>3 DEF Interval, RodataAddr, DataAddr
<1>3. stack[v] \in RegionType /\ data[v] \in RegionType /\ rodata[v] \in RegionType
  BY <1>1 DEF TypeOK
<1>4. ~Matches(stack[v], a, 1)
  <2>1. StackOf[v] \in Objects /\ StackOf[v].base \in Nat /\ StackOf[v].len \in Nat
    BY ObjectTyped DEF Objects
  <2>2. a \notin Bytes(StackOf[v])
    BY <1>1, <1>2, <2>1, DisjointAssumption
  <2>3. stack[v].start = StackOf[v].base /\ stack[v].len = StackOf[v].len
    BY <1>1 DEF Match, StackRegion, Region, MatchInv, TypeOK
  <2> QED
    BY <1>2, <1>3, <2>1, <2>2, <2>3, MatchPlain DEF Bytes, Interval
<1>5. ~Matches(data[v], a, 1)
  <2>1. CASE data[v] = Blank
    BY <1>2, <1>3, <2>1, MatchPlain DEF Blank, Region, NULL
  <2>2. CASE data[v] # Blank
    <3>1. PICK b \in heap : data[v] = DataRegion(p, b)
      BY <1>1, <2>2 DEF Match
    <3>2. data[v].start = DataAddr(p) /\ data[v].len = DataLen(p) /\ DataLen(p) \in Int
      BY <1>1, <3>1, AppTyped DEF DataRegion, Region
    <3> QED
      BY <1>2, <1>3, <3>2, MatchPlain
  <2> QED
    BY <2>1, <2>2
<1>6. Matches(rodata[v], a, 1)
  <2>1. rodata[v].start = RodataAddr(p) /\ rodata[v].len = p.rodata
    BY <1>1 DEF Match, RodataRegion, Region
  <2> QED
    BY <1>2, <1>3, <2>1, MatchPlain
<1>7. PICK len \in Nat : len >= 3 /\ DOMAIN Chain(v) = 1..len
  BY <1>1, ChainStart
<1>8. ~Matches(Chain(v)[1], a, 1) /\ ~Matches(Chain(v)[2], a, 1) /\ Matches(Chain(v)[3], a, 1)
  BY <1>1, <1>4, <1>5, <1>6, ChainStart
<1>9. ASSUME NEW k \in DOMAIN Chain(v)
      PROVE  k \in FirstMatch(Chain(v), a, 1) <=> k = 3
  <2>1. k \in Nat /\ (k = 1 \/ k = 2 \/ k = 3 \/ 3 \in 1..(k - 1))
    BY <1>7, <1>9
  <2>2. \A l \in 1..2 : l = 1 \/ l = 2
    OBVIOUS
  <2> QED
    BY <1>8, <2>1, <2>2 DEF FirstMatch
<1>10. FirstMatch(Chain(v), a, 1) \subseteq DOMAIN Chain(v) /\ 3 \in DOMAIN Chain(v)
  BY <1>7 DEF FirstMatch
<1> QED
  BY <1>9, <1>10

LEMMA MatchImpliesProtected == MatchInv => RodataProtected
<1> SUFFICES ASSUME MatchInv, NEW v \in VMs, setup[v], Compact(app[v]),
                    NEW a \in Interval(RodataAddr(app[v]), app[v].rodata)
             PROVE  GetMem(v, 1, a, "READ") = {a} /\ GetMem(v, 1, a, "WRITE") = {}
  BY DEF RodataProtected, RodataReadOnly
<1>1. 1 % SizeMod = 1
  BY SizesAssumption
<1>2. app[v] \in Apps /\ rodata[v] = RodataRegion(app[v])
  BY DEF MatchInv, RegionsMatch, TypeOK, Match
<1>3. FirstMatch(Chain(v), a, 1) = {3} /\ Chain(v)[3] = rodata[v]
  <2>1. DataAddr(app[v]) + DataLen(app[v]) = RodataAddr(app[v])
    BY DEF Compact, RodataAddr, DataAddr
  <2>2. RodataAddr(app[v]) <= a
    BY <1>2, AppTyped DEF Interval
  <2> QED
    BY <2>1, <2>2, RodataFound, ChainStart DEF MatchInv
<1>4. /\ rodata[v].phys = RodataAddr(app[v]) /\ rodata[v].start = RodataAddr(app[v])
      /\ rodata[v].flag = {"READ"}
  BY <1>2 DEF RodataRegion, Region
<1>5. RodataAddr(app[v]) \in Int /\ a \in Int
  BY <1>2, AppTyped DEF Interval
<1>6. RodataAddr(app[v]) + (a - RodataAddr(app[v])) = a
  BY <1>5
<1> QED
  BY <1>1, <1>3, <1>4, <1>6 DEF GetMem

\* Wherever the data region ends with the data section, constants are readable at
\* their own place and cannot be stored to.
THEOREM RodataAlwaysProtected == Spec => []RodataProtected
  BY MatchAlways, MatchImpliesProtected, PTL

(***************************************************************************)
(* Which bytes a step changes.                                             *)
(***************************************************************************)

\* Rounding up never makes a length smaller, and keeps the order of lengths.
LEMMA AlignUpGrows ==
  ASSUME NEW m \in Nat, NEW n \in Nat, m <= n
  PROVE  AlignUp(n) \in Nat /\ n <= AlignUp(n) /\ AlignUp(m) <= AlignUp(n)
<1> DEFINE q == (m + Align - 1) \div Align
           r == (n + Align - 1) \div Align
<1>1. Align \in Nat \ {0}
  BY SizesAssumption
<1>2. /\ q \in Nat /\ q * Align <= m + Align - 1 /\ m + Align - 1 < q * Align + Align
      /\ r \in Nat /\ r * Align <= n + Align - 1 /\ n + Align - 1 < r * Align + Align
  BY <1>1
<1>3. AlignUp(m) = q * Align /\ AlignUp(n) = r * Align
  BY DEF AlignUp
<1> HIDE DEF q, r
<1>4. q <= r
  <2>1. SUFFICES ASSUME q >= r + 1 PROVE FALSE
    BY <1>2
  <2>2. q * Align >= (r + 1) * Align
    BY <1>1, <1>2, <2>1
  <2>3. (r + 1) * Align = r * Align + Align
    BY <1>1, <1>2
  <2> QED
    BY <1>1, <1>2, <2>2, <2>3
<1>5. q * Align <= r * Align
  BY <1>1, <1>2, <1>4
<1>6. r * Align \in Nat
  BY <1>1, <1>2
<1>7. n <= r * Align
  BY <1>1, <1>2, <1>6
<1> QED
  BY <1>3, <1>5, <1>6, <1>7

\* What bpf_setup() writes lies in the block it allocated.
LEMMA FilledInBlock ==
  ASSUME NEW p \in Apps, NEW b \in Blocks, DataLen(p) <= b.len,
         NEW a \in (1..MemTop) \ Bytes(b)
  PROVE  Filled(p, b)[a] = mem[a]
<1>1. p.data \in Nat /\ p.bss \in Nat /\ b.base \in Nat /\ b.len \in Nat
  BY AppTyped, ObjectTyped DEF Objects
<1>2. AlignUp(p.data) \in Nat /\ AlignUp(p.data) <= b.len /\ p.data + p.bss <= b.len
  <2>1. p.data + p.bss \in Nat /\ p.data <= p.data + p.bss
    BY <1>1
  <2>2. p.data + p.bss <= AlignUp(p.data + p.bss) /\ AlignUp(p.data) <= AlignUp(p.data + p.bss)
        /\ AlignUp(p.data + p.bss) \in Nat /\ AlignUp(p.data) \in Nat
    BY <1>1, <2>1, AlignUpGrows
  <2>3. DataLen(p) = AlignUp(p.data + p.bss)
    BY DEF DataLen
  <2> QED
    BY <1>1, <2>1, <2>2, <2>3
<1>3. a \notin Interval(b.base + p.data, p.bss) /\ a \notin Interval(b.base, AlignUp(p.data))
  BY <1>1, <1>2 DEF Bytes, Interval
<1> QED
  BY <1>3 DEF Filled

\* A permitted store goes to one object: the stack of the instance, its block, a
\* context or an added region.
LEMMA StoreTarget ==
  ASSUME MatchInv, NoWrap, NEW v \in running, NEW a \in Addresses, NEW n \in AccessSizes,
         NEW q \in GetMem(v, n, a, "WRITE")
  PROVE  \E o \in {StackOf[v]} \cup Held(v) \cup Contexts \cup Extras :
           Interval(q, n) \subseteq Bytes(o)
<1>1. v \in VMs /\ TypeOK /\ Match(v) /\ setup[v]
  BY DEF MatchInv, RegionsMatch, TypeOK, Match
<1>2. n \in 1..(SizeMod - 1) /\ a + n <= IntMax /\ "WRITE" \in Perms
  BY SizesAssumption DEF NoWrap, Perms
<1>3. Given(v, q, n, "WRITE")
  BY <1>1, <1>2, MatchImpliesIsolation DEF Isolation
<1>4. n \in Nat /\ n > 0
  BY <1>2, SizesAssumption
<1>5. q \in Int
  <2>1. a \in Int
    BY SizesAssumption
  <2>2. PICK k \in DOMAIN Chain(v) : q = Chain(v)[k].phys + (a - Chain(v)[k].start)
    BY <1>1, <1>2, <2>1, GrantedByRegion
  <2>3. Chain(v)[k] \in RegionType \cup GivenRegions(v)
    BY <1>1, ChainParts DEF TypeOK
  <2>4. GivenRegions(v) \subseteq RegionType
    <3>1. \A o \in Extras : Region(o.base, o.base, o.len, o.flag) \in RegionType
      <4> SUFFICES ASSUME NEW o \in Extras PROVE Region(o.base, o.base, o.len, o.flag) \in RegionType
        OBVIOUS
      <4>1. o \in Objects /\ o.flag \subseteq Perms
        BY ObjectsAssumption DEF Objects
      <4> QED
        BY <4>1, ObjectTyped, RegionTyped
    <3> QED
      BY <1>1, <3>1 DEF GivenRegions, AddedRegion, TypeOK
  <2>5. Chain(v)[k].phys \in Int /\ Chain(v)[k].start \in Int
    BY <2>3, <2>4 DEF RegionType
  <2> QED
    BY <2>1, <2>2, <2>5
<1>6. ASSUME NEW o, o.base \in Int, o.len \in Int, Within(q, n, o.base, o.len)
      PROVE  Interval(q, n) \subseteq Bytes(o)
  BY <1>4, <1>5, <1>6 DEF Within, Interval, Bytes
<1>7. \A o \in Objects : o.base \in Int /\ o.len \in Int
  BY ObjectTyped
<1>8. CASE Within(q, n, StackOf[v].base, StackOf[v].len)
  BY <1>1, <1>6, <1>7, <1>8 DEF Objects
<1>9. ASSUME NEW b \in Held(v), Within(q, n, b.base, b.len)
      PROVE  \E o \in Held(v) : Interval(q, n) \subseteq Bytes(o)
  <2>1. b \in Objects
    BY <1>1 DEF Held, Objects, TypeOK
  <2> QED
    BY <1>6, <1>7, <1>9, <2>1
<1>10. CASE Within(q, n, ctx[v].base, ctx[v].len)
  <2>1. ctx[v] # NoContext
    BY <1>4, <1>5, <1>10 DEF Within, NoContext, NULL
  <2>2. ctx[v] \in Contexts /\ ctx[v] \in Objects
    BY <1>1, <2>1 DEF TypeOK, Objects
  <2> QED
    BY <1>6, <1>7, <1>10, <2>2
<1>11. ASSUME NEW o \in added[v], Within(q, n, o.base, o.len)
       PROVE  o \in Extras /\ Interval(q, n) \subseteq Bytes(o)
  <2>1. o \in Extras /\ o \in Objects
    BY <1>1, <1>11 DEF TypeOK, Objects
  <2> QED
    BY <1>6, <1>7, <1>11, <2>1
<1> QED
  BY <1>3, <1>8, <1>9, <1>10, <1>11 DEF Given

HeldBytes(v) == UNION {Bytes(b) : b \in Held(v)}

\* Images and blocks lie where the model keeps contents, apart from all objects
\* but, for the bytes of a block, that block.
LEMMA KeptAddresses ==
  /\ ImageBytes \cup BlockBytes \subseteq 1..MemTop
  /\ \A o \in Objects : ImageBytes \cap Bytes(o) = {}
  /\ \A o \in Contexts \cup Extras : BlockBytes \cap Bytes(o) = {}
  /\ \A v \in VMs : BlockBytes \cap Bytes(StackOf[v]) = {}
<1>1. ImageBytes \subseteq 1..MemTop
  BY ImageAddresses DEF ImageBytes
<1>2. \A b \in Blocks : Bytes(b) \subseteq 1..MemTop
  <2> SUFFICES ASSUME NEW b \in Blocks PROVE Bytes(b) \subseteq 1..MemTop
    OBVIOUS
  <2>1. b.base \in Nat \ {0} /\ b.len \in Nat /\ b.base + b.len <= MemTop /\ MemTop \in Int
    BY ObjectTyped, ObjectsAssumption, SizesAssumption DEF Objects, NULL
  <2> QED
    BY <2>1 DEF Bytes, Interval
<1>3. \A p \in Apps, o \in Objects : Image(p) \cap Bytes(o) = {}
  BY DisjointAssumption
<1>4. /\ \A b \in Blocks, o \in Contexts \cup Extras : Bytes(b) \cap Bytes(o) = {}
      /\ \A v \in VMs, b \in Blocks : Bytes(StackOf[v]) \cap Bytes(b) = {}
  BY DisjointAssumption
<1> QED
  BY <1>1, <1>2, <1>3, <1>4 DEF ImageBytes, BlockBytes

\* A running instance changes no image, and of the blocks only its own.
LEMMA AccessTarget ==
  ASSUME MatchInv, NoWrap, PassedClear, NEW v \in VMs, Access(v)
  PROVE  /\ \A a \in (ImageBytes \cup BlockBytes) \ HeldBytes(v) : mem'[a] = mem[a]
         /\ \A a \in 1..MemTop : mem'[a] \in {v, mem[a]}
<1>1. ASSUME NEW q, NEW n, Overwrite(v, q, n), NEW a \in 1..MemTop
      PROVE  mem'[a] \in {v, mem[a]} /\ (a \notin Interval(q, n) => mem'[a] = mem[a])
  BY <1>1 DEF Overwrite
<1>2. ASSUME NEW a \in Addresses, NEW n \in AccessSizes, Store(v, a, n)
      PROVE  \E q : Overwrite(v, q, n) /\ Interval(q, n) \cap ((ImageBytes \cup BlockBytes) \ HeldBytes(v)) = {}
  <2>1. PICK q \in GetMem(v, n, a, "WRITE") : Overwrite(v, q, n)
    BY <1>2 DEF Store
  <2>2. PICK o \in {StackOf[v]} \cup Held(v) \cup Contexts \cup Extras : Interval(q, n) \subseteq Bytes(o)
    BY <1>2, StoreTarget DEF Store
  <2>3. CASE o \in Held(v)
    <3>1. o \in Objects
      BY <2>3 DEF Held, Objects, MatchInv, TypeOK
    <3> QED
      BY <2>1, <2>2, <2>3, <3>1, KeptAddresses DEF HeldBytes
  <2>4. CASE o \notin Held(v)
    <3>1. o \in Objects
      BY <2>4 DEF Objects
    <3> QED
      BY <2>1, <2>2, <2>4, <3>1, KeptAddresses
  <2> QED
    BY <2>3, <2>4
<1>3. \E q, n : Overwrite(v, q, n) /\ Interval(q, n) \cap ((ImageBytes \cup BlockBytes) \ HeldBytes(v)) = {}
  <2>1. CASE \E a \in Addresses, n \in AccessSizes : Store(v, a, n)
    BY <1>2, <2>1
  <2>2. CASE \E d \in PassedAddrs, r \in PassedAddrs, n \in PassedSizes : Memcpy(v, d, r, n)
    BY <2>2 DEF Memcpy, PassedClear
  <2>3. CASE \E a \in PassedAddrs : Fetch(v, a)
    BY <2>3 DEF Fetch, PassedClear
  <2> QED
    BY <2>1, <2>2, <2>3 DEF Access
<1>4. PICK q, n : Overwrite(v, q, n) /\ Interval(q, n) \cap ((ImageBytes \cup BlockBytes) \ HeldBytes(v)) = {}
  BY <1>3
<1> QED
  BY <1>1, <1>4, KeptAddresses

(***************************************************************************)
(* Images.                                                                 *)
(***************************************************************************)

\* The steps that leave memory alone.
LEMMA QuietSteps ==
  ASSUME NEW v \in VMs,
         \/ \E p \in Apps : SetupNoData(v, p) \/ SetupNoMemory(v, p)
         \/ \E o \in Extras : AddRegion(v, o)
         \/ Execute(v)
         \/ \E c \in Contexts : ExecuteCtx(v, c)
         \/ Finish(v)
  PROVE  UNCHANGED mem
  BY DEF SetupNoData, SetupNoMemory, AddRegion, Execute, ExecuteCtx, Finish

\* Setting an instance up and destroying it changes one block.
LEMMA SetupChanges ==
  ASSUME NEW v \in VMs, NEW p \in Apps, NEW b \in Blocks, Setup(v, p, b)
  PROVE  \A a \in (1..MemTop) \ Bytes(b) : mem'[a] = mem[a]
  BY FilledInBlock DEF Setup

LEMMA DestroyChanges ==
  ASSUME NEW v \in VMs, Destroy(v)
  PROVE  \A a \in (1..MemTop) \ HeldBytes(v) : mem'[a] = mem[a]
<1>1. mem' = [a \in 1..MemTop |-> IF \E b \in Held(v) : a \in Bytes(b) THEN "junk" ELSE mem[a]]
  BY DEF Destroy, Free
<1> QED
  BY <1>1 DEF HeldBytes

LEMMA ImageStep ==
  ASSUME MatchInv, NoWrap, PassedClear, [Next]_vars
  PROVE  \A a \in ImageBytes : mem'[a] = mem[a]
<1>1. ImageBytes \subseteq 1..MemTop /\ \A b \in Blocks : ImageBytes \cap Bytes(b) = {}
  BY KeptAddresses DEF Objects
<1>2. \A v \in VMs : ImageBytes \cap HeldBytes(v) = {}
  BY <1>1 DEF HeldBytes, Held, MatchInv, TypeOK
<1>3. ASSUME NEW v \in VMs, NEW p \in Apps, NEW b \in Blocks, Setup(v, p, b)
      PROVE  \A a \in ImageBytes : mem'[a] = mem[a]
  BY <1>1, <1>3, SetupChanges
<1>4. ASSUME NEW v \in VMs, Destroy(v)
      PROVE  \A a \in ImageBytes : mem'[a] = mem[a]
  BY <1>1, <1>2, <1>4, DestroyChanges
<1>5. ASSUME NEW v \in VMs, Access(v)
      PROVE  \A a \in ImageBytes : mem'[a] = mem[a]
  BY <1>2, <1>5, AccessTarget
<1>6. CASE UNCHANGED vars
  BY <1>6 DEF vars
<1> QED
  BY <1>3, <1>4, <1>5, <1>6, QuietSteps DEF Next, Access

LEMMA ImageInit == Init => ImageIntact
<1> SUFFICES ASSUME Init, NEW a \in ImageBytes PROVE mem[a] = ImageTag(a)
  BY DEF ImageIntact
<1>1. a \in 1..MemTop
  BY KeptAddresses
<1> QED
  BY <1>1 DEF Init

LEMMA ImageAlways == NoWrap /\ PassedClear => (Spec => []ImageIntact)
<1> SUFFICES ASSUME NoWrap, PassedClear PROVE Spec => []ImageIntact
  OBVIOUS
<1>1. MatchInv /\ ImageIntact /\ [Next]_vars => ImageIntact'
  BY ImageStep DEF ImageIntact
<1> QED
  BY <1>1, ImageInit, MatchAlways, PTL DEF Spec

\* Whatever instances are set up, run and destroyed, and whatever they store: no
\* byte of an application image changes, as long as no access wraps around and host
\* calls are passed pointers to neither images nor blocks.
THEOREM ImagesStayIntact ==
  ASSUME NoWrap, PassedClear
  PROVE  Spec => []ImageIntact
  BY ImageAlways

(***************************************************************************)
(* The data of an instance.                                                *)
(***************************************************************************)

Own(v) ==
  data[v].len # 0 =>
    \A k \in 0..(app[v].data + app[v].bss - 1) :
      mem[data[v].phys + k] \in {v, IF k < app[v].data THEN "data" ELSE "zero"}

\* An instance without a data region holds no data to speak of.
LEMMA NoDataOwn == \A v \in VMs : data[v] = Blank => Own(v)
  BY DEF Own, Blank, Region

\* The bytes of data and bss are bytes of the block.
LEMMA OwnBytes ==
  ASSUME MatchInv, NEW v \in VMs, data[v].len # 0,
         NEW k \in 0..(app[v].data + app[v].bss - 1)
  PROVE  data[v].phys + k \in HeldBytes(v)
<1>1. TypeOK /\ Match(v) /\ data[v] # Blank
  BY DEF MatchInv, RegionsMatch, Blank, Region
<1>2. PICK b \in heap : setup[v] /\ data[v] = DataRegion(app[v], b) /\ DataLen(app[v]) <= b.len
  BY <1>1 DEF Match
<1>3. app[v] \in Apps /\ b \in Blocks /\ b \in Held(v)
  BY <1>1, <1>2, HeldBlock DEF TypeOK, Match
<1>4. /\ b.base \in Nat /\ b.len \in Nat /\ app[v].data \in Nat /\ app[v].bss \in Nat
  BY <1>3, ObjectTyped, AppTyped DEF Objects
<1>5. app[v].data + app[v].bss <= DataLen(app[v]) /\ DataLen(app[v]) \in Nat
  <2>1. app[v].data + app[v].bss \in Nat
    BY <1>4
  <2> QED
    BY <2>1, AlignUpGrows DEF DataLen
<1>6. data[v].phys = b.base
  BY <1>2 DEF DataRegion, Region
<1>7. b.base + k \in Bytes(b)
  BY <1>2, <1>4, <1>5 DEF Bytes, Interval
<1> QED
  BY <1>3, <1>6, <1>7 DEF HeldBytes

LEMMA HeldApart ==
  ASSUME MatchInv, NEW u \in VMs, NEW w \in VMs, u # w
  PROVE  HeldBytes(u) \cap HeldBytes(w) = {}
<1>1. Held(u) \cap Held(w) = {} /\ Held(u) \subseteq Blocks /\ Held(w) \subseteq Blocks
  BY DEF MatchInv, HeapAccounted, TypeOK, Held
<1>2. \A b, c \in Blocks : b # c => Bytes(b) \cap Bytes(c) = {}
  BY DisjointAssumption
<1> QED
  BY <1>1, <1>2 DEF HeldBytes

\* A step that leaves the block of an instance to it.
LEMMA OwnKept ==
  ASSUME MatchInv, NEW w \in VMs, Own(w), data'[w] = data[w], app'[w] = app[w],
         \A a \in HeldBytes(w) : mem'[a] \in {w, mem[a]}
  PROVE  Own(w)'
<1> SUFFICES ASSUME data[w].len # 0, NEW k \in 0..(app[w].data + app[w].bss - 1)
             PROVE  mem'[data[w].phys + k] \in {w, IF k < app[w].data THEN "data" ELSE "zero"}
  BY DEF Own
<1>1. mem'[data[w].phys + k] \in {w, mem[data[w].phys + k]}
  BY OwnBytes
<1>2. mem[data[w].phys + k] \in {w, IF k < app[w].data THEN "data" ELSE "zero"}
  BY DEF Own
<1> QED
  BY <1>1, <1>2

\* A byte of the data section of an image is tagged as such.
LEMMA DataTagged ==
  ASSUME ImageIntact, NEW p \in Apps, NEW k \in 0..(p.data - 1)
  PROVE  mem[DataAddr(p) + k] = "data"
<1> DEFINE a == DataAddr(p) + k
<1>1. DataAddr(p) \in Nat /\ RodataAddr(p) = DataAddr(p) + p.data /\ p.data \in Nat
  BY ImageAddresses, AppTyped DEF RodataAddr, DataAddr
<1>2. a \in Interval(DataAddr(p), p.data)
  BY <1>1 DEF Interval
<1>3. a \in Image(p)
  BY <1>2, ImageAddresses
<1>4. \A q \in Apps : a \in Image(q) => q = p
  BY <1>3, DisjointAssumption
<1>5. (CHOOSE q \in Apps : a \in Image(q)) = p
  BY <1>3, <1>4
<1>6. SectionTag(p, a) = "data"
  BY <1>1 DEF SectionTag
<1>7. a \in ImageBytes
  BY <1>3 DEF ImageBytes
<1> QED
  BY <1>5, <1>6, <1>7 DEF ImageIntact, ImageTag

\* bpf_setup() leaves the image's data and zeroes in the block, in spite of the
\* copy that is rounded up.
LEMMA FilledOwn ==
  ASSUME ImageIntact, NEW p \in Apps, NEW b \in Blocks, DataLen(p) <= b.len,
         NEW k \in 0..(p.data + p.bss - 1)
  PROVE  Filled(p, b)[b.base + k] = IF k < p.data THEN "data" ELSE "zero"
<1>1. /\ p.data \in Nat /\ p.bss \in Nat /\ b.base \in Nat \ {0} /\ b.len \in Nat
      /\ b.base + b.len <= MemTop /\ MemTop \in Int
  BY AppTyped, ObjectTyped, ObjectsAssumption, SizesAssumption DEF Objects, NULL
<1>2. /\ p.data + p.bss \in Nat /\ p.data + p.bss <= b.len
      /\ AlignUp(p.data) \in Nat /\ p.data <= AlignUp(p.data)
  <2>1. p.data + p.bss \in Nat
    BY <1>1
  <2>2. p.data + p.bss <= DataLen(p) /\ DataLen(p) \in Nat
    BY <2>1, AlignUpGrows DEF DataLen
  <2>3. AlignUp(p.data) \in Nat /\ p.data <= AlignUp(p.data)
    BY <1>1, AlignUpGrows
  <2> QED
    BY <1>1, <2>1, <2>2, <2>3
<1>3. b.base + k \in 1..MemTop
  BY <1>1, <1>2
<1>4. b.base + k \in Interval(b.base + p.data, p.bss) <=> ~(k < p.data)
  BY <1>1, <1>2 DEF Interval
<1>5. CASE k < p.data
  <2>1. b.base + k \in Interval(b.base, AlignUp(p.data))
    BY <1>1, <1>2, <1>5 DEF Interval
  <2>2. DataAddr(p) + ((b.base + k) - b.base) = DataAddr(p) + k
    BY <1>1
  <2>3. mem[DataAddr(p) + k] = "data"
    BY <1>1, <1>5, DataTagged
  <2> QED
    BY <1>3, <1>4, <1>5, <2>1, <2>2, <2>3 DEF Filled
<1>6. CASE ~(k < p.data)
  BY <1>3, <1>4, <1>6 DEF Filled
<1> QED
  BY <1>5, <1>6

LEMMA OwnStep ==
  ASSUME MatchInv, ImageIntact, OwnData, NoWrap, PassedClear, [Next]_vars
  PROVE  OwnData'
<1> SUFFICES ASSUME NEW w \in VMs PROVE Own(w)'
  BY DEF OwnData, Own
<1>0. TypeOK /\ Own(w) /\ HeldBytes(w) \subseteq BlockBytes /\ HeldBytes(w) \subseteq 1..MemTop
  BY KeptAddresses DEF MatchInv, OwnData, Own, HeldBytes, Held, BlockBytes, TypeOK
<1>1. ASSUME NEW v \in VMs, NEW p \in Apps, NEW b \in Blocks, Setup(v, p, b)
      PROVE  Own(w)'
  <2>1. CASE w = v
    <3>1. app'[w] = p /\ data'[w] = DataRegion(p, b) /\ mem' = Filled(p, b) /\ DataLen(p) <= b.len
      BY <1>0, <1>1, <2>1 DEF Setup, SetupDone, TypeOK
    <3>2. data'[w].phys = b.base
      BY <3>1 DEF DataRegion, Region
    <3> QED
      BY <3>1, <3>2, FilledOwn DEF Own
  <2>2. CASE w # v
    <3>1. app'[w] = app[w] /\ data'[w] = data[w]
      BY <1>0, <1>1, <2>2 DEF Setup, SetupDone, TypeOK
    <3>2. HeldBytes(w) \cap Bytes(b) = {}
      <4>1. b \notin heap /\ heap \subseteq Blocks
        BY <1>0, <1>1 DEF Setup, TypeOK
      <4>2. \A c \in Held(w) : c \in Blocks /\ c # b
        BY <4>1 DEF Held
      <4>3. \A c \in Held(w) : Bytes(c) \cap Bytes(b) = {}
        BY <4>2, DisjointAssumption
      <4> QED
        BY <4>3 DEF HeldBytes
    <3>3. \A a \in HeldBytes(w) : mem'[a] = mem[a]
      BY <1>0, <1>1, <3>2, SetupChanges
    <3> QED
      BY <1>0, <3>1, <3>3, OwnKept
  <2> QED
    BY <2>1, <2>2
<1>2. ASSUME NEW v \in VMs, NEW p \in Apps, SetupNoData(v, p) \/ SetupNoMemory(v, p)
      PROVE  Own(w)'
  <2>1. UNCHANGED mem
    BY <1>2, QuietSteps
  <2>2. CASE w = v
    <3>1. ~setup[v] /\ Match(v)
      BY <1>2 DEF SetupNoData, SetupNoMemory, MatchInv, RegionsMatch
    <3>2. data'[w] = Blank
      BY <1>0, <1>2, <2>2, <3>1 DEF SetupNoData, SetupNoMemory, Match, TypeOK
    <3> QED
      BY <3>2 DEF Own, Blank, Region
  <2>3. CASE w # v
    <3>1. app'[w] = app[w] /\ data'[w] = data[w]
      BY <1>0, <1>2, <2>3 DEF SetupNoData, SetupNoMemory, SetupDone, TypeOK
    <3> QED
      BY <1>0, <2>1, <3>1, OwnKept
  <2> QED
    BY <2>2, <2>3
<1>3. ASSUME NEW v \in VMs, Destroy(v)
      PROVE  Own(w)'
  <2>1. CASE w = v
    <3>1. data'[w] = Blank
      BY <1>0, <1>3, <2>1 DEF Destroy, Zeroed, TypeOK
    <3> QED
      BY <3>1 DEF Own, Blank, Region
  <2>2. CASE w # v
    <3>1. app'[w] = app[w] /\ data'[w] = data[w]
      BY <1>0, <1>3, <2>2 DEF Destroy, Zeroed, TypeOK
    <3>2. \A a \in HeldBytes(w) : mem'[a] = mem[a]
      BY <1>0, <1>3, <2>2, HeldApart, DestroyChanges
    <3> QED
      BY <1>0, <3>1, <3>2, OwnKept
  <2> QED
    BY <2>1, <2>2
<1>4. ASSUME NEW v \in VMs,
             \/ \E o \in Extras : AddRegion(v, o)
             \/ Execute(v)
             \/ \E c \in Contexts : ExecuteCtx(v, c)
             \/ Finish(v)
      PROVE  Own(w)'
  <2>1. UNCHANGED <<mem, app, data>>
    BY <1>4 DEF AddRegion, Execute, ExecuteCtx, Finish, regionVars
  <2> QED
    BY <1>0, <2>1, OwnKept
<1>5. ASSUME NEW v \in VMs, Access(v)
      PROVE  Own(w)'
  <2>1. UNCHANGED <<app, data>>
    BY <1>5, AccessSteps
  <2>2. CASE w = v
    <3>1. \A a \in HeldBytes(w) : mem'[a] \in {w, mem[a]}
      BY <1>0, <1>5, <2>2, AccessTarget
    <3> QED
      BY <1>0, <2>1, <3>1, OwnKept
  <2>3. CASE w # v
    <3>1. \A a \in HeldBytes(w) : mem'[a] = mem[a]
      BY <1>0, <1>5, <2>3, HeldApart, AccessTarget
    <3> QED
      BY <1>0, <2>1, <3>1, OwnKept
  <2> QED
    BY <2>2, <2>3
<1>6. CASE UNCHANGED vars
  BY <1>0, <1>6 DEF vars, regionVars, Own
<1> QED
  BY <1>1, <1>2, <1>3, <1>4, <1>5, <1>6 DEF Next, Access

LEMMA OwnInit == Init => OwnData
  BY DEF Init, OwnData, Blank, Region

LEMMA OwnAlways == NoWrap /\ PassedClear => (Spec => []OwnData)
<1> SUFFICES ASSUME NoWrap, PassedClear PROVE Spec => []OwnData
  OBVIOUS
<1>1. MatchInv /\ ImageIntact /\ OwnData /\ [Next]_vars => OwnData'
  BY OwnStep
<1>2. Spec => []ImageIntact
  BY ImageAlways
<1> QED
  BY <1>1, <1>2, OwnInit, MatchAlways, PTL DEF Spec

\* Each byte of data and bss is what bpf_setup() put there or what the instance
\* itself wrote, under the same conditions.
THEOREM DataStaysOwn ==
  ASSUME NoWrap, PassedClear
  PROVE  Spec => []OwnData
  BY OwnAlways
=============================================================================
