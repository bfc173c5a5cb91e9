---------------------------- MODULE LinkerProofs ----------------------------
(* Where the programs the tool makes find their variables and constants.     *)
EXTENDS Linker, RegionsProofs, Induction

(***************************************************************************)
(* The layout of rodata.                                                   *)
(***************************************************************************)

\* g starts with base and adds the elements of s one by one.
Sums(g, s, base, n) == g = [j \in 1..n |-> IF j = 1 THEN base ELSE g[j - 1] + s[j - 1]]

\* There are such sums of any length.
LEMMA SumsExist ==
  ASSUME NEW s, NEW base, NEW n \in Nat
  PROVE  \E g : Sums(g, s, base, n)
<1> DEFINE S == {k \in Nat : \E g : Sums(g, s, base, k)}
<1>1. 0 \in S
  <2> DEFINE g == [j \in 1..0 |-> 0]
  <2>1. Sums(g, s, base, 0)
    BY DEF Sums
  <2> QED
    BY <2>1
<1>2. ASSUME NEW k \in Nat, k \in S PROVE k + 1 \in S
  <2>1. PICK g : Sums(g, s, base, k)
    BY <1>2
  <2> DEFINE h == [j \in 1..(k + 1) |-> IF j = 1 THEN base ELSE g[j - 1] + s[j - 1]]
  <2>2. \A j \in 1..k : h[j] = g[j]
    BY <2>1 DEF Sums
  <2>3. Sums(h, s, base, k + 1)
    <3>1. \A j \in 1..(k + 1) : j # 1 => j - 1 \in 1..k
      OBVIOUS
    <3> QED
      BY <2>2, <3>1 DEF Sums
  <2> HIDE DEF h
  <2> QED
    BY <2>3
<1> HIDE DEF S
<1>3. Nat \subseteq S
  BY <1>1, <1>2, Inductive
<1> QED
  BY <1>3 DEF S

LEMMA ElfTyped ==
  ASSUME NEW e \in Elfs
  PROVE  /\ e.data \in Nat /\ e.bss \in Nat /\ e.rodata \in Nat /\ e.names \in Nat
         /\ e.tacked \in Seq(Nat) /\ Len(e.tacked) \in Nat
         /\ \A k \in 1..Len(e.tacked) : e.tacked[k] \in Nat
  BY ElfsAssumption DEF IsElf

\* Each section is tacked on where the one before it ends.
LEMMA BeforeSums ==
  ASSUME NEW e \in Elfs
  PROVE  /\ RodataBefore(e)[1] = e.rodata + e.names
         /\ \A k \in 1..Len(e.tacked) : RodataBefore(e)[k + 1] = RodataBefore(e)[k] + e.tacked[k]
<1> DEFINE s == e.tacked  base == e.rodata + e.names  n == Len(e.tacked) + 1
<1>1. n \in Nat /\ n >= 1
  BY ElfTyped
<1>2. \E g : Sums(g, s, base, n)
  BY <1>1, SumsExist
<1>3. Sums(RodataBefore(e), s, base, n)
  BY <1>2 DEF RodataBefore, Sums
<1>4. \A j \in 1..n : RodataBefore(e)[j] = IF j = 1 THEN base ELSE RodataBefore(e)[j - 1] + s[j - 1]
  BY <1>3 DEF Sums
<1>5. RodataBefore(e)[1] = base
  BY <1>1, <1>4
<1>6. ASSUME NEW k \in 1..Len(e.tacked)
      PROVE  RodataBefore(e)[k + 1] = RodataBefore(e)[k] + e.tacked[k]
  <2>1. k + 1 \in 1..n /\ k + 1 # 1 /\ (k + 1) - 1 = k
    BY ElfTyped
  <2> QED
    BY <1>4, <2>1
<1> QED
  BY <1>5, <1>6

\* Later sections lie behind earlier ones.
LEMMA BeforeGrows ==
  ASSUME NEW e \in Elfs
  PROVE  /\ \A k \in 1..(Len(e.tacked) + 1) : RodataBefore(e)[k] \in Nat
         /\ \A j, k \in 1..(Len(e.tacked) + 1) : j <= k => RodataBefore(e)[j] <= RodataBefore(e)[k]
<1> DEFINE n == Len(e.tacked) + 1
           R == RodataBefore(e)
           S == {d \in Nat : \A k \in 1..n : d + 1 = k => R[k] \in Nat}
           T == {d \in Nat : \A j, k \in 1..n : j + d = k => R[j] <= R[k]}
<1>1. n \in Nat /\ n >= 1 /\ \A k \in 1..(n - 1) : k \in 1..Len(e.tacked)
  BY ElfTyped
<1>2. R[1] \in Nat /\ \A k \in 1..(n - 1) : e.tacked[k] \in Nat /\ R[k + 1] = R[k] + e.tacked[k]
  BY <1>1, ElfTyped, BeforeSums
<1> HIDE DEF n, R
<1>3. 0 \in S
  BY <1>2
<1>4. ASSUME NEW d \in Nat, d \in S PROVE d + 1 \in S
  <2> SUFFICES ASSUME NEW k \in 1..n, (d + 1) + 1 = k PROVE R[k] \in Nat
    OBVIOUS
  <2>1. k - 1 \in 1..(n - 1) /\ k - 1 \in 1..n /\ d + 1 = k - 1 /\ (k - 1) + 1 = k
    BY <1>1
  <2>2. R[k - 1] \in Nat /\ R[k] = R[k - 1] + e.tacked[k - 1] /\ e.tacked[k - 1] \in Nat
    BY <1>2, <1>4, <2>1
  <2> QED
    BY <2>2
<1>5. \A k \in 1..n : R[k] \in Nat
  <2>1. Nat \subseteq S
    <3> HIDE DEF S
    <3> QED
      BY <1>3, <1>4, Inductive
  <2>2. \A k \in 1..n : k - 1 \in Nat /\ (k - 1) + 1 = k
    BY <1>1
  <2> QED
    BY <2>1, <2>2
<1>6. 0 \in T
  BY <1>1, <1>5
<1>7. ASSUME NEW d \in Nat, d \in T PROVE d + 1 \in T
  <2> SUFFICES ASSUME NEW j \in 1..n, NEW k \in 1..n, j + (d + 1) = k PROVE R[j] <= R[k]
    OBVIOUS
  <2>1. k - 1 \in 1..(n - 1) /\ k - 1 \in 1..n /\ j + d = k - 1 /\ (k - 1) + 1 = k
    BY <1>1
  <2>2. R[j] <= R[k - 1]
    BY <1>7, <2>1
  <2>3. R[k] = R[k - 1] + e.tacked[k - 1] /\ e.tacked[k - 1] \in Nat
    BY <1>2, <2>1
  <2> QED
    BY <1>5, <2>1, <2>2, <2>3
<1>8. \A j, k \in 1..n : j <= k => R[j] <= R[k]
  <2>1. Nat \subseteq T
    <3> HIDE DEF T
    <3> QED
      BY <1>6, <1>7, Inductive
  <2>2. \A j, k \in 1..n : j <= k => k - j \in Nat /\ j + (k - j) = k
    BY <1>1
  <2> QED
    BY <2>1, <2>2
<1> QED
  BY <1>5, <1>8 DEF n, R

\* Rounding up never makes a section shorter.
LEMMA RoundedGrows ==
  ASSUME NEW n \in Nat
  PROVE  Rounded(n) \in Nat /\ n <= Rounded(n)
<1> DEFINE q == (n + Pad - 1) \div Pad
<1>1. Pad \in Nat \ {0}
  BY ElfsAssumption
<1>2. q \in Nat /\ q * Pad <= n + Pad - 1 /\ n + Pad - 1 < q * Pad + Pad
  BY <1>1
<1>3. Rounded(n) = q * Pad
  BY DEF Rounded
<1> HIDE DEF q
<1>4. q * Pad \in Nat
  BY <1>1, <1>2
<1> QED
  BY <1>1, <1>2, <1>3, <1>4

\* What the header of an image says of the lengths of its sections.
LEMMA LinkedLengths ==
  ASSUME NEW e \in Elfs
  PROVE  /\ Linked(e).bss = e.bss
         /\ Linked(e).data \in Nat /\ e.data <= Linked(e).data
         /\ Linked(e).rodata \in Nat
         /\ \A k \in 1..(Len(e.tacked) + 1) : RodataBefore(e)[k] <= Linked(e).rodata
<1> DEFINE n == Len(e.tacked) + 1  R == RodataBefore(e)
<1>1. n \in Nat /\ n \in 1..n
  BY ElfTyped
<1>2. /\ \A k \in 1..n : R[k] \in Nat
      /\ \A k \in 1..n : R[k] <= R[n]
  BY <1>1, BeforeGrows
<1>3. Linked(e).data = Rounded(e.data) /\ Linked(e).rodata = Rounded(R[n]) /\ Linked(e).bss = e.bss
  BY DEF Linked
<1> HIDE DEF n, R
<1>4. R[n] \in Nat /\ e.data \in Nat
  BY <1>1, <1>2, ElfTyped
<1>5. /\ Rounded(e.data) \in Nat /\ e.data <= Rounded(e.data)
      /\ Rounded(R[n]) \in Nat /\ R[n] <= Rounded(R[n])
  BY <1>4, RoundedGrows
<1>6. \A k \in 1..n : R[k] <= Rounded(R[n])
  BY <1>2, <1>4, <1>5
<1> QED
  BY <1>3, <1>5, <1>6 DEF n, R

IsVariable(s) == s.section \in {"data", "bss"}

\* Variables lie in data and bss, one behind the other; constants in rodata.
LEMMA SymbolPlace ==
  ASSUME NEW e \in Elfs, Linked(e) \in Apps, NEW s \in Symbols(e)
  PROVE  /\ Offset(e, s) \in Nat
         /\ IsVariable(s) =>
              /\ AddressOf(e, s) = DataAddr(Linked(e)) + Offset(e, s)
              /\ Offset(e, s) < e.data + e.bss
              /\ s.section = "data" <=> Offset(e, s) < e.data
              /\ s.section = "bss" => s.at = Offset(e, s) - e.data /\ s.at \in Nat
         /\ ~IsVariable(s) =>
              /\ AddressOf(e, s) = RodataAddr(Linked(e)) + Offset(e, s)
              /\ Offset(e, s) < Linked(e).rodata
              /\ s.section \in {"rodata", "tacked"}
<1>0. /\ e.data \in Nat /\ e.bss \in Nat /\ e.rodata \in Nat /\ e.names \in Nat /\ Len(e.tacked) \in Nat
      /\ \A k \in 1..Len(e.tacked) : e.tacked[k] \in Nat
      /\ DOMAIN e.tacked = 1..Len(e.tacked)
      /\ DataAddr(Linked(e)) \in Int /\ RodataAddr(Linked(e)) \in Int
  BY ElfTyped, AppTyped
<1>1. CASE s.section = "data" /\ s.at \in 0..(e.data - 1)
  BY <1>0, <1>1 DEF Offset, AddressOf, IsVariable
<1>2. CASE s.section = "bss" /\ s.at \in 0..(e.bss - 1)
  <2>1. Offset(e, s) = e.data + s.at /\ AddressOf(e, s) = Offset(e, s) + DataAddr(Linked(e))
    BY <1>2 DEF Offset, AddressOf
  <2>2. s.at \in Nat /\ s.at < e.bss
    BY <1>0, <1>2
  <2> QED
    BY <1>0, <1>2, <2>1, <2>2, SMTT(30) DEF IsVariable
<1>3. CASE s.section = "rodata" /\ s.at \in 0..(e.rodata - 1)
  <2>1. Offset(e, s) = s.at /\ AddressOf(e, s) = Offset(e, s) + RodataAddr(Linked(e))
    BY <1>3 DEF Offset, AddressOf
  <2>2. RodataBefore(e)[1] = e.rodata + e.names /\ RodataBefore(e)[1] <= Linked(e).rodata
    BY <1>0, BeforeSums, LinkedLengths
  <2>3. Linked(e).rodata \in Nat
    BY LinkedLengths
  <2> QED
    BY <1>0, <1>3, <2>1, <2>2, <2>3 DEF IsVariable
<1>4. CASE s.section = "tacked" /\ s.of \in DOMAIN e.tacked /\ s.at \in 0..(e.tacked[s.of] - 1)
  <2> DEFINE k == s.of
  <2>1. Offset(e, s) = RodataBefore(e)[k] + s.at /\ AddressOf(e, s) = Offset(e, s) + RodataAddr(Linked(e))
    BY <1>4 DEF Offset, AddressOf
  <2>2. k \in 1..Len(e.tacked) /\ k \in 1..(Len(e.tacked) + 1) /\ k + 1 \in 1..(Len(e.tacked) + 1)
    BY <1>0, <1>4, SMTT(30)
  <2>3. /\ RodataBefore(e)[k + 1] = RodataBefore(e)[k] + e.tacked[k]
        /\ RodataBefore(e)[k + 1] <= Linked(e).rodata /\ Linked(e).rodata \in Nat
        /\ RodataBefore(e)[k] \in Nat
    BY <2>2, BeforeSums, BeforeGrows, LinkedLengths
  <2>4. e.tacked[k] \in Nat
    BY <1>0, <2>2
  <2>5. s.at \in Nat /\ s.at < e.tacked[k]
    BY <1>4, <2>4
  <2>6. Offset(e, s) \in Nat /\ Offset(e, s) < Linked(e).rodata
    BY <2>1, <2>3, <2>4, <2>5
  <2>7. AddressOf(e, s) = RodataAddr(Linked(e)) + Offset(e, s)
    BY <1>0, <2>1, <2>6
  <2> QED
    BY <1>4, <2>6, <2>7 DEF IsVariable
<1> QED
  BY <1>1, <1>2, <1>3, <1>4, SMTT(30) DEF Symbols

\* No two symbols of the same kind have one offset.
LEMMA SymbolsApart ==
  ASSUME NEW e \in Elfs, Linked(e) \in Apps, NEW s \in Symbols(e), NEW t \in Symbols(e), s # t,
         IsVariable(s) <=> IsVariable(t)
  PROVE  Offset(e, s) # Offset(e, t)
<1> DEFINE R == RodataBefore(e)
           Plain(x, name, len) == x \in [section : {name}, of : {0}, at : 0..(len - 1)]
           Tacked(x) == /\ x.of \in 1..Len(e.tacked)
                        /\ x \in [section : {"tacked"}, of : {x.of}, at : 0..(e.tacked[x.of] - 1)]
<1>0. /\ e.data \in Nat /\ e.bss \in Nat /\ e.rodata \in Nat /\ e.names \in Nat /\ Len(e.tacked) \in Nat
      /\ \A k \in 1..Len(e.tacked) : e.tacked[k] \in Nat
      /\ DOMAIN e.tacked = 1..Len(e.tacked)
  BY ElfTyped
<1>1. \A x \in Symbols(e) :
        Plain(x, "data", e.data) \/ Plain(x, "bss", e.bss) \/ Plain(x, "rodata", e.rodata) \/ Tacked(x)
  <2> SUFFICES ASSUME NEW x \in Symbols(e),
                      x \in UNION {[section : {"tacked"}, of : {k}, at : 0..(e.tacked[k] - 1)] : k \in DOMAIN e.tacked}
               PROVE  Tacked(x)
    BY DEF Symbols
  <2>1. PICK k \in DOMAIN e.tacked : x \in [section : {"tacked"}, of : {k}, at : 0..(e.tacked[k] - 1)]
    OBVIOUS
  <2> QED
    BY <1>0, <2>1
<1>2. CASE IsVariable(s)
  BY <1>0, <1>1, <1>2, SMTT(40) DEF IsVariable, Offset
<1>3. ASSUME NEW x \in Symbols(e), ~IsVariable(x)
      PROVE  \/ x.section = "rodata" /\ x.at \in Nat /\ x.of = 0 /\ Offset(e, x) = x.at /\ x.at < R[1]
             \/ /\ x.section = "tacked" /\ x.of \in 1..Len(e.tacked) /\ x.at \in Nat
                /\ Offset(e, x) = R[x.of] + x.at /\ Offset(e, x) < R[x.of + 1]
  <2>1. CASE Plain(x, "rodata", e.rodata)
    <3>1. R[1] = e.rodata + e.names
      BY BeforeSums
    <3> QED
      BY <1>0, <2>1, <3>1 DEF Offset
  <2>2. CASE Tacked(x)
    <3>1. x.of \in 1..(Len(e.tacked) + 1)
      BY <1>0, <2>2
    <3>2. R[x.of + 1] = R[x.of] + e.tacked[x.of] /\ R[x.of] \in Nat /\ e.tacked[x.of] \in Nat
      BY <1>0, <2>2, <3>1, BeforeSums, BeforeGrows
    <3> QED
      BY <2>2, <3>2 DEF Offset
  <2> QED
    BY <1>1, <1>3, <2>1, <2>2 DEF IsVariable
<1>4. ASSUME NEW x \in Symbols(e), NEW y \in Symbols(e),
             x.section = "tacked", y.section = "tacked",
             ~IsVariable(x), ~IsVariable(y), x.of < y.of
      PROVE  Offset(e, x) < Offset(e, y)
  <2>1. /\ x.of \in 1..Len(e.tacked) /\ Offset(e, x) < R[x.of + 1]
        /\ y.of \in 1..Len(e.tacked) /\ y.at \in Nat /\ Offset(e, y) = R[y.of] + y.at
    BY <1>3, <1>4
  <2>2. /\ x.of + 1 \in 1..(Len(e.tacked) + 1) /\ y.of \in 1..(Len(e.tacked) + 1) /\ x.of + 1 <= y.of
    BY <1>0, <1>4, <2>1
  <2>3. R[x.of + 1] <= R[y.of] /\ R[x.of + 1] \in Nat /\ R[y.of] \in Nat
    BY <2>2, BeforeGrows
  <2>4. Offset(e, x) \in Nat
    BY SymbolPlace
  <2> QED
    BY <2>1, <2>3, <2>4
<1>5. ASSUME NEW x \in Symbols(e), NEW y \in Symbols(e), x.section = "rodata", y.section = "tacked",
             ~IsVariable(x), ~IsVariable(y)
      PROVE  Offset(e, x) < Offset(e, y)
  <2>1. /\ Offset(e, x) < R[1]
        /\ y.of \in 1..Len(e.tacked) /\ y.at \in Nat /\ Offset(e, y) = R[y.of] + y.at
    BY <1>3, <1>5
  <2>2. 1 \in 1..(Len(e.tacked) + 1) /\ y.of \in 1..(Len(e.tacked) + 1) /\ 1 <= y.of
    BY <1>0, <2>1
  <2>3. R[1] <= R[y.of] /\ R[1] \in Nat /\ R[y.of] \in Nat
    BY <2>2, BeforeGrows
  <2>4. Offset(e, x) \in Nat
    BY SymbolPlace
  <2> QED
    BY <2>1, <2>3, <2>4
<1>6. CASE ~IsVariable(s)
  <2>1. Offset(e, s) \in Nat /\ Offset(e, t) \in Nat
    BY SymbolPlace
  <2>2. CASE s.section # t.section
    BY <1>3, <1>5, <1>6, <2>1, <2>2
  <2>3. CASE s.section = t.section /\ s.of # t.of
    <3>1. s.section = "tacked" /\ s.of \in Nat /\ t.of \in Nat
      BY <1>3, <1>6, <2>3
    <3>2. s.of < t.of \/ t.of < s.of
      BY <2>3, <3>1
    <3>3. Offset(e, s) < Offset(e, t) \/ Offset(e, t) < Offset(e, s)
      <4>1. ~IsVariable(t) /\ t.section = "tacked"
        BY <1>6, <2>3, <3>1
      <4> QED
        BY <1>4, <1>6, <3>1, <3>2, <4>1
    <3> QED
      BY <2>1, <3>3
  <2>4. CASE s.section = t.section /\ s.of = t.of
    <3>1. s.at # t.at
      <4>1. ASSUME NEW x \in Symbols(e)
            PROVE  x = [section |-> x.section, of |-> x.of, at |-> x.at]
        <5>1. \A A, B, C : x \in [section : A, of : B, at : C] =>
                x = [section |-> x.section, of |-> x.of, at |-> x.at]
          OBVIOUS
        <5> QED
          BY <1>1, <5>1, Zenon
      <4> QED
        BY <2>4, <4>1
    <3>2. s.at \in Nat /\ t.at \in Nat
      BY <1>3, <1>6
    <3>3. CASE s.section = "rodata"
      BY <1>3, <1>6, <2>4, <3>1, <3>3
    <3>4. CASE s.section = "tacked"
      <4>1. Offset(e, s) = R[s.of] + s.at /\ Offset(e, t) = R[s.of] + t.at /\ s.of \in 1..Len(e.tacked)
        BY <1>3, <1>6, <2>4, <3>4
      <4>2. s.of \in 1..(Len(e.tacked) + 1)
        BY <1>0, <4>1
      <4>3. R[s.of] \in Nat
        BY <4>2, BeforeGrows
      <4> QED
        BY <3>1, <3>2, <4>1, <4>3
    <3> QED
      BY <1>3, <1>6, <3>3, <3>4
  <2> QED
    BY <2>2, <2>3, <2>4
<1> QED
  BY <1>2, <1>6

(***************************************************************************)
(* What an instance finds at its addresses.                                *)
(***************************************************************************)

\* bss is addressed behind the data section, where an image may have rodata, text or
\* nothing; the stack, which bpf_get_mem() looks at first, is not there.
BssClear ==
  \A v \in VMs, p \in Apps : Interval(DataAddr(p), DataLen(p)) \cap Bytes(StackOf[v]) = {}

LEMMA DataLength ==
  ASSUME NEW p \in Apps
  PROVE  /\ DataLen(p) \in Nat /\ p.data + p.bss <= DataLen(p)
         /\ DataAddr(p) \in Nat \ {0} /\ DataAddr(p) + DataLen(p) <= IntMax
<1>1. /\ IsApp(p) /\ HeaderLen \in Nat \ {0} /\ Align \in Nat \ {0}
      /\ MemTop \in Int /\ IntMax \in Int /\ MemTop <= IntMax
  BY ObjectsAssumption, SizesAssumption
<1> DEFINE n == p.data + p.bss  q == (n + Align - 1) \div Align
<1>2. /\ n \in Nat /\ p.base \in Nat \ {0} /\ p.base + HeaderLen + n + Align <= MemTop
  BY <1>1 DEF IsApp, NULL
<1>3. DataLen(p) = q * Align /\ DataAddr(p) = p.base + HeaderLen
  BY DEF DataLen, AlignUp, DataAddr
<1> HIDE DEF n
<1>4. q \in Nat /\ q * Align <= n + Align - 1 /\ n + Align - 1 < q * Align + Align
  BY <1>1, <1>2
<1> HIDE DEF q
<1>5. q * Align \in Nat
  BY <1>1, <1>4
<1> QED
  BY <1>1, <1>2, <1>3, <1>4, <1>5 DEF n

\* The data region of an instance is found at the addresses of data and bss.
LEMMA DataFound ==
  ASSUME MatchInv, BssClear, NEW v \in VMs, setup[v], NEW k \in Nat, k < DataLen(app[v])
  PROVE  FirstMatch(Chain(v), DataAddr(app[v]) + k, 1) = {2}
<1> DEFINE p == app[v]  a == DataAddr(p) + k
<1>1. TypeOK /\ Match(v) /\ p \in Apps
  BY DEF MatchInv, RegionsMatch, TypeOK, Match
<1>2. /\ DataLen(p) \in Nat /\ DataAddr(p) \in Nat \ {0}
      /\ a \in Int /\ a + 1 <= IntMax /\ a \in Interval(DataAddr(p), DataLen(p))
  <2>1. /\ DataLen(p) \in Nat /\ DataAddr(p) \in Nat \ {0}
        /\ DataAddr(p) + DataLen(p) <= IntMax /\ IntMax \in Int
    BY <1>1, DataLength, SizesAssumption
  <2> QED
    BY <2>1 DEF Interval
<1>3. stack[v] \in RegionType /\ data[v] \in RegionType
  BY <1>1 DEF TypeOK
<1> HIDE DEF p
<1>4. ~Matches(stack[v], a, 1)
  <2>1. StackOf[v] \in Objects /\ StackOf[v].base \in Nat /\ StackOf[v].len \in Nat
    BY ObjectTyped DEF Objects
  <2>2. a \notin Bytes(StackOf[v])
    BY <1>1, <1>2 DEF BssClear
  <2>3. stack[v].start = StackOf[v].base /\ stack[v].len = StackOf[v].len
    BY <1>1, AppIsSet DEF Match, StackRegion, Region, p
  <2>4. ~(StackOf[v].base <= a /\ a + 1 <= StackOf[v].base + StackOf[v].len)
    BY <1>2, <2>1, <2>2 DEF Bytes, Interval
  <2> QED
    BY <1>2, <1>3, <2>3, <2>4, MatchPlain
<1>5. Matches(data[v], a, 1)
  <2>1. DataLen(p) # 0
    BY <1>2 DEF p
  <2>2. PICK b \in heap : data[v] = DataRegion(p, b)
    BY <1>1, <2>1 DEF Match, p
  <2>3. data[v].start = DataAddr(p) /\ data[v].len = DataLen(p)
    BY <2>2 DEF DataRegion, Region
  <2>4. DataAddr(p) <= a /\ a + 1 <= DataAddr(p) + DataLen(p)
    BY <1>2 DEF p
  <2> QED
    BY <1>2, <1>3, <2>3, <2>4, MatchPlain
<1>6. PICK len \in Nat : len >= 3 /\ DOMAIN Chain(v) = 1..len
  BY <1>1, ChainStart
<1>7. ~Matches(Chain(v)[1], a, 1) /\ Matches(Chain(v)[2], a, 1)
  BY <1>1, <1>4, <1>5, ChainStart
<1>8. ASSUME NEW m \in DOMAIN Chain(v)
      PROVE  m \in FirstMatch(Chain(v), a, 1) <=> m = 2
  <2>1. m \in Nat /\ (m = 1 \/ m = 2 \/ 2 \in 1..(m - 1))
    BY <1>6, <1>8
  <2>2. \A l \in 1..1 : l = 1
    OBVIOUS
  <2> QED
    BY <1>7, <2>1, <2>2 DEF FirstMatch
<1>9. FirstMatch(Chain(v), a, 1) \subseteq DOMAIN Chain(v) /\ 2 \in DOMAIN Chain(v)
  BY <1>6 DEF FirstMatch
<1> QED
  BY <1>8, <1>9 DEF p

\* A byte of the rodata section of an image is tagged as such.
LEMMA RodataTagged ==
  ASSUME ImageIntact, NEW p \in Apps, NEW a \in Interval(RodataAddr(p), p.rodata)
  PROVE  mem[a] = "rodata" /\ a \in Image(p)
<1>1. /\ DataAddr(p) \in Nat /\ RodataAddr(p) \in Nat /\ p.rodata \in Nat
      /\ DataAddr(p) <= RodataAddr(p) /\ TextAddr(p) = RodataAddr(p) + p.rodata
  BY ImageAddresses, AppTyped DEF TextAddr
<1>2. a \in Image(p)
  BY ImageAddresses
<1>3. \A q \in Apps : a \in Image(q) => q = p
  BY <1>2, DisjointAssumption
<1>4. (CHOOSE q \in Apps : a \in Image(q)) = p
  BY <1>2, <1>3
<1>5. a \in Int /\ RodataAddr(p) <= a /\ a < TextAddr(p)
  BY <1>1 DEF Interval
<1>6. SectionTag(p, a) = "rodata"
  BY <1>1, <1>5 DEF SectionTag
<1>7. a \in ImageBytes
  BY <1>2 DEF ImageBytes
<1> QED
  BY <1>2, <1>4, <1>6, <1>7 DEF ImageIntact, ImageTag

\* A variable is found in the block of the instance, at its offset.
LEMMA VariableSeen ==
  ASSUME MatchInv, OwnData, BssClear, NEW v \in VMs, NEW e \in Elfs, Instance(v, e),
         NEW s \in Symbols(e), IsVariable(s)
  PROVE  /\ Seen(v, e, s) = {data[v].phys + Offset(e, s)}
         /\ data[v].phys \in Nat /\ data[v].phys + Offset(e, s) \in BlockBytes
         /\ Sound(v, e, s)
<1> DEFINE p == app[v]  k == Offset(e, s)  a == AddressOf(e, s)  q == data[v].phys + k
<1>1. TypeOK /\ Match(v) /\ p \in Apps /\ setup[v] /\ p = Linked(e)
  BY DEF MatchInv, RegionsMatch, TypeOK, Match, Instance
<1>2. /\ k \in Nat /\ a = DataAddr(p) + k /\ k < e.data + e.bss
      /\ s.section = "data" <=> k < e.data
      /\ s.section = "bss" => s.at = k - e.data /\ s.at \in Nat
  BY <1>1, SymbolPlace
<1>3. /\ e.data \in Nat /\ e.bss \in Nat /\ p.data \in Nat /\ p.bss = e.bss /\ e.data <= p.data
      /\ p.data + p.bss <= DataLen(p) /\ DataLen(p) \in Nat /\ DataAddr(p) \in Nat
  BY <1>1, ElfTyped, LinkedLengths, DataLength
<1>4. k < p.data + p.bss /\ k < DataLen(p) /\ DataLen(p) # 0
  BY <1>2, <1>3
<1>5. PICK b \in heap : data[v] = DataRegion(p, b)
  BY <1>1, <1>4 DEF Match
<1>6. /\ data[v].start = DataAddr(p) /\ data[v].phys = b.base /\ data[v].flag = Perms
      /\ data[v].len = DataLen(p)
  BY <1>5 DEF DataRegion, Region
<1>7. b.base \in Nat /\ Held(v) \subseteq Blocks
  BY <1>1, ObjectTyped DEF TypeOK, Objects, Held
<1>8. FirstMatch(Chain(v), a, 1) = {2} /\ Chain(v)[2] = data[v]
  <2>1. FirstMatch(Chain(v), DataAddr(p) + k, 1) = {2}
    BY <1>1, <1>2, <1>4, DataFound
  <2> QED
    BY <1>1, <1>2, <2>1, ChainStart
<1>9. 1 % SizeMod = 1 /\ "READ" \in Perms /\ "WRITE" \in Perms
  BY SizesAssumption DEF Perms
<1>10. data[v].phys + (a - data[v].start) = q
  BY <1>2, <1>3, <1>6, <1>7
<1>11. Seen(v, e, s) = {q} /\ GetMem(v, 1, a, "WRITE") = {q}
  BY <1>6, <1>8, <1>9, <1>10 DEF Seen, GetMem
<1>12. mem[q] \in {v, IF k < p.data THEN "data" ELSE "zero"} /\ q \in HeldBytes(v)
  <2>1. k \in 0..(p.data + p.bss - 1)
    BY <1>2, <1>3, <1>4
  <2> QED
    BY <1>1, <1>4, <1>6, <2>1, OwnBytes DEF OwnData
<1>13. q \in BlockBytes
  BY <1>7, <1>12 DEF HeldBytes, BlockBytes
<1>14. s.section = "data" => mem[q] \in {v, "data"}
  BY <1>2, <1>3, <1>12
<1>15. s.section = "bss" => mem[q] \in {v, "zero"} \/ (mem[q] = "data" /\ s.at < p.data - e.data)
  BY <1>2, <1>3, <1>12
<1>16. Sound(v, e, s)
  BY <1>1, <1>11, <1>14, <1>15 DEF Sound, StoreAllowed, IsVariable
<1> QED
  BY <1>6, <1>7, <1>11, <1>13, <1>16

\* A constant is found where it is in the image, but where the data region covers it.
LEMMA ConstantSeen ==
  ASSUME MatchInv, ImageIntact, NEW v \in VMs, NEW e \in Elfs, Instance(v, e),
         NEW s \in Symbols(e), ~IsVariable(s), ~Covered(e, s)
  PROVE  /\ Seen(v, e, s) = {RodataAddr(app[v]) + Offset(e, s)}
         /\ RodataAddr(app[v]) \in Nat
         /\ RodataAddr(app[v]) + Offset(e, s) \in ImageBytes
         /\ Sound(v, e, s)
<1> DEFINE p == app[v]  k == Offset(e, s)  a == AddressOf(e, s)
<1>1. TypeOK /\ Match(v) /\ p \in Apps /\ setup[v] /\ p = Linked(e)
  BY DEF MatchInv, RegionsMatch, TypeOK, Match, Instance
<1>2. /\ k \in Nat /\ a = RodataAddr(p) + k /\ k < p.rodata /\ s.section \in {"rodata", "tacked"}
  BY <1>1, SymbolPlace
<1>3. /\ p.rodata \in Nat /\ DataLen(p) \in Nat /\ p.data \in Nat /\ DataAddr(p) \in Nat
      /\ RodataAddr(p) \in Nat /\ RodataAddr(p) = DataAddr(p) + p.data
  BY <1>1, AppTyped, DataLength, ImageAddresses DEF RodataAddr, DataAddr
<1>4. a \in Interval(RodataAddr(p), p.rodata)
  BY <1>2, <1>3 DEF Interval
<1>5. DataAddr(p) + DataLen(p) <= a
  <2>1. ~(k < DataLen(p) - p.data)
    BY <1>1, <1>2 DEF Covered
  <2> QED
    BY <1>2, <1>3, <2>1
<1>6. FirstMatch(Chain(v), a, 1) = {3} /\ Chain(v)[3] = rodata[v]
  BY <1>1, <1>4, <1>5, RodataFound, ChainStart
<1>7. rodata[v].start = RodataAddr(p) /\ rodata[v].phys = RodataAddr(p) /\ rodata[v].flag = {"READ"}
  BY <1>1 DEF Match, RodataRegion, Region
<1>8. 1 % SizeMod = 1
  BY SizesAssumption
<1>9. rodata[v].phys + (a - rodata[v].start) = a
  BY <1>2, <1>3, <1>7
<1>10. Seen(v, e, s) = {a}
  BY <1>6, <1>7, <1>8, <1>9 DEF Seen, GetMem
<1>11. mem[a] = "rodata" /\ a \in ImageBytes
  BY <1>1, <1>4, RodataTagged DEF ImageBytes
<1>12. Sound(v, e, s)
  BY <1>2, <1>10, <1>11 DEF Sound
<1> QED
  BY <1>2, <1>3, <1>10, <1>11, <1>12

LEMMA ImagesImplyReferences ==
  ASSUME MatchInv, ImageIntact, OwnData, BssClear
  PROVE  References
<1> SUFFICES ASSUME NEW v \in VMs, NEW e \in Elfs, Instance(v, e)
             PROVE  /\ \A s \in {x \in Symbols(e) : ~Covered(e, x)} : Sound(v, e, s)
                    /\ \A s, t \in {x \in Symbols(e) : ~Covered(e, x)} :
                         s # t => Seen(v, e, s) \cap Seen(v, e, t) = {}
  BY DEF References
<1>1. \A s \in Symbols(e) : ~Covered(e, s) => Sound(v, e, s)
  BY VariableSeen, ConstantSeen
<1>2. ASSUME NEW s \in Symbols(e), NEW t \in Symbols(e), s # t, ~Covered(e, s), ~Covered(e, t)
      PROVE  Seen(v, e, s) \cap Seen(v, e, t) = {}
  <2>1. app[v] = Linked(e) /\ Linked(e) \in Apps
    BY DEF MatchInv, RegionsMatch, TypeOK, Match, Instance
  <2>2. Offset(e, s) \in Nat /\ Offset(e, t) \in Nat
    BY <2>1, SymbolPlace
  <2>3. CASE IsVariable(s) /\ IsVariable(t)
    <3>1. /\ Seen(v, e, s) = {data[v].phys + Offset(e, s)} /\ data[v].phys \in Nat
          /\ Seen(v, e, t) = {data[v].phys + Offset(e, t)}
      BY <2>3, VariableSeen
    <3>2. Offset(e, s) # Offset(e, t)
      BY <1>2, <2>1, <2>3, SymbolsApart
    <3>3. data[v].phys + Offset(e, s) # data[v].phys + Offset(e, t)
      BY <2>2, <3>1, <3>2
    <3> QED
      BY <3>1, <3>3
  <2>4. CASE ~IsVariable(s) /\ ~IsVariable(t)
    <3>1. /\ Seen(v, e, s) = {RodataAddr(app[v]) + Offset(e, s)} /\ RodataAddr(app[v]) \in Nat
          /\ Seen(v, e, t) = {RodataAddr(app[v]) + Offset(e, t)}
      BY <1>2, <2>4, ConstantSeen
    <3>2. Offset(e, s) # Offset(e, t)
      BY <1>2, <2>1, <2>4, SymbolsApart
    <3>3. RodataAddr(app[v]) + Offset(e, s) # RodataAddr(app[v]) + Offset(e, t)
      BY <2>2, <3>1, <3>2
    <3> QED
      BY <3>1, <3>3
  <2>5. BlockBytes \cap ImageBytes = {}
    BY KeptAddresses DEF BlockBytes, Objects
  <2>6. CASE IsVariable(s) /\ ~IsVariable(t)
    <3>1. Seen(v, e, s) \subseteq BlockBytes /\ Seen(v, e, t) \subseteq ImageBytes
      BY <1>2, <2>6, VariableSeen, ConstantSeen
    <3> QED
      BY <2>5, <3>1
  <2>7. CASE ~IsVariable(s) /\ IsVariable(t)
    <3>1. Seen(v, e, t) \subseteq BlockBytes /\ Seen(v, e, s) \subseteq ImageBytes
      BY <1>2, <2>7, VariableSeen, ConstantSeen
    <3> QED
      BY <2>5, <3>1
  <2> QED
    BY <2>3, <2>4, <2>6, <2>7
<1> QED
  BY <1>1, <1>2

LEMMA ReferencesAlways == NoWrap /\ PassedClear /\ BssClear => (Spec => []References)
<1> SUFFICES ASSUME NoWrap, PassedClear, BssClear PROVE Spec => []References
  OBVIOUS
<1>1. Spec => []ImageIntact /\ []OwnData
  BY ImageAlways, OwnAlways
<1>2. MatchInv /\ ImageIntact /\ OwnData => References
  BY ImagesImplyReferences
<1> QED
  BY <1>1, <1>2, MatchAlways, PTL

\* Every program the tool links finds its variables and constants, each apart from
\* the others, in every instance and whatever became of earlier ones: the offsets
\* the tool computes and the regions bpf_setup() lays out fit each other at any
\* lengths and paddings.  Besides the conditions on stores, the addresses that bss
\* takes up behind the data section must not be those of a stack.
THEOREM ReferencesHold ==
  ASSUME NoWrap, PassedClear, BssClear
  PROVE  Spec => []References
  BY ReferencesAlways
=============================================================================
