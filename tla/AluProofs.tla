----------------------------- MODULE AluProofs -----------------------------
(* What the instructions compute, at every width of registers and whatever    *)
(* they hold.                                                                 *)
EXTENDS Alu, Induction

(***************************************************************************)
(* Division.                                                               *)
(***************************************************************************)

LEMMA Divided ==
  ASSUME NEW p \in Nat \ {0}, NEW x \in Int
  PROVE  x \div p \in Int /\ x % p \in 0..(p - 1) /\ x = (x \div p) * p + (x % p)
<1>1. x \div p \in Int
  OBVIOUS
<1>2. x % p \in 0..(p - 1)
  OBVIOUS
<1>3. x = (x \div p) * p + (x % p)
  OBVIOUS
<1> QED
  BY <1>1, <1>2, <1>3

\* Quotient and remainder are unique.
LEMMA DivUnique ==
  ASSUME NEW p \in Nat \ {0}, NEW q \in Int, NEW r \in 0..(p - 1)
  PROVE  (q * p + r) \div p = q /\ (q * p + r) % p = r
<1> DEFINE x == q * p + r  d == x \div p  m == x % p
<1>1. x \in Int
  OBVIOUS
<1>2. d \in Int /\ m \in 0..(p - 1) /\ x = d * p + m
  <2> HIDE DEF x
  <2> QED
    BY <1>1, Divided
<1> HIDE DEF d, m
<1>3. q * p + r = d * p + m
  BY <1>2
<1>4. ~(q < d)
  <2> SUFFICES ASSUME q + 1 <= d PROVE FALSE
    BY <1>2
  <2>1. (q + 1) * p <= d * p
    BY <1>2
  <2>2. (q + 1) * p = q * p + p
    OBVIOUS
  <2> QED
    BY <1>2, <1>3, <2>1, <2>2
<1>5. ~(d < q)
  <2> SUFFICES ASSUME d + 1 <= q PROVE FALSE
    BY <1>2
  <2>1. (d + 1) * p <= q * p
    BY <1>2
  <2>2. (d + 1) * p = d * p + p
    BY <1>2
  <2> QED
    BY <1>2, <1>3, <2>1, <2>2
<1>6. d = q
  BY <1>2, <1>4, <1>5
<1> QED
  BY <1>2, <1>3, <1>6 DEF d, m

LEMMA DivIs ==
  ASSUME NEW p \in Nat \ {0}, NEW q \in Int, NEW r \in 0..(p - 1), NEW x, x = q * p + r
  PROVE  x \div p = q /\ x % p = r
  BY DivUnique

LEMMA ModSmall ==
  ASSUME NEW p \in Nat \ {0}, NEW x \in 0..(p - 1)
  PROVE  x % p = x /\ x \div p = 0
<1>1. 0 * p + x = x
  OBVIOUS
<1> QED
  BY <1>1, DivUnique

\* Multiples of p do not change a remainder.
LEMMA ModMultiple ==
  ASSUME NEW p \in Nat \ {0}, NEW q \in Int, NEW x \in Int
  PROVE  (q * p + x) % p = x % p /\ (q * p + x) \div p = q + x \div p
<1> DEFINE d == x \div p  m == x % p
<1>1. d \in Int /\ m \in 0..(p - 1) /\ x = d * p + m
  BY Divided
<1> HIDE DEF d, m
<1>2. q * p + x = (q + d) * p + m
  BY <1>1
<1>3. ((q + d) * p + m) % p = m /\ ((q + d) * p + m) \div p = q + d
  BY <1>1, DivUnique
<1> QED
  BY <1>2, <1>3 DEF d, m

\* What a number and its remainder differ in is a multiple.
LEMMA ModDiffers ==
  ASSUME NEW p \in Nat \ {0}, NEW x \in Int
  PROVE  ((x % p) - x) % p = 0 /\ (x - (x % p)) % p = 0
<1> DEFINE d == x \div p  m == x % p
<1>1. d \in Int /\ m \in 0..(p - 1) /\ x = d * p + m
  BY Divided
<1> HIDE DEF d, m
<1>2. m - x = (-d) * p + 0 /\ x - m = d * p + 0
  BY <1>1
<1>3. ((-d) * p + 0) % p = 0 /\ (d * p + 0) % p = 0
  BY <1>1, DivUnique
<1> QED
  BY <1>2, <1>3 DEF m

\* Dividing twice is dividing once by the product.
LEMMA DivDiv ==
  ASSUME NEW p \in Nat \ {0}, NEW q \in Nat \ {0}, NEW x \in Int
  PROVE  (x \div p) \div q = x \div (p * q)
<1> DEFINE y == x \div p  r == x % p  z == y \div q  s == y % q
<1>1. y \in Int /\ r \in 0..(p - 1) /\ x = y * p + r
  BY Divided
<1>2. z \in Int /\ s \in 0..(q - 1) /\ y = z * q + s
  BY <1>1, Divided
<1> HIDE DEF y, r, z, s
<1>3. x = z * (p * q) + (s * p + r)
  <2>1. x = (z * q + s) * p + r
    BY <1>1, <1>2
  <2>2. (z * q + s) * p = z * (p * q) + s * p
    BY <1>2
  <2> QED
    BY <1>1, <1>2, <2>1, <2>2
<1>4. p * q \in Nat \ {0}
  OBVIOUS
<1>5. s * p + r \in 0..(p * q - 1)
  <2>1. s * p \in Nat
    BY <1>2
  <2>2. (s + 1) * p <= q * p
    BY <1>2
  <2>3. (s + 1) * p = s * p + p /\ q * p = p * q
    BY <1>2
  <2> QED
    BY <1>1, <1>4, <2>1, <2>2, <2>3
<1>6. x \div (p * q) = z
  BY <1>2, <1>3, <1>4, <1>5, DivUnique
<1> QED
  BY <1>6 DEF y, z

(***************************************************************************)
(* Powers of 2.                                                            *)
(***************************************************************************)

LEMMA PowSteps ==
  /\ Pow[0] = 1
  /\ \A n \in Nat : Pow[n] \in Nat \ {0} /\ Pow[n + 1] = 2 * Pow[n]
<1> DEFINE f == [x \in Nat |-> 2 * x]
<1>1. 1 \in Nat /\ f \in [Nat -> Nat]
  OBVIOUS
<1> HIDE DEF f
<1>2. \E g : Iteration(g, f, 1, Nat)
  BY <1>1, IterationExists
<1> SUFFICES ASSUME NEW g, Iteration(g, f, 1, Nat)
             PROVE  /\ Pow[0] = 1
                    /\ \A n \in Nat : Pow[n] \in Nat \ {0} /\ Pow[n + 1] = 2 * Pow[n]
  BY <1>2
<1>3. g \in [Nat -> Nat] /\ g[0] = 1 /\ \A n \in Nat : g[n + 1] = 2 * g[n]
  BY DEF f, Iteration
<1>4. \A n \in Nat : g[n] = IF n = 0 THEN 1 ELSE 2 * g[n - 1]
  <2> SUFFICES ASSUME NEW n \in Nat, n # 0 PROVE g[n] = 2 * g[n - 1]
    BY <1>3
  <2>1. n - 1 \in Nat /\ (n - 1) + 1 = n
    OBVIOUS
  <2> QED
    BY <1>3, <2>1
<1>5. g = [n \in Nat |-> IF n = 0 THEN 1 ELSE 2 * g[n - 1]]
  BY <1>3, <1>4
<1>6. Pow = [n \in Nat |-> IF n = 0 THEN 1 ELSE 2 * Pow[n - 1]]
  BY <1>5 DEF Pow
<1>7. Pow[0] = 1
  BY <1>6
<1>8. \A n \in Nat : Pow[n + 1] = 2 * Pow[n]
  <2> SUFFICES ASSUME NEW n \in Nat PROVE Pow[n + 1] = 2 * Pow[n]
    OBVIOUS
  <2>1. n + 1 \in Nat /\ n + 1 # 0 /\ (n + 1) - 1 = n
    OBVIOUS
  <2> QED
    BY <1>6, <2>1
<1> DEFINE S == {n \in Nat : Pow[n] \in Nat \ {0}}
<1>9. 0 \in S
  BY <1>7
<1>10. ASSUME NEW n \in Nat, n \in S PROVE n + 1 \in S
  BY <1>8, <1>10
<1> HIDE DEF S
<1>11. Nat \subseteq S
  BY <1>9, <1>10, Inductive
<1> QED
  BY <1>7, <1>8, <1>11 DEF S

LEMMA PowAdd ==
  ASSUME NEW m \in Nat, NEW n \in Nat
  PROVE  Pow[m + n] = Pow[m] * Pow[n]
<1> DEFINE S == {k \in Nat : Pow[m + k] = Pow[m] * Pow[k]}
<1>1. 0 \in S
  <2>1. Pow[m] \in Nat /\ Pow[0] = 1 /\ m + 0 = m
    BY PowSteps
  <2> QED
    BY <2>1
<1>2. ASSUME NEW k \in Nat, k \in S PROVE k + 1 \in S
  <2>1. Pow[m + k] = Pow[m] * Pow[k] /\ m + (k + 1) = (m + k) + 1 /\ m + k \in Nat
    BY <1>2
  <2>2. Pow[(m + k) + 1] = 2 * Pow[m + k] /\ Pow[k + 1] = 2 * Pow[k]
        /\ Pow[m] \in Nat /\ Pow[k] \in Nat
    BY <2>1, PowSteps
  <2>3. 2 * (Pow[m] * Pow[k]) = Pow[m] * (2 * Pow[k])
    BY <2>2
  <2> QED
    BY <2>1, <2>2, <2>3
<1> HIDE DEF S
<1>3. Nat \subseteq S
  BY <1>1, <1>2, Inductive
<1> QED
  BY <1>3 DEF S

LEMMA PowGrows ==
  ASSUME NEW m \in Nat, NEW n \in Nat, m <= n
  PROVE  Pow[m] <= Pow[n] /\ (m < n => 2 * Pow[m] <= Pow[n])
<1>1. n - m \in Nat /\ m + (n - m) = n
  OBVIOUS
<1>2. Pow[n] = Pow[m] * Pow[n - m] /\ Pow[m] \in Nat \ {0} /\ Pow[n - m] \in Nat \ {0}
  <2>1. Pow[m + (n - m)] = Pow[m] * Pow[n - m]
    BY <1>1, PowAdd
  <2> QED
    BY <1>1, <2>1, PowSteps
<1>3. m < n => Pow[n - m] >= 2
  <2> SUFFICES ASSUME m < n PROVE Pow[n - m] >= 2
    OBVIOUS
  <2>1. n - m - 1 \in Nat /\ (n - m - 1) + 1 = n - m
    OBVIOUS
  <2>2. Pow[n - m] = 2 * Pow[n - m - 1] /\ Pow[n - m - 1] \in Nat \ {0}
    BY <2>1, PowSteps
  <2> QED
    BY <2>2
<1> DEFINE a == Pow[m]  b == Pow[n - m]
<1>4. a \in Nat \ {0} /\ b \in Nat \ {0} /\ Pow[n] = a * b
  BY <1>2
<1>5. (m < n) => b >= 2
  BY <1>3
<1> HIDE DEF a, b
<1>6. a * 1 <= a * b /\ (b >= 2 => a * 2 <= a * b)
  BY <1>4
<1> QED
  BY <1>4, <1>5, <1>6 DEF a

LEMMA PowExceeds == \A n \in Nat : n < Pow[n]
<1> DEFINE S == {n \in Nat : n < Pow[n]}
<1>1. 0 \in S
  BY PowSteps
<1>2. ASSUME NEW n \in Nat, n \in S PROVE n + 1 \in S
  BY <1>2, PowSteps
<1> HIDE DEF S
<1>3. Nat \subseteq S
  BY <1>1, <1>2, Inductive
<1> QED
  BY <1>3 DEF S

LEMMA PowZero == Pow[0] = 1 /\ Pow[1] = 2
<1>1. Pow[0] = 1 /\ Pow[0 + 1] = 2 * Pow[0]
  BY PowSteps
<1> QED
  BY <1>1

LEMMA PowDown ==
  ASSUME NEW n \in Nat \ {0}
  PROVE  Pow[n] = 2 * Pow[n - 1] /\ Pow[n - 1] \in Nat \ {0} /\ Pow[n] \div 2 = Pow[n - 1]
<1>1. n - 1 \in Nat /\ (n - 1) + 1 = n
  OBVIOUS
<1>2. Pow[n] = 2 * Pow[n - 1] /\ Pow[n - 1] \in Nat \ {0}
  BY <1>1, PowSteps
<1> QED
  BY <1>2

LEMMA Widths ==
  /\ Half \in Nat \ {0} /\ 2 * Half \in Nat \ {0}
  /\ H \in Nat \ {0} /\ M \in Nat \ {0} /\ M = H * H
  /\ H \div 2 \in Nat \ {0} /\ H = 2 * (H \div 2)
  /\ M \div 2 \in Nat \ {0} /\ M = 2 * (M \div 2)
  /\ 2 * H <= M
<1>1. Half \in Nat \ {0} /\ 2 * Half \in Nat \ {0} /\ Half + Half = 2 * Half
  BY AluAssumption
<1>2. Pow[Half] \in Nat \ {0} /\ Pow[2 * Half] \in Nat \ {0}
  BY <1>1, PowSteps
<1>3. Pow[Half + Half] = Pow[Half] * Pow[Half]
  BY <1>1, PowAdd
<1>4. Pow[Half] = 2 * Pow[Half - 1] /\ Pow[Half - 1] \in Nat \ {0} /\ Pow[Half] \div 2 = Pow[Half - 1]
  BY <1>1, PowDown
<1>5. /\ Pow[2 * Half] = 2 * Pow[2 * Half - 1] /\ Pow[2 * Half - 1] \in Nat \ {0}
      /\ Pow[2 * Half] \div 2 = Pow[2 * Half - 1]
  BY <1>1, PowDown
<1>6. 2 * Pow[Half] <= Pow[2 * Half]
  <2>1. Half < 2 * Half /\ Half \in Nat /\ 2 * Half \in Nat
    BY <1>1
  <2> QED
    BY <2>1, PowGrows
<1> QED
  BY <1>1, <1>2, <1>3, <1>4, <1>5, <1>6 DEF H, M

(***************************************************************************)
(* Bits.                                                                   *)
(***************************************************************************)

\* The low bits of a number are those of its remainder.
LEMMA BitMod ==
  ASSUME NEW n \in Nat, NEW k \in Nat, k < n, NEW x \in Int
  PROVE  ((x % Pow[n]) \div Pow[k]) % 2 = (x \div Pow[k]) % 2
<1> DEFINE p == Pow[k]  q == Pow[n - k - 1]  d == x \div Pow[n]  r == x % Pow[n]
<1>1. Pow[n] = p * (2 * q) /\ p \in Nat \ {0} /\ q \in Nat \ {0}
  <2>1. n - k \in Nat \ {0} /\ k + (n - k) = n /\ n - k - 1 \in Nat
    OBVIOUS
  <2>2. Pow[k + (n - k)] = Pow[k] * Pow[n - k]
    BY <2>1, PowAdd
  <2>3. Pow[n - k] = 2 * Pow[n - k - 1]
    BY <2>1, PowDown
  <2> QED
    BY <2>1, <2>2, <2>3, PowSteps
<1>2. d \in Int /\ r \in Int /\ x = d * Pow[n] + r
  <2> DEFINE N == Pow[n]
  <2>1. N \in Nat \ {0}
    BY PowSteps
  <2> HIDE DEF N
  <2>2. x \div N \in Int /\ x % N \in 0..(N - 1) /\ x = (x \div N) * N + (x % N)
    BY <2>1, Divided
  <2>3. x % N \in Int
    BY <2>1, <2>2
  <2> QED
    BY <2>2, <2>3 DEF N
<1> HIDE DEF p, q, d, r
<1>3. x = ((d * q) * 2) * p + r
  <2>1. d * (p * (2 * q)) = ((d * q) * 2) * p
    BY <1>1, <1>2
  <2> QED
    BY <1>1, <1>2, <2>1
<1>4. (d * q) * 2 \in Int /\ d * q \in Int
  BY <1>1, <1>2
<1>5. (((d * q) * 2) * p + r) \div p = (d * q) * 2 + r \div p
  BY <1>1, <1>2, <1>4, ModMultiple
<1>6. ((d * q) * 2 + r \div p) % 2 = (r \div p) % 2
  <2>1. r \div p \in Int /\ 2 \in Nat \ {0}
    BY <1>1, <1>2, Divided
  <2> QED
    BY <1>4, <2>1, ModMultiple
<1> QED
  BY <1>3, <1>5, <1>6 DEF p, r

LEMMA BitsMod ==
  ASSUME NEW n \in Nat, NEW x \in Int
  PROVE  Bits(x % Pow[n], n) = Bits(x, n)
<1>1. \A k \in 0..(n - 1) : ((x % Pow[n]) \div Pow[k]) % 2 = (x \div Pow[k]) % 2
  <2> TAKE k \in 0..(n - 1)
  <2>1. k \in Nat /\ k < n
    OBVIOUS
  <2> QED
    BY <2>1, BitMod
<1> QED
  BY <1>1 DEF Bits

LEMMA BitDiv ==
  ASSUME NEW b \in Nat, NEW k \in Nat, NEW x \in Int
  PROVE  (x \div Pow[b]) \div Pow[k] = x \div Pow[k + b]
<1>1. Pow[b] \in Nat \ {0} /\ Pow[k] \in Nat \ {0} /\ b + k = k + b
  BY PowSteps
<1>2. Pow[b + k] = Pow[b] * Pow[k]
  BY PowAdd
<1>3. (x \div Pow[b]) \div Pow[k] = x \div (Pow[b] * Pow[k])
  BY <1>1, DivDiv
<1> QED
  BY <1>1, <1>2, <1>3

\* A shift to the left moves the bits up and fills with zeros.
LEMMA BitShift ==
  ASSUME NEW b \in Nat, NEW k \in Nat, NEW x \in Int
  PROVE  /\ b <= k => (x * Pow[b]) \div Pow[k] = x \div Pow[k - b]
         /\ k < b => ((x * Pow[b]) \div Pow[k]) % 2 = 0
<1>1. Pow[b] \in Nat \ {0} /\ Pow[k] \in Nat \ {0}
  BY PowSteps
<1>2. ASSUME b <= k PROVE (x * Pow[b]) \div Pow[k] = x \div Pow[k - b]
  <2>1. k - b \in Nat /\ (k - b) + b = k
    BY <1>2
  <2>2. x * Pow[b] \in Int
    BY <1>1
  <2>3. ((x * Pow[b]) \div Pow[b]) \div Pow[k - b] = (x * Pow[b]) \div Pow[(k - b) + b]
    BY <2>1, <2>2, BitDiv
  <2>4. (x * Pow[b] + 0) \div Pow[b] = x
    BY <1>1, DivUnique
  <2>5. x * Pow[b] + 0 = x * Pow[b]
    BY <2>2
  <2> QED
    BY <2>1, <2>3, <2>4, <2>5
<1>3. ASSUME k < b PROVE ((x * Pow[b]) \div Pow[k]) % 2 = 0
  <2> DEFINE p == Pow[k]  q == Pow[b - k - 1]
  <2>1. Pow[b] = p * (2 * q) /\ p \in Nat \ {0} /\ q \in Nat \ {0}
    <3>1. b - k \in Nat \ {0} /\ k + (b - k) = b /\ b - k - 1 \in Nat
      BY <1>3
    <3>2. Pow[k + (b - k)] = Pow[k] * Pow[b - k]
      BY <3>1, PowAdd
    <3>3. Pow[b - k] = 2 * Pow[b - k - 1]
      BY <3>1, PowDown
    <3> QED
      BY <3>1, <3>2, <3>3, PowSteps
  <2> HIDE DEF p, q
  <2>2. x * Pow[b] = ((x * q) * 2) * p + 0
    <3>1. x * (p * (2 * q)) = ((x * q) * 2) * p
      BY <2>1
    <3>2. ((x * q) * 2) * p \in Int
      BY <2>1
    <3> QED
      BY <2>1, <3>1, <3>2
  <2>3. x * q \in Int /\ (x * q) * 2 \in Int
    BY <2>1
  <2>4. (((x * q) * 2) * p + 0) \div p = (x * q) * 2
    BY <2>1, <2>3, DivUnique
  <2>5. ((x * q) * 2 + 0) % 2 = 0
    BY <2>3, DivUnique
  <2> QED
    BY <2>2, <2>3, <2>4, <2>5 DEF p
<1> QED
  BY <1>2, <1>3

\* A number is its bits.
LEMMA BitsUnique ==
  ASSUME NEW n \in Nat, NEW x \in Below(n), NEW y \in Below(n), Bits(x, n) = Bits(y, n)
  PROVE  x = y
<1> DEFINE Same(m, u, v) == \A k \in 0..(m - 1) : (u \div Pow[k]) % 2 = (v \div Pow[k]) % 2
           S == {m \in Nat : \A u, v \in Below(m) : Same(m, u, v) => u = v}
<1>1. 0 \in S
  <2>1. \A u \in Below(0) : u = 0
    BY PowZero DEF Below
  <2> QED
    BY <2>1
<1>2. ASSUME NEW m \in Nat, m \in S PROVE m + 1 \in S
  <2> SUFFICES ASSUME NEW u \in Below(m + 1), NEW v \in Below(m + 1), Same(m + 1, u, v)
               PROVE  u = v
    OBVIOUS
  <2>1. Pow[m] \in Nat \ {0} /\ Pow[m + 1] = 2 * Pow[m]
    BY PowSteps
  <2>2. u \in Nat /\ v \in Nat /\ u <= 2 * Pow[m] - 1 /\ v <= 2 * Pow[m] - 1
    BY <2>1 DEF Below
  <2>3. u \div 2 \in Below(m) /\ v \div 2 \in Below(m)
    BY <2>1, <2>2 DEF Below
  <2>4. Same(m, u \div 2, v \div 2)
    <3> SUFFICES ASSUME NEW k \in 0..(m - 1)
                 PROVE  ((u \div 2) \div Pow[k]) % 2 = ((v \div 2) \div Pow[k]) % 2
      OBVIOUS
    <3>1. k \in Nat /\ k + 1 \in 0..((m + 1) - 1) /\ 1 \in Nat
      OBVIOUS
    <3>2. \A z \in Int : (z \div Pow[1]) \div Pow[k] = z \div Pow[k + 1]
      BY <3>1, BitDiv
    <3>3. Pow[1] = 2 /\ u \in Int /\ v \in Int
      BY <2>2, PowZero
    <3> QED
      BY <3>1, <3>2, <3>3
  <2>5. u \div 2 = v \div 2
    <3> HIDE DEF Same
    <3> QED
      BY <1>2, <2>3, <2>4
  <2>6. u % 2 = v % 2
    <3>1. 0 \in 0..((m + 1) - 1) /\ Pow[0] = 1
      BY PowZero
    <3>2. (u \div 1) % 2 = (v \div 1) % 2
      BY <3>1
    <3> QED
      BY <2>2, <3>2
  <2> QED
    BY <2>2, <2>5, <2>6
<1>3. Same(n, x, y)
  <2> SUFFICES ASSUME NEW k \in 0..(n - 1)
               PROVE  (x \div Pow[k]) % 2 = (y \div Pow[k]) % 2
    OBVIOUS
  <2>1. (x \div Pow[k]) % 2 = 1 <=> (y \div Pow[k]) % 2 = 1
    BY DEF Bits
  <2>2. k \in Nat /\ Pow[k] \in Nat \ {0} /\ Pow[n] \in Nat \ {0}
    BY PowSteps
  <2>3. x \div Pow[k] \in Int /\ y \div Pow[k] \in Int
    BY <2>2 DEF Below
  <2> QED
    BY <2>1, <2>3
<1> HIDE DEF S, Same
<1>4. Nat \subseteq S
  BY <1>1, <1>2, Inductive
<1> QED
  BY <1>3, <1>4 DEF S

LEMMA NoBits ==
  ASSUME NEW n \in Nat, NEW x \in Below(n)
  PROVE  Bits(x, n) = {} <=> x = 0
<1>1. Bits(0, n) = {}
  <2> SUFFICES ASSUME NEW k \in 0..(n - 1) PROVE (0 \div Pow[k]) % 2 # 1
    BY DEF Bits
  <2> DEFINE p == Pow[k]
  <2>1. p \in Nat \ {0}
    BY PowSteps
  <2> HIDE DEF p
  <2>2. 0 \div p = 0
    BY <2>1, ModSmall
  <2> QED
    BY <2>2 DEF p
<1>2. 0 \in Below(n)
  BY PowSteps DEF Below
<1> QED
  BY <1>1, <1>2, BitsUnique

\* The bits above the width of a number are those of its sign.
LEMMA HighBits ==
  ASSUME NEW n \in Nat, NEW j \in Nat, n <= j, NEW x \in (-Pow[n])..(Pow[n] - 1)
  PROVE  x \div Pow[j] = IF x < 0 THEN -1 ELSE 0
<1> DEFINE p == Pow[j]
<1>1. p \in Nat \ {0} /\ Pow[n] \in Nat \ {0} /\ Pow[n] <= p
  BY PowSteps, PowGrows
<1> HIDE DEF p
<1>2. CASE x < 0
  <2> DEFINE q == -1  r == x + p
  <2>1. q \in Int /\ r \in 0..(p - 1) /\ x = q * p + r
    BY <1>1, <1>2
  <2> HIDE DEF q, r
  <2>2. x \div p = q
    BY <1>1, <2>1, DivIs
  <2> QED
    BY <1>2, <2>1, <2>2 DEF p, q
<1>3. CASE ~(x < 0)
  <2>1. x \in 0..(p - 1)
    BY <1>1, <1>3
  <2> QED
    BY <1>1, <1>3, <2>1, ModSmall DEF p
<1> QED
  BY <1>2, <1>3

\* The top bit.
LEMMA TopBit ==
  ASSUME NEW n \in Nat \ {0}, NEW x \in Below(n)
  PROVE  n - 1 \in Bits(x, n) <=> x >= Pow[n] \div 2
<1> DEFINE p == Pow[n - 1]
<1>1. Pow[n] = 2 * p /\ p \in Nat \ {0} /\ Pow[n] \div 2 = p
  BY PowDown
<1> HIDE DEF p
<1>2. x \in 0..(2 * p - 1)
  BY <1>1 DEF Below
<1>3. CASE x < p
  <2>1. x \in 0..(p - 1)
    BY <1>1, <1>2, <1>3
  <2>2. x \div p = 0
    BY <1>1, <2>1, ModSmall
  <2> QED
    BY <1>1, <1>2, <1>3, <2>2 DEF Bits, p
<1>4. CASE x >= p
  <2>1. x - p \in 0..(p - 1) /\ x = 1 * p + (x - p)
    BY <1>1, <1>2, <1>4
  <2>2. x \div p = 1
    BY <1>1, <2>1, DivIs
  <2>3. n - 1 \in 0..(n - 1)
    OBVIOUS
  <2> QED
    BY <1>1, <1>2, <1>4, <2>1, <2>2, <2>3 DEF Bits, p
<1> QED
  BY <1>1, <1>2, <1>3, <1>4

\* A shift to the right of a signed number copies the top bit.
LEMMA SignedShift ==
  ASSUME NEW n \in Nat \ {0}, NEW u \in Below(n), NEW b \in Nat, NEW k \in 0..(n - 1)
  PROVE  ((Signed(u, Pow[n]) \div Pow[b]) \div Pow[k]) % 2 = 1 <=>
           (IF k + b < n THEN k + b ELSE n - 1) \in Bits(u, n)
<1> DEFINE N == Pow[n]  s == Signed(u, N)
<1>1. N \in Nat \ {0} /\ N \div 2 \in Nat /\ N = 2 * (N \div 2) /\ u \in 0..(N - 1)
  BY PowSteps, PowDown DEF Below
<1>2. s \in (-N)..(N - 1) /\ (s < 0 <=> u >= N \div 2) /\ (s = u \/ s = (-1) * N + u)
  <2>1. CASE u < N \div 2
    BY <1>1, <2>1 DEF Signed
  <2>2. CASE ~(u < N \div 2)
    BY <1>1, <2>2 DEF Signed
  <2> QED
    BY <2>1, <2>2
<1>3. s % N = u
  <2> HIDE DEF N, s
  <2>1. u % N = u
    BY <1>1, ModSmall
  <2>2. ((-1) * N + u) % N = u % N
    BY <1>1, ModMultiple
  <2> QED
    BY <1>2, <2>1, <2>2
<1>4. (s \div Pow[b]) \div Pow[k] = s \div Pow[k + b]
  <2> HIDE DEF s
  <2>1. s \in Int
    BY <1>1, <1>2
  <2> QED
    BY <2>1, BitDiv
<1>5. CASE k + b < n
  <2>1. k + b \in Nat /\ k + b \in 0..(n - 1)
    BY <1>5
  <2>2. s \in Int
    BY <1>1, <1>2
  <2>3. ((s % Pow[n]) \div Pow[k + b]) % 2 = (s \div Pow[k + b]) % 2
    <3> HIDE DEF s
    <3> QED
      BY <1>5, <2>1, <2>2, BitMod
  <2>4. k + b \in Bits(u, n) <=> (u \div Pow[k + b]) % 2 = 1
    BY <2>1 DEF Bits
  <2> HIDE DEF s
  <2>5. (s % Pow[n]) = u
    BY <1>3
  <2> QED
    BY <1>4, <1>5, <2>3, <2>4, <2>5 DEF s
<1>6. CASE ~(k + b < n)
  <2>1. k + b \in Nat /\ n <= k + b
    BY <1>6
  <2>2. s \div Pow[k + b] = IF s < 0 THEN -1 ELSE 0
    <3> HIDE DEF s
    <3> QED
      BY <1>2, <2>1, HighBits
  <2>3. n - 1 \in Bits(u, n) <=> u >= N \div 2
    BY TopBit
  <2>4. (-1) % 2 = 1 /\ 0 % 2 = 0
    <3>1. PICK p : p = 2
      OBVIOUS
    <3>2. PICK x : x = -1
      OBVIOUS
    <3>3. p \in Nat \ {0} /\ x \in Int /\ 1 \in 0..(p - 1) /\ x = (-1) * p + 1
      BY <3>1, <3>2
    <3>4. x % p = 1
      BY <3>3, DivIs
    <3>5. (-1) % 2 = 1
      BY <3>1, <3>2, <3>4
    <3> QED
      BY <3>5
  <2> HIDE DEF s, N
  <2> QED
    BY <1>2, <1>4, <1>6, <2>2, <2>3, <2>4 DEF s, N
<1> QED
  BY <1>5, <1>6

LEMMA Quotient ==
  ASSUME NEW p \in Nat \ {0}, NEW a \in Nat
  PROVE  a \div p \in 0..a
<1> DEFINE q == a \div p  r == a % p
<1>1. q \in Int /\ r \in 0..(p - 1) /\ a = q * p + r
  BY Divided
<1> HIDE DEF q, r
<1>2. q >= 0
  <2> SUFFICES ASSUME q <= -1 PROVE FALSE
    BY <1>1
  <2>1. q * p <= (-1) * p
    BY <1>1
  <2> QED
    BY <1>1, <2>1
<1>3. q * 1 <= q * p
  BY <1>1, <1>2
<1>4. q \in 0..a
  BY <1>1, <1>2, <1>3
<1> QED
  BY <1>4 DEF q

(***************************************************************************)
(* The operators of the ALU macro, at either width.                        *)
(***************************************************************************)

\* A remainder differs from the number itself by a multiple of the modulus.
LEMMA Sums ==
  ASSUME NEW N \in Nat \ {0}, NEW a \in Int, NEW b \in Int
  PROVE  /\ (((a + b) % N) - a - b) % N = 0
         /\ (((a - b) % N) + b - a) % N = 0
         /\ (((a * b) % N) - a * b) % N = 0
         /\ (((-a) % N) + a) % N = 0
         /\ (a + b) % N \in 0..(N - 1) /\ (a - b) % N \in 0..(N - 1)
         /\ (a * b) % N \in 0..(N - 1) /\ (-a) % N \in 0..(N - 1)
<1>1. \A x \in Int : ((x % N) - x) % N = 0 /\ x % N \in 0..(N - 1)
  BY ModDiffers, Divided
<1>2. a + b \in Int /\ a - b \in Int /\ a * b \in Int /\ -a \in Int
  OBVIOUS
<1>3. (((a + b) % N) - (a + b)) % N = 0 /\ ((a + b) % N) - (a + b) = ((a + b) % N) - a - b
  <2> DEFINE y == (a + b) % N
  <2>1. (y - (a + b)) % N = 0 /\ y \in 0..(N - 1)
    BY <1>1, <1>2
  <2> HIDE DEF y
  <2>2. y - (a + b) = y - a - b
    BY <2>1
  <2> QED
    BY <2>1, <2>2 DEF y
<1>4. (((a - b) % N) - (a - b)) % N = 0 /\ ((a - b) % N) - (a - b) = ((a - b) % N) + b - a
  <2> DEFINE y == (a - b) % N
  <2>1. (y - (a - b)) % N = 0 /\ y \in 0..(N - 1)
    BY <1>1, <1>2
  <2> HIDE DEF y
  <2>2. y - (a - b) = y + b - a
    BY <2>1
  <2> QED
    BY <2>1, <2>2 DEF y
<1>5. (((-a) % N) - (-a)) % N = 0 /\ ((-a) % N) - (-a) = ((-a) % N) + a
  <2> DEFINE y == (-a) % N
  <2>1. (y - (-a)) % N = 0 /\ y \in 0..(N - 1)
    BY <1>1, <1>2
  <2> HIDE DEF y
  <2>2. y - (-a) = y + a
    BY <2>1
  <2> QED
    BY <2>1, <2>2 DEF y
<1>6. (((a * b) % N) - a * b) % N = 0
  BY <1>1, <1>2
<1>7. /\ (a + b) % N \in 0..(N - 1) /\ (a - b) % N \in 0..(N - 1)
      /\ (a * b) % N \in 0..(N - 1) /\ (-a) % N \in 0..(N - 1)
  BY <1>1, <1>2
<1> QED
  BY <1>3, <1>4, <1>5, <1>6, <1>7

LEMMA Quotients ==
  ASSUME NEW a \in Nat, NEW b \in Nat \ {0}
  PROVE  /\ (a \div b) * b <= a /\ a < (a \div b + 1) * b
         /\ a % b < b /\ \E q \in 0..a : a = q * b + (a % b)
         /\ a \div b \in 0..a /\ a % b \in 0..a
<1> DEFINE q == a \div b  r == a % b
<1>1. q \in Int /\ r \in 0..(b - 1) /\ a = q * b + r
  BY Divided
<1>2. q \in 0..a
  BY Quotient
<1> HIDE DEF q, r
<1>3. (q + 1) * b = q * b + b /\ q * b \in Nat
  BY <1>1, <1>2
<1>4. q * b <= a /\ a < (q + 1) * b /\ r < b /\ r \in 0..a
  BY <1>1, <1>2, <1>3
<1>5. \E t \in 0..a : a = t * b + r
  BY <1>1, <1>2
<1> QED
  BY <1>2, <1>4, <1>5 DEF q, r

LEMMA Shifts ==
  ASSUME NEW n \in Nat \ {0}, NEW a \in Below(n), NEW b \in Nat
  PROVE  /\ Bits((a * Pow[b]) % Pow[n], n) = {k \in 0..(n - 1) : k - b \in Bits(a, n)}
         /\ Bits(a \div Pow[b], n) = {k \in 0..(n - 1) : k + b \in Bits(a, n)}
         /\ (a * Pow[b]) % Pow[n] \in Below(n) /\ a \div Pow[b] \in Below(n)
<1>1. Pow[n] \in Nat \ {0} /\ Pow[b] \in Nat \ {0} /\ a \in 0..(Pow[n] - 1)
  BY PowSteps DEF Below
<1>2. a * Pow[b] \in Int /\ a \in Nat
  BY <1>1
<1>3. Bits((a * Pow[b]) % Pow[n], n) = Bits(a * Pow[b], n)
  BY <1>2, BitsMod
<1>4. \A k \in 0..(n - 1) : ((a * Pow[b]) \div Pow[k]) % 2 = 1 <=> k - b \in Bits(a, n)
  <2> TAKE k \in 0..(n - 1)
  <2>1. k \in Nat
    OBVIOUS
  <2>2. CASE b <= k
    <3>1. k - b \in 0..(n - 1)
      BY <2>2
    <3>2. (a * Pow[b]) \div Pow[k] = a \div Pow[k - b]
      BY <1>2, <2>1, <2>2, BitShift
    <3> QED
      BY <3>1, <3>2 DEF Bits
  <2>3. CASE ~(b <= k)
    <3>1. k - b \notin 0..(n - 1) /\ k < b
      BY <2>3
    <3>2. ((a * Pow[b]) \div Pow[k]) % 2 = 0
      BY <1>2, <2>1, <3>1, BitShift
    <3> QED
      BY <3>1, <3>2 DEF Bits
  <2> QED
    BY <2>2, <2>3
<1>5. Bits(a * Pow[b], n) = {k \in 0..(n - 1) : k - b \in Bits(a, n)}
  BY <1>4 DEF Bits
<1>6. \A k \in 0..(n - 1) : ((a \div Pow[b]) \div Pow[k]) % 2 = 1 <=> k + b \in Bits(a, n)
  <2> TAKE k \in 0..(n - 1)
  <2>1. k \in Nat /\ k + b \in Nat
    OBVIOUS
  <2>2. (a \div Pow[b]) \div Pow[k] = a \div Pow[k + b]
    BY <1>2, <2>1, BitDiv
  <2>3. CASE k + b < n
    <3>1. k + b \in 0..(n - 1)
      BY <2>3
    <3> QED
      BY <2>2, <3>1 DEF Bits
  <2>4. CASE ~(k + b < n)
    <3>1. k + b \notin 0..(n - 1) /\ n <= k + b
      BY <2>4
    <3>2. a \in (-Pow[n])..(Pow[n] - 1) /\ ~(a < 0)
      BY <1>1
    <3>3. a \div Pow[k + b] = 0
      BY <2>1, <3>1, <3>2, HighBits
    <3> QED
      BY <2>2, <3>1, <3>3 DEF Bits
  <2> QED
    BY <2>3, <2>4
<1>7. Bits(a \div Pow[b], n) = {k \in 0..(n - 1) : k + b \in Bits(a, n)}
  BY <1>6 DEF Bits
<1>8. (a * Pow[b]) % Pow[n] \in Below(n)
  <2> DEFINE N == Pow[n]  y == a * Pow[b]
  <2> HIDE DEF N, y
  <2>1. y % N \in 0..(N - 1)
    BY <1>1, <1>2, Divided DEF N, y
  <2> QED
    BY <2>1 DEF N, y, Below
<1>9. a \div Pow[b] \in Below(n)
  <2>1. a \div Pow[b] \in 0..a
    BY <1>1, <1>2, Quotient
  <2> HIDE DEF Below
  <2>2. \A y \in 0..a : y \in Below(n)
    BY <1>1 DEF Below
  <2> QED
    BY <2>1, <2>2
<1> QED
  BY <1>3, <1>5, <1>7, <1>8, <1>9

LEMMA ArithIsResult ==
  ASSUME NEW n \in {Half, 2 * Half}, NEW a \in Below(n), NEW b \in Below(n),
         NEW op \in AluNames \ {"NEG", "MOV", "ARSH"}, op \in {"DIV", "MOD"} => b # 0
  PROVE  Arith(op, a, b, Pow[n]) \in Below(n) /\ IsResult(op, a, b, n, Arith(op, a, b, Pow[n]))
<1> DEFINE N == Pow[n]
<1>1. n \in Nat \ {0}
  BY Widths
<1>2. N \in Nat \ {0} /\ a \in 0..(N - 1) /\ b \in 0..(N - 1) /\ a \in Nat /\ b \in Nat
  BY <1>1, PowSteps DEF Below
<1>3. op \in {"ADD", "SUB", "MUL", "DIV", "OR", "AND", "LSH", "RSH", "MOD", "XOR"}
  BY DEF AluNames, AluCode
<1>4. Below(n) = 0..(N - 1)
  BY DEF Below
<1>5. CASE op = "ADD"
  <2>1. (a + b) % N \in 0..(N - 1) /\ (((a + b) % N) - a - b) % N = 0
    <3>1. N \in Nat \ {0} /\ a \in Int /\ b \in Int
      BY <1>2
    <3> HIDE DEF N
    <3> QED
      BY <3>1, Sums
  <2> QED
    BY <1>4, <1>5, <2>1 DEF Arith, IsResult
<1>6. CASE op = "SUB"
  <2>1. (a - b) % N \in 0..(N - 1) /\ (((a - b) % N) + b - a) % N = 0
    <3>1. N \in Nat \ {0} /\ a \in Int /\ b \in Int
      BY <1>2
    <3> HIDE DEF N
    <3> QED
      BY <3>1, Sums
  <2> QED
    BY <1>4, <1>6, <2>1 DEF Arith, IsResult
<1>7. CASE op = "MUL"
  <2>1. (a * b) % N \in 0..(N - 1) /\ (((a * b) % N) - a * b) % N = 0
    <3>1. N \in Nat \ {0} /\ a \in Int /\ b \in Int
      BY <1>2
    <3> HIDE DEF N
    <3> QED
      BY <3>1, Sums
  <2> QED
    BY <1>4, <1>7, <2>1 DEF Arith, IsResult
<1>8. CASE op = "DIV"
  <2>1. /\ (a \div b) * b <= a /\ a < (a \div b + 1) * b
        /\ a \div b \in 0..a
    BY <1>2, <1>8, Quotients
  <2>2. a \div b \in 0..(N - 1)
    <3> HIDE DEF N
    <3> QED
      BY <1>2, <2>1
  <2> QED
    BY <1>4, <1>8, <2>1, <2>2 DEF Arith, IsResult
<1>9. CASE op = "MOD"
  <2>1. a % b < b /\ (\E q \in 0..a : a = q * b + (a % b)) /\ a % b \in 0..a
    BY <1>2, <1>9, Quotients
  <2>2. a % b \in 0..(N - 1)
    <3> HIDE DEF N
    <3> QED
      BY <1>2, <2>1
  <2> QED
    BY <1>4, <1>9, <2>1, <2>2 DEF Arith, IsResult
<1>10. CASE op = "AND"
  BY <1>10, BitsAssumption DEF Arith, IsResult
<1>11. CASE op = "OR"
  BY <1>11, BitsAssumption DEF Arith, IsResult
<1>12. CASE op = "XOR"
  BY <1>12, BitsAssumption DEF Arith, IsResult
<1>13. CASE op = "LSH"
  BY <1>1, <1>2, <1>13, Shifts DEF Arith, IsResult
<1>14. CASE op = "RSH"
  BY <1>1, <1>2, <1>14, Shifts DEF Arith, IsResult
<1> QED
  BY <1>3, <1>5, <1>6, <1>7, <1>8, <1>9, <1>10, <1>11, <1>12, <1>13, <1>14

(***************************************************************************)
(* The handlers written out.                                               *)
(***************************************************************************)

LEMMA NegativeQuotient ==
  ASSUME NEW p \in Nat \ {0}, NEW s \in Int, s < 0
  PROVE  s \div p \in s..(-1)
<1> DEFINE q == s \div p  r == s % p
<1>1. q \in Int /\ r \in 0..(p - 1) /\ s = q * p + r
  BY Divided
<1> HIDE DEF q, r
<1>2. q <= -1
  <2> SUFFICES ASSUME q >= 0 PROVE FALSE
    BY <1>1
  <2>1. q * p >= 0
    BY <1>1
  <2> QED
    BY <1>1, <2>1
<1>3. q >= s
  <2> SUFFICES ASSUME q <= s - 1 PROVE FALSE
    BY <1>1
  <2>1. q * p <= (s - 1) * p /\ s * p <= s * 1
    BY <1>1
  <2>2. (s - 1) * p = s * p - p
    OBVIOUS
  <2> QED
    BY <1>1, <2>1, <2>2
<1>4. q \in s..(-1)
  BY <1>1, <1>2, <1>3
<1> QED
  BY <1>4 DEF q

LEMMA SignedRange ==
  ASSUME NEW N \in Nat \ {0}, N = 2 * (N \div 2), NEW u \in 0..(N - 1)
  PROVE  /\ Signed(u, N) \in (-(N \div 2))..(N \div 2 - 1)
         /\ Signed(u, N) = IF u < N \div 2 THEN u ELSE u - N
<1>1. N \div 2 \in Nat
  OBVIOUS
<1>2. CASE u < N \div 2
  BY <1>1, <1>2 DEF Signed
<1>3. CASE ~(u < N \div 2)
  BY <1>1, <1>3 DEF Signed
<1> QED
  BY <1>2, <1>3

\* A negative number that fits 32 bits has an upper half as a register.
LEMMA SignExtends ==
  ASSUME NEW s \in (-H)..(H - 1)
  PROVE  /\ s >= 0 => s % M = s
         /\ s < 0 => s % M = M + s /\ s % M \notin Below(Half)
         /\ s % M \in Word
<1>1. H \in Nat \ {0} /\ M \in Nat \ {0} /\ 2 * H <= M
  BY Widths
<1>2. CASE s >= 0
  <2>1. s \in 0..(M - 1)
    BY <1>1, <1>2
  <2>2. s % M = s
    BY <1>1, <2>1, ModSmall
  <2> QED
    BY <1>1, <1>2, <2>1, <2>2 DEF Word, Below, M
<1>3. CASE s < 0
  <2> DEFINE q == -1  r == M + s
  <2>1. q \in Int /\ r \in 0..(M - 1) /\ s = q * M + r
    BY <1>1, <1>3
  <2> HIDE DEF q, r
  <2>2. s % M = r
    BY <1>1, <2>1, DivIs
  <2>3. r >= H
    BY <1>1 DEF r
  <2>4. r \notin Below(Half)
    BY <1>1, <2>1, <2>3 DEF Below, H
  <2> QED
    BY <1>3, <2>1, <2>2, <2>4 DEF r, Word, Below, M
<1> QED
  BY <1>2, <1>3

LEMMA Negates32 ==
  ASSUME NEW u \in 0..(H - 1), u # H \div 2
  PROVE  LET r == Signed((-Signed(u, H)) % H, H) % M IN
           /\ r \in Word
           /\ Signed(u, H) > 0 => r \notin Below(Half)
           /\ Signed(u, H) <= 0 => r \in Below(Half) /\ (r + u) % H = 0
<1> DEFINE h == H \div 2  s == Signed(u, H)  v == (-s) % H  t == Signed(v, H)
<1>1. H \in Nat \ {0} /\ h \in Nat \ {0} /\ H = 2 * h
  BY Widths
<1>2. s \in (-h)..(h - 1) /\ s = IF u < h THEN u ELSE u - H
  BY <1>1, SignedRange
<1>3. s # -h
  <2> HIDE DEF s
  <2> QED
    BY <1>1, <1>2
<1> HIDE DEF s
<1>4. t = -s
  <2>1. CASE s > 0
    <3> DEFINE q == -1  m == H - s  z == -s
    <3>1. q \in Int /\ m \in 0..(H - 1) /\ z = q * H + m
      BY <1>1, <1>2, <2>1
    <3> HIDE DEF q, m, z
    <3>2. z % H = m
      BY <1>1, <3>1, DivIs
    <3>3. ~(m < h)
      BY <1>1, <1>2, <2>1 DEF m
    <3>4. Signed(m, H) = m - H
      BY <3>3 DEF Signed
    <3> QED
      BY <1>1, <1>2, <3>2, <3>4 DEF m, z
  <2>2. CASE ~(s > 0)
    <3>1. -s \in 0..(H - 1) /\ -s < h
      BY <1>1, <1>2, <1>3, <2>2
    <3>2. v = -s
      BY <1>1, <3>1, ModSmall
    <3>3. Signed(-s, H) = -s
      BY <3>1 DEF Signed
    <3> QED
      BY <3>2, <3>3
  <2> QED
    BY <2>1, <2>2
<1> HIDE DEF t
<1>5. t \in (-H)..(H - 1)
  BY <1>1, <1>2, <1>3, <1>4
<1>6. t % M \in Word
  BY <1>5, SignExtends
<1>7. ASSUME s > 0 PROVE t % M \notin Below(Half)
  <2>1. t < 0
    BY <1>2, <1>4, <1>7
  <2> QED
    BY <1>5, <2>1, SignExtends
<1>8. ASSUME s <= 0 PROVE t % M \in Below(Half) /\ ((t % M) + u) % H = 0
  <2>1. t >= 0 /\ t % M = t
    <3>1. t >= 0
      BY <1>2, <1>4, <1>8
    <3> QED
      BY <1>5, <3>1, SignExtends
  <2>2. t \in Below(Half)
    BY <1>1, <1>5, <2>1 DEF Below, H
  <2>3. (t + u) % H = 0
    <3>1. CASE u < h
      <4>1. t + u = 0 * H + 0
        BY <1>1, <1>2, <1>4, <1>8, <3>1
      <4>2. 0 \in 0..(H - 1) /\ 0 \in Int
        BY <1>1
      <4> QED
        BY <1>1, <4>1, <4>2, DivIs
    <3>2. CASE ~(u < h)
      <4>1. t + u = 1 * H + 0
        BY <1>1, <1>2, <1>4, <3>2
      <4>2. 0 \in 0..(H - 1) /\ 1 \in Int
        BY <1>1
      <4> QED
        BY <1>1, <4>1, <4>2, DivIs
    <3> QED
      BY <3>1, <3>2
  <2> QED
    BY <2>1, <2>2, <2>3
<1> QED
  BY <1>6, <1>7, <1>8 DEF t, s, v

LEMMA Shifts64 ==
  ASSUME NEW u \in Word, NEW b \in Nat
  PROVE  /\ (Signed(u, M) \div Pow[b]) % M \in Word
         /\ Bits((Signed(u, M) \div Pow[b]) % M, 2 * Half) =
              {k \in 0..(2 * Half - 1) :
                 (IF k + b < 2 * Half THEN k + b ELSE 2 * Half - 1) \in Bits(u, 2 * Half)}
<1> DEFINE n == 2 * Half  s == Signed(u, M)  y == s \div Pow[b]
<1>1. n \in Nat \ {0} /\ M \in Nat \ {0} /\ M = 2 * (M \div 2) /\ M = Pow[n]
  BY Widths DEF M
<1>2. u \in 0..(M - 1) /\ u \in Below(n)
  BY DEF Word, Below, M
<1>3. s \in Int
  <2>1. s \in (-(M \div 2))..(M \div 2 - 1)
    BY <1>1, <1>2, SignedRange
  <2> HIDE DEF s
  <2> QED
    BY <1>1, <2>1
<1>4. y \in Int
  <2> DEFINE p == Pow[b]
  <2>1. p \in Nat \ {0}
    BY PowSteps
  <2> HIDE DEF p, s
  <2>2. s \div p \in Int
    BY <1>3, <2>1, Divided
  <2> QED
    BY <2>2 DEF p
<1>5. \A k \in 0..(n - 1) : (y \div Pow[k]) % 2 = 1 <=>
        (IF k + b < n THEN k + b ELSE n - 1) \in Bits(u, n)
  <2> TAKE k \in 0..(n - 1)
  <2> HIDE DEF n
  <2>1. ((Signed(u, Pow[n]) \div Pow[b]) \div Pow[k]) % 2 = 1 <=>
           (IF k + b < n THEN k + b ELSE n - 1) \in Bits(u, n)
    BY <1>1, <1>2, SignedShift
  <2> QED
    BY <1>1, <2>1
<1> HIDE DEF n, y
<1>6. Bits(y % Pow[n], n) = Bits(y, n)
  BY <1>1, <1>4, BitsMod
<1>7. Bits(y, n) = {k \in 0..(n - 1) : (IF k + b < n THEN k + b ELSE n - 1) \in Bits(u, n)}
  BY <1>5 DEF Bits
<1>8. y % M \in 0..(M - 1)
  BY <1>1, <1>4, Divided
<1>9. y % M \in Word
  BY <1>8 DEF Word, Below, M
<1> QED
  BY <1>1, <1>6, <1>7, <1>9 DEF n, y

LEMMA Shifts32 ==
  ASSUME NEW u \in Below(Half), NEW b \in Nat
  PROVE  LET r == (Signed(u, H) \div Pow[b]) % M IN
           /\ r \in Word
           /\ Signed(u, H) < 0 => r \notin Below(Half)
           /\ Signed(u, H) >= 0 =>
                /\ r \in Below(Half)
                /\ Bits(r, Half) = {k \in 0..(Half - 1) :
                     (IF k + b < Half THEN k + b ELSE Half - 1) \in Bits(u, Half)}
<1> DEFINE s == Signed(u, H)  p == Pow[b]  y == s \div p
<1>1. /\ Half \in Nat \ {0} /\ H \in Nat \ {0} /\ H = 2 * (H \div 2) /\ H = Pow[Half]
      /\ H \div 2 \in Nat \ {0} /\ p \in Nat \ {0}
  BY Widths, PowSteps DEF H
<1>2. u \in 0..(H - 1)
  BY DEF Below, H
<1>3. s \in (-(H \div 2))..(H \div 2 - 1) /\ s = IF u < H \div 2 THEN u ELSE u - H
  BY <1>1, <1>2, SignedRange
<1>4. \A k \in 0..(Half - 1) : (y \div Pow[k]) % 2 = 1 <=>
        (IF k + b < Half THEN k + b ELSE Half - 1) \in Bits(u, Half)
  <2> TAKE k \in 0..(Half - 1)
  <2>1. ((Signed(u, Pow[Half]) \div Pow[b]) \div Pow[k]) % 2 = 1 <=>
           (IF k + b < Half THEN k + b ELSE Half - 1) \in Bits(u, Half)
    BY <1>1, SignedShift
  <2> QED
    BY <1>1, <2>1
<1> HIDE DEF s, p
<1>5. CASE s < 0
  <2>1. y \in s..(-1)
    BY <1>1, <1>3, <1>5, NegativeQuotient
  <2> HIDE DEF y
  <2>2. y \in (-H)..(H - 1) /\ y < 0
    BY <1>1, <1>3, <1>5, <2>1
  <2>3. y % M \in Word /\ y % M \notin Below(Half)
    BY <2>2, SignExtends
  <2> QED
    BY <1>3, <1>5, <2>3 DEF y, s, p
<1>6. CASE ~(s < 0)
  <2>1. s \in Nat
    BY <1>1, <1>3, <1>6
  <2>2. y \in 0..s
    BY <1>1, <2>1, Quotient
  <2>3. Bits(y, Half) = {k \in 0..(Half - 1) :
          (IF k + b < Half THEN k + b ELSE Half - 1) \in Bits(u, Half)}
    BY <1>4 DEF Bits
  <2> HIDE DEF y
  <2>4. y \in (-H)..(H - 1) /\ y >= 0 /\ y \in 0..(H - 1)
    BY <1>1, <1>3, <2>1, <2>2
  <2>5. y % M = y /\ y % M \in Word
    BY <2>4, SignExtends
  <2>6. y \in Below(Half)
    BY <2>4 DEF Below, H
  <2> QED
    BY <1>6, <2>3, <2>5, <2>6 DEF y, s, p
<1> QED
  BY <1>5, <1>6

(***************************************************************************)
(* The instructions.                                                       *)
(***************************************************************************)

LEMMA AluEntry ==
  ASSUME NEW kind, NEW imm, NEW reg, NEW e \in AluOpcodes(kind, imm, reg)
  PROVE  e[2] = kind /\ e[3] \in AluNames /\ e[4] \in {"REG", "IMM"}
<1>1. CASE e \in {<<AluCode[op] + reg, kind, op, "REG">> : op \in AluNames}
  BY <1>1
<1>2. CASE e \in {<<AluCode[op] + imm, kind, op, "IMM">> : op \in AluNames \ {"NEG"}}
  BY <1>2
<1> QED
  BY <1>1, <1>2 DEF AluOpcodes

JumpNames == DOMAIN JmpCode

LEMMA JumpEntry ==
  ASSUME NEW e \in JmpOpcodes
  PROVE  e[2] = "JMP" /\ e[3] \in JumpNames /\ e[4] \in {"REG", "IMM"}
<1>1. CASE e \in {<<JmpCode[op] + 5, "JMP", op, "IMM">> : op \in DOMAIN JmpCode}
  BY <1>1 DEF JumpNames
<1>2. CASE e \in {<<JmpCode[op] + 13, "JMP", op, "REG">> : op \in DOMAIN JmpCode}
  BY <1>2 DEF JumpNames
<1> QED
  BY <1>1, <1>2 DEF JmpOpcodes

Sorted(e) ==
  \/ e[2] \in {"ALU64", "ALU32"} /\ e[3] \in AluNames /\ e[4] \in {"REG", "IMM"}
  \/ e[2] = "JMP" /\ e[3] \in JumpNames /\ e[4] \in {"REG", "IMM"}
  \/ e[2] = "JMP" /\ e[3] = "ALWAYS" /\ e[4] = "NONE"
  \/ e[2] = "LDDW" /\ e[3] \in {"LDDW", "LDDWD", "LDDWR"} /\ e[4] = "WIDE"
  \/ e[2] = "MEM" /\ e[4] \in DOMAIN SizeCode
  \/ e[2] = "CALL" /\ e[4] = "IMM"
  \/ e[2] = "RETURN" /\ e[4] = "NONE"

LEMMA Entries == \A e \in JumpTable : Sorted(e)
<1> SUFFICES ASSUME NEW e \in JumpTable PROVE Sorted(e)
  OBVIOUS
<1>1. CASE e \in AluOpcodes("ALU64", 7, 15)
  BY <1>1, AluEntry DEF Sorted
<1>2. CASE e \in AluOpcodes("ALU32", 4, 12)
  BY <1>2, AluEntry DEF Sorted
<1>3. CASE e \in JmpOpcodes
  BY <1>3, JumpEntry DEF Sorted
<1>4. CASE e \in MemOpcodes
  <2>1. PICK op \in DOMAIN MemCode, size \in DOMAIN SizeCode :
          e = <<MemCode[op] + SizeCode[size], "MEM", op, size>>
    BY <1>4 DEF MemOpcodes
  <2>2. e[2] = "MEM" /\ e[4] = size
    BY <2>1
  <2> QED
    BY <2>2 DEF Sorted
<1>5. CASE e \in {<<5, "JMP", "ALWAYS", "NONE">>, <<24, "LDDW", "LDDW", "WIDE">>,
        <<184, "LDDW", "LDDWD", "WIDE">>, <<216, "LDDW", "LDDWR", "WIDE">>,
        <<133, "CALL", "CALL", "IMM">>, <<149, "RETURN", "RETURN", "NONE">>}
  BY <1>5 DEF Sorted
<1>6. \/ e \in AluOpcodes("ALU64", 7, 15) \/ e \in AluOpcodes("ALU32", 4, 12)
      \/ e \in JmpOpcodes \/ e \in MemOpcodes
      \/ e \in {<<5, "JMP", "ALWAYS", "NONE">>, <<24, "LDDW", "LDDW", "WIDE">>,
        <<184, "LDDW", "LDDWD", "WIDE">>, <<216, "LDDW", "LDDWR", "WIDE">>,
        <<133, "CALL", "CALL", "IMM">>, <<149, "RETURN", "RETURN", "NONE">>}
  <2>1. CASE Alu32
    BY <2>1 DEF JumpTable
  <2>2. CASE ~Alu32
    BY <2>2 DEF JumpTable
  <2> QED
    BY <2>1, <2>2
<1> QED
  BY <1>1, <1>2, <1>3, <1>4, <1>5, <1>6

LEMMA Imms ==
  ASSUME NEW i \in Imm
  PROVE  i \in Int /\ i \in (-H)..(H - 1) /\ i % M \in Word /\ i % H \in 0..(H - 1)
         /\ i % H = IF i < 0 THEN H + i ELSE i
<1>1. H \in Nat \ {0} /\ H \div 2 \in Nat \ {0} /\ H = 2 * (H \div 2)
  BY Widths
<1>2. i \in Int /\ i \in (-H)..(H - 1)
  BY <1>1 DEF Imm
<1>3. i % M \in Word
  BY <1>2, SignExtends
<1>4. CASE i < 0
  <2> DEFINE q == -1  r == H + i
  <2>1. q \in Int /\ r \in 0..(H - 1) /\ i = q * H + r
    BY <1>1, <1>2, <1>4
  <2> HIDE DEF q, r
  <2>2. (q * H + r) % H = r
    BY <1>1, <2>1, DivUnique
  <2> QED
    BY <1>2, <1>3, <1>4, <2>1, <2>2 DEF r
<1>5. CASE ~(i < 0)
  <2>1. i \in 0..(H - 1)
    BY <1>2, <1>5
  <2>2. i % H = i
    BY <1>1, <2>1, ModSmall
  <2> QED
    BY <1>2, <1>3, <1>5, <2>1, <2>2
<1> QED
  BY <1>4, <1>5

LEMMA OperandWord ==
  ASSUME TypeOK, NEW arg
  PROVE  Operand(arg) \in Word
<1>1. CASE arg = "REG"
  BY <1>1 DEF Operand, TypeOK
<1>2. CASE arg # "REG"
  BY <1>2, Imms DEF Operand, TypeOK
<1> QED
  BY <1>1, <1>2

LEMMA Words ==
  /\ Word = Below(2 * Half) /\ Word = 0..(M - 1) /\ Below(Half) = 0..(H - 1)
  /\ Pow[Half] = H /\ Pow[2 * Half] = M
  /\ \A x \in Word : x \in Nat /\ x % M = x /\ x % H \in Below(Half)
  /\ \A x \in Below(Half) : x \in Word /\ x % H = x /\ x % M = x
<1>1. H \in Nat \ {0} /\ M \in Nat \ {0} /\ 2 * H <= M
  BY Widths
<1>2. Word = 0..(M - 1) /\ Below(Half) = 0..(H - 1)
  BY DEF Word, Below, H, M
<1>3. \A x \in Word : x \in Nat /\ x % M = x /\ x % H \in Below(Half)
  <2> TAKE x \in Word
  <2>1. x \in 0..(M - 1) /\ x \in Int
    BY <1>2
  <2>2. x % H \in 0..(H - 1)
    BY <1>1, <2>1, Divided
  <2>3. x % M = x
    BY <1>1, <2>1, ModSmall
  <2> QED
    BY <1>2, <2>1, <2>2, <2>3
<1>4. \A x \in Below(Half) : x \in Word /\ x % H = x
  <2> TAKE x \in Below(Half)
  <2>1. x \in 0..(H - 1) /\ x \in 0..(M - 1)
    BY <1>1, <1>2
  <2>2. x % H = x
    BY <1>1, <2>1, ModSmall
  <2> QED
    BY <1>2, <2>1, <2>2
<1> QED
  BY <1>2, <1>3, <1>4 DEF Word, H, M

\* What an instruction with a defined outcome stores, and when it is right.
LEMMA ValueRight ==
  ASSUME TypeOK, NEW kind \in {"ALU64", "ALU32"}, NEW op \in AluNames, NEW b \in Word,
         ~Undefined(kind, op, b), ~(op \in {"DIV", "MOD"} /\ b = 0)
  PROVE  /\ Value(kind, op, b) \in Word
         /\ Correct(kind, op, b, Value(kind, op, b)) <=> ~Deviates(kind, op, b)
<1> DEFINE r == Value(kind, op, b)
<1>1. /\ dst \in Word /\ dst \in Nat /\ b \in Nat /\ dst % M = dst /\ b % M = b
      /\ dst % H \in Below(Half) /\ b % H \in Below(Half) /\ b % H \in Word
      /\ b \in Below(2 * Half) /\ dst \in Below(2 * Half)
  BY Words DEF TypeOK
<1>2. Half \in {Half, 2 * Half} /\ 2 * Half \in {Half, 2 * Half}
  OBVIOUS
<1>3. CASE op \notin {"NEG", "MOV", "ARSH"}
  <2>1. op \in AluNames \ {"NEG", "MOV", "ARSH"}
    BY <1>3
  <2>2. ~Deviates(kind, op, b)
    BY <1>3 DEF Deviates
  <2>3. CASE kind = "ALU64"
    <3>1. r = Arith(op, dst, b, M)
      BY <1>3, <2>3 DEF Value
    <3>2. op \in {"DIV", "MOD"} => b # 0
      OBVIOUS
    <3>3. /\ Arith(op, dst, b, Pow[2 * Half]) \in Below(2 * Half)
          /\ IsResult(op, dst, b, 2 * Half, Arith(op, dst, b, Pow[2 * Half]))
      BY <1>1, <1>2, <2>1, <3>2, ArithIsResult
    <3>4. r \in Below(2 * Half) /\ IsResult(op, dst % Pow[2 * Half], b % Pow[2 * Half], 2 * Half, r)
      BY <1>1, <3>1, <3>3, Words
    <3> QED
      BY <2>2, <2>3, <3>4, Words DEF Correct
  <2>4. CASE kind = "ALU32"
    <3>1. r = Arith(op, dst % H, b % H, H)
      BY <1>3, <2>4 DEF Value, U32
    <3>2. op \in {"DIV", "MOD"} => b % H # 0
      BY <2>4 DEF Undefined, U32
    <3>3. /\ Arith(op, dst % H, b % H, Pow[Half]) \in Below(Half)
          /\ IsResult(op, dst % H, b % H, Half, Arith(op, dst % H, b % H, Pow[Half]))
      BY <1>1, <1>2, <2>1, <3>2, ArithIsResult
    <3>4. r \in Below(Half) /\ IsResult(op, dst % Pow[Half], b % Pow[Half], Half, r)
      BY <1>1, <3>1, <3>3, Words
    <3> QED
      BY <2>2, <2>4, <3>4, Words DEF Correct
  <2> QED
    BY <2>3, <2>4
<1>4. CASE op = "NEG" /\ kind = "ALU64"
  <2>1. r = (-dst) % M
    BY <1>4 DEF Value, Special
  <2>2. (-dst) % M \in 0..(M - 1) /\ (((-dst) % M) + dst) % M = 0
    <3>1. M \in Nat \ {0} /\ dst \in Int
      BY <1>1, Widths
    <3> QED
      BY <3>1, Sums
  <2>3. r \in Word /\ r \in Below(2 * Half) /\ (r + dst) % M = 0
    BY <2>1, <2>2, Words
  <2>4. IsResult("NEG", dst, b, 2 * Half, r)
    BY <2>3, Words DEF IsResult
  <2>5. Correct(kind, op, b, r)
    BY <1>1, <1>4, <2>3, <2>4, Words DEF Correct
  <2>6. ~Deviates(kind, op, b)
    BY <1>4 DEF Deviates
  <2> QED
    BY <2>3, <2>5, <2>6
<1>5. CASE op = "NEG" /\ kind = "ALU32"
  <2> DEFINE u == dst % H
  <2>1. r = Signed((-Signed(u, H)) % H, H) % M
    BY <1>5 DEF Value, Special, I32, U32
  <2>2. u \in 0..(H - 1) /\ u # H \div 2
    BY <1>1, <1>5, Words DEF Undefined, U32
  <2> HIDE DEF r, u
  <2>3. /\ r \in Word
        /\ Signed(u, H) > 0 => r \notin Below(Half)
        /\ Signed(u, H) <= 0 => r \in Below(Half) /\ (r + u) % H = 0
    BY <2>1, <2>2, Negates32
  <2>4. Deviates(kind, op, b) <=> Signed(u, H) > 0
    BY <1>5 DEF Deviates, I32, U32, u
  <2>5. Correct(kind, op, b, r) <=> r \in Below(Half) /\ (r + u) % H = 0
    BY <1>5, Words DEF Correct, IsResult, u
  <2>6. Signed(u, H) > 0 \/ Signed(u, H) <= 0
    <3>1. H \in Nat \ {0} /\ H = 2 * (H \div 2) /\ H \div 2 \in Nat
      BY Widths
    <3>2. Signed(u, H) \in (-(H \div 2))..(H \div 2 - 1)
      BY <2>2, <3>1, SignedRange
    <3> QED
      BY <3>1, <3>2
  <2>7. ~(Signed(u, H) > 0 /\ Signed(u, H) <= 0)
    <3>1. H \in Nat \ {0} /\ H = 2 * (H \div 2) /\ H \div 2 \in Nat
      BY Widths
    <3>2. Signed(u, H) \in (-(H \div 2))..(H \div 2 - 1)
      BY <2>2, <3>1, SignedRange
    <3> QED
      BY <3>1, <3>2
  <2> QED
    BY <2>3, <2>4, <2>5, <2>6, <2>7 DEF r
<1>6. CASE op = "MOV"
  <2>1. r = b % H
    BY <1>6 DEF Value, Special, U32
  <2>2. r \in Word /\ r \in Below(Half) /\ r \in Below(2 * Half)
    BY <1>1, <2>1, Words
  <2>3. CASE kind = "ALU64"
    <3>1. Correct(kind, op, b, r) <=> b % H = b
      BY <1>1, <1>6, <2>1, <2>2, <2>3, Words DEF Correct, IsResult
    <3>2. Deviates(kind, op, b) <=> b >= H
      BY <1>6, <2>3 DEF Deviates
    <3>3. b % H = b <=> ~(b >= H)
      <4>1. H \in Nat \ {0} /\ Below(Half) = 0..(H - 1)
        BY Widths, Words
      <4>2. ~(b >= H) => b \in Below(Half)
        BY <1>1, <4>1
      <4>3. b % H < H
        BY <1>1, <4>1
      <4> QED
        BY <1>1, <4>1, <4>2, <4>3, Words
    <3> QED
      BY <2>2, <3>1, <3>2, <3>3
  <2>4. CASE kind = "ALU32"
    <3>1. Correct(kind, op, b, r)
      BY <1>6, <2>1, <2>2, <2>4, Words DEF Correct, IsResult
    <3>2. ~Deviates(kind, op, b)
      BY <1>6, <2>4 DEF Deviates
    <3> QED
      BY <2>2, <3>1, <3>2
  <2> QED
    BY <2>3, <2>4
<1>7. CASE op = "ARSH" /\ kind = "ALU64"
  <2>1. r = (Signed(dst, M) \div Pow[b]) % M
    BY <1>7 DEF Value, Special, I64
  <2>2. /\ r \in Word
        /\ Bits(r, 2 * Half) = {k \in 0..(2 * Half - 1) :
             (IF k + b < 2 * Half THEN k + b ELSE 2 * Half - 1) \in Bits(dst, 2 * Half)}
    BY <1>1, <2>1, Shifts64
  <2> HIDE DEF r
  <2>3. IsResult("ARSH", dst, b, 2 * Half, r)
    BY <2>2 DEF IsResult
  <2>4. Correct(kind, op, b, r)
    BY <1>1, <1>7, <2>2, <2>3, Words DEF Correct
  <2>5. ~Deviates(kind, op, b)
    BY <1>7 DEF Deviates
  <2> QED
    BY <2>2, <2>4, <2>5 DEF r
<1>8. CASE op = "ARSH" /\ kind = "ALU32"
  <2> DEFINE u == dst % H
  <2>1. r = (Signed(u, H) \div Pow[b]) % M
    BY <1>8 DEF Value, Special, I32, U32
  <2>2. b \in Below(Half)
    <3>1. ~(b >= Half)
      BY <1>8 DEF Undefined
    <3>2. Half \in Nat \ {0} /\ Half < Pow[Half]
      BY Widths, PowExceeds
    <3>3. b \in 0..(Pow[Half] - 1)
      BY <1>1, <3>1, <3>2, PowSteps
    <3> QED
      BY <3>3 DEF Below
  <2>3. u \in Below(Half) /\ b % H = b
    BY <1>1, <2>2, Words
  <2> HIDE DEF r, u
  <2>4. /\ r \in Word
        /\ Signed(u, H) < 0 => r \notin Below(Half)
        /\ Signed(u, H) >= 0 =>
             /\ r \in Below(Half)
             /\ Bits(r, Half) = {k \in 0..(Half - 1) :
                  (IF k + b < Half THEN k + b ELSE Half - 1) \in Bits(u, Half)}
    BY <1>1, <2>1, <2>3, Shifts32
  <2>5. IsResult("ARSH", u, b, Half, r) <=>
          Bits(r, Half) = {k \in 0..(Half - 1) :
            (IF k + b < Half THEN k + b ELSE Half - 1) \in Bits(u, Half)}
    BY DEF IsResult
  <2>6. Correct(kind, op, b, r) <=> r \in Below(Half) /\ IsResult("ARSH", u, b, Half, r)
    BY <1>8, <2>3, Words DEF Correct, u
  <2>7. Deviates(kind, op, b) <=> Signed(u, H) < 0
    BY <1>8 DEF Deviates, I32, U32, u
  <2>8. Signed(u, H) \in Int
    <3>1. H \in Nat \ {0} /\ H = 2 * (H \div 2) /\ H \div 2 \in Nat /\ u \in 0..(H - 1)
      BY <2>3, Widths, Words
    <3>2. Signed(u, H) \in (-(H \div 2))..(H \div 2 - 1)
      BY <3>1, SignedRange
    <3> QED
      BY <3>1, <3>2
  <2>9. Signed(u, H) < 0 <=> ~(Signed(u, H) >= 0)
    BY <2>8
  <2> QED
    BY <2>4, <2>5, <2>6, <2>7, <2>9 DEF r
<1> QED
  BY <1>3, <1>4, <1>5, <1>6, <1>7, <1>8

(***************************************************************************)
(* The double-length instructions.                                         *)
(***************************************************************************)

LEMMA Joined ==
  ASSUME NEW i \in Below(Half), NEW h \in Below(Half)
  PROVE  /\ i + H * h \in Word
         /\ Bits(i + H * h, 2 * Half) =
              {k \in 0..(2 * Half - 1) :
                 IF k < Half THEN k \in Bits(i, Half) ELSE k - Half \in Bits(h, Half)}
<1> DEFINE w == i + H * h
<1>1. /\ Half \in Nat \ {0} /\ H \in Nat \ {0} /\ M = H * H
      /\ i \in 0..(H - 1) /\ h \in 0..(H - 1) /\ Pow[Half] = H
  BY Widths, Words
<1>2. w \in Nat /\ w = h * H + i
  BY <1>1
<1>3. w \in Word
  <2>1. h * H <= (H - 1) * H /\ (H - 1) * H = H * H - H
    BY <1>1
  <2>2. w <= M - 1
    BY <1>1, <1>2, <2>1
  <2>3. M \in Nat
    BY Widths
  <2> HIDE DEF w
  <2>4. w \in 0..(M - 1)
    BY <1>2, <2>2, <2>3
  <2> QED
    BY <2>4, Words
<1> HIDE DEF w
<1>4. w % H = i /\ w \div H = h
  <2>1. h \in Int /\ i \in 0..(H - 1) /\ H \in Nat \ {0}
    BY <1>1
  <2>2. (h * H + i) % H = i /\ (h * H + i) \div H = h
    BY <2>1, DivUnique
  <2> QED
    BY <1>2, <2>2
<1>5. \A k \in 0..(2 * Half - 1) : (w \div Pow[k]) % 2 = 1 <=>
        IF k < Half THEN k \in Bits(i, Half) ELSE k - Half \in Bits(h, Half)
  <2> TAKE k \in 0..(2 * Half - 1)
  <2>1. k \in Nat /\ w \in Int /\ Half \in Nat
    BY <1>1, <1>2
  <2>2. CASE k < Half
    <3>1. ((w % Pow[Half]) \div Pow[k]) % 2 = (w \div Pow[k]) % 2
      BY <2>1, <2>2, BitMod
    <3>2. k \in 0..(Half - 1)
      BY <1>1, <2>2
    <3> QED
      BY <1>1, <1>4, <2>2, <3>1, <3>2 DEF Bits
  <2>3. CASE ~(k < Half)
    <3>1. k - Half \in Nat /\ (k - Half) + Half = k /\ k - Half \in 0..(Half - 1)
      BY <1>1, <2>3
    <3>2. (w \div Pow[Half]) \div Pow[k - Half] = w \div Pow[(k - Half) + Half]
      BY <2>1, <3>1, BitDiv
    <3> QED
      BY <1>1, <1>4, <2>3, <3>1, <3>2 DEF Bits
  <2> QED
    BY <2>2, <2>3
<1>6. Bits(w, 2 * Half) = {k \in 0..(2 * Half - 1) :
        IF k < Half THEN k \in Bits(i, Half) ELSE k - Half \in Bits(h, Half)}
  BY <1>5 DEF Bits
<1> QED
  BY <1>3, <1>6 DEF w

LEMMA AllOnes == Bits(H - 1, Half) = 0..(Half - 1) /\ H - 1 \in Below(Half)
<1>1. Half \in Nat \ {0} /\ H \in Nat \ {0} /\ Pow[Half] = H
  BY Widths, Words
<1> DEFINE x == -1
<1>2. x \in Int /\ H - 1 \in 0..(H - 1) /\ x = x * H + (H - 1)
  BY <1>1
<1>3. \A k \in 0..(Half - 1) : (x \div Pow[k]) % 2 = 1
  <2> TAKE k \in 0..(Half - 1)
  <2>1. k \in Nat /\ 0 \in Nat /\ 0 <= k
    BY <1>1
  <2>2. x \in (-Pow[0])..(Pow[0] - 1) /\ x < 0
    BY PowZero
  <2>3. x \div Pow[k] = IF x < 0 THEN -1 ELSE 0
    <3> HIDE DEF x
    <3> QED
      BY <2>1, <2>2, HighBits
  <2>4. x % 2 = 1
    <3>1. x \in Int /\ 1 \in 0..(2 - 1) /\ x = x * 2 + 1
      OBVIOUS
    <3> HIDE DEF x
    <3> QED
      BY <3>1, DivIs
  <2>5. x \div Pow[k] = x
    BY <2>2, <2>3
  <2> HIDE DEF x
  <2> QED
    BY <2>4, <2>5
<1> HIDE DEF x
<1>4. x % H = H - 1
  <2>1. (x * H + (H - 1)) % H = H - 1
    BY <1>1, <1>2, DivUnique
  <2> QED
    BY <1>2, <2>1
<1>5. Bits(x % Pow[Half], Half) = Bits(x, Half)
  BY <1>1, <1>2, BitsMod
<1>6. Bits(x, Half) = 0..(Half - 1)
  BY <1>3 DEF Bits
<1>7. H - 1 \in Below(Half)
  BY <1>2, Words
<1> QED
  BY <1>1, <1>4, <1>5, <1>6, <1>7

LEMMA LoadsOne ==
  ASSUME NEW x \in Imm, NEW y \in Imm, NEW start \in Word
  PROVE  LET i == x % H  h == y % H  whole == i + H * h IN
         /\ BitOr(x % M, (y * H) % M) \in Word
         /\ BitOr(x % M, (y * H) % M) = whole % M <=> x >= 0 \/ y = -1
         /\ (start + x + y * H) % M = (start + whole) % M <=> x >= 0
<1> DEFINE i == x % H  h == y % H  whole == i + H * h  q == y \div H  n == 2 * Half
           v == BitOr(x % M, (y * H) % M)
<1>1. /\ Half \in Nat \ {0} /\ H \in Nat \ {0} /\ M \in Nat \ {0} /\ M = H * H /\ 2 * H <= M
      /\ x \in Int /\ y \in Int /\ x \in (-H)..(H - 1) /\ start \in Nat
  BY Widths, Imms, Words
<1>2. i \in 0..(H - 1) /\ h \in 0..(H - 1) /\ i = (IF x < 0 THEN H + x ELSE x)
      /\ h = (IF y < 0 THEN H + y ELSE y) /\ i \in Below(Half) /\ h \in Below(Half)
  BY Imms, Words
<1>3. q \in Int /\ y = q * H + h
  BY <1>1, Divided
<1> HIDE DEF i, h, q
<1>4. y * H = q * M + H * h
  <2>1. (q * H + h) * H = q * (H * H) + H * h
    BY <1>1, <1>2, <1>3
  <2> QED
    BY <1>1, <1>3, <2>1
<1>5. H * h \in Word /\ whole \in Word
  <2>1. 0 \in Below(Half)
    BY <1>1, Words
  <2>2. 0 + H * h \in Word /\ i + H * h \in Word
    BY <1>2, <2>1, Joined
  <2> QED
    BY <1>1, <1>2, <2>2
<1>6. (y * H) % M = H * h
  <2> DEFINE z == H * h
  <2>1. z \in 0..(M - 1)
    BY <1>5, Words
  <2>2. y * H = q * M + z
    BY <1>4
  <2> HIDE DEF z
  <2>3. (q * M + z) % M = z
    BY <1>1, <1>3, <2>1, DivUnique
  <2> QED
    BY <2>2, <2>3 DEF z
<1>7. whole % M = whole /\ whole \in Nat
  BY <1>5, Words
<1>8. Bits(H * h, n) = {k \in 0..(n - 1) : k >= Half /\ k - Half \in Bits(h, Half)}
  <2>1. 0 \in Below(Half) /\ 0 + H * h = H * h
    BY <1>1, <1>2, Words
  <2>2. Bits(0, Half) = {}
    BY <1>1, <2>1, NoBits
  <2>3. Bits(0 + H * h, n) = {k \in 0..(n - 1) :
          IF k < Half THEN k \in Bits(0, Half) ELSE k - Half \in Bits(h, Half)}
    BY <1>2, <2>1, Joined
  <2>4. \A k \in 0..(n - 1) :
          (IF k < Half THEN k \in Bits(0, Half) ELSE k - Half \in Bits(h, Half)) <=>
            k >= Half /\ k - Half \in Bits(h, Half)
    BY <1>1, <2>2
  <2> QED
    BY <2>1, <2>3, <2>4
<1>9. Bits(whole, n) = {k \in 0..(n - 1) :
        IF k < Half THEN k \in Bits(i, Half) ELSE k - Half \in Bits(h, Half)}
  BY <1>2, Joined
<1>10. x % M \in Word
  BY Imms
<1>11. /\ v \in Word
       /\ Bits(v, n) = Bits(x % M, n) \cup Bits(H * h, n)
  <2>1. n \in {Half, 2 * Half} /\ Below(n) = Word
    BY Words
  <2> HIDE DEF n
  <2>2. \A a, b \in Below(n) : BitOr(a, b) \in Below(n) /\ Bits(BitOr(a, b), n) = Bits(a, n) \cup Bits(b, n)
    BY <2>1, BitsAssumption
  <2>3. BitOr(x % M, H * h) \in Word /\ Bits(BitOr(x % M, H * h), n) = Bits(x % M, n) \cup Bits(H * h, n)
    BY <1>5, <1>10, <2>1, <2>2
  <2> QED
    BY <1>6, <2>3
<1>12. CASE x >= 0
  <2>1. x = i + H * 0 /\ x = i /\ x % M = x
    <3>1. x = i
      BY <1>1, <1>2, <1>12
    <3>2. H * 0 = 0 /\ x + 0 = x
      BY <1>1
    <3>3. x % M = x
      BY <1>2, <3>1, Words
    <3> QED
      BY <3>1, <3>2, <3>3
  <2>2. 0 \in Below(Half)
    BY <1>1, Words
  <2>3. Bits(0, Half) = {}
    BY <1>1, <2>2, NoBits
  <2>4. Bits(i + H * 0, n) = {k \in 0..(n - 1) :
          IF k < Half THEN k \in Bits(i, Half) ELSE k - Half \in Bits(0, Half)}
    BY <1>2, <2>2, Joined
  <2>5. \A k \in 0..(n - 1) : k \in Bits(v, n) <=> k \in Bits(whole, n)
    <3> TAKE k \in 0..(n - 1)
    <3>1. k \in Bits(v, n) <=> k \in Bits(i + H * 0, n) \/ k \in Bits(H * h, n)
      BY <1>11, <2>1
    <3> HIDE DEF v, whole
    <3>2. CASE k < Half
      BY <1>1, <1>8, <1>9, <2>4, <3>1, <3>2
    <3>3. CASE ~(k < Half)
      BY <1>1, <1>8, <1>9, <2>3, <2>4, <3>1, <3>3
    <3> QED
      BY <3>2, <3>3
  <2>6. Bits(v, n) = Bits(whole, n)
    <3> HIDE DEF v, whole, n
    <3>1. Bits(v, n) \subseteq 0..(n - 1) /\ Bits(whole, n) \subseteq 0..(n - 1)
      BY DEF Bits
    <3> QED
      BY <2>5, <3>1
  <2>7. v = whole
    <3>1. n \in Nat /\ v \in Below(n) /\ whole \in Below(n)
      BY <1>1, <1>5, <1>11, Words
    <3> HIDE DEF v, whole, n
    <3> QED
      BY <2>6, <3>1, BitsUnique
  <2>8. (start + x + y * H) % M = (start + whole) % M
    <3> DEFINE a == start + whole
    <3>1. a \in Int /\ start + x + y * H = q * M + a
      BY <1>1, <1>2, <1>3, <1>4, <2>1
    <3> HIDE DEF a
    <3>2. (q * M + a) % M = a % M
      BY <1>1, <1>3, <3>1, ModMultiple
    <3> QED
      BY <3>1, <3>2 DEF a
  <2> HIDE DEF v, whole
  <2> QED
    BY <1>7, <1>11, <1>12, <2>7, <2>8 DEF v, whole, i, h
<1>13. CASE ~(x >= 0)
  <2> DEFINE o == H - 1
  <2>1. o \in Below(Half) /\ Bits(o, Half) = 0..(Half - 1) /\ o \in Nat
    BY <1>1, AllOnes
  <2>2. x % M = i + H * o
    <3>1. x % M = M + x
      BY <1>1, <1>13, SignExtends
    <3>2. H * o = H * H - H
      BY <1>1
    <3> HIDE DEF o
    <3> QED
      BY <1>1, <1>2, <1>13, <2>1, <3>1, <3>2
  <2> HIDE DEF o
  <2>3. Bits(i + H * o, n) = {k \in 0..(n - 1) :
          IF k < Half THEN k \in Bits(i, Half) ELSE k - Half \in Bits(o, Half)}
    BY <1>2, <2>1, Joined
  <2>4. Bits(H * h, n) \subseteq Bits(i + H * o, n)
    <3> SUFFICES ASSUME NEW k \in Bits(H * h, n) PROVE k \in Bits(i + H * o, n)
      OBVIOUS
    <3>1. k \in 0..(n - 1) /\ k >= Half /\ k - Half \in Bits(h, Half)
      BY <1>8
    <3>2. k - Half \in 0..(Half - 1) /\ ~(k < Half)
      BY <1>1, <3>1
    <3> QED
      BY <2>1, <2>3, <3>1, <3>2
  <2>5. v = i + H * o
    <3>1. Bits(v, n) = Bits(i + H * o, n)
      <4> HIDE DEF v, n
      <4> QED
        BY <1>11, <2>2, <2>4
    <3>2. n \in Nat /\ v \in Below(n) /\ i + H * o \in Below(n)
      BY <1>1, <1>10, <1>11, <2>2, Words
    <3> HIDE DEF v, n
    <3> QED
      BY <3>1, <3>2, BitsUnique
  <2>6. i + H * o = whole <=> y = -1
    <3>1. i + H * o = whole <=> o = h
      <4>1. H * o = H * h => o = h
        <5>1. CASE o < h
          <6>1. H * (o + 1) <= H * h /\ H * (o + 1) = H * o + H
            BY <1>1, <1>2, <2>1, <5>1
          <6> QED
            BY <1>1, <1>2, <2>1, <6>1
        <5>2. CASE h < o
          <6>1. H * (h + 1) <= H * o /\ H * (h + 1) = H * h + H
            BY <1>1, <1>2, <2>1, <5>2
          <6> QED
            BY <1>1, <1>2, <2>1, <6>1
        <5> QED
          BY <1>2, <2>1, <5>1, <5>2
      <4>2. i + H * o = i + H * h => H * o = H * h
        <5>1. H * o \in Int /\ H * h \in Int
          BY <1>1, <1>2, <2>1
        <5> QED
          BY <1>2, <5>1
      <4> QED
        BY <4>1, <4>2
    <3>2. o = h <=> y = -1
      <4>1. H \div 2 \in Nat \ {0} /\ H = 2 * (H \div 2) /\ y < H \div 2
        BY Widths DEF Imm
      <4> QED
        BY <1>1, <1>2, <4>1 DEF o
    <3> QED
      BY <3>1, <3>2
  <2>7. (start + x + y * H) % M # (start + whole) % M
    <3> DEFINE a == start + whole  c == a - H
               d == a \div M  e == c \div M
    <3>1. a \in Int /\ c \in Int /\ start + x + y * H = q * M + c
      BY <1>1, <1>2, <1>3, <1>4, <1>7, <1>13
    <3>2. c = a - H
      OBVIOUS
    <3> HIDE DEF a, c
    <3>3. (q * M + c) % M = c % M
      BY <1>1, <1>3, <3>1, ModMultiple
    <3>4. d \in Int /\ a % M \in 0..(M - 1) /\ a = d * M + (a % M)
      BY <1>1, <3>1, Divided
    <3>5. e \in Int /\ c % M \in 0..(M - 1) /\ c = e * M + (c % M)
      BY <1>1, <3>1, Divided
    <3> HIDE DEF d, e
    <3>6. c % M # a % M
      <4> SUFFICES ASSUME c % M = a % M PROVE FALSE
        OBVIOUS
      <4>1. H = (d - e) * M
        <5>1. (d - e) * M = d * M - e * M
          BY <1>1, <3>4, <3>5
        <5> DEFINE u == d * M  w == e * M  m == a % M
        <5>2. u \in Int /\ w \in Int /\ m \in Int /\ (d - e) * M = u - w
          BY <1>1, <3>4, <3>5, <5>1
        <5>3. a = u + m /\ c = w + m /\ c = a - H /\ H \in Int
          BY <1>1, <3>2, <3>4, <3>5
        <5> HIDE DEF u, w, m
        <5>4. H = u - w
          BY <3>1, <5>2, <5>3
        <5> QED
          BY <5>2, <5>4
      <4>2. CASE d - e <= 0
        <5>1. (d - e) * M <= 0 * M
          BY <1>1, <3>4, <3>5, <4>2
        <5> QED
          BY <1>1, <4>1, <5>1
      <4>3. CASE d - e >= 1
        <5>1. (d - e) * M >= 1 * M
          BY <1>1, <3>4, <3>5, <4>3
        <5> QED
          BY <1>1, <4>1, <5>1
      <4> QED
        BY <3>4, <3>5, <4>2, <4>3
    <3> QED
      BY <3>1, <3>3, <3>6 DEF a
  <2> HIDE DEF v, whole
  <2> QED
    BY <1>7, <1>11, <1>13, <2>5, <2>6, <2>7 DEF v, whole, i, h
<1> QED
  BY <1>1, <1>12, <1>13

(***************************************************************************)
(* The jumps.                                                              *)
(***************************************************************************)

\* With its top bit inverted, a register is its signed value moved up by half.
LEMMA Flips ==
  ASSUME NEW x \in Word
  PROVE  (x + M \div 2) % M = I64(x) + M \div 2 /\ I64(x) \in Int
<1> DEFINE h == M \div 2
<1>1. M \in Nat \ {0} /\ h \in Nat \ {0} /\ M = 2 * h /\ x \in 0..(M - 1)
  BY Widths, Words
<1>2. I64(x) = IF x < h THEN x ELSE x - M
  BY <1>1, SignedRange DEF I64
<1>3. CASE x < h
  <2>1. x + h \in 0..(M - 1)
    BY <1>1, <1>3
  <2>2. (x + h) % M = x + h
    BY <1>1, <2>1, ModSmall
  <2> QED
    BY <1>1, <1>2, <1>3, <2>2
<1>4. CASE ~(x < h)
  <2> DEFINE r == x - h
  <2>1. r \in 0..(M - 1) /\ x + h = 1 * M + r
    BY <1>1, <1>4
  <2> HIDE DEF r
  <2>2. (1 * M + r) % M = r
    BY <1>1, <2>1, DivUnique
  <2>3. r = (x - M) + h
    BY <1>1 DEF r
  <2> QED
    BY <1>1, <1>2, <1>4, <2>1, <2>2, <2>3
<1> QED
  BY <1>3, <1>4

LEMMA BranchRight ==
  ASSUME TypeOK, NEW op \in JumpNames \cup {"ALWAYS"}, NEW b \in Word
  PROVE  LET Flip(x) == (x + M \div 2) % M
             Order(o, x, y) == \/ o \in {"GT", "GE"} /\ x > y
                               \/ o \in {"LT", "LE"} /\ x < y
                               \/ o \in {"GE", "LE"} /\ x = y
             bare == [SGT |-> "GT", SGE |-> "GE", SLT |-> "LT", SLE |-> "LE"]
         IN /\ Condition(op, b) \in BOOLEAN
            /\ Condition(op, b) <=>
                 \/ op = "ALWAYS"
                 \/ op = "EQ" /\ Bits(dst, 2 * Half) = Bits(b, 2 * Half)
                 \/ op = "NE" /\ Bits(dst, 2 * Half) # Bits(b, 2 * Half)
                 \/ op = "SET" /\ Bits(dst, 2 * Half) \cap Bits(b, 2 * Half) # {}
                 \/ Order(op, dst, b)
                 \/ op \in DOMAIN bare /\ Order(bare[op], Flip(dst), Flip(b))
<1> DEFINE n == 2 * Half  h == M \div 2  A == Bits(dst, n)  B == Bits(b, n)
           s == I64(dst)  t == I64(b)  f == (dst + h) % M  g == (b + h) % M
           bare == [SGT |-> "GT", SGE |-> "GE", SLT |-> "LT", SLE |-> "LE"]
<1>1. dst \in Nat /\ b \in Nat /\ dst \in Word
  BY Words DEF TypeOK
<1>2. A = B <=> dst = b
  <2>1. n \in Nat /\ dst \in Below(n) /\ b \in Below(n)
    BY <1>1, Words, Widths
  <2> HIDE DEF n
  <2> QED
    BY <2>1, BitsUnique
<1>3. BitAnd(dst, b) # 0 <=> A \cap B # {}
  <2>1. n \in Nat /\ dst \in Below(n) /\ b \in Below(n) /\ n \in {Half, 2 * Half}
    BY <1>1, Words, Widths
  <2> HIDE DEF n
  <2>2. \A x, y \in Below(n) : BitAnd(x, y) \in Below(n) /\ Bits(BitAnd(x, y), n) = Bits(x, n) \cap Bits(y, n)
    BY <2>1, BitsAssumption
  <2>3. BitAnd(dst, b) \in Below(n) /\ Bits(BitAnd(dst, b), n) = Bits(dst, n) \cap Bits(b, n)
    BY <2>1, <2>2
  <2>4. Bits(BitAnd(dst, b), n) = {} <=> BitAnd(dst, b) = 0
    BY <2>1, <2>3, NoBits
  <2> QED
    BY <2>3, <2>4
<1>4. f = s + h /\ g = t + h /\ s \in Int /\ t \in Int /\ h \in Int
  <2>1. h \in Int
    BY Widths
  <2> QED
    BY <1>1, <2>1, Flips
<1> HIDE DEF s, t, f, g, h
<1>5. (f > g <=> s > t) /\ (f < g <=> s < t) /\ (f = g <=> s = t)
      /\ (s >= t <=> s > t \/ s = t) /\ (s <= t <=> s < t \/ s = t)
  BY <1>4
<1>6. (dst >= b <=> dst > b \/ dst = b) /\ (dst <= b <=> dst < b \/ dst = b)
  BY <1>1
<1>7. op \in {"ALWAYS", "EQ", "GT", "GE", "SET", "NE", "SGT", "SGE", "LT", "LE", "SLT", "SLE"}
  BY DEF JumpNames, JmpCode
<1> HIDE DEF A, B
<1> SUFFICES
      /\ Condition(op, b) \in BOOLEAN
      /\ Condition(op, b) <=>
           \/ op = "ALWAYS"
           \/ op = "EQ" /\ A = B
           \/ op = "NE" /\ A # B
           \/ op = "SET" /\ A \cap B # {}
           \/ \/ op \in {"GT", "GE"} /\ dst > b
              \/ op \in {"LT", "LE"} /\ dst < b
              \/ op \in {"GE", "LE"} /\ dst = b
           \/ /\ op \in DOMAIN bare
              /\ \/ bare[op] \in {"GT", "GE"} /\ f > g
                 \/ bare[op] \in {"LT", "LE"} /\ f < g
                 \/ bare[op] \in {"GE", "LE"} /\ f = g
  BY DEF A, B, f, g, h
<1>8. CASE op = "ALWAYS"
  BY <1>8 DEF Condition
<1>9. CASE op = "EQ"
  <2>1. Condition(op, b) = (dst = b)
    BY <1>9 DEF Condition
  <2> QED
    BY <1>2, <1>9, <2>1
<1>10. CASE op = "NE"
  <2>1. Condition(op, b) = (dst # b)
    BY <1>10 DEF Condition
  <2> QED
    BY <1>2, <1>10, <2>1
<1>11. CASE op = "SET"
  <2>1. Condition(op, b) = (BitAnd(dst, b) # 0)
    BY <1>11 DEF Condition
  <2> QED
    BY <1>3, <1>11, <2>1
<1>12. CASE op = "GT"
  <2>1. Condition(op, b) \in BOOLEAN /\ (Condition(op, b) <=> dst > b)
    BY <1>12 DEF Condition
  <2>2. op \notin DOMAIN bare
    BY <1>12
  <2> HIDE DEF bare
  <2> QED
    BY <1>6, <1>12, <2>1, <2>2, Zenon
<1>13. CASE op = "GE"
  <2>1. Condition(op, b) \in BOOLEAN /\ (Condition(op, b) <=> dst >= b)
    BY <1>13 DEF Condition
  <2>2. op \notin DOMAIN bare
    BY <1>13
  <2> HIDE DEF bare
  <2> QED
    BY <1>6, <1>13, <2>1, <2>2, Zenon
<1>14. CASE op = "LT"
  <2>1. Condition(op, b) \in BOOLEAN /\ (Condition(op, b) <=> dst < b)
    BY <1>14 DEF Condition
  <2>2. op \notin DOMAIN bare
    BY <1>14
  <2> HIDE DEF bare
  <2> QED
    BY <1>6, <1>14, <2>1, <2>2, Zenon
<1>15. CASE op = "LE"
  <2>1. Condition(op, b) \in BOOLEAN /\ (Condition(op, b) <=> dst <= b)
    BY <1>15 DEF Condition
  <2>2. op \notin DOMAIN bare
    BY <1>15
  <2> HIDE DEF bare
  <2> QED
    BY <1>6, <1>15, <2>1, <2>2, Zenon
<1>16. CASE op = "SGT"
  <2>1. Condition(op, b) \in BOOLEAN /\ (Condition(op, b) <=> s > t)
    BY <1>16 DEF Condition, s, t
  <2>2. op \in DOMAIN bare /\ bare[op] = "GT"
    BY <1>16
  <2> HIDE DEF bare
  <2> QED
    BY <1>5, <1>16, <2>1, <2>2, Zenon
<1>17. CASE op = "SGE"
  <2>1. Condition(op, b) \in BOOLEAN /\ (Condition(op, b) <=> s >= t)
    BY <1>17 DEF Condition, s, t
  <2>2. op \in DOMAIN bare /\ bare[op] = "GE"
    BY <1>17
  <2> HIDE DEF bare
  <2> QED
    BY <1>5, <1>17, <2>1, <2>2, Zenon
<1>18. CASE op = "SLT"
  <2>1. Condition(op, b) \in BOOLEAN /\ (Condition(op, b) <=> s < t)
    BY <1>18 DEF Condition, s, t
  <2>2. op \in DOMAIN bare /\ bare[op] = "LT"
    BY <1>18
  <2> HIDE DEF bare
  <2> QED
    BY <1>5, <1>18, <2>1, <2>2, Zenon
<1>19. CASE op = "SLE"
  <2>1. Condition(op, b) \in BOOLEAN /\ (Condition(op, b) <=> s <= t)
    BY <1>19 DEF Condition, s, t
  <2>2. op \in DOMAIN bare /\ bare[op] = "LE"
    BY <1>19
  <2> HIDE DEF bare
  <2> QED
    BY <1>5, <1>19, <2>1, <2>2, Zenon
<1> QED
  BY <1>7, <1>8, <1>9, <1>10, <1>11, <1>12, <1>13, <1>14, <1>15, <1>16, <1>17, <1>18, <1>19

(***************************************************************************)
(* The theorems.                                                           *)
(***************************************************************************)

LEMMA WideWord ==
  ASSUME TypeOK, NEW op
  PROVE  WideValue(op) \in Word
<1>1. immediate \in Imm /\ high \in Imm /\ Base \in Word
  BY AluAssumption DEF TypeOK
<1>2. CASE op = "LDDW"
  BY <1>1, <1>2, LoadsOne DEF WideValue
<1>3. CASE op # "LDDW"
  <2> DEFINE y == Base + immediate + high * H
  <2>1. y \in Int /\ M \in Nat \ {0}
    <3>1. Base \in Int /\ immediate \in Int /\ high \in Int /\ H \in Int
      BY <1>1, Imms, Words, Widths
    <3>2. high * H \in Int
      BY <3>1
    <3> QED
      BY <3>1, <3>2, Widths
  <2> HIDE DEF y
  <2>2. y % M \in 0..(M - 1)
    BY <2>1, Divided
  <2>3. y % M \in Word
    BY <2>2, Words
  <2> QED
    BY <1>3, <2>3 DEF WideValue, y
<1> QED
  BY <1>2, <1>3

LEMMA InitTyped == Init => TypeOK
<1> SUFFICES ASSUME Init PROVE TypeOK
  OBVIOUS
<1>1. 0 \in Word /\ 0 \in Imm
  <2>1. M \in Nat \ {0} /\ H \div 2 \in Nat \ {0}
    BY Widths
  <2> QED
    BY <2>1, Words DEF Imm
<1>2. opcode \in 0..255 /\ jump_cond \in BOOLEAN /\ res = "OK"
  BY DEF Init
<1>3. ASSUME NEW e \in Entry(JumpTable, opcode), NEW x \in Operands(e)
      PROVE  x \in Imm \X Imm \X Word \X Word
  <2>1. Sorted(e)
    BY Entries DEF Entry
  <2>2. CASE e[4] = "REG"
    <3>1. Operands(e) = {0} \X {0} \X Word \X Word
      BY <2>1, <2>2 DEF Operands, Sorted, SizeCode
    <3> QED
      BY <1>1, <3>1
  <2>3. CASE e[2] \in {"ALU64", "ALU32", "JMP"} /\ e[4] = "IMM"
    <3>1. Operands(e) = Imm \X {0} \X Word \X {0}
      BY <2>1, <2>3 DEF Operands, Sorted, SizeCode
    <3> QED
      BY <1>1, <3>1
  <2>4. CASE e[4] = "WIDE"
    <3>1. Operands(e) = Imm \X Imm \X {0} \X {0}
      BY <2>1, <2>4 DEF Operands, Sorted, SizeCode
    <3> QED
      BY <1>1, <3>1
  <2>5. CASE e[4] = "NONE" \/ e[2] \in {"CALL", "MEM"}
    <3>1. Operands(e) = {0} \X {0} \X {0} \X {0}
      BY <2>1, <2>5 DEF Operands, Sorted, SizeCode
    <3> QED
      BY <1>1, <3>1
  <2> QED
    BY <2>1, <2>2, <2>3, <2>4, <2>5 DEF Sorted
<1>4. CASE \E e \in Entry(JumpTable, opcode) : \E x \in Operands(e) :
             immediate = x[1] /\ high = x[2] /\ dst = x[3] /\ src = x[4]
  <2>0. PICK e \in Entry(JumpTable, opcode) : \E x \in Operands(e) :
          immediate = x[1] /\ high = x[2] /\ dst = x[3] /\ src = x[4]
    BY <1>4
  <2>1. PICK x \in Operands(e) : immediate = x[1] /\ high = x[2] /\ dst = x[3] /\ src = x[4]
    BY <2>0
  <2>2. x \in Imm \X Imm \X Word \X Word
    BY <1>3
  <2> QED
    BY <1>2, <2>1, <2>2 DEF TypeOK
<1>5. CASE immediate = 0 /\ high = 0 /\ dst = 0 /\ src = 0
  BY <1>1, <1>2, <1>5 DEF TypeOK
<1> QED
  BY <1>4, <1>5 DEF Init

LEMMA StepTyped == TypeOK /\ [Next]_vars => TypeOK'
<1> SUFFICES ASSUME TypeOK, [Next]_vars PROVE TypeOK'
  OBVIOUS
<1>1. ASSUME NEW e \in Entry(JumpTable, opcode), e[2] \in {"ALU64", "ALU32"}, AluStep(e[2], e[3], e[4])
      PROVE  TypeOK'
  <2> DEFINE b == Operand(e[4])
  <2>1. Sorted(e)
    BY Entries DEF Entry
  <2>2. e[3] \in AluNames
    BY <1>1, <2>1 DEF Sorted
  <2>3. b \in Word
    BY OperandWord
  <2> HIDE DEF b
  <2>4. UNCHANGED <<opcode, immediate, high, src, jump_cond>>
    BY <1>1 DEF AluStep
  <2>5. dst' \in Word /\ res' \in {"OK", "ILLEGAL_DIV", "ILLEGAL_INSTRUCTION"}
    <3>1. \/ res' = "ILLEGAL_DIV" /\ dst' = dst
          \/ /\ ~(e[3] \in {"DIV", "MOD"} /\ b = 0) /\ ~Undefined(e[2], e[3], b)
             /\ dst' = Value(e[2], e[3], b) /\ res' = res
          \/ dst' \in Word /\ res' = res
      BY <1>1 DEF AluStep, b
    <3>2. CASE /\ ~(e[3] \in {"DIV", "MOD"} /\ b = 0) /\ ~Undefined(e[2], e[3], b)
               /\ dst' = Value(e[2], e[3], b) /\ res' = res
      <4>1. Value(e[2], e[3], b) \in Word
        BY <1>1, <2>2, <2>3, <3>2, ValueRight
      <4> QED
        BY <3>2, <4>1 DEF TypeOK
    <3> QED
      BY <3>1, <3>2 DEF TypeOK
  <2> QED
    BY <2>4, <2>5 DEF TypeOK
<1>2. ASSUME NEW e \in Entry(JumpTable, opcode), e[2] = "LDDW", WideStep(e[3])
      PROVE  TypeOK'
  <2>1. WideValue(e[3]) \in Word
    BY WideWord
  <2> QED
    BY <1>2, <2>1 DEF WideStep, TypeOK
<1>3. ASSUME NEW e \in Entry(JumpTable, opcode), e[2] = "JMP", JumpStep(e[3], e[4])
      PROVE  TypeOK'
  <2>1. Sorted(e)
    BY Entries DEF Entry
  <2>2. e[3] \in JumpNames \cup {"ALWAYS"}
    BY <1>3, <2>1 DEF Sorted
  <2>3. Operand(e[4]) \in Word
    BY OperandWord
  <2>4. Condition(e[3], Operand(e[4])) \in BOOLEAN
    BY <2>2, <2>3, BranchRight
  <2> QED
    BY <1>3, <2>4 DEF JumpStep, TypeOK
<1>4. CASE Invalid
  BY <1>4 DEF Invalid, TypeOK
<1>5. CASE UNCHANGED vars
  BY <1>5 DEF vars, TypeOK
<1> QED
  BY <1>1, <1>2, <1>3, <1>4, <1>5 DEF Next

\* The registers stay numbers of their width, through every instruction, undefined ones
\* included, and the immediates those of their field.
THEOREM TypeCorrect == Spec => []TypeOK
  BY InitTyped, StepTyped, PTL DEF Spec

LEMMA TypedComputes == TypeOK => Computes
<1> SUFFICES ASSUME TypeOK, NEW e \in Entry(JumpTable, opcode), e[2] \in {"ALU64", "ALU32"},
                    ~Undefined(e[2], e[3], Operand(e[4])),
                    ~(e[3] \in {"DIV", "MOD"} /\ Operand(e[4]) = 0)
             PROVE  Correct(e[2], e[3], Operand(e[4]), Value(e[2], e[3], Operand(e[4]))) <=>
                      ~Deviates(e[2], e[3], Operand(e[4]))
  BY DEF Computes
<1>1. Sorted(e)
  BY Entries DEF Entry
<1>2. e[3] \in AluNames
  BY <1>1 DEF Sorted
<1>3. Operand(e[4]) \in Word
  BY OperandWord
<1> QED
  BY <1>2, <1>3, ValueRight

\* At every width and for all operands, the handlers of the arithmetic instructions
\* (bpf/jumptable.c) compute what the instruction set prescribes, but for the MOV that
\* loses the upper half of its operand and the NEG32 and ARSH32 that extend a sign.
THEOREM AlwaysComputes == Spec => []Computes
  BY TypeCorrect, TypedComputes, PTL

LEMMA TypedLoads == TypeOK => Loads
<1> SUFFICES ASSUME TypeOK, NEW e \in Entry(JumpTable, opcode), e[2] = "LDDW"
             PROVE  WideValue(e[3]) = ((IF e[3] = "LDDW" THEN 0 ELSE Base)
                                         + (U32(immediate) + H * U32(high))) % M <=>
                      immediate >= 0 \/ (e[3] = "LDDW" /\ high = -1)
  BY DEF Loads
<1> DEFINE whole == (immediate % H) + H * (high % H)
<1>1. immediate \in Imm /\ high \in Imm /\ Base \in Word
  BY AluAssumption DEF TypeOK
<1>2. /\ BitOr(immediate % M, (high * H) % M) = whole % M <=> immediate >= 0 \/ high = -1
      /\ (Base + immediate + high * H) % M = (Base + whole) % M <=> immediate >= 0
  BY <1>1, LoadsOne
<1>3. 0 + whole = whole
  <2>1. immediate % H \in Int /\ high % H \in Int /\ H \in Int
    BY <1>1, Imms, Widths
  <2> QED
    BY <2>1
<1> HIDE DEF whole
<1>4. CASE e[3] = "LDDW"
  BY <1>2, <1>3, <1>4 DEF WideValue, U32, whole
<1>5. CASE e[3] # "LDDW"
  BY <1>2, <1>5 DEF WideValue, U32, whole
<1> QED
  BY <1>4, <1>5

\* At every width, LDDW loads its 64 bits and LDDWD and LDDWR the address of their
\* section exactly when the low immediate is not negative (LDDW: or the high one is -1).
THEOREM AlwaysLoads == Spec => []Loads
  BY TypeCorrect, TypedLoads, PTL

LEMMA TypedBranches == TypeOK => Branches
<1> SUFFICES ASSUME TypeOK PROVE Branches
  OBVIOUS
<1>1. \A e \in Entry(JumpTable, opcode) : e[2] = "JMP" =>
        e[3] \in JumpNames \cup {"ALWAYS"} /\ Operand(e[4]) \in Word
  BY Entries, OperandWord DEF Entry, Sorted
<1> QED
  BY <1>1, BranchRight DEF Branches

\* At every width, a conditional jump (COND_JMP) is taken exactly when the condition
\* holds of the bits of its operands.
THEOREM AlwaysBranches == Spec => []Branches
  BY TypeCorrect, TypedBranches, PTL

(***************************************************************************)
(* The tables.                                                             *)
(***************************************************************************)

\* An ALU64 class of the tool that the interpreter has too, under its opcode.
Shared == {<<AluCode[op] + 15, "ALU64", op, "REG">> : op \in AluNames \ {"DIV", "NEG"}}
  \cup {<<AluCode[op] + 7, "ALU64", op, "IMM">> : op \in AluNames \ {"NEG"}}

Others == {<<5, "JMP", "ALWAYS", "NONE">>, <<24, "LDDW", "LDDW", "WIDE">>,
  <<184, "LDDW", "LDDWD", "WIDE">>, <<216, "LDDW", "LDDWR", "WIDE">>,
  <<133, "CALL", "CALL", "IMM">>, <<149, "RETURN", "RETURN", "NONE">>}

\* The loads and stores of two and of eight bytes are the same in both tables.
SameSizes == {<<105, "MEM", "LDX", "HALF">>, <<121, "MEM", "LDX", "LONG">>,
  <<107, "MEM", "STX", "HALF">>, <<123, "MEM", "STX", "LONG">>,
  <<106, "MEM", "ST", "HALF">>, <<122, "MEM", "ST", "LONG">>}

JumpSizes == {<<97, "MEM", "LDX", "WORD">>, <<113, "MEM", "LDX", "BYTE">>,
  <<99, "MEM", "STX", "WORD">>, <<115, "MEM", "STX", "BYTE">>,
  <<98, "MEM", "ST", "WORD">>, <<114, "MEM", "ST", "BYTE">>}

ToolSizes == {<<97, "MEM", "LDX", "BYTE">>, <<113, "MEM", "LDX", "WORD">>,
  <<99, "MEM", "STX", "BYTE">>, <<115, "MEM", "STX", "WORD">>,
  <<98, "MEM", "ST", "BYTE">>, <<114, "MEM", "ST", "WORD">>}

Core == Shared \cup JmpOpcodes \cup SameSizes \cup Others

OnlyJump == {<<63, "ALU64", "DIV", "REG">>, <<143, "ALU64", "NEG", "REG">>}
ToolNeg == {<<135, "ALU64", "NEG", "REG">>}

\* The opcodes with an entry of its own in one of the tables.
Odd == {63, 97, 98, 99, 113, 114, 115, 135, 143}

LEMMA SameCodes ==
  /\ AluNames = {"ADD", "SUB", "MUL", "DIV", "OR", "AND", "LSH", "RSH", "NEG", "MOD",
                 "XOR", "MOV", "ARSH"}
  /\ DOMAIN ToolAluImm = AluNames \ {"NEG"} /\ DOMAIN ToolAluReg = AluNames
  /\ DOMAIN ToolBranch = DOMAIN JmpCode /\ DOMAIN ToolBranchImm = DOMAIN JmpCode
  /\ \A op \in AluNames \ {"NEG"} : ToolAluImm[op] = AluCode[op] + 7
  /\ \A op \in AluNames \ {"DIV", "NEG"} : ToolAluReg[op] = AluCode[op] + 15
  /\ ToolAluReg["NEG"] = 135 /\ AluCode["NEG"] + 15 = 143 /\ AluCode["DIV"] + 15 = 63
  /\ \A op \in DOMAIN JmpCode : ToolBranch[op] = JmpCode[op] + 13 /\ ToolBranchImm[op] = JmpCode[op] + 5
<1>1. /\ AluNames = {"ADD", "SUB", "MUL", "DIV", "OR", "AND", "LSH", "RSH", "NEG", "MOD",
                     "XOR", "MOV", "ARSH"}
      /\ DOMAIN ToolAluImm = AluNames \ {"NEG"} /\ DOMAIN ToolAluReg = AluNames
  BY DEF AluNames, AluCode, ToolAluImm, ToolAluReg
<1>2. DOMAIN ToolBranch = DOMAIN JmpCode /\ DOMAIN ToolBranchImm = DOMAIN JmpCode
  BY DEF JmpCode, ToolBranch, ToolBranchImm
<1>3. \A op \in AluNames \ {"NEG"} : ToolAluImm[op] = AluCode[op] + 7
  BY DEF AluNames, AluCode, ToolAluImm
<1>4. /\ \A op \in AluNames \ {"DIV", "NEG"} : ToolAluReg[op] = AluCode[op] + 15
      /\ ToolAluReg["NEG"] = 135 /\ AluCode["NEG"] + 15 = 143 /\ AluCode["DIV"] + 15 = 63
  BY DEF AluNames, AluCode, ToolAluReg
<1>5. \A op \in DOMAIN JmpCode : ToolBranch[op] = JmpCode[op] + 13 /\ ToolBranchImm[op] = JmpCode[op] + 5
  BY DEF JmpCode, ToolBranch, ToolBranchImm
<1> QED
  BY <1>1, <1>2, <1>3, <1>4, <1>5

LEMMA JumpMem == MemOpcodes = SameSizes \cup JumpSizes
<1>1. DOMAIN MemCode = {"STX", "ST", "LDX"} /\ DOMAIN SizeCode = {"BYTE", "HALF", "WORD", "LONG"}
      /\ MemCode["STX"] = 99 /\ MemCode["ST"] = 98 /\ MemCode["LDX"] = 97
      /\ SizeCode["BYTE"] = 16 /\ SizeCode["HALF"] = 8 /\ SizeCode["WORD"] = 0 /\ SizeCode["LONG"] = 24
  BY DEF MemCode, SizeCode
<1>2. \A e : e \in MemOpcodes <=> \E op \in {"STX", "ST", "LDX"} :
        \E size \in {"BYTE", "HALF", "WORD", "LONG"} : e = <<MemCode[op] + SizeCode[size], "MEM", op, size>>
  BY <1>1 DEF MemOpcodes
<1>3. \A e : e \in MemOpcodes <=> e \in SameSizes \cup JumpSizes
  BY <1>1, <1>2 DEF SameSizes, JumpSizes
<1> QED
  BY <1>3

LEMMA SizesOfTool ==
  /\ \A code \in {97, 98, 99} : ToolSize(code) = "BYTE"
  /\ \A code \in {105, 106, 107} : ToolSize(code) = "HALF"
  /\ \A code \in {113, 114, 115} : ToolSize(code) = "WORD"
  /\ \A code \in {121, 122, 123} : ToolSize(code) = "LONG"
<1>1. \A code \in {97, 98, 99} : ((code \div 8) % 4) + 1 = 1
  OBVIOUS
<1>2. \A code \in {105, 106, 107} : ((code \div 8) % 4) + 1 = 2
  OBVIOUS
<1>3. \A code \in {113, 114, 115} : ((code \div 8) % 4) + 1 = 3
  OBVIOUS
<1>4. \A code \in {121, 122, 123} : ((code \div 8) % 4) + 1 = 4
  OBVIOUS
<1> QED
  BY <1>1, <1>2, <1>3, <1>4 DEF ToolSize

LEMMA ToolMemIs == ToolMem = SameSizes \cup ToolSizes
<1>1. /\ DOMAIN ToolMemClasses = {"LDX", "STX", "ST"}
      /\ ToolMemClasses["LDX"] = {121, 97, 105, 113} /\ ToolMemClasses["STX"] = {123, 99, 107, 115}
      /\ ToolMemClasses["ST"] = {122, 98, 106, 114}
  BY DEF ToolMemClasses
<1>2. ToolMem = {<<code, "MEM", "LDX", ToolSize(code)>> : code \in {121, 97, 105, 113}}
           \cup {<<code, "MEM", "STX", ToolSize(code)>> : code \in {123, 99, 107, 115}}
           \cup {<<code, "MEM", "ST", ToolSize(code)>> : code \in {122, 98, 106, 114}}
  BY <1>1 DEF ToolMem
<1>3. \A e : e \in ToolMem <=> e \in SameSizes \cup ToolSizes
  BY <1>2, SizesOfTool DEF SameSizes, ToolSizes
<1> QED
  BY <1>3

LEMMA JumpTableIs ==
  JumpTable = Core \cup OnlyJump \cup JumpSizes \cup (IF Alu32 THEN AluOpcodes("ALU32", 4, 12) ELSE {})
<1>1. AluOpcodes("ALU64", 7, 15) = Shared \cup OnlyJump
  <2>1. {<<AluCode[op] + 15, "ALU64", op, "REG">> : op \in AluNames} =
          {<<AluCode[op] + 15, "ALU64", op, "REG">> : op \in AluNames \ {"DIV", "NEG"}}
            \cup {<<AluCode["DIV"] + 15, "ALU64", "DIV", "REG">>,
                  <<AluCode["NEG"] + 15, "ALU64", "NEG", "REG">>}
    <3>1. "DIV" \in AluNames /\ "NEG" \in AluNames
      BY SameCodes
    <3> QED
      BY <3>1
  <2>2. OnlyJump = {<<AluCode["DIV"] + 15, "ALU64", "DIV", "REG">>,
                    <<AluCode["NEG"] + 15, "ALU64", "NEG", "REG">>}
    BY SameCodes DEF OnlyJump
  <2> QED
    BY <2>1, <2>2, Zenon DEF AluOpcodes, Shared
<1> DEFINE A == IF Alu32 THEN AluOpcodes("ALU32", 4, 12) ELSE {}
<1>2. JumpTable = AluOpcodes("ALU64", 7, 15) \cup A \cup JmpOpcodes \cup MemOpcodes \cup Others
  BY Zenon DEF JumpTable, Others
<1> HIDE DEF A
<1>3. JumpTable = Core \cup OnlyJump \cup JumpSizes \cup A
  BY <1>1, <1>2, JumpMem DEF Core
<1> QED
  BY <1>3 DEF A

LEMMA ToolTableIs == ToolTable = Core \cup ToolNeg \cup ToolSizes
<1>1. {<<ToolAluImm[op], "ALU64", op, "IMM">> : op \in DOMAIN ToolAluImm} =
        {<<AluCode[op] + 7, "ALU64", op, "IMM">> : op \in AluNames \ {"NEG"}}
  BY SameCodes
<1>2. {<<ToolAluReg[op], "ALU64", op, "REG">> : op \in DOMAIN ToolAluReg \ {"DIV"}} =
        {<<AluCode[op] + 15, "ALU64", op, "REG">> : op \in AluNames \ {"DIV", "NEG"}} \cup ToolNeg
  <2>1. {<<ToolAluReg[op], "ALU64", op, "REG">> : op \in AluNames \ {"DIV"}} =
          {<<ToolAluReg[op], "ALU64", op, "REG">> : op \in AluNames \ {"DIV", "NEG"}}
            \cup {<<ToolAluReg["NEG"], "ALU64", "NEG", "REG">>}
    <3>1. "NEG" \in AluNames
      BY SameCodes
    <3> QED
      BY <3>1
  <2>2. {<<ToolAluReg[op], "ALU64", op, "REG">> : op \in AluNames \ {"DIV", "NEG"}} =
          {<<AluCode[op] + 15, "ALU64", op, "REG">> : op \in AluNames \ {"DIV", "NEG"}}
    BY SameCodes
  <2>3. {<<ToolAluReg["NEG"], "ALU64", "NEG", "REG">>} = ToolNeg
    BY SameCodes DEF ToolNeg
  <2> QED
    BY <2>1, <2>2, <2>3, SameCodes
<1>3. /\ {<<ToolBranch[op], "JMP", op, "REG">> : op \in DOMAIN ToolBranch} =
           {<<JmpCode[op] + 13, "JMP", op, "REG">> : op \in DOMAIN JmpCode}
      /\ {<<ToolBranchImm[op], "JMP", op, "IMM">> : op \in DOMAIN ToolBranchImm} =
           {<<JmpCode[op] + 5, "JMP", op, "IMM">> : op \in DOMAIN JmpCode}
  BY SameCodes
<1>4. Others = ToolWide \cup {<<5, "JMP", "ALWAYS", "NONE">>, <<133, "CALL", "CALL", "IMM">>,
                              <<149, "RETURN", "RETURN", "NONE">>}
  BY DEF Others, ToolWide
<1>5. ToolTable = Shared \cup ToolNeg \cup ToolMem \cup JmpOpcodes \cup Others
  BY <1>1, <1>2, <1>3, <1>4, ZenonT(40) DEF ToolTable, JmpOpcodes, Shared
<1> QED
  BY <1>5, ToolMemIs, Zenon DEF Core

\* Nothing else has one of these opcodes, and the 32-bit entries are in no other part.
LEMMA Apart ==
  /\ \A e \in Core : e[1] \notin Odd /\ e[2] # "ALU32"
  /\ \A e \in AluOpcodes("ALU32", 4, 12) : e[1] \notin Odd /\ e[2] = "ALU32"
<1>1. \A op \in AluNames \ {"DIV", "NEG"} : AluCode[op] + 15 \notin Odd
  BY DEF AluNames, AluCode, Odd
<1>2. \A op \in AluNames : AluCode[op] + 7 \notin Odd \/ op = "NEG"
  BY DEF AluNames, AluCode, Odd
<1>3. \A op \in AluNames : AluCode[op] + 4 \notin Odd /\ AluCode[op] + 12 \notin Odd
  BY DEF AluNames, AluCode, Odd
<1>4. \A op \in DOMAIN JmpCode : JmpCode[op] + 5 \notin Odd /\ JmpCode[op] + 13 \notin Odd
  BY DEF JmpCode, Odd
<1>5. ASSUME NEW e \in Core PROVE e[1] \notin Odd /\ e[2] # "ALU32"
  <2>1. CASE e \in Shared
    BY <1>1, <1>2, <2>1 DEF Shared
  <2>2. CASE e \in JmpOpcodes
    BY <1>4, <2>2 DEF JmpOpcodes
  <2>3. CASE e \in SameSizes
    BY <2>3 DEF SameSizes, Odd
  <2>4. CASE e \in Others
    BY <2>4 DEF Others, Odd
  <2> QED
    BY <2>1, <2>2, <2>3, <2>4 DEF Core
<1>6. ASSUME NEW e \in AluOpcodes("ALU32", 4, 12) PROVE e[1] \notin Odd /\ e[2] = "ALU32"
  BY <1>3 DEF AluOpcodes
<1> QED
  BY <1>5, <1>6

\* The entries that only one table has, together, and how they differ.
LEMMA Differences ==
  /\ \A e \in OnlyJump \cup JumpSizes : e[1] \in Odd /\ e[2] # "ALU32"
  /\ \A e \in ToolNeg \cup ToolSizes : e[1] \in Odd
  /\ (OnlyJump \cup JumpSizes) \cap (ToolNeg \cup ToolSizes) = {}
  /\ \A code \in Odd \ {135} : \E e \in OnlyJump \cup JumpSizes : e[1] = code
  /\ \E e \in ToolNeg \cup ToolSizes : e[1] = 135
<1>1. /\ \A e \in OnlyJump : e[1] \in {63, 143} /\ e[2] = "ALU64"
      /\ \A e \in ToolNeg : e[1] = 135
      /\ (\E e \in OnlyJump : e[1] = 63) /\ \E e \in OnlyJump : e[1] = 143
      /\ \E e \in ToolNeg : e[1] = 135
  BY DEF OnlyJump, ToolNeg
<1>2. /\ \A e \in JumpSizes : /\ e[1] \in {97, 98, 99, 113, 114, 115} /\ e[2] = "MEM"
                               /\ e[4] = IF e[1] \in {97, 98, 99} THEN "WORD" ELSE "BYTE"
      /\ \A code \in {97, 98, 99, 113, 114, 115} : \E e \in JumpSizes : e[1] = code
  BY DEF JumpSizes
<1>3. \A e \in ToolSizes : /\ e[1] \in {97, 98, 99, 113, 114, 115}
                           /\ e[4] = IF e[1] \in {97, 98, 99} THEN "BYTE" ELSE "WORD"
  BY DEF ToolSizes
<1>4. /\ Odd = {63, 135, 143} \cup {97, 98, 99, 113, 114, 115}
      /\ {63, 135, 143} \cap {97, 98, 99, 113, 114, 115} = {}
  BY DEF Odd
<1>5. (OnlyJump \cup JumpSizes) \cap (ToolNeg \cup ToolSizes) = {}
  BY <1>1, <1>2, <1>3
<1>6. \A code \in Odd \ {135} : \E e \in OnlyJump \cup JumpSizes : e[1] = code
  BY <1>1, <1>2, <1>4
<1> QED
  BY <1>1, <1>2, <1>3, <1>4, <1>5, <1>6

LEMMA AgreementHolds == TablesAgree
<1> DEFINE Low == IF Alu32 THEN AluOpcodes("ALU32", 4, 12) ELSE {}
           J == OnlyJump \cup JumpSizes
           T == ToolNeg \cup ToolSizes
<1>1. \A e \in Low : e[1] \notin Odd /\ e[2] = "ALU32"
  <2>1. CASE Alu32
    BY <2>1, Apart
  <2>2. CASE ~Alu32
    BY <2>2
  <2> QED
    BY <2>1, <2>2
<1>2. JumpTable = Core \cup J \cup Low /\ ToolTable = Core \cup T
  BY JumpTableIs, ToolTableIs, Zenon
<1>3. /\ \A e \in J : e[1] \in Odd /\ e[2] # "ALU32"
      /\ \A e \in T : e[1] \in Odd
      /\ J \cap T = {}
      /\ \A code \in Odd \ {135} : \E e \in J : e[1] = code
      /\ \E e \in T : e[1] = 135
  BY Differences
<1> HIDE DEF Low, J, T
<1>4. CASE opcode \in Odd
  <2>1. Entry(ToolTable, opcode) # Entry(JumpTable, opcode)
    <3>1. CASE opcode = 135
      <4>1. PICK e \in T : e[1] = 135
        BY <1>3
      <4>2. e \in Entry(ToolTable, opcode) /\ e \notin Entry(JumpTable, opcode)
        BY <1>1, <1>2, <1>3, <1>4, <3>1, <4>1, Apart DEF Entry
      <4> QED
        BY <4>2
    <3>2. CASE opcode # 135
      <4>1. PICK e \in J : e[1] = opcode
        BY <1>3, <1>4, <3>2
      <4>2. e \in Entry(JumpTable, opcode) /\ e \notin Entry(ToolTable, opcode)
        BY <1>2, <1>3, <1>4, <4>1, Apart DEF Entry
      <4> QED
        BY <4>2
    <3> QED
      BY <3>1, <3>2
  <2> QED
    BY <1>4, <2>1 DEF TablesAgree, Odd
<1>5. CASE opcode \notin Odd
  <2>1. Entry(ToolTable, opcode) = Entry(Core, opcode)
    BY <1>2, <1>3, <1>5 DEF Entry
  <2>2. Entry(JumpTable, opcode) = Entry(Core, opcode) \cup Entry(Low, opcode)
    BY <1>2, <1>3, <1>5 DEF Entry
  <2>3. \A e \in Entry(Core, opcode) : e[2] # "ALU32"
    BY Apart DEF Entry
  <2>4. \A e \in Entry(Low, opcode) : e[2] = "ALU32"
    BY <1>1 DEF Entry
  <2>5. Entry(ToolTable, opcode) = Entry(JumpTable, opcode) <=> Entry(Low, opcode) = {}
    BY <2>1, <2>2, <2>3, <2>4
  <2>6. (\A e \in Entry(JumpTable, opcode) : e[2] # "ALU32") <=> Entry(Low, opcode) = {}
    BY <2>2, <2>3, <2>4
  <2> QED
    BY <1>5, <2>5, <2>6 DEF TablesAgree, Odd
<1> QED
  BY <1>4, <1>5

\* With or without the 32-bit operations, and for every opcode, what the tool decodes
\* (instructions.py), sizes of loads and stores included, is what the interpreter's
\* jump table executes, exactly where TablesAgree says so.
THEOREM AlwaysAgree == Spec => []TablesAgree
  BY AgreementHolds, PTL
=============================================================================
