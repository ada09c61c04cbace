---------------------------- MODULE Telemetry_proofs ----------------------------
(***************************************************************************)
(* Telemetry and CpuCache, for any callers, queue, pool, MN and data:       *)
(* what a recursive definition computes is proved by induction over the     *)
(* numbers, which rests on the order of Nat being well founded.  First the  *)
(* numbers and their digits, then the widths of the packets, the age of a   *)
(* CPU usage, the pipeline's invariant, the checksum, and the store file.   *)
(***************************************************************************)
EXTENDS Telemetry, FiniteSetTheorems, SequenceTheorems, WellFoundedInduction, TLAPS

(* The largest value of an int; queues stay far below it.                   *)
IntMax == 2147483647

(* A set of numbers that is not empty has a smallest one.                   *)
LEMMA Smallest ==
  ASSUME NEW S, S \subseteq Nat, S # {}
  PROVE  \E n \in S : \A k \in S : n <= k
<1> DEFINE Less == {p \in Nat \X Nat : p[1] < p[2]}
<1>1. IsWellFoundedOn(Less, Nat)
  BY NatLessThanWellFounded DEF OpToRel
<1>2. PICK n \in S : \A k \in S : <<k, n>> \notin Less
  BY <1>1, WFMin, Zenon
<1>3. ASSUME NEW k \in S PROVE n <= k
  <2>1. n \in Nat /\ k \in Nat
    OBVIOUS
  <2>2. <<k, n>>[1] = k /\ <<k, n>>[2] = n /\ <<k, n>> \in Nat \X Nat
    BY <2>1
  <2>3. ~ (k < n)
    BY <1>2, <2>2
  <2>4. QED
    BY <2>1, <2>3
<1>4. QED
  BY <1>3

LEMMA Induction ==
  ASSUME NEW S, 0 \in S, NEW n \in Nat, \A i \in 0..(n - 1) : i \in S => i + 1 \in S
  PROVE  \A i \in 0..n : i \in S
<1> SUFFICES ASSUME NEW k \in 0..n, k \notin S PROVE FALSE
  OBVIOUS
<1> DEFINE Out == {i \in 0..n : i \notin S}
<1>1. Out \subseteq Nat /\ Out # {}
  OBVIOUS
<1>2. PICK m \in Out : \A i \in Out : m <= i
  BY <1>1, Smallest, Zenon
<1>3. m # 0 /\ m - 1 \in 0..(n - 1) /\ m - 1 \notin Out
  BY <1>2
<1>4. QED
  BY <1>3

LEMMA StrongInduction ==
  ASSUME NEW S, NEW n \in Nat,
         \A m \in 0..n : (\A i \in 0..n : i < m => i \in S) => m \in S
  PROVE  \A m \in 0..n : m \in S
<1> SUFFICES ASSUME NEW k \in 0..n, k \notin S PROVE FALSE
  OBVIOUS
<1> DEFINE Out == {i \in 0..n : i \notin S}
<1>1. Out \subseteq Nat /\ Out # {}
  OBVIOUS
<1>2. PICK m \in Out : \A i \in Out : m <= i
  BY <1>1, Smallest, Zenon
<1>3. QED
  BY <1>2

(* A function on 0..n is defined by its value at 0 and by each value from   *)
(* a smaller argument.                                                       *)
Recursive(V, n, leaf, base, next, down) ==
  /\ 0 \in leaf /\ base \in [0..n -> V] /\ next \in [(0..n) \X V -> V]
  /\ down \in [0..n -> 0..n] /\ \A i \in 0..n : i \notin leaf => down[i] < i

Solves(f, n, leaf, base, next, down) ==
  \A i \in 0..n :
    f[i] = IF i \in leaf THEN base[i] ELSE next[<<i, f[down[i]]>>]

LEMMA Recursion ==
  ASSUME NEW V, NEW n \in Nat, NEW leaf, NEW base, NEW next, NEW down,
         Recursive(V, n, leaf, base, next, down)
  PROVE  \E f \in [0..n -> V] : Solves(f, n, leaf, base, next, down)
<1> USE DEF Recursive, Solves
<1> DEFINE Fits(f, k) == \A i \in 0..k :
             f[i] = IF i \in leaf THEN base[i] ELSE next[<<i, f[down[i]]>>]
           S == {k \in 0..n : \E f \in [0..n -> V] : Fits(f, k)}
<1>1. 0 \in S
  <2>1. Fits(base, 0)
    OBVIOUS
  <2>2. QED
    BY <2>1
<1>2. ASSUME NEW k \in 0..(n - 1), k \in S PROVE k + 1 \in S
  <2>1. PICK f \in [0..n -> V] : Fits(f, k)
    BY <1>2
  <2>2. k + 1 \in 0..n
    OBVIOUS
  <2> DEFINE v == IF k + 1 \in leaf THEN base[k + 1] ELSE next[<<k + 1, f[down[k + 1]]>>]
             g == [f EXCEPT ![k + 1] = v]
  <2>3. v \in V /\ g \in [0..n -> V]
    BY <2>2
  <2>4. g[k + 1] = v /\ \A i \in 0..k : g[i] = f[i]
    BY <2>2
  <2>5. k + 1 \notin leaf => down[k + 1] \in 0..k
    BY <2>2
  <2>6. \A i \in 0..k : i \notin leaf => down[i] \in 0..k
    OBVIOUS
  <2> HIDE DEF g
  <2>7. ASSUME NEW i \in 0..(k + 1)
        PROVE  g[i] = IF i \in leaf THEN base[i] ELSE next[<<i, g[down[i]]>>]
    <3>1. CASE i = k + 1
      BY <3>1, <2>4, <2>5
    <3>2. CASE i \in 0..k
      BY <3>2, <2>1, <2>4, <2>6
    <3>3. QED
      BY <3>1, <3>2
  <2>8. QED
    BY <2>2, <2>3, <2>7
<1>3. n \in S
  <2> HIDE DEF S
  <2>1. \A k \in 0..(n - 1) : k \in S => k + 1 \in S
    BY <1>2
  <2>2. \A k \in 0..n : k \in S
    BY <1>1, <2>1, Induction, Zenon
  <2>3. QED
    BY <2>2
<1>4. QED
  BY <1>3

(* The same, from one argument to the next.                                 *)
Iterates(f, n, first, next) ==
  f[0] = first /\ \A i \in 1..n : f[i] = next[<<i, f[i - 1]>>]

LEMMA Iteration ==
  ASSUME NEW V, NEW n \in Nat, NEW first \in V, NEW next \in [(1..n) \X V -> V]
  PROVE  \E f \in [0..n -> V] : Iterates(f, n, first, next)
<1> DEFINE base == [i \in 0..n |-> first]
           any == [p \in (0..n) \X V |-> IF p[1] = 0 THEN first ELSE next[p]]
           down == [i \in 0..n |-> IF i = 0 THEN 0 ELSE i - 1]
           leaf == {0}
<1>1. base \in [0..n -> V] /\ any \in [(0..n) \X V -> V] /\ down \in [0..n -> 0..n]
  <2>1. ASSUME NEW p \in (0..n) \X V, p[1] # 0 PROVE p \in (1..n) \X V
    BY <2>1
  <2>2. QED
    BY <2>1
<1>2. 0 \in leaf /\ \A i \in 0..n : i \notin leaf => down[i] < i
  OBVIOUS
<1>3. /\ \A i \in 0..n : base[i] = first
      /\ \A i \in 1..n, v \in V : any[<<i, v>>] = next[<<i, v>>]
      /\ \A i \in 1..n : down[i] = i - 1
  OBVIOUS
<1> HIDE DEF base, any, down, leaf
<1>4. PICK f \in [0..n -> V] : Solves(f, n, leaf, base, any, down)
  <2>1. Recursive(V, n, leaf, base, any, down)
    BY <1>1, <1>2 DEF Recursive
  <2>2. QED
    BY <2>1, Recursion, Zenon
<1>5. f[0] = first
  <2>1. 0 \in 0..n /\ 0 \in leaf
    BY DEF leaf
  <2>2. QED
    BY <2>1, <1>3, <1>4 DEF Solves
<1>6. ASSUME NEW i \in 1..n PROVE f[i] = next[<<i, f[i - 1]>>]
  <2>1. f[i] = any[<<i, f[i - 1]>>] /\ f[i - 1] \in V
    BY <1>3, <1>4 DEF leaf, Solves
  <2>2. QED
    BY <2>1, <1>3
<1>7. QED
  BY <1>5, <1>6 DEF Iterates

(* Division by the bases in use. *)
LEMMA Division ==
  ASSUME NEW b \in {10, 16}, NEW n \in Nat
  PROVE  /\ n \div b \in 0..n /\ n % b \in 0..(b - 1)
         /\ ~ (n < b) => n \div b < n
<1>1. CASE b = 10
  BY <1>1
<1>2. CASE b = 16
  BY <1>2
<1>3. QED
  BY <1>1, <1>2

(* Digits is the recursive function its definition says.                    *)
DigitTable(f, b, num) ==
  /\ f \in [0..num -> Seq(0..(b - 1))]
  /\ \A n \in 0..num : n < b => f[n] = <<n>>
  /\ \A n \in 0..num : ~ (n < b) => f[n] = Append(f[n \div b], n % b)

LEMMA DigitsOf ==
  ASSUME NEW b \in {10, 16}, NEW num \in Nat
  PROVE  \E f : DigitTable(f, b, num) /\ Digits(b, num) = f[num]
<1>0. b \in Nat /\ 0 < b
  OBVIOUS
<1> DEFINE V == Seq(0..(b - 1))
           Is(f) == f = [n \in 0..num |->
                           IF n < b THEN <<n>> ELSE Append(f[n \div b], n % b)]
           base == [n \in 0..num |-> IF n < b THEN <<n>> ELSE <<>>]
           next == [p \in (0..num) \X V |-> Append(p[2], p[1] % b)]
           down == [n \in 0..num |-> n \div b]
           leaf == 0..(b - 1)
<1>1. base \in [0..num -> V]
  <2>1. ASSUME NEW n \in 0..num PROVE (IF n < b THEN <<n>> ELSE <<>>) \in V
    <3>1. <<>> \in V /\ (n < b => <<n>> \in V)
      OBVIOUS
    <3>2. QED
      BY <3>1
  <2>2. QED
    BY <2>1
<1>2. next \in [(0..num) \X V -> V]
  <2>1. ASSUME NEW p \in (0..num) \X V PROVE Append(p[2], p[1] % b) \in V
    <3>1. p[2] \in V /\ p[1] % b \in 0..(b - 1)
      BY Division
    <3> QED
      BY <3>1, AppendProperties
  <2>2. QED
    BY <2>1
<1>3. down \in [0..num -> 0..num] /\ \A n \in 0..num : n \notin leaf => down[n] < n
  BY Division
<1>4. /\ \A n \in 0..num : n \in leaf => base[n] = <<n>>
      /\ \A n \in 0..num, v \in V : next[<<n, v>>] = Append(v, n % b)
      /\ \A n \in 0..num : down[n] = n \div b
  <2>1. \A n \in 0..num : n \in leaf => base[n] = <<n>>
    OBVIOUS
  <2>2. \A n \in 0..num, v \in V : next[<<n, v>>] = Append(v, n % b)
    <3> HIDE DEF V
    <3>1. QED
      OBVIOUS
  <2>3. \A n \in 0..num : down[n] = n \div b
    OBVIOUS
  <2> HIDE DEF V, base, next, down, leaf
  <2>4. QED
    BY <2>1, <2>2, <2>3
<1> HIDE DEF V, base, next, down, leaf
<1>5. PICK f \in [0..num -> V] : Solves(f, num, leaf, base, next, down)
  <2>1. 0 \in leaf
    BY DEF leaf
  <2>2. Recursive(V, num, leaf, base, next, down)
    BY <2>1, <1>1, <1>2, <1>3 DEF Recursive
  <2>3. QED
    BY <2>2, Recursion, Zenon
<1>6. ASSUME NEW n \in 0..num
      PROVE  f[n] = IF n < b THEN <<n>> ELSE Append(f[n \div b], n % b)
  <2>1. CASE n < b
    <3>1. n \in leaf
      BY <2>1 DEF leaf
    <3>2. f[n] = base[n]
      BY <3>1, <1>5 DEF Solves
    <3>3. base[n] = <<n>>
      BY <3>1, <1>4
    <3>4. QED
      BY <2>1, <3>2, <3>3
  <2>2. CASE ~ (n < b)
    <3>1. n \notin leaf
      BY <2>2 DEF leaf
    <3>2. f[n] = next[<<n, f[down[n]]>>]
      BY <3>1, <1>5 DEF Solves
    <3>3. down[n] = n \div b /\ f[down[n]] \in V
      BY <1>3, <1>4
    <3>4. f[n] = Append(f[n \div b], n % b)
      BY <3>2, <3>3, <1>4
    <3>5. QED
      BY <2>2, <3>4
  <2>3. QED
    BY <2>1, <2>2
<1>7. Is(f)
  BY <1>6
<1> DEFINE dig == CHOOSE g : Is(g)
<1>8. Is(dig) /\ Digits(b, num) = dig[num]
  BY <1>7 DEF Digits
<1> HIDE DEF dig
<1>9. dig \in [0..num -> V]
  <2> DEFINE S == {n \in 0..num : dig[n] \in V}
  <2>1. ASSUME NEW n \in 0..num, \A i \in 0..num : i < n => i \in S
        PROVE  n \in S
    <3>1. CASE n < b
      BY <3>1, <1>8 DEF V
    <3>2. CASE ~ (n < b)
      <4>1. n \div b \in 0..num /\ n \div b < n /\ n % b \in 0..(b - 1)
        BY <3>2, Division
      <4>2. dig[n] = Append(dig[n \div b], n % b) /\ dig[n \div b] \in V
        BY <4>1, <3>2, <2>1, <1>8
      <4>3. dig[n] \in V
        <5> HIDE DEF S
        <5>1. QED
          BY <4>1, <4>2, AppendProperties DEF V
      <4>4. QED
        BY <4>3
    <3>3. QED
      BY <3>1, <3>2
  <2>2. \A n \in 0..num : n \in S
    <3> HIDE DEF S
    <3>1. QED
      BY <2>1, StrongInduction, Zenon
  <2>3. QED
    BY <2>2, <1>8
<1>10. \A n \in 0..num : n < b => dig[n] = <<n>>
  BY <1>8
<1>11. \A n \in 0..num : ~ (n < b) => dig[n] = Append(dig[n \div b], n % b)
  BY <1>0, <1>8
<1>12. DigitTable(dig, b, num)
  BY <1>9, <1>10, <1>11 DEF V, DigitTable
<1>13. QED
  BY <1>8, <1>12

LEMMA DigitsUnfold ==
  ASSUME NEW b \in {10, 16}, NEW n \in Nat
  PROVE  /\ Digits(b, n) \in Seq(Nat)
         /\ n < b => Digits(b, n) = <<n>>
         /\ ~ (n < b) => Digits(b, n) = Append(Digits(b, n \div b), n % b)
<1>0. b \in Nat /\ 0 < b
  OBVIOUS
<1> DEFINE m == n \div b
<1>1. m \in Nat /\ m \in 0..n
  BY Division
<1>2. PICK f : DigitTable(f, b, n) /\ Digits(b, n) = f[n]
  BY DigitsOf
<1> HIDE DEF m
<1>3. PICK g : DigitTable(g, b, m) /\ Digits(b, m) = g[m]
  BY <1>1, DigitsOf
<1> DEFINE S == {i \in 0..m : f[i] = g[i]}
<1>4. ASSUME NEW i \in 0..m, \A j \in 0..m : j < i => j \in S
      PROVE  i \in S
  <2>1. CASE i < b
    <3>1. f[i] = <<i>> /\ g[i] = <<i>>
      BY <2>1, <1>1, <1>2, <1>3 DEF DigitTable
    <3>2. QED
      BY <3>1
  <2>2. CASE ~ (i < b)
    <3>1. i \div b \in 0..m /\ i \div b < i
      BY <2>2, <1>0, <1>1, Division
    <3>2. f[i \div b] = g[i \div b]
      BY <3>1, <1>4
    <3>3. f[i] = Append(f[i \div b], i % b)
      <4>1. i \in 0..n
        BY <1>1
      <4>2. QED
        BY <4>1, <2>2, <1>2 DEF DigitTable
    <3>4. g[i] = Append(g[i \div b], i % b)
      BY <2>2, <1>3 DEF DigitTable
    <3>5. QED
      BY <3>2, <3>3, <3>4
  <2>3. QED
    BY <2>1, <2>2
<1>5. f[m] = g[m]
  <2>1. \A i \in 0..m : i \in S
    <3> HIDE DEF S
    <3>1. QED
      BY <1>1, <1>4, StrongInduction, Zenon
  <2>2. QED
    BY <2>1, <1>1
<1>6. Digits(b, n) \in Seq(Nat)
  <2>1. f[n] \in Seq(0..(b - 1))
    BY <1>2 DEF DigitTable
  <2>2. QED
    BY <1>0, <1>2, <2>1
<1>7. n < b => Digits(b, n) = <<n>>
  BY <1>2 DEF DigitTable
<1>8. ~ (n < b) => Digits(b, n) = Append(Digits(b, m), n % b)
  <2>1. ~ (n < b) => f[n] = Append(f[m], n % b)
    BY <1>2 DEF DigitTable, m
  <2>2. QED
    BY <1>2, <1>3, <1>5, <2>1
<1>9. QED
  BY <1>6, <1>7, <1>8 DEF m

(* What Append does, at the indices that are looked at here.                *)
LEMMA Appended ==
  ASSUME NEW T, NEW s \in Seq(T), NEW x \in T
  PROVE  /\ Len(s) \in Nat
         /\ Append(s, x) \in Seq(T) /\ Len(Append(s, x)) = Len(s) + 1
         /\ Append(s, x)[Len(s) + 1] = x
         /\ \A i \in 1..Len(s) : Append(s, x)[i] = s[i] /\ s[i] \in T
BY AppendProperties, LenProperties

(* A number below b * top has one digit more than one below top.            *)
Narrow(b, top, k) == \A n \in Nat : n < top => Len(Digits(b, n)) \in 1..k

LEMMA DigitsWidth ==
  ASSUME NEW b \in {10, 16}
  PROVE  /\ Narrow(b, b, 1)
         /\ \A top \in Nat, k \in Nat :
              Narrow(b, top, k) => Narrow(b, b * top, k + 1)
<1>0. b \in Nat /\ 0 < b
  OBVIOUS
<1>1. Narrow(b, b, 1)
  <2> SUFFICES ASSUME NEW n \in Nat, n < b PROVE Len(Digits(b, n)) = 1
    BY DEF Narrow
  <2>1. Digits(b, n) = <<n>>
    BY DigitsUnfold
  <2>2. QED
    BY <2>1
<1>2. ASSUME NEW top \in Nat, NEW k \in Nat, Narrow(b, top, k),
             NEW n \in Nat, n < b * top
      PROVE  Len(Digits(b, n)) \in 1..(k + 1)
  <2>1. CASE n < b
    <3>1. Digits(b, n) = <<n>>
      BY <2>1, DigitsUnfold
    <3>2. QED
      BY <3>1
  <2>2. CASE ~ (n < b)
    <3> DEFINE m == n \div b
    <3>1. m \in Nat /\ m < top /\ n % b \in Nat
      <4>1. CASE b = 10
        BY <4>1, <1>2
      <4>2. CASE b = 16
        BY <4>2, <1>2
      <4>3. QED
        BY <4>1, <4>2
    <3>2. Digits(b, n) = Append(Digits(b, m), n % b)
      BY <2>2, DigitsUnfold
    <3> HIDE DEF m
    <3>3. Len(Digits(b, m)) \in 1..k
      BY <3>1, <1>2 DEF Narrow
    <3>4. Digits(b, m) \in Seq(Nat)
      BY <3>1, DigitsUnfold
    <3>5. Len(Digits(b, n)) = Len(Digits(b, m)) + 1
      BY <3>1, <3>2, <3>4, Appended
    <3>6. QED
      BY <3>3, <3>5
  <2>3. QED
    BY <2>1, <2>2
<1>3. QED
  BY <1>1, <1>2 DEF Narrow

(* The widths the packets need: a number below 16^4 has at most four         *)
(* hexadecimal digits, an int at most ten decimal ones.                     *)
LEMMA HexWidth == Narrow(16, 16 * 4096, 4)
<1>0. 16 \in {10, 16}
  OBVIOUS
<1>1. Narrow(16, 16 * 16, 1 + 1)
  BY <1>0, DigitsWidth
<1>2. Narrow(16, 16 * 256, 2 + 1)
  BY <1>0, <1>1, DigitsWidth, SMT
<1>3. QED
  BY <1>0, <1>2, DigitsWidth, SMT

LEMMA DecimalWidth ==
  ASSUME NEW n \in Nat
  PROVE  /\ n < 10000 => Len(Decimal(n)) \in 1..4
         /\ n <= IntMax => Len(Decimal(n)) \in 1..10
<1>0. 10 \in {10, 16}
  OBVIOUS
<1>1. Narrow(10, 10 * 10, 1 + 1)
  BY <1>0, DigitsWidth, SMT
<1>2. Narrow(10, 10 * 100, 2 + 1)
  BY <1>0, <1>1, DigitsWidth, SMT
<1>3. Narrow(10, 10 * 1000, 3 + 1)
  BY <1>0, <1>2, DigitsWidth, SMT
<1>4. Narrow(10, 10 * 10000, 4 + 1)
  BY <1>0, <1>3, DigitsWidth, SMT
<1>5. Narrow(10, 10 * 100000, 5 + 1)
  BY <1>0, <1>4, DigitsWidth, SMT
<1>6. Narrow(10, 10 * 1000000, 6 + 1)
  BY <1>0, <1>5, DigitsWidth, SMT
<1>7. Narrow(10, 10 * 10000000, 7 + 1)
  BY <1>0, <1>6, DigitsWidth, SMT
<1>8. Narrow(10, 10 * 100000000, 8 + 1)
  BY <1>0, <1>7, DigitsWidth, SMT
<1>9. Narrow(10, 10 * 1000000000, 9 + 1)
  BY <1>0, <1>8, DigitsWidth, SMT
<1>10. n < 10000 => Len(Decimal(n)) \in 1..4
  BY <1>3, SMT DEF Narrow, Decimal
<1>11. n <= IntMax => Len(Decimal(n)) \in 1..10
  BY <1>9, SMT DEF Narrow, Decimal, IntMax
<1>12. QED
  BY <1>10, <1>11, SMT

(* Zeros in front make four digits of less.                                 *)
LEMMA FourDigitsOf ==
  ASSUME NEW d \in Seq(Nat), Len(d) \in 1..4
  PROVE  /\ FourDigits(d) = d \/ \E k \in Nat : FourDigits(d) = Zeros(k) \o d
         /\ Len(FourDigits(d)) = 4
<1>1. PICK n \in Nat : n = Len(d)
  BY LenProperties
<1>2. CASE n < 4
  <2>1. 4 - n \in Nat /\ FourDigits(d) = Zeros(4 - n) \o d
    BY <1>1, <1>2 DEF FourDigits
  <2>2. Zeros(4 - n) \in Seq(Nat) /\ Len(Zeros(4 - n)) = 4 - n
    BY <2>1 DEF Zeros
  <2>3. Len(Zeros(4 - n) \o d) = (4 - n) + n
    BY <1>1, <2>2, ConcatProperties
  <2>4. Len(FourDigits(d)) = 4
    BY <1>1, <2>1, <2>3
  <2>5. \E k \in Nat : FourDigits(d) = Zeros(k) \o d
    BY <2>1
  <2>6. QED
    BY <2>4, <2>5
<1>3. CASE n = 4
  <2>1. FourDigits(d) = d
    BY <1>1, <1>3 DEF FourDigits
  <2>2. QED
    BY <1>1, <1>3, <2>1
<1>4. n < 4 \/ n = 4
  BY <1>1
<1>5. QED
  BY <1>2, <1>3, <1>4

-----------------------------------------------------------------------------
(* The number that digits stand for. *)
ValueTable(f, d) ==
  f[0] = 0 /\ \A i \in 1..Len(d) : f[i] \in Nat /\ f[i] = 16 * f[i - 1] + d[i]

LEMMA ValueOf ==
  ASSUME NEW d \in Seq(Nat)
  PROVE  \E f : ValueTable(f, d) /\ Value(d) = f[Len(d)]
<1> DEFINE n == Len(d)
           Is(f) == f = [i \in 0..Len(d) |-> IF i = 0 THEN 0 ELSE 16 * f[i - 1] + d[i]]
           next == [p \in (1..n) \X Nat |-> 16 * p[2] + d[p[1]]]
<1>0. n \in Nat /\ \A i \in 1..n : d[i] \in Nat
  BY LenProperties, ElementOfSeq
<1>1. next \in [(1..n) \X Nat -> Nat]
  BY <1>0
<1>2. \A i \in 1..n, v \in Nat : next[<<i, v>>] = 16 * v + d[i]
  BY <1>0
<1> HIDE DEF next
<1>3. PICK f \in [0..n -> Nat] : Iterates(f, n, 0, next)
  <2> HIDE DEF n
  <2>1. QED
    BY <1>0, <1>1, Iteration
<1>4. f[0] = 0 /\ \A i \in 1..n : f[i] = 16 * f[i - 1] + d[i]
  <2> HIDE DEF n
  <2>1. \A i \in 1..n : f[i - 1] \in Nat
    BY <1>0
  <2>2. QED
    BY <1>2, <1>3, <2>1 DEF Iterates
<1>5. Is(f)
  <2>1. \A i \in 0..n : f[i] = IF i = 0 THEN 0 ELSE 16 * f[i - 1] + d[i]
    BY <1>0, <1>4
  <2>2. QED
    BY <2>1
<1> DEFINE upTo == CHOOSE g : Is(g)
<1>6. Is(upTo) /\ Value(d) = upTo[n]
  BY <1>5 DEF Value
<1> HIDE DEF upTo
<1>7. upTo[0] = 0 /\ \A i \in 1..n : upTo[i] = 16 * upTo[i - 1] + d[i]
  <2>1. \A i \in 0..n : upTo[i] = IF i = 0 THEN 0 ELSE 16 * upTo[i - 1] + d[i]
    BY <1>6
  <2>2. 0 \in 0..n /\ \A i \in 1..n : i \in 0..n /\ i # 0
    BY <1>0
  <2> HIDE DEF n
  <2>3. QED
    BY <2>1, <2>2
<1> DEFINE S == {i \in 0..n : upTo[i] \in Nat}
<1>8. ASSUME NEW i \in 0..(n - 1), i \in S PROVE i + 1 \in S
  <2>1. i + 1 \in 1..n /\ i + 1 \in 0..n /\ (i + 1) - 1 = i
    BY <1>0
  <2>2. upTo[i + 1] = 16 * upTo[i] + d[i + 1] /\ d[i + 1] \in Nat /\ upTo[i] \in Nat
    BY <1>0, <1>7, <1>8, <2>1
  <2>3. QED
    BY <2>1, <2>2
<1>9. \A i \in 0..n : i \in S
  <2>1. 0 \in S
    BY <1>0, <1>7
  <2> HIDE DEF S, n
  <2>2. QED
    BY <1>0, <1>8, <2>1, Induction, Zenon
<1>10. ValueTable(upTo, d)
  BY <1>0, <1>7, <1>9 DEF ValueTable
<1>11. QED
  BY <1>6, <1>10

LEMMA ValueAppend ==
  ASSUME NEW d \in Seq(Nat), NEW x \in Nat
  PROVE  Value(d) \in Nat /\ Value(Append(d, x)) = 16 * Value(d) + x
<1> DEFINE n == Len(d)
           e == Append(d, x)
<1>0. n \in Nat /\ e \in Seq(Nat) /\ Len(e) = n + 1 /\ e[n + 1] = x
      /\ \A i \in 1..n : e[i] = d[i] /\ d[i] \in Nat
  BY Appended
<1> HIDE DEF e
<1>1. PICK f : ValueTable(f, d) /\ Value(d) = f[n]
  BY ValueOf
<1>2. PICK g : ValueTable(g, e) /\ Value(e) = g[n + 1]
  BY <1>0, ValueOf
<1> HIDE DEF n
<1>3. f[0] = 0 /\ \A i \in 1..n : f[i] \in Nat /\ f[i] = 16 * f[i - 1] + d[i]
  BY <1>1 DEF ValueTable, n
<1>4. g[0] = 0 /\ \A i \in 1..(n + 1) : g[i] \in Nat /\ g[i] = 16 * g[i - 1] + e[i]
  BY <1>0, <1>2 DEF ValueTable
<1> DEFINE S == {i \in 0..n : g[i] = f[i]}
<1>5. ASSUME NEW i \in 0..(n - 1), i \in S PROVE i + 1 \in S
  <2>1. i + 1 \in 1..n /\ i + 1 \in 1..(n + 1) /\ i + 1 \in 0..n /\ (i + 1) - 1 = i
    BY <1>0
  <2>2. f[i + 1] = 16 * f[i] + d[i + 1] /\ g[i + 1] = 16 * g[i] + e[i + 1]
    BY <2>1, <1>3, <1>4
  <2>3. e[i + 1] = d[i + 1] /\ f[i] = g[i]
    BY <2>1, <1>0, <1>5
  <2>4. QED
    BY <2>1, <2>2, <2>3
<1>6. 0 \in S
  BY <1>0, <1>3, <1>4
<1>7. \A i \in 0..n : i \in S
  <2> HIDE DEF S
  <2>1. QED
    BY <1>0, <1>5, <1>6, Induction, Zenon
<1>8. f[n] = g[n] /\ f[n] \in Nat
  <2>1. n = 0 \/ n \in 1..n
    BY <1>0
  <2>2. QED
    BY <1>0, <1>3, <1>7, <2>1
<1>9. g[n + 1] = 16 * g[n] + x
  BY <1>0, <1>4
<1>10. QED
  BY <1>1, <1>2, <1>8, <1>9 DEF e

LEMMA ValueZeros ==
  ASSUME NEW d \in Seq(Nat), NEW k \in Nat
  PROVE  Value(Zeros(k) \o d) = Value(d)
<1> DEFINE n == Len(d)
           z == Zeros(k)
           e == z \o d
<1>0. n \in Nat /\ \A i \in 1..n : d[i] \in Nat
  BY ElementOfSeq, LenProperties
<1>1. z \in Seq(Nat) /\ Len(z) = k /\ \A i \in 1..k : z[i] = 0
  BY DEF Zeros
<1> HIDE DEF z
<1>2. /\ e \in Seq(Nat) /\ Len(e) = k + n
      /\ \A i \in 1..(k + n) : e[i] = IF i <= k THEN z[i] ELSE d[i - k]
  BY <1>1, ConcatProperties
<1>3. PICK f : ValueTable(f, d) /\ Value(d) = f[n]
  BY ValueOf
<1> HIDE DEF e
<1>4. PICK g : ValueTable(g, e) /\ Value(e) = g[k + n]
  BY <1>2, ValueOf
<1> HIDE DEF n
<1>5. f[0] = 0 /\ \A i \in 1..n : f[i] \in Nat /\ f[i] = 16 * f[i - 1] + d[i]
  BY <1>3 DEF ValueTable, n
<1>6. g[0] = 0 /\ \A i \in 1..(k + n) : g[i] \in Nat /\ g[i] = 16 * g[i - 1] + e[i]
  BY <1>2, <1>4 DEF ValueTable
<1> DEFINE Z == {i \in 0..k : g[i] = 0}
<1>7. ASSUME NEW i \in 0..(k - 1), i \in Z PROVE i + 1 \in Z
  <2>1. i + 1 \in 1..k /\ i + 1 \in 1..(k + n) /\ i + 1 \in 0..k /\ (i + 1) - 1 = i /\ i + 1 <= k
    BY <1>0
  <2>2. g[i + 1] = 16 * g[i] + e[i + 1] /\ g[i] = 0
    BY <2>1, <1>6, <1>7
  <2>3. e[i + 1] = 0
    BY <2>1, <1>1, <1>2
  <2>4. QED
    BY <2>1, <2>2, <2>3
<1>8. \A i \in 0..k : i \in Z
  <2>1. 0 \in Z
    BY <1>6
  <2> HIDE DEF Z
  <2>2. QED
    BY <2>1, <1>7, Induction, Zenon
<1> DEFINE S == {i \in 0..n : g[k + i] = f[i]}
<1>9. ASSUME NEW i \in 0..(n - 1), i \in S PROVE i + 1 \in S
  <2>1. i + 1 \in 1..n /\ k + (i + 1) \in 1..(k + n) /\ i + 1 \in 0..n /\ (i + 1) - 1 = i
        /\ ~ (k + (i + 1) <= k) /\ (k + (i + 1)) - k = i + 1 /\ (k + (i + 1)) - 1 = k + i
    BY <1>0
  <2>2. f[i + 1] = 16 * f[i] + d[i + 1] /\ g[k + (i + 1)] = 16 * g[k + i] + e[k + (i + 1)]
    BY <2>1, <1>5, <1>6
  <2>3. e[k + (i + 1)] = d[i + 1] /\ g[k + i] = f[i]
    BY <2>1, <1>2, <1>9
  <2>4. QED
    BY <2>1, <2>2, <2>3
<1>10. 0 \in S
  <2>1. k + 0 = k /\ k \in 0..k /\ 0 \in 0..n
    BY <1>0
  <2>2. QED
    BY <2>1, <1>5, <1>8
<1>11. \A i \in 0..n : i \in S
  <2> HIDE DEF S
  <2>1. QED
    BY <1>0, <1>9, <1>10, Induction, Zenon
<1>12. g[k + n] = f[n]
  BY <1>0, <1>11
<1>13. QED
  BY <1>3, <1>4, <1>12 DEF e, z

(* The hexadecimal digits of a number stand for it. *)
LEMMA ValueOfHex == ASSUME NEW n \in Nat PROVE Value(change(n)) = n
<1>0. 16 \in {10, 16}
  OBVIOUS
<1> DEFINE S == {i \in 0..n : Value(Digits(16, i)) = i}
<1>1. ASSUME NEW i \in 0..n, \A j \in 0..n : j < i => j \in S
      PROVE  i \in S
  <2>1. CASE i < 16
    <3>1. Digits(16, i) = Append(<<>>, i)
      <4>1. Append(<<>>, i) = <<i>>
        OBVIOUS
      <4>2. QED
        BY <1>0, <2>1, <4>1, DigitsUnfold
    <3>2. Value(<<>>) = 0
      <4>1. <<>> \in Seq(Nat) /\ Len(<<>>) = 0
        OBVIOUS
      <4>2. PICK f : ValueTable(f, <<>>) /\ Value(<<>>) = f[0]
        BY <4>1, ValueOf
      <4>3. QED
        BY <4>2 DEF ValueTable
    <3>3. Value(Append(<<>>, i)) = 16 * 0 + i
      <4>1. PICK e \in Seq(Nat) : e = <<>>
        BY EmptySeq, Zenon
      <4>2. i \in Nat /\ Value(e) = 0
        BY <3>2, <4>1
      <4>3. Value(Append(e, i)) = 16 * Value(e) + i
        BY <4>2, ValueAppend
      <4>4. QED
        BY <4>1, <4>2, <4>3
    <3>4. QED
      BY <3>1, <3>3
  <2>2. CASE ~ (i < 16)
    <3> DEFINE m == i \div 16
               r == i % 16
    <3>1. m \in 0..n /\ m < i /\ r \in Nat /\ i = (16 * m) + r
      <4>1. i \in Nat
        OBVIOUS
      <4>2. m \in 0..i /\ r \in Nat /\ m < i
        BY <4>1, <2>2
      <4>3. i = (16 * m) + r
        BY <4>1
      <4>4. QED
        BY <4>2, <4>3
    <3>2. Digits(16, i) = Append(Digits(16, m), r)
      <4>1. PICK b \in {10, 16} : b = 16
        BY <1>0
      <4>2. i \in Nat
        OBVIOUS
      <4>3. ~ (i < b)
        BY <4>1, <2>2
      <4>4. Digits(b, i) = Append(Digits(b, i \div b), i % b)
        BY <4>2, <4>3, DigitsUnfold, Zenon
      <4>5. QED
        BY <4>1, <4>4
    <3> HIDE DEF m, r
    <3>3. Digits(16, m) \in Seq(Nat) /\ Value(Digits(16, m)) = m
      BY <1>0, <1>1, <3>1, DigitsUnfold
    <3>4. QED
      BY <3>1, <3>2, <3>3, ValueAppend
  <2>3. QED
    BY <2>1, <2>2
<1>2. \A i \in 0..n : i \in S
  <2> HIDE DEF S
  <2>1. QED
    BY <1>1, StrongInduction, Zenon
<1>3. QED
  BY <1>2 DEF change

(* The length field has four digits, and they are those of the length.      *)
LEMMA LenFieldOf ==
  ASSUME NEW length \in Nat, length < 16 * 4096
  PROVE  Len(LenField(length)) = 4 /\ Value(LenField(length)) = length
<1> DEFINE d == change(length)
<1>1. d \in Seq(Nat) /\ Value(d) = length
  <2>1. 16 \in {10, 16}
    OBVIOUS
  <2>2. QED
    BY <2>1, DigitsUnfold, ValueOfHex DEF change
<1>2. Len(d) \in 1..4
  BY HexWidth, SMT DEF Narrow, change
<1> HIDE DEF d
<1>3. Len(FourDigits(d)) = 4
  BY <1>1, <1>2, FourDigitsOf
<1>4. Value(FourDigits(d)) = Value(d)
  <2>1. CASE FourDigits(d) = d
    BY <2>1
  <2>2. CASE \E k \in Nat : FourDigits(d) = Zeros(k) \o d
    BY <2>2, <1>1, ValueZeros
  <2>3. QED
    BY <1>1, <1>2, <2>1, <2>2, FourDigitsOf
<1>5. QED
  BY <1>1, <1>3, <1>4 DEF LenField, d

(* A register of 16 bits holds a number below 16^4. *)
LEMMA NumberOf ==
  ASSUME NEW w
  PROVE  Number(w) \in Nat /\ Number(w) < 16 * 4096
<1> DEFINE bit(i) == IF 16 - i \in w THEN 1 ELSE 0
           Is(f) == f = [n \in 0..16 |-> IF n = 0 THEN 0 ELSE 2 * f[n - 1] + bit(n)]
           next == [p \in (1..16) \X Nat |-> 2 * p[2] + bit(p[1])]
<1>0. \A i \in 1..16 : bit(i) = 0 \/ bit(i) = 1
  OBVIOUS
<1>1. next \in [(1..16) \X Nat -> Nat]
  OBVIOUS
<1>2. \A i \in 1..16, v \in Nat : next[<<i, v>>] = 2 * v + bit(i)
  OBVIOUS
<1> HIDE DEF next
<1>3. PICK f \in [0..16 -> Nat] : Iterates(f, 16, 0, next)
  BY <1>1, Iteration
<1>4. f[0] = 0 /\ \A i \in 1..16 : f[i] = 2 * f[i - 1] + bit(i)
  <2>1. \A i \in 1..16 : f[i - 1] \in Nat
    OBVIOUS
  <2> HIDE DEF bit
  <2>2. QED
    BY <1>2, <1>3, <2>1 DEF Iterates
<1>5. Is(f)
  <2> HIDE DEF bit
  <2>1. \A i \in 0..16 : f[i] = IF i = 0 THEN 0 ELSE 2 * f[i - 1] + bit(i)
    BY <1>4
  <2>2. QED
    BY <2>1
<1> DEFINE upTo == CHOOSE g : Is(g)
<1>6. Is(upTo) /\ Number(w) = upTo[16]
  BY <1>5 DEF Number
<1> HIDE DEF upTo
<1>7. upTo[0] = 0 /\ \A i \in 1..16 : upTo[i] = 2 * upTo[i - 1] + bit(i)
  <2> HIDE DEF bit
  <2>1. \A i \in 0..16 : upTo[i] = IF i = 0 THEN 0 ELSE 2 * upTo[i - 1] + bit(i)
    BY <1>6
  <2>2. 0 \in 0..16 /\ \A i \in 1..16 : i \in 0..16 /\ i # 0
    OBVIOUS
  <2>3. QED
    BY <2>1, <2>2
<1> HIDE DEF bit, Is
<1> DEFINE Below(i, top) == upTo[i] \in Nat /\ upTo[i] < top
<1>8. ASSUME NEW i \in 1..16, NEW top \in Nat, Below(i - 1, top) PROVE Below(i, 2 * top)
  <2>1. upTo[i] = 2 * upTo[i - 1] + bit(i) /\ (bit(i) = 0 \/ bit(i) = 1)
    BY <1>0, <1>7
  <2>2. QED
    BY <1>8, <2>1
<1>9. Below(0, 1)
  BY <1>7
<1> HIDE DEF Below
<1>10. Below(1, 2) /\ Below(2, 4) /\ Below(3, 8) /\ Below(4, 16)
  <2>1. Below(1, 2 * 1)
    BY <1>8, <1>9
  <2>2. Below(2, 2 * 2)
    BY <1>8, <2>1
  <2>3. Below(3, 2 * 4)
    BY <1>8, <2>2
  <2>4. Below(4, 2 * 8)
    BY <1>8, <2>3
  <2>5. QED
    BY <2>1, <2>2, <2>3, <2>4
<1>11. Below(8, 256)
  <2>1. Below(5, 2 * 16)
    BY <1>8, <1>10
  <2>2. Below(6, 2 * 32)
    BY <1>8, <2>1
  <2>3. Below(7, 2 * 64)
    BY <1>8, <2>2
  <2>4. Below(8, 2 * 128)
    BY <1>8, <2>3
  <2>5. QED
    BY <2>4
<1>12. Below(12, 4096)
  <2>1. Below(9, 2 * 256)
    BY <1>8, <1>11, SMT
  <2>2. Below(10, 2 * 512)
    BY <1>8, <2>1, SMT
  <2>3. Below(11, 2 * 1024)
    BY <1>8, <2>2, SMT
  <2>4. Below(12, 2 * 2048)
    BY <1>8, <2>3, SMT
  <2>5. QED
    BY <2>4, SMT
<1>13. Below(16, 16 * 4096)
  <2>1. Below(13, 2 * 4096)
    BY <1>8, <1>12, SMT
  <2>2. Below(14, 2 * 8192)
    BY <1>8, <2>1, SMT
  <2>3. Below(15, 2 * 16384)
    BY <1>8, <2>2, SMT
  <2>4. Below(16, 2 * 32768)
    BY <1>8, <2>3, SMT
  <2>5. QED
    BY <2>4, SMT
<1>14. QED
  BY <1>6, <1>13, SMT DEF Below

LEMMA Floats10 == Floats = 10
<1> DEFINE I == {1, 2, 3, 4, 5, 6, 7, 8, 12, 14}
<1>1. {i \in DOMAIN ShipSensors : IsFloat(ShipSensors[i])} = I
  BY DEF ShipSensors, IsFloat
<1>2. IsFiniteSet(1..8) /\ Cardinality(1..8) = 8
  <2>1. 1 \in Int /\ 8 \in Int /\ ~ (1 > 8) /\ 8 - 1 + 1 = 8
    OBVIOUS
  <2>2. IsFiniteSet(1..8) /\ Cardinality(1..8) = IF 1 > 8 THEN 0 ELSE 8 - 1 + 1
    BY <2>1, FS_Interval
  <2>3. QED
    BY <2>1, <2>2
<1> DEFINE K == 1..8
           J == K \union {12}
<1>3. IsFiniteSet(J) /\ Cardinality(J) = 9
  <2>1. IsFiniteSet(K) /\ Cardinality(K) = 8 /\ 12 \notin K
    BY <1>2
  <2> HIDE DEF K
  <2>2. QED
    BY <2>1, FS_AddElement
<1>4. 14 \notin J
  OBVIOUS
<1>5. I = J \union {14}
  OBVIOUS
<1> HIDE DEF J
<1>6. Cardinality(J \union {14}) = 10
  BY <1>3, <1>4, FS_AddElement
<1>7. QED
  BY <1>1, <1>5, <1>6 DEF Floats

(* The data segment of a round, at its longest: 99 characters of MN, a       *)
(* position after a fix, every float at its widest; and the packet it is in. *)
DataFits(width) == width \in 0..1029
PacketFits(width) == width \in 0..1039

LEMMA DataWidthOf ==
  ASSUME NEW mn \in 0..99, NEW location \in {11, 20}, NEW w \in ValueWidths
  PROVE  DataFits(DataWidth(mn, location, w))
<1>1. Len(ShipSensors) = 23
  BY DEF ShipSensors
<1>2. CodesWidth = 272
  BY <1>1 DEF CodesWidth
<1>3. DataWidth(mn, location, w) =
        (3 + 17 + 4 + 2 + 22 + mn + 6 + 1 + 10 + location + 1 + 2) + 272 + 10 * w + 13 * 10
  BY <1>1, <1>2, Floats10 DEF DataWidth
<1>4. QED
  BY <1>3 DEF ValueWidths, DataFits

LEMMA Hj212WidthOf ==
  ASSUME NEW data, DataFits(data), NEW crc
  PROVE  PacketFits(Hj212Width(data, crc))
<1>0. data \in 0..1029
  BY DEF DataFits
<1>1. Len(EnsureLen4(data)) = 4
  <2>1. data \in Nat /\ data < 10000 /\ ~ (data < 0) /\ 10 \in {10, 16}
    BY <1>0
  <2>2. Len(Decimal(data)) \in 1..4 /\ Decimal(data) \in Seq(Nat)
    BY <2>1, DecimalWidth, DigitsUnfold DEF Decimal
  <2>3. EnsureLen4(data) = FourDigits(Decimal(data))
    BY <2>1 DEF EnsureLen4
  <2>4. QED
    BY <2>2, <2>3, FourDigitsOf
<1>2. Len(FourDigits(change(Number(crc)))) = 4
  BY NumberOf, LenFieldOf DEF LenField
<1>3. QED
  BY <1>0, <1>1, <1>2, SMT DEF Hj212Width, PacketFits

(* No round is wider than this, the 0 behind it included.                    *)
LongestRound == 1102

Limits == BufSize >= LongestRound /\ MaxQueue <= IntMax

FrameEnds(f) ==
  Len(f.length) = 4 /\ f.rest = Value(f.length) + Excess[f.cmd]

LEMMA ExcessOf ==
  Excess["06"] = 3 /\ Excess["EF"] = -6 /\ Excess["01"] = -14 /\ Excess["02"] = 1
BY DEF Excess

(* Four hexadecimal digits hold the length. *)
Short(n) == n \in Nat /\ n < 16 * 4096

LEMMA FrameOf ==
  ASSUME NEW cmd, NEW n, Short(n), NEW rest
  PROVE  /\ Frame(cmd, n, rest).cmd = cmd /\ Frame(cmd, n, rest).rest = rest
         /\ Len(Frame(cmd, n, rest).length) = 4 /\ Value(Frame(cmd, n, rest).length) = n
<1>2. Len(LenField(n)) = 4 /\ Value(LenField(n)) = n
  BY LenFieldOf DEF Short
<1>3. Frame(cmd, n, rest).cmd = cmd /\ Frame(cmd, n, rest).rest = rest
      /\ Frame(cmd, n, rest).length = LenField(n)
  BY DEF Frame
<1>4. QED
  BY <1>2, <1>3, Zenon

LEMMA Packet06Ends ==
  ASSUME NEW data, PacketFits(data)
  PROVE  /\ FrameEnds(Packet06(data))
         /\ Size(Packet06(data)) \in Nat /\ Size(Packet06(data)) < LongestRound
<1> DEFINE n == data + 43
           rest == IsrMac + Mac + PortInfo + CpuMem + CommStatus + data + 1
           f == Frame("06", n, rest)
<1>1. Packet06(data) = f
  BY DEF Packet06
<1>2. Short(n) /\ n \in Nat /\ rest = n + 3 /\ rest \in Nat /\ rest <= 1085
  BY SMT DEF Short, PacketFits, IsrMac, Mac, PortInfo, CpuMem, CommStatus
<1> HIDE DEF n, rest
<1>3. f.cmd = "06" /\ f.rest = rest /\ Len(f.length) = 4 /\ Value(f.length) = n
  BY <1>2, FrameOf, SMT
<1> HIDE DEF f
<1>4. FrameEnds(f)
  BY <1>2, <1>3, ExcessOf DEF FrameEnds
<1>5. Size(f) \in Nat /\ Size(f) < LongestRound
  BY <1>2, <1>3, SMT DEF Size, LongestRound
<1>6. QED
  BY <1>1, <1>4, <1>5

LEMMA HeartbeatEnds ==
  ASSUME NEW depth \in Nat, depth <= IntMax
  PROVE  FrameEnds(Heartbeat(depth))
<1> DEFINE d == Decimal(depth)
           w == Len(FourDigits(d))
           data == CpuMem + CommStatus + w + 1
           n == data + 7
           rest == data + 1
           f == Frame("EF", n, rest)
<1>1. w \in 4..10
  <2>1. Len(d) \in 1..10 /\ d \in Seq(Nat)
    <3>1. PICK b \in {10, 16} : b = 10
      OBVIOUS
    <3>2. Digits(b, depth) \in Seq(Nat)
      BY DigitsUnfold, Zenon
    <3>3. Len(Decimal(depth)) \in 1..10
      BY DecimalWidth
    <3>4. QED
      BY <3>1, <3>2, <3>3 DEF Decimal
  <2> HIDE DEF d
  <2>2. CASE Len(d) < 4
    <3>1. PICK k \in Nat : k = Len(d)
      BY <2>1, LenProperties
    <3>2. k \in 1..4
      <4>1. k \in 1..10 /\ k < 4
        BY <2>1, <2>2, <3>1, Zenon
      <4>2. QED
        BY <4>1
    <3>3. d \in Seq(Nat) /\ Len(d) \in 1..4
      BY <2>1, <3>1, <3>2
    <3>4. Len(FourDigits(d)) = 4
      BY <3>3, FourDigitsOf
    <3>5. QED
      BY <3>4
  <2>3. CASE ~ (Len(d) < 4)
    <3>1. FourDigits(d) = d
      BY <2>3 DEF FourDigits
    <3>2. PICK k \in Nat : k = Len(d)
      BY <2>1, LenProperties
    <3>3. k \in 1..10 /\ ~ (k < 4)
      BY <2>1, <2>3, <3>2
    <3>4. k \in 4..10
      BY <3>3
    <3>5. QED
      BY <3>1, <3>2, <3>4, Zenon
  <2>4. QED
    BY <2>2, <2>3
<1>2. Heartbeat(depth) = f
  BY DEF Heartbeat
<1> HIDE DEF w
<1>3. data \in Nat /\ Short(n) /\ n \in Nat /\ rest = n - 6
  BY <1>1, SMT DEF Short, CpuMem, CommStatus
<1> HIDE DEF n, rest
<1>4. f.cmd = "EF" /\ f.rest = rest /\ Len(f.length) = 4 /\ Value(f.length) = n
  BY <1>3, FrameOf, SMT
<1> HIDE DEF f
<1>5. FrameEnds(f)
  BY <1>3, <1>4, ExcessOf DEF FrameEnds
<1>6. QED
  BY <1>2, <1>5

LEMMA Regist01Ends ==
  ASSUME NEW location \in Location
  PROVE  FrameEnds(Regist01(location))
<1> DEFINE data == Mac + CommStatus + PortInfo + location + CpuMem + 1
           n == data + 14
           f == Frame("01", n, data)
<1>1. Regist01(location) = f
  BY DEF Regist01
<1>2. data \in Nat /\ Short(n) /\ n \in Nat /\ data = n - 14
  BY SMT DEF Short, Location, Mac, CommStatus, PortInfo, CpuMem
<1> HIDE DEF data, n
<1>3. f.cmd = "01" /\ f.rest = data /\ Len(f.length) = 4 /\ Value(f.length) = n
  BY <1>2, FrameOf, SMT
<1> HIDE DEF f
<1>4. FrameEnds(f)
  BY <1>2, <1>3, ExcessOf DEF FrameEnds
<1>5. QED
  BY <1>1, <1>4

LEMMA Confirm02Ends == FrameEnds(Confirm02)
<1> DEFINE d == <<0, 0, 1, 2>>
<1>1. d \in Seq(Nat) /\ Len(d) = 4 /\ d[1] = 0 /\ d[2] = 0 /\ d[3] = 1 /\ d[4] = 2
  OBVIOUS
<1>2. Confirm02.length = d /\ Confirm02.rest = 19 /\ Confirm02.cmd = "02"
  BY DEF Confirm02, Mac
<1> HIDE DEF d
<1>3. PICK f : ValueTable(f, d) /\ Value(d) = f[4]
  BY <1>1, ValueOf
<1>4. f[0] = 0 /\ f[1] = 16 * f[0] + 0 /\ f[2] = 16 * f[1] + 0
      /\ f[3] = 16 * f[2] + 1 /\ f[4] = 16 * f[3] + 2
  <2>1. f[0] = 0 /\ \A i \in 1..4 : f[i] = 16 * f[i - 1] + d[i]
    BY <1>1, <1>3 DEF ValueTable
  <2>2. QED
    BY <1>1, <2>1
<1>5. Value(d) = 18
  BY <1>3, <1>4
<1>6. QED
  BY <1>1, <1>2, <1>5, ExcessOf DEF FrameEnds

-----------------------------------------------------------------------------
(* The age of a CPU usage, for any callers, age limit and clock steps.       *)
(* Nobody samples for longer than Slow, so what is stored was sampled at     *)
(* most that long before, on a clock that was at most MaxError ahead.      *)
Sampling ==
  \A t \in Thread : call[t] = "store" =>
    cpu_stat[t] \in Nat /\ now - cpu_stat[t] <= Slow

Stamped ==
  cached_result # Empty => last_sample_time <= cached_result + Slow + MaxError

CacheInv == CacheTypeOK /\ Sampling /\ Stamped

LEMMA Bounds ==
  /\ Fresh \in Nat \ {0} /\ Slow \in Nat \ {0} /\ MaxError \in Nat /\ MaxTime \in Nat
BY CacheAssumption DEF CacheAssumption

LEMMA InitCacheInv == CacheInit => CacheInv
BY Bounds DEF CacheInit, CacheInv, CacheTypeOK, Sampling, Stamped, Empty, Default

-----------------------------------------------------------------------------
LEMMA TakeCachedKeeps ==
  ASSUME CacheInv, NEW t \in Thread, TakeCached(t) PROVE CacheInv'
<1>1. CacheTypeOK'
  BY Bounds DEF CacheInv, CacheTypeOK, TakeCached, Hit, Return, clockVars, Empty, Default
<1>2. Sampling' /\ Stamped'
  BY DEF CacheInv, CacheTypeOK, Sampling, Stamped, TakeCached, Return, clockVars
<1>3. QED
  BY <1>1, <1>2 DEF CacheInv

LEMMA SampleKeeps ==
  ASSUME CacheInv, NEW t \in Thread, Sample(t) PROVE CacheInv'
<1>1. CacheTypeOK'
  BY Bounds DEF CacheInv, CacheTypeOK, Sample, clockVars
<1>2. Sampling'
  <2> SUFFICES ASSUME NEW u \in Thread, call'[u] = "store"
               PROVE  cpu_stat'[u] \in Nat /\ now' - cpu_stat'[u] <= Slow
    BY DEF Sampling
  <2>1. now \in Nat /\ now' = now
    BY DEF CacheInv, CacheTypeOK, Sample, clockVars
  <2>2. CASE u = t
    BY <2>1, <2>2, Bounds DEF CacheInv, CacheTypeOK, Sample
  <2>3. CASE u # t
    BY <2>1, <2>3 DEF CacheInv, CacheTypeOK, Sampling, Sample
  <2>4. QED
    BY <2>2, <2>3
<1>3. Stamped'
  BY DEF CacheInv, Stamped, Sample
<1>4. QED
  BY <1>1, <1>2, <1>3 DEF CacheInv

LEMMA SampleFailsKeeps ==
  ASSUME CacheInv, NEW t \in Thread, SampleFails(t) PROVE CacheInv'
<1>1. CacheTypeOK'
  BY DEF CacheInv, CacheTypeOK, SampleFails, Return, clockVars
<1>2. Sampling'
  BY DEF CacheInv, CacheTypeOK, Sampling, SampleFails, Return, clockVars
<1>3. Stamped'
  BY DEF CacheInv, Stamped, SampleFails
<1>4. QED
  BY <1>1, <1>2, <1>3 DEF CacheInv

LEMMA StoreKeeps ==
  ASSUME CacheInv, NEW t \in Thread, Store(t) PROVE CacheInv'
<1>1. /\ call[t] = "store" /\ cpu_stat[t] \in Nat /\ now - cpu_stat[t] <= Slow
      /\ now \in Nat /\ error \in -MaxError..MaxError
  BY DEF CacheInv, CacheTypeOK, Sampling, Store
<1>2. CacheTypeOK'
  BY <1>1, Bounds DEF CacheInv, CacheTypeOK, Store, Return, clockVars, Clock
<1>3. Sampling'
  BY DEF CacheInv, CacheTypeOK, Sampling, Store, Return, clockVars
<1>4. Stamped'
  BY <1>1, Bounds DEF Stamped, Store, Clock
<1>5. QED
  BY <1>2, <1>3, <1>4 DEF CacheInv

LEMMA EndCallKeeps ==
  ASSUME CacheInv, NEW t \in Thread, EndCall(t) PROVE CacheInv'
<1>1. CacheTypeOK'
  BY DEF CacheInv, CacheTypeOK, EndCall, clockVars
<1>2. Sampling' /\ Stamped'
  BY DEF CacheInv, CacheTypeOK, Sampling, Stamped, EndCall, clockVars
<1>3. QED
  BY <1>1, <1>2 DEF CacheInv

(* Time waits for a caller that has sampled for long; the clock may be set.  *)
LEMMA ClockKeeps ==
  ASSUME CacheInv, Tick \/ SetClock PROVE CacheInv'
<1>1. CASE Tick
  <2>1. now \in Nat /\ now' = now + 1
    BY <1>1 DEF CacheInv, CacheTypeOK, Tick
  <2>2. CacheTypeOK'
    BY <1>1, <2>1 DEF CacheInv, CacheTypeOK, Tick, cacheVars
  <2>3. Sampling'
    <3> SUFFICES ASSUME NEW u \in Thread, call'[u] = "store"
                 PROVE  cpu_stat'[u] \in Nat /\ now' - cpu_stat'[u] <= Slow
      BY DEF Sampling
    <3>1. cpu_stat'[u] = cpu_stat[u] /\ cpu_stat[u] \in Nat /\ now - cpu_stat[u] < Slow
      BY <1>1 DEF CacheInv, Sampling, Tick, cacheVars
    <3>2. QED
      BY <2>1, <3>1, Bounds
  <2>4. Stamped'
    BY <1>1 DEF CacheInv, Stamped, Tick, cacheVars
  <2>5. QED
    BY <2>2, <2>3, <2>4 DEF CacheInv
<1>2. CASE SetClock
  BY <1>2 DEF SetClock, CacheInv, CacheTypeOK, Sampling, Stamped, cacheVars
<1>3. QED
  BY <1>1, <1>2

LEMMA NextKeeps == CacheInv /\ [CacheNext]_<<clockVars, cacheVars>> => CacheInv'
<1> SUFFICES ASSUME CacheInv, [CacheNext]_<<clockVars, cacheVars>> PROVE CacheInv'
  OBVIOUS
<1>1. ASSUME NEW t \in Thread, Enter(t) \/ Leave(t) \/ EndCall(t) PROVE CacheInv'
  BY <1>1, TakeCachedKeeps, SampleKeeps, SampleFailsKeeps, StoreKeeps, EndCallKeeps
  DEF Enter, Leave
<1>2. CASE Tick \/ SetClock
  BY <1>2, ClockKeeps
<1>3. CASE UNCHANGED <<clockVars, cacheVars>>
  BY <1>3 DEF clockVars, cacheVars, CacheInv, CacheTypeOK, Sampling, Stamped
<1>4. QED
  BY <1>1, <1>2, <1>3 DEF CacheNext

-----------------------------------------------------------------------------
(* What a call returns is a usage younger than the age limit, the time a     *)
(* caller samples for and the error of the clock together, or the default: *)
(* a hit is young on the system clock, and what was stored was stamped at   *)
(* most Slow and MaxError late (get.cpp:144).                               *)
THEOREM UsageIsRecent == CacheSpec => CpuIsRecent
<1> DEFINE Young(t) ==
      cpu_mem'[t] >= 0 /\ cpu_mem'[t] # cpu_mem[t]
        => now - cpu_mem'[t] < Fresh + Slow + (MaxError - error)
<1>1. CacheInv /\ [CacheNext]_<<clockVars, cacheVars>>
        => [\A t \in Thread : Young(t)]_<<clockVars, cacheVars>>
  <2> SUFFICES ASSUME CacheInv, CacheNext, NEW t \in Thread PROVE Young(t)
    OBVIOUS
  <2>0. /\ now \in Nat /\ error \in -MaxError..MaxError
        /\ cpu_mem \in [Thread -> Nat \union {Empty, Default}]
        /\ cached_result \in Nat \union {Empty} /\ last_sample_time \in Int
    BY DEF CacheInv, CacheTypeOK
  <2>1. ASSUME NEW u \in Thread, TakeCached(u) PROVE Young(t)
    <3>1. CASE u = t
      <4>1. cpu_mem'[t] = cached_result /\ cached_result \in Nat
        BY <2>0, <2>1, <3>1 DEF TakeCached, Hit, Return
      <4>2. now + error - last_sample_time < Fresh
        BY <2>0, <2>1, Bounds DEF TakeCached, Hit, Clock
      <4>3. last_sample_time <= cached_result + Slow + MaxError
        BY <2>1 DEF CacheInv, Stamped, TakeCached, Hit
      <4>4. QED
        BY <4>1, <4>2, <4>3, <2>0, Bounds
    <3>2. CASE u # t
      BY <2>0, <2>1, <3>2 DEF TakeCached, Return
    <3>3. QED
      BY <3>1, <3>2
  <2>2. ASSUME NEW u \in Thread, Sample(u) PROVE Young(t)
    BY <2>2 DEF Sample
  <2>3. ASSUME NEW u \in Thread, SampleFails(u) PROVE Young(t)
    BY <2>0, <2>3 DEF SampleFails, Return, Default
  <2>4. ASSUME NEW u \in Thread, Store(u) PROVE Young(t)
    <3>1. CASE u = t
      <4>1. cpu_stat[t] \in Nat /\ now - cpu_stat[t] <= Slow
        BY <2>4, <3>1 DEF CacheInv, Sampling, Store
      <4>2. cpu_mem'[t] = cpu_stat[t]
        BY <2>0, <2>4, <3>1 DEF Store, Return
      <4>3. QED
        BY <4>1, <4>2, <2>0, Bounds
    <3>2. CASE u # t
      BY <2>0, <2>4, <3>2 DEF Store, Return
    <3>3. QED
      BY <3>1, <3>2
  <2>5. ASSUME NEW u \in Thread, EndCall(u) PROVE Young(t)
    BY <2>0, <2>5 DEF EndCall, Empty
  <2>6. CASE Tick \/ SetClock
    BY <2>6 DEF Tick, SetClock, cacheVars
  <2>7. QED
    BY <2>1, <2>2, <2>3, <2>4, <2>5, <2>6 DEF CacheNext, Enter, Leave
<1>2. CacheSpec => [][\A t \in Thread : Young(t)]_<<clockVars, cacheVars>>
  BY <1>1, InitCacheInv, NextKeeps, PTL DEF CacheSpec
<1>3. QED
  BY <1>2 DEF CpuIsRecent

-----------------------------------------------------------------------------
(* Every step of the program is a step of the cache, or leaves it and the    *)
(* clock alone.                                                            *)
LEMMA CacheSteps == Next => [CacheNext]_<<clockVars, cacheVars>>
<1> SUFFICES ASSUME Next PROVE CacheNext \/ UNCHANGED <<clockVars, cacheVars>>
  OBVIOUS
<1>1. "main" \in Thread /\ "ship_data" \in Thread /\ "trans_message" \in Thread
  BY TelemetryAssumption DEF TelemetryAssumption
<1>2. CASE MainSamples \/ PackRound \/ HeartbeatDue
  BY <1>1, <1>2 DEF MainSamples, PackRound, HeartbeatDue, CacheNext
<1>3. CASE StartRegistration \/ Build \/ BuildHeartbeat
  BY <1>1, <1>3 DEF StartRegistration, Build, BuildHeartbeat, CacheNext
<1>4. CASE Registered \/ TimePacket \/ TimePasses
  BY <1>4 DEF Registered, TimePacket, TimePasses, CacheNext
<1>5. CASE \E t \in Thread : HasSampled(t)
  BY <1>5 DEF HasSampled, CacheNext
<1>6. CASE Register \/ Send
  BY <1>6 DEF Register, Send, clockVars, cacheVars
<1>7. QED
  BY <1>2, <1>3, <1>4, <1>5, <1>6 DEF Next

(* The program uses the cache as CpuCache says.                            *)
THEOREM ImplementsCpuCache == Spec => CacheSpec
<1>1. Init => CacheInit
  BY DEF Init
<1>2. [Next]_vars => [CacheNext]_<<clockVars, cacheVars>>
  BY CacheSteps DEF vars, clockVars, cacheVars
<1>3. QED
  BY <1>1, <1>2, PTL DEF Spec, CacheSpec

(* So what main, the sensor thread and trans_message put into their packets *)
(* is as young as get_cpuOccupy's callers can expect (get.cpp:144).         *)
THEOREM PacketsCarryRecentUsage == Spec => CpuIsRecent
BY ImplementsCpuCache, UsageIsRecent

-----------------------------------------------------------------------------
(* The texts that transmit can hold, and those that end as they should.      *)
Body == {"nofix", "fix"}

Open(b) == <<"$", "0", "6", b>>
Whole(b) == <<"$", "0", "6", b, "@">>

WholeTexts == {Whole(b) : b \in Body}
Texts == {<<>>} \union {Open(b) : b \in Body} \union WholeTexts

LEMMA TextOf ==
  ASSUME NEW f, NEW location
  PROVE  /\ Text(f, location) \in Texts
         /\ Size(f) < BufSize => Text(f, location) \in WholeTexts
<1> DEFINE b == IF location = 11 THEN "nofix" ELSE "fix"
<1>1. b \in Body
  BY DEF Body
<1> HIDE DEF b
<1>2. Open(b) \o <<>> = Open(b)
  BY DEF Open
<1>3. Open(b) \o <<"@">> = Whole(b)
  <2> DEFINE E == {"$", "0", "6", "@", b}
             s == Open(b)
             t == <<"@">>
             w == Whole(b)
  <2>1. /\ s \in Seq(E) /\ Len(s) = 4
        /\ s[1] = "$" /\ s[2] = "0" /\ s[3] = "6" /\ s[4] = b
    BY DEF Open
  <2>2. t \in Seq(E) /\ Len(t) = 1 /\ t[1] = "@"
    OBVIOUS
  <2>3. /\ w \in Seq(E) /\ Len(w) = 5
        /\ w[1] = "$" /\ w[2] = "0" /\ w[3] = "6" /\ w[4] = b /\ w[5] = "@"
    BY DEF Whole
  <2> HIDE DEF E, s, t, w
  <2>4. /\ s \o t \in Seq(E) /\ Len(s \o t) = Len(s) + Len(t)
        /\ \A i \in 1..Len(s) + Len(t) :
             (s \o t)[i] = IF i <= Len(s) THEN s[i] ELSE t[i - Len(s)]
    BY <2>1, <2>2, ConcatProperties, Zenon
  <2>5. Len(s \o t) = 5 /\ \A i \in 1..5 : (s \o t)[i] = IF i <= 4 THEN s[i] ELSE t[i - 4]
    BY <2>1, <2>2, <2>4
  <2>6. \A i \in 1..5 : (s \o t)[i] = w[i]
    BY <2>1, <2>2, <2>3, <2>5
  <2>7. s \o t = w
    BY <2>3, <2>4, <2>5, <2>6, SeqEqual
  <2>8. QED
    BY <2>7 DEF s, t, w
<1>4. Text(f, location) = Open(b) \o (IF Size(f) < BufSize THEN <<"@">> ELSE <<>>)
  BY DEF Text, Open, b
<1>5. Open(b) \in Texts /\ Whole(b) \in WholeTexts /\ Whole(b) \in Texts
  BY <1>1 DEF Texts, WholeTexts
<1>6. QED
  BY <1>2, <1>3, <1>4, <1>5

(* The buffers are all back in the free list between two steps, and the      *)
(* sensor thread starts a round only while transmit has room for it.         *)
PackInv ==
  /\ phase \in {"boot", "regist", "run"}
  /\ transmit \in Seq(Texts) /\ Len(transmit) <= MaxQueue
  /\ call["ship_data"] # "none" => Len(transmit) < MaxQueue
  /\ free_list \in Seq(1..PoolSize) /\ Len(free_list) = PoolSize
  /\ msg \in Messages \union {<<>>}

LEMMA PackBounds ==
  /\ PoolSize \in Nat \ {0} /\ BufSize \in Nat /\ MaxQueue \in Nat
  /\ "main" \in Thread /\ "ship_data" \in Thread /\ "trans_message" \in Thread
BY TelemetryAssumption DEF TelemetryAssumption

LEMMA InitPackInv == Init => PackInv
<1> SUFFICES ASSUME Init PROVE PackInv
  OBVIOUS
<1>1. free_list \in Seq(1..PoolSize) /\ Len(free_list) = PoolSize
  BY PackBounds DEF Init
<1>2. transmit \in Seq(Texts) /\ Len(transmit) = 0
  BY EmptySeq DEF Init
<1>3. call["ship_data"] = "none"
  BY PackBounds DEF Init, CacheInit
<1>4. QED
  BY <1>1, <1>2, <1>3, PackBounds DEF Init, PackInv

(* A step of get_cpuOccupy moves one caller.                               *)
LEMMA OneCaller ==
  ASSUME CacheTypeOK, NEW t \in Thread, Enter(t) \/ Leave(t) \/ EndCall(t)
  PROVE  /\ \A u \in Thread : u # t => call'[u] = call[u]
         /\ Leave(t) => call[t] # "none"
         /\ EndCall(t) => call[t] # "none" /\ call'[t] = "none"
<1>1. call \in [Thread -> {"none", "store", "done"}]
  BY DEF CacheTypeOK
<1>2. \E v : call' = [call EXCEPT ![t] = v]
  BY DEF Enter, Leave, EndCall, TakeCached, Sample, SampleFails, Store, Return
<1>3. EndCall(t) => call' = [call EXCEPT ![t] = "none"] /\ call[t] = "done"
  BY DEF EndCall
<1>4. Leave(t) => call[t] = "store"
  BY DEF Leave
<1>5. QED
  BY <1>1, <1>2, <1>3, <1>4

LEMMA PoolKeeps ==
  ASSUME free_list \in Seq(1..PoolSize), Len(free_list) = PoolSize, Deallocate
  PROVE  free_list' \in Seq(1..PoolSize) /\ Len(free_list') = PoolSize
<1>1. PICK n \in Nat : n = PoolSize /\ n > 0
  BY PackBounds
<1>2. n \in 1..n /\ n - 1 \in 0..n
  BY <1>1
<1> DEFINE front == SubSeq(free_list, 1, n - 1)
<1>3. front \in Seq(1..PoolSize) /\ Len(front) = n - 1
  BY <1>1, <1>2
<1>4. free_list[n] \in 1..PoolSize
  BY <1>1, <1>2, ElementOfSeq
<1>5. free_list' = Append(front, free_list[n])
  BY <1>1 DEF Deallocate, Front, Last
<1> HIDE DEF front
<1>6. QED
  BY <1>1, <1>3, <1>4, <1>5, AppendProperties

LEMMA BuildKeeps == ASSUME CacheTypeOK, PackInv, Build PROVE PackInv'
<1>1. phase' = phase /\ msg' \in Messages
  BY DEF Build
<1>2. PICK text \in Texts : transmit' = Append(transmit, text)
  <2>1. <<>> \in Texts
    BY DEF Texts
  <2>2. QED
    BY <2>1, TextOf DEF Build
<1>3. call["ship_data"] # "none" /\ call'["ship_data"] = "none"
  BY OneCaller, PackBounds DEF Build
<1>4. transmit' \in Seq(Texts) /\ Len(transmit') <= MaxQueue
  <2>1. Len(transmit) < MaxQueue /\ transmit \in Seq(Texts)
    BY <1>3 DEF PackInv
  <2>2. QED
    BY <1>2, <2>1, AppendProperties, LenProperties, PackBounds
<1>5. free_list' \in Seq(1..PoolSize) /\ Len(free_list') = PoolSize
  <2>1. free_list # <<>>
    BY PackBounds DEF PackInv
  <2>2. Deallocate
    BY <2>1 DEF Build
  <2>3. QED
    BY <2>2, PoolKeeps DEF PackInv
<1>6. QED
  BY <1>1, <1>3, <1>4, <1>5 DEF PackInv

LEMMA SendKeeps == ASSUME PackInv, Send PROVE PackInv'
<1>1. transmit \in Seq(Texts) /\ transmit # <<>> /\ transmit' = Tail(transmit)
  BY DEF PackInv, Send
<1>2. transmit' \in Seq(Texts) /\ Len(transmit') = Len(transmit) - 1
  BY <1>1
<1>3. Len(transmit) \in Nat
  BY <1>1, LenProperties
<1>4. Len(transmit') <= MaxQueue
  BY <1>2, <1>3, PackBounds DEF PackInv
<1>5. call'["ship_data"] # "none" => Len(transmit') < MaxQueue
  BY <1>2, <1>3, PackBounds DEF PackInv, Send, cacheVars
<1>6. QED
  BY <1>2, <1>4, <1>5 DEF PackInv, Send, BuildsNothing, Builds

LEMMA PackKeeps == CacheTypeOK /\ PackInv /\ [Next]_vars => PackInv'
<1> SUFFICES ASSUME CacheTypeOK, PackInv, [Next]_vars PROVE PackInv'
  OBVIOUS
<1> DEFINE Room == call'["ship_data"] # "none" => Len(transmit) < MaxQueue
<1>1. ASSUME transmit' = transmit, free_list' = free_list, msg' = <<>>,
             phase' \in {"boot", "regist", "run"}, Room
      PROVE  PackInv'
  BY <1>1 DEF PackInv
<1>2. CASE MainSamples
  <2>1. call'["ship_data"] = call["ship_data"]
    BY <1>2, OneCaller, PackBounds DEF MainSamples
  <2>2. QED
    BY <1>1, <1>2, <2>1 DEF MainSamples, packVars, BuildsNothing, Builds, PackInv
<1>3. CASE StartRegistration
  <2>1. call'["ship_data"] = call["ship_data"]
    BY <1>3, OneCaller, PackBounds DEF StartRegistration
  <2>2. QED
    BY <1>1, <1>3, <2>1 DEF StartRegistration, packVars, BuildsNothing, Builds, PackInv
<1>4. CASE Register
  BY <1>1, <1>4 DEF Register, packVars, cacheVars, Builds, PackInv
<1>5. CASE Registered \/ TimePacket \/ TimePasses
  BY <1>1, <1>5
  DEF Registered, TimePacket, TimePasses, SetClock, Tick, packVars, cacheVars,
      BuildsNothing, Builds, PackInv
<1>6. CASE PackRound
  BY <1>1, <1>6 DEF PackRound, packVars, BuildsNothing, Builds, PackInv
<1>7. CASE Build
  BY <1>7, BuildKeeps
<1>8. CASE HeartbeatDue
  <2>1. call'["ship_data"] = call["ship_data"]
    BY <1>8, OneCaller, PackBounds DEF HeartbeatDue
  <2>2. QED
    BY <1>1, <1>8, <2>1 DEF HeartbeatDue, packVars, BuildsNothing, Builds, PackInv
<1>9. CASE BuildHeartbeat
  <2>1. call'["ship_data"] = call["ship_data"]
    BY <1>9, OneCaller, PackBounds DEF BuildHeartbeat
  <2>2. QED
    BY <1>1, <1>9, <2>1 DEF BuildHeartbeat, packVars, Builds, PackInv
<1>10. CASE Send
  BY <1>10, SendKeeps
<1>11. ASSUME NEW t \in Thread, HasSampled(t) PROVE PackInv'
  <2>1. Room
    <3>1. Leave(t)
      BY <1>11 DEF HasSampled
    <3>2. CASE t = "ship_data"
      BY <3>1, <3>2, OneCaller DEF PackInv
    <3>3. CASE t # "ship_data"
      BY <3>1, <3>3, OneCaller, PackBounds DEF PackInv
    <3>4. QED
      BY <3>2, <3>3
  <2>2. QED
    BY <1>1, <1>11, <2>1 DEF HasSampled, packVars, BuildsNothing, Builds, PackInv
<1>12. CASE UNCHANGED vars
  BY <1>12 DEF vars, packVars, cacheVars, PackInv
<1>13. QED
  BY <1>2, <1>3, <1>4, <1>5, <1>6, <1>7, <1>8, <1>9, <1>10, <1>11, <1>12 DEF Next

(* The inductive invariant of cache and packets holds in every state         *)
(* (infra/get.cpp, protocol/hj212_builder.h).                              *)
LEMMA PipelineInv == Spec => [](CacheInv /\ PackInv)
<1>1. Spec => []CacheInv
  <2>1. CacheSpec => []CacheInv
    BY InitCacheInv, NextKeeps, PTL DEF CacheSpec
  <2>2. QED
    BY <2>1, ImplementsCpuCache
<1>2. CacheInv => CacheTypeOK
  BY DEF CacheInv
<1>3. QED
  BY <1>1, <1>2, InitPackInv, PackKeeps, PTL DEF Spec

(* Types, for any callers' interleaving, clock error, pool and queue.       *)
THEOREM TypesOfTelemetry == Spec => []TypeOK
<1>1. CacheInv /\ PackInv => TypeOK
  <2> SUFFICES ASSUME CacheInv, PackInv PROVE TypeOK
    OBVIOUS
  <2>1. Range(free_list) \subseteq 1..PoolSize
    BY DEF PackInv, Range
  <2>2. QED
    BY <2>1 DEF CacheInv, PackInv, TypeOK
<1>2. QED
  BY <1>1, PipelineInv, PTL

-----------------------------------------------------------------------------
(* A packed round fits into its buffer. *)
LEMMA RoundFits ==
  ASSUME Limits, NEW mn \in MnWidths, NEW location \in Location, NEW w \in ValueWidths, NEW crc
  PROVE  LET f == Packet06(Hj212Width(DataWidth(mn, location, w), crc))
         IN  FrameEnds(f) /\ Size(f) < BufSize
<1>1. mn \in 0..99
  BY TelemetryAssumption DEF TelemetryAssumption
<1> DEFINE data == DataWidth(mn, location, w)
           d == Hj212Width(data, crc)
           f == Packet06(d)
<1>2. DataFits(data)
  BY <1>1, DataWidthOf DEF Location
<1> HIDE DEF data
<1>3. PacketFits(d)
  BY <1>2, Hj212WidthOf
<1> HIDE DEF d
<1>4. FrameEnds(f) /\ Size(f) \in Nat /\ Size(f) < LongestRound
  BY <1>3, Packet06Ends
<1> HIDE DEF f
<1>5. Size(f) < BufSize
  BY <1>4, PackBounds, SMT DEF Limits, LongestRound
<1>6. QED
  BY <1>4, <1>5 DEF f, d, data

FrameInv == frame = NoFrame \/ FrameEnds(frame)

RoundsInv == transmit \in Seq(WholeTexts)

LEMMA BuildEnds ==
  ASSUME Limits, PackInv, RoundsInv, Build PROVE FrameInv' /\ RoundsInv'
<1>1. PICK m \in Messages, w \in ValueWidths, mn \in MnWidths, location \in Location :
        LET f == Packet06(Hj212Width(DataWidth(mn, location, w), CRC16_Checkout(m)))
        IN  /\ frame' = IF free_list = <<>> THEN NoFrame ELSE Printed(f)
            /\ transmit' = Append(transmit,
                 IF free_list = <<>> THEN <<>> ELSE Text(f, location))
  BY DEF Build
<1> DEFINE f == Packet06(Hj212Width(DataWidth(mn, location, w), CRC16_Checkout(m)))
<1>2. FrameEnds(f) /\ Size(f) < BufSize
  BY RoundFits
<1>3. free_list # <<>>
  BY PackBounds DEF PackInv
<1>4. frame' = Printed(f) /\ transmit' = Append(transmit, Text(f, location))
  BY <1>1, <1>3
<1> HIDE DEF f
<1>5. frame' = f
  BY <1>2, <1>4 DEF Printed
<1>6. Text(f, location) \in WholeTexts
  BY <1>2, TextOf
<1>7. transmit' \in Seq(WholeTexts)
  BY <1>4, <1>6, AppendProperties DEF RoundsInv
<1>8. QED
  BY <1>2, <1>5, <1>7 DEF FrameInv, RoundsInv

LEMMA StepsEnd ==
  ASSUME Limits
  PROVE  PackInv /\ FrameInv /\ RoundsInv /\ [Next]_vars => FrameInv' /\ RoundsInv'
<1> SUFFICES ASSUME PackInv, FrameInv, RoundsInv, [Next]_vars
             PROVE  FrameInv' /\ RoundsInv'
  OBVIOUS
<1>1. ASSUME BuildsNothing, transmit' = transmit PROVE FrameInv' /\ RoundsInv'
  BY <1>1 DEF BuildsNothing, Builds, FrameInv, RoundsInv
<1>2. CASE Build
  BY <1>2, BuildEnds
<1>3. CASE Register
  BY <1>3, Regist01Ends, Confirm02Ends
  DEF Register, Builds, cacheVars, packVars, FrameInv, RoundsInv
<1>4. CASE BuildHeartbeat
  <2>1. Len(transmit) \in Nat /\ Len(transmit) <= MaxQueue
    BY LenProperties DEF PackInv
  <2>2. IntMax \in Nat
    BY SMT DEF IntMax
  <2>3. Len(transmit) <= IntMax
    BY <2>1, <2>2, PackBounds DEF Limits
  <2>4. FrameEnds(Heartbeat(Len(transmit)))
    BY <2>1, <2>3, HeartbeatEnds
  <2>5. QED
    BY <1>4, <2>4 DEF BuildHeartbeat, Builds, packVars, FrameInv, RoundsInv
<1>5. CASE Send
  <2>1. transmit' \in Seq(WholeTexts)
    BY <1>5 DEF Send, RoundsInv
  <2>2. QED
    BY <1>5, <2>1 DEF Send, BuildsNothing, Builds, FrameInv, RoundsInv
<1>6. CASE MainSamples \/ StartRegistration \/ Registered \/ PackRound
  BY <1>1, <1>6 DEF MainSamples, StartRegistration, Registered, PackRound, packVars
<1>7. CASE HeartbeatDue \/ TimePacket \/ TimePasses \/ \E t \in Thread : HasSampled(t)
  BY <1>1, <1>7 DEF HeartbeatDue, TimePacket, TimePasses, HasSampled, packVars
<1>8. CASE UNCHANGED vars
  BY <1>8 DEF vars, packVars, FrameInv, RoundsInv
<1>9. QED
  BY <1>2, <1>3, <1>4, <1>5, <1>6, <1>7, <1>8 DEF Next

LEMMA PacketInv == ASSUME Limits PROVE Spec => [](FrameInv /\ RoundsInv)
<1>1. Init => FrameInv /\ RoundsInv
  <2>1. <<>> \in Seq(WholeTexts)
    BY EmptySeq
  <2>2. QED
    BY <2>1 DEF Init, FrameInv, RoundsInv
<1>2. PackInv /\ FrameInv /\ RoundsInv /\ [Next]_vars => FrameInv' /\ RoundsInv'
  BY StepsEnd
<1>3. QED
  BY <1>1, <1>2, PipelineInv, PTL DEF Spec

(* With any MN of up to 99 characters, position, register contents, checksum *)
(* and queue depth that an int holds, the length field of every packet has   *)
(* four digits and says where the packet ends (hj212_builder.h:141-149).    *)
THEOREM LengthFieldIsRight == ASSUME Limits PROVE Spec => []EndsWhereLengthSays
<1>1. FrameInv => EndsWhereLengthSays
  BY DEF FrameInv, FrameEnds, EndsWhereLengthSays
<1>2. QED
  BY <1>1, PacketInv, PTL

(* No round is lost for want of a buffer, however many there are, and none   *)
(* is cut: 1102 characters, the 0 behind them included, are the most that a *)
(* round takes of the 2048 (hj212_builder.h:152-173).                      *)
THEOREM RoundsAreWhole == ASSUME Limits PROVE Spec => []EveryRoundIsWhole
<1>1. RoundsInv => EveryRoundIsWhole
  <2> SUFFICES ASSUME RoundsInv, NEW i \in DOMAIN transmit
               PROVE  transmit[i] # <<>> /\ Last(transmit[i]) = "@"
    BY DEF EveryRoundIsWhole
  <2>1. transmit[i] \in WholeTexts
    BY ElementOfSeq, LenProperties DEF RoundsInv
  <2>2. PICK b \in Body : transmit[i] = Whole(b)
    BY <2>1 DEF WholeTexts
  <2>3. Whole(b) # <<>> /\ Len(Whole(b)) = 5 /\ Whole(b)[5] = "@"
    BY DEF Whole
  <2>4. QED
    BY <2>2, <2>3 DEF Last
<1>2. QED
  BY <1>1, PacketInv, PTL

-----------------------------------------------------------------------------
(* The bits of a register of 16. *)
Word == SUBSET (0..15)

LEMMA ShiftBits ==
  ASSUME NEW w \in Word
  PROVE  /\ Shift(w) \in Word
         /\ 15 \in Shift(w) <=> 0 \in w
         /\ \A j \in 0..14 :
              j \in Shift(w) <=> IF 0 \in w /\ j \in {13, 0} THEN j + 1 \notin w ELSE j + 1 \in w
<1> DEFINE half == {i - 1 : i \in w \ {0}}
<1>1. \A j \in 0..15 : j \in half <=> j + 1 \in w
  BY DEF Word
<1>2. half \in SUBSET (0..14)
  BY DEF Word
<1>3. Shift(w) = IF 0 \in w THEN Xor(half, {15, 13, 0}) ELSE half
  BY DEF Shift
<1> HIDE DEF half
<1>4. CASE 0 \in w
  <2>1. \A j : j \in Shift(w) <=> (j \in half /\ j \notin {15, 13, 0})
                                  \/ (j \in {15, 13, 0} /\ j \notin half)
    BY <1>3, <1>4 DEF Xor
  <2>2. 15 \notin half /\ 15 + 1 \notin w
    BY <1>2 DEF Word
  <2>3. Shift(w) \in Word
    <3>1. ASSUME NEW j \in Shift(w) PROVE j \in 0..15
      <4>1. j \in 0..14 \/ j \in {15, 13, 0}
        BY <1>2, <2>1
      <4>2. QED
        BY <4>1
    <3>2. QED
      BY <3>1 DEF Word
  <2>4. QED
    BY <1>1, <1>4, <2>1, <2>2, <2>3
<1>5. CASE 0 \notin w
  <2>1. Shift(w) = half
    BY <1>3, <1>5
  <2>2. 15 \notin half /\ half \in Word
    BY <1>2 DEF Word
  <2>3. QED
    BY <1>1, <1>5, <2>1, <2>2
<1>6. QED
  BY <1>4, <1>5

(* What two registers share before a shift, from what they share after it:   *)
(* bit 15 tells whether the mask was applied.                              *)
Agree(s, t, n) == \A j \in 0..15 : j < n \/ 8 + n <= j => (j \in s <=> j \in t)

LEMMA BackStep ==
  ASSUME NEW s \in Word, NEW t \in Word, NEW n \in 0..7, Agree(Shift(s), Shift(t), n)
  PROVE  Agree(s, t, n + 1)
<1>1. 0 \in s <=> 0 \in t
  <2>1. 15 \in Shift(s) <=> 15 \in Shift(t)
    BY DEF Agree
  <2>2. QED
    BY <2>1, ShiftBits
<1>2. ASSUME NEW j \in 0..15, j < n + 1 \/ 8 + (n + 1) <= j PROVE j \in s <=> j \in t
  <2>1. CASE j = 0
    BY <1>1, <2>1
  <2>2. CASE j # 0
    <3>1. PICK i \in 0..14 : j = i + 1
      <4>1. j - 1 \in 0..14 /\ j = (j - 1) + 1
        BY <2>2
      <4>2. QED
        BY <4>1
    <3>2. i \in 0..15 /\ (i < n \/ 8 + n <= i)
      BY <1>2, <3>1
    <3>3. i \in Shift(s) <=> i \in Shift(t)
      BY <3>2 DEF Agree
    <3>4. i \in Shift(s) <=> IF 0 \in s /\ i \in {13, 0} THEN i + 1 \notin s ELSE i + 1 \in s
      BY ShiftBits
    <3>5. i \in Shift(t) <=> IF 0 \in t /\ i \in {13, 0} THEN i + 1 \notin t ELSE i + 1 \in t
      BY ShiftBits
    <3>6. QED
      BY <1>1, <3>1, <3>3, <3>4, <3>5
  <2>3. QED
    BY <2>1, <2>2
<1>3. QED
  BY <1>2 DEF Agree

ShiftTable(f, byte) ==
  /\ f \in [0..8 -> Word] /\ f[0] = byte
  /\ \A i \in 1..8 : f[i] = Shift(f[i - 1])

LEMMA EightShiftsOf ==
  ASSUME NEW byte \in Byte
  PROVE  \E f : ShiftTable(f, byte) /\ EightShifts[byte] = f[8]
<1> DEFINE Is(f) == f = [j \in 0..8 |-> IF j = 0 THEN byte ELSE Shift(f[j - 1])]
           next == [p \in (1..8) \X Word |-> Shift(p[2])]
<1>0. byte \in Word
  BY DEF Byte, Word
<1>1. next \in [(1..8) \X Word -> Word]
  BY ShiftBits
<1>2. \A i \in 1..8, v \in Word : next[<<i, v>>] = Shift(v)
  OBVIOUS
<1> HIDE DEF next
<1>3. PICK f \in [0..8 -> Word] : Iterates(f, 8, byte, next)
  BY <1>0, <1>1, Iteration
<1>4. f[0] = byte /\ \A i \in 1..8 : f[i] = Shift(f[i - 1])
  <2>1. \A i \in 1..8 : f[i - 1] \in Word
    OBVIOUS
  <2>2. QED
    BY <1>2, <1>3, <2>1 DEF Iterates
<1>5. Is(f)
  <2>1. \A i \in 0..8 : f[i] = IF i = 0 THEN byte ELSE Shift(f[i - 1])
    BY <1>4
  <2>2. QED
    BY <2>1
<1> DEFINE reg == CHOOSE g : Is(g)
<1>6. Is(reg) /\ EightShifts[byte] = reg[8]
  BY <1>5 DEF EightShifts
<1> HIDE DEF reg
<1>7. reg[0] = byte /\ \A i \in 1..8 : reg[i] = Shift(reg[i - 1])
  <2>1. \A i \in 0..8 : reg[i] = IF i = 0 THEN byte ELSE Shift(reg[i - 1])
    BY <1>6
  <2>2. 0 \in 0..8 /\ \A i \in 1..8 : i \in 0..8 /\ i # 0
    OBVIOUS
  <2>3. QED
    BY <2>1, <2>2
<1> DEFINE S == {i \in 0..8 : reg[i] \in Word}
<1>8. ASSUME NEW i \in 0..(8 - 1), i \in S PROVE i + 1 \in S
  <2>1. i + 1 \in 1..8 /\ i + 1 \in 0..8 /\ (i + 1) - 1 = i
    OBVIOUS
  <2>2. reg[i + 1] = Shift(reg[i]) /\ reg[i] \in Word
    BY <1>7, <1>8, <2>1
  <2>3. QED
    BY <2>1, <2>2, ShiftBits
<1>9. \A i \in 0..8 : i \in S
  <2>1. 0 \in S
    BY <1>0, <1>7
  <2> HIDE DEF S
  <2>2. QED
    BY <1>8, <2>1, Induction
<1>10. reg \in [0..8 -> Word]
  <2>1. reg = [j \in 0..8 |-> reg[j]]
    BY <1>6
  <2>2. QED
    BY <1>9, <2>1
<1>11. QED
  BY <1>6, <1>7, <1>10 DEF ShiftTable

(* What the register passes on tells which byte entered.                   *)
LEMMA EightShiftsInjective ==
  ASSUME NEW a \in Byte, NEW b \in Byte, a # b
  PROVE  HighByte(EightShifts[a]) # HighByte(EightShifts[b])
<1> SUFFICES ASSUME HighByte(EightShifts[a]) = HighByte(EightShifts[b]) PROVE a = b
  OBVIOUS
<1>1. PICK f : ShiftTable(f, a) /\ EightShifts[a] = f[8]
  BY EightShiftsOf
<1>2. PICK g : ShiftTable(g, b) /\ EightShifts[b] = g[8]
  BY EightShiftsOf
<1>3. Agree(f[8], g[8], 0)
  <2>1. ASSUME NEW w \in Word, NEW j \in 8..15 PROVE j \in w <=> j - 8 \in HighByte(w)
    BY DEF HighByte, Word
  <2>2. f[8] \in Word /\ g[8] \in Word
    BY <1>1, <1>2 DEF ShiftTable
  <2>3. \A j \in 8..15 : j \in f[8] <=> j \in g[8]
    BY <1>1, <1>2, <2>1, <2>2
  <2>4. QED
    BY <2>3 DEF Agree
<1> DEFINE S == {n \in 0..8 : Agree(f[8 - n], g[8 - n], n)}
<1>4. ASSUME NEW n \in 0..(8 - 1), n \in S PROVE n + 1 \in S
  <2> DEFINE i == 8 - n
  <2>1. i \in 1..8 /\ i - 1 \in 0..8 /\ 8 - (n + 1) = i - 1 /\ n \in 0..7 /\ n + 1 \in 0..8
    OBVIOUS
  <2>2. Agree(f[i], g[i], n)
    BY <1>4
  <2> HIDE DEF i
  <2>3. f[i] = Shift(f[i - 1]) /\ f[i - 1] \in Word
    BY <1>1, <2>1 DEF ShiftTable
  <2>4. g[i] = Shift(g[i - 1]) /\ g[i - 1] \in Word
    BY <1>2, <2>1 DEF ShiftTable
  <2>5. Agree(f[i - 1], g[i - 1], n + 1)
    BY <2>1, <2>2, <2>3, <2>4, BackStep
  <2>6. QED
    BY <2>1, <2>5
<1>5. 8 \in S
  <2>1. 0 \in S
    BY <1>3
  <2> HIDE DEF S
  <2>2. \A n \in 0..8 : n \in S
    BY <1>4, <2>1, Induction
  <2>3. QED
    BY <2>2
<1>6. Agree(a, b, 8)
  <2>1. Agree(f[8 - 8], g[8 - 8], 8) /\ 8 - 8 = 0
    BY <1>5
  <2>2. QED
    BY <1>1, <1>2, <2>1 DEF ShiftTable
<1>7. \A j \in 0..7 : j \in a <=> j \in b
  BY <1>6 DEF Agree
<1>8. QED
  BY <1>7 DEF Byte

-----------------------------------------------------------------------------
RegisterTable(r, m) ==
  /\ r \in [0..Len(m) -> Word] /\ r[0] = 0..15
  /\ \A i \in 1..Len(m) : r[i] = EightShifts[Xor(HighByte(r[i - 1]), m[i])]

LEMMA Bytes ==
  /\ \A w \in Word : HighByte(w) \in Byte
  /\ \A a, b \in Byte : Xor(a, b) \in Byte
  /\ \A a \in Byte : EightShifts[a] \in Word
<1>1. ASSUME NEW w \in Word PROVE HighByte(w) \in Byte
  BY DEF HighByte, Word, Byte
<1>2. ASSUME NEW a \in Byte, NEW b \in Byte PROVE Xor(a, b) \in Byte
  BY DEF Xor, Byte
<1>3. ASSUME NEW a \in Byte PROVE EightShifts[a] \in Word
  <2>1. PICK f : ShiftTable(f, a) /\ EightShifts[a] = f[8]
    BY EightShiftsOf
  <2>2. QED
    BY <2>1 DEF ShiftTable
<1>4. QED
  BY <1>1, <1>2, <1>3

LEMMA XorInjective ==
  ASSUME NEW h, NEW a, NEW b, a # b PROVE Xor(h, a) # Xor(h, b) /\ Xor(a, h) # Xor(b, h)
BY DEF Xor

LEMMA ChecksumOf ==
  ASSUME NEW m \in Seq(Byte)
  PROVE  \E r : RegisterTable(r, m) /\ CRC16_Checkout(m) = r[Len(m)]
<1> DEFINE n == Len(m)
           Is(f) == f = [i \in 0..Len(m) |->
                           IF i = 0 THEN 0..15
                           ELSE EightShifts[Xor(HighByte(f[i - 1]), m[i])]]
           next == [p \in (1..n) \X Word |-> EightShifts[Xor(HighByte(p[2]), m[p[1]])]]
<1>0. n \in Nat /\ (\A i \in 1..n : m[i] \in Byte) /\ 0..15 \in Word
  BY LenProperties, ElementOfSeq DEF Word
<1>1. ASSUME NEW i \in 1..n, NEW w \in Word
      PROVE  EightShifts[Xor(HighByte(w), m[i])] \in Word
  <2>1. m[i] \in Byte
    BY <1>0
  <2>2. QED
    BY <2>1, Bytes
<1>2. next \in [(1..n) \X Word -> Word]
  <2> HIDE DEF n
  <2>1. \A p \in (1..n) \X Word : p[1] \in 1..n /\ p[2] \in Word
    OBVIOUS
  <2>2. QED
    BY <1>1, <2>1
<1>3. \A i \in 1..n, w \in Word : next[<<i, w>>] = EightShifts[Xor(HighByte(w), m[i])]
  OBVIOUS
<1> HIDE DEF next
<1>4. PICK f \in [0..n -> Word] : Iterates(f, n, 0..15, next)
  <2> HIDE DEF n
  <2>1. QED
    BY <1>0, <1>2, Iteration
<1>5. f[0] = 0..15 /\ \A i \in 1..n : f[i] = EightShifts[Xor(HighByte(f[i - 1]), m[i])]
  <2> HIDE DEF n
  <2>1. \A i \in 1..n : f[i - 1] \in Word
    BY <1>0
  <2>2. QED
    BY <1>3, <1>4, <2>1 DEF Iterates
<1>6. Is(f)
  <2>1. \A i \in 0..n : f[i] = IF i = 0 THEN 0..15
                               ELSE EightShifts[Xor(HighByte(f[i - 1]), m[i])]
    BY <1>0, <1>5
  <2>2. QED
    BY <2>1
<1> DEFINE reg == CHOOSE g : Is(g)
<1>7. Is(reg) /\ CRC16_Checkout(m) = reg[n]
  BY <1>6 DEF CRC16_Checkout
<1> HIDE DEF reg
<1>8. reg[0] = 0..15 /\ \A i \in 1..n : reg[i] = EightShifts[Xor(HighByte(reg[i - 1]), m[i])]
  <2>1. \A i \in 0..n : reg[i] = IF i = 0 THEN 0..15
                                 ELSE EightShifts[Xor(HighByte(reg[i - 1]), m[i])]
    BY <1>7
  <2>2. 0 \in 0..n /\ \A i \in 1..n : i \in 0..n /\ i # 0
    BY <1>0
  <2> HIDE DEF n
  <2>3. QED
    BY <2>1, <2>2
<1> DEFINE S == {i \in 0..n : reg[i] \in Word}
<1>9. ASSUME NEW i \in 0..(n - 1), i \in S PROVE i + 1 \in S
  <2>1. i + 1 \in 1..n /\ i + 1 \in 0..n /\ (i + 1) - 1 = i
    BY <1>0
  <2>2. reg[i + 1] = EightShifts[Xor(HighByte(reg[i]), m[i + 1])] /\ reg[i] \in Word
    BY <1>8, <1>9, <2>1
  <2>3. QED
    BY <1>1, <2>1, <2>2
<1>10. \A i \in 0..n : i \in S
  <2>1. 0 \in S
    <3> HIDE DEF n
    <3>1. 0 \in 0..n
      BY <1>0
    <3>2. reg[0] \in Word
      BY <1>0, <1>8
    <3>3. QED
      BY <3>1, <3>2
  <2> HIDE DEF S, n
  <2>2. QED
    BY <1>0, <1>9, <2>1, Induction, Zenon
<1>11. reg \in [0..n -> Word]
  <2>1. reg = [j \in 0..n |-> reg[j]]
    BY <1>7
  <2>2. QED
    BY <1>10, <2>1
<1>12. QED
  BY <1>7, <1>8, <1>11 DEF RegisterTable

(* Two messages that differ in one byte have different checksums, whatever   *)
(* comes before and after it: the difference reaches the high byte of the    *)
(* register and stays there (CRC16_Checkout, hj212.cpp:54-72).             *)
THEOREM OneByteChangesChecksum ==
  ASSUME NEW m \in Seq(Byte), NEW i \in 1..Len(m), NEW b \in Byte, b # m[i]
  PROVE  CRC16_Checkout([m EXCEPT ![i] = b]) # CRC16_Checkout(m)
<1> DEFINE n == Len(m)
           e == [m EXCEPT ![i] = b]
<1>1. n \in Nat /\ (\A j \in 1..n : m[j] \in Byte) /\ i \in 1..n
  BY LenProperties, ElementOfSeq
<1>2. /\ e \in Seq(Byte) /\ Len(e) = n /\ e[i] = b
      /\ \A j \in 1..n : j # i => e[j] = m[j]
  BY <1>1
<1>3. PICK r : RegisterTable(r, m) /\ CRC16_Checkout(m) = r[n]
  BY ChecksumOf
<1>4. PICK q : RegisterTable(q, e) /\ CRC16_Checkout(e) = q[n]
  BY <1>2, ChecksumOf
<1>5. /\ r[0] = 0..15 /\ q[0] = 0..15
      /\ \A j \in 0..n : r[j] \in Word /\ q[j] \in Word
      /\ \A j \in 1..n : r[j] = EightShifts[Xor(HighByte(r[j - 1]), m[j])]
      /\ \A j \in 1..n : q[j] = EightShifts[Xor(HighByte(q[j - 1]), e[j])]
  BY <1>2, <1>3, <1>4 DEF RegisterTable
<1>6. \A j \in 1..n : e[j] \in Byte
  BY <1>2, ElementOfSeq
<1> HIDE DEF n, e
<1> DEFINE S == {j \in 0..n : IF j < i THEN q[j] = r[j] ELSE HighByte(q[j]) # HighByte(r[j])}
<1>7. ASSUME NEW j \in 0..(n - 1), j \in S PROVE j + 1 \in S
  <2>1. j + 1 \in 1..n /\ j + 1 \in 0..n /\ (j + 1) - 1 = j /\ j \in 0..n
    BY <1>1
  <2> DEFINE k == j + 1
             s == Xor(HighByte(r[j]), m[k])
             t == Xor(HighByte(q[j]), e[k])
  <2>2. r[k] = EightShifts[s] /\ q[k] = EightShifts[t]
    BY <1>5, <2>1
  <2>3. HighByte(r[j]) \in Byte /\ HighByte(q[j]) \in Byte /\ m[k] \in Byte /\ e[k] \in Byte
    BY <1>1, <1>5, <1>6, <2>1, Bytes
  <2>4. s \in Byte /\ t \in Byte
    BY <2>3, Bytes
  <2>5. CASE k < i
    <3>1. j < i /\ k # i
      BY <1>1, <2>1, <2>5
    <3>2. q[j] = r[j] /\ e[k] = m[k]
      BY <1>2, <1>7, <2>1, <3>1
    <3>3. QED
      BY <2>1, <2>2, <2>5, <3>2
  <2>6. CASE k = i
    <3>1. j < i /\ ~ (k < i)
      BY <1>1, <2>1, <2>6
    <3>2. q[j] = r[j] /\ e[k] = b /\ m[k] # b
      BY <1>2, <1>7, <2>6, <3>1
    <3>3. s # t
      BY <3>2, XorInjective
    <3>4. HighByte(q[k]) # HighByte(r[k])
      BY <2>2, <2>4, <3>3, EightShiftsInjective
    <3>5. QED
      BY <2>1, <3>1, <3>4
  <2>7. CASE ~ (k < i) /\ k # i
    <3>1. ~ (j < i)
      BY <1>1, <2>1, <2>7
    <3>2. HighByte(q[j]) # HighByte(r[j]) /\ e[k] = m[k]
      BY <1>2, <1>7, <2>1, <2>7, <3>1
    <3>3. s # t
      BY <3>2, XorInjective
    <3>4. HighByte(q[k]) # HighByte(r[k])
      BY <2>2, <2>4, <3>3, EightShiftsInjective
    <3> HIDE DEF s, t
    <3>5. QED
      BY <2>1, <2>7, <3>4
  <2>8. QED
    BY <2>5, <2>6, <2>7
<1>8. n \in S
  <2>1. 0 \in S
    <3>1. 0 \in 0..n /\ 0 < i
      BY <1>1
    <3>2. q[0] = r[0]
      BY <1>5
    <3>3. QED
      BY <3>1, <3>2
  <2> HIDE DEF S
  <2>2. \A j \in 0..n : j \in S
    BY <1>1, <1>7, <2>1, Induction, Zenon
  <2>3. n \in 0..n
    BY <1>1
  <2>4. QED
    BY <2>2, <2>3
<1>9. q[n] # r[n]
  BY <1>1, <1>8
<1>10. QED
  BY <1>3, <1>4, <1>9 DEF e

(* One byte is the limit: whatever a byte is changed to, there is a change of *)
(* the next one that hides it, as only eight bits of the register meet it      *)
(* (CRC16_Checkout, hj212.cpp:60).                                         *)
THEOREM TwoBytesCanHide ==
  ASSUME NEW m \in Seq(Byte), NEW i \in 1..Len(m), i + 1 \in 1..Len(m), NEW b \in Byte
  PROVE  \E c \in Byte :
           CRC16_Checkout([m EXCEPT ![i] = b, ![i + 1] = c]) = CRC16_Checkout(m)
<1> DEFINE n == Len(m)
<1>1. n \in Nat /\ (\A j \in 1..n : m[j] \in Byte) /\ i \in 1..n /\ i + 1 \in 1..n
      /\ i - 1 \in 0..n /\ i \in 0..n
  BY LenProperties, ElementOfSeq
<1>2. PICK r : RegisterTable(r, m) /\ CRC16_Checkout(m) = r[n]
  BY ChecksumOf
<1>3. /\ r[0] = 0..15 /\ \A j \in 0..n : r[j] \in Word
      /\ \A j \in 1..n : r[j] = EightShifts[Xor(HighByte(r[j - 1]), m[j])]
  BY <1>2 DEF RegisterTable
<1> DEFINE other == EightShifts[Xor(HighByte(r[i - 1]), b)]
           h == HighByte(other)
           g == HighByte(r[i])
           c == Xor(Xor(h, g), m[i + 1])
           e == [m EXCEPT ![i] = b, ![i + 1] = c]
<1>4. g \in Byte /\ h \in Byte /\ c \in Byte
  <2>1. HighByte(r[i - 1]) \in Byte /\ g \in Byte
    BY <1>1, <1>3, Bytes
  <2>2. other \in Word
    BY <2>1, Bytes
  <2> HIDE DEF other, g
  <2>3. h \in Byte /\ m[i + 1] \in Byte
    BY <1>1, <2>2, Bytes
  <2> HIDE DEF h
  <2>4. QED
    BY <2>1, <2>3, Bytes
<1>5. Xor(h, c) = Xor(g, m[i + 1])
  <2> HIDE DEF h, g
  <2>1. \A j : j \in Xor(h, c) <=> j \in Xor(g, m[i + 1])
    BY DEF Xor
  <2>2. QED
    BY <2>1 DEF Xor
<1> HIDE DEF c
<1>6. /\ e \in Seq(Byte) /\ Len(e) = n /\ e[i] = b /\ e[i + 1] = c
      /\ \A j \in 1..n : j # i /\ j # i + 1 => e[j] = m[j]
  BY <1>1, <1>4
<1>7. PICK q : RegisterTable(q, e) /\ CRC16_Checkout(e) = q[n]
  BY <1>6, ChecksumOf
<1>8. q[0] = r[0] /\ \A j \in 1..n : q[j] = EightShifts[Xor(HighByte(q[j - 1]), e[j])]
  BY <1>3, <1>6, <1>7 DEF RegisterTable
<1> HIDE DEF n, e
<1> DEFINE S == {j \in 0..n : IF j = i THEN q[j] = other ELSE q[j] = r[j]}
<1>9. ASSUME NEW j \in 0..(n - 1), j \in S PROVE j + 1 \in S
  <2> DEFINE k == j + 1
  <2>1. k \in 1..n /\ k \in 0..n /\ k - 1 = j /\ (k = i <=> j = i - 1)
        /\ (k = i + 1 <=> j = i) /\ i - 1 # i /\ i + 1 # i
    BY <1>1
  <2> HIDE DEF k
  <2>2. q[k] = EightShifts[Xor(HighByte(q[j]), e[k])]
    BY <1>8, <2>1
  <2>3. r[k] = EightShifts[Xor(HighByte(r[j]), m[k])]
    BY <1>3, <2>1
  <2>4. CASE k = i
    <3>1. q[j] = r[j] /\ e[k] = b /\ j = i - 1
      BY <1>6, <1>9, <2>1, <2>4
    <3>2. q[k] = other
      BY <2>2, <3>1
    <3> HIDE DEF other
    <3>3. QED
      BY <2>1, <2>4, <3>2 DEF k
  <2>5. CASE k = i + 1
    <3>1. q[j] = other /\ j = i /\ e[k] = c /\ m[k] = m[i + 1]
      BY <1>6, <1>9, <2>1, <2>5
    <3>2. q[k] = EightShifts[Xor(h, c)] /\ r[k] = EightShifts[Xor(g, m[i + 1])]
      BY <2>2, <2>3, <3>1
    <3> HIDE DEF h, g, other
    <3>3. q[k] = r[k] /\ k # i
      BY <1>5, <2>1, <3>1, <3>2
    <3>4. QED
      BY <2>1, <3>3 DEF k
  <2>6. CASE k # i /\ k # i + 1
    <3>1. q[j] = r[j] /\ e[k] = m[k]
      BY <1>6, <1>9, <2>1, <2>6
    <3>2. q[k] = r[k]
      BY <2>2, <2>3, <3>1
    <3>3. QED
      BY <2>1, <2>6, <3>2 DEF k
  <2>7. QED
    BY <2>4, <2>5, <2>6
<1>10. n \in S
  <2>1. 0 \in S
    <3>1. 0 \in 0..n /\ 0 # i
      BY <1>1
    <3>2. QED
      BY <1>8, <3>1
  <2> HIDE DEF S
  <2>2. \A j \in 0..n : j \in S
    BY <1>1, <1>9, <2>1, Induction, Zenon
  <2>3. n \in 0..n
    BY <1>1
  <2>4. QED
    BY <2>2, <2>3
<1>11. q[n] = r[n]
  <2>1. n # i
    BY <1>1
  <2>2. QED
    BY <1>10, <2>1
<1>12. CRC16_Checkout([m EXCEPT ![i] = b, ![i + 1] = c]) = CRC16_Checkout(m)
  BY <1>2, <1>7, <1>11 DEF e
<1>13. QED
  BY <1>4, <1>12

(* One flipped bit in the data segment of a round never goes unnoticed, for  *)
(* data of any length and content, although only the high byte of the        *)
(* register meets the next byte (hj212.cpp:60-70).                         *)
THEOREM OneFlippedBitIsCaught == Spec => []ChecksumCatchesOneBit
<1>1. PackInv => ChecksumCatchesOneBit
  <2> SUFFICES ASSUME PackInv, NEW i \in DOMAIN msg, NEW k \in 0..7
               PROVE  CRC16_Checkout([msg EXCEPT ![i] = Xor(@, {k})]) # CRC16_Checkout(msg)
    BY DEF ChecksumCatchesOneBit
  <2>1. msg \in Seq(Byte)
    BY EmptySeq, TelemetryAssumption DEF PackInv, TelemetryAssumption
  <2>2. i \in 1..Len(msg) /\ msg[i] \in Byte
    BY <2>1, LenProperties, ElementOfSeq
  <2> DEFINE b == Xor(msg[i], {k})
  <2>3. b \in Byte /\ b # msg[i]
    BY <2>2 DEF Byte, Xor
  <2> HIDE DEF b
  <2>4. CRC16_Checkout([msg EXCEPT ![i] = b]) # CRC16_Checkout(msg)
    BY <2>1, <2>2, <2>3, OneByteChangesChecksum
  <2>5. QED
    BY <2>4 DEF b
<1>2. QED
  BY <1>1, PipelineInv, PTL

-----------------------------------------------------------------------------
(* NotEmpty, element by element. *)
KeptTable(kept, q) ==
  /\ kept[0] = <<>>
  /\ \A i \in 1..Len(q) :
       /\ q[i] = <<>> => kept[i] = kept[i - 1]
       /\ q[i] # <<>> => kept[i] = Append(kept[i - 1], q[i])

LEMMA NotEmptyOf ==
  ASSUME NEW A, NEW q \in Seq(A)
  PROVE  \E kept : KeptTable(kept, q) /\ NotEmpty(q) = kept[Len(q)]
<1> DEFINE n == Len(q)
           Is(f) == f = [i \in 0..Len(q) |->
                           IF i = 0 THEN <<>>
                           ELSE IF q[i] = <<>> THEN f[i - 1] ELSE Append(f[i - 1], q[i])]
           next == [p \in (1..n) \X Seq(A) |->
                      IF q[p[1]] = <<>> THEN p[2] ELSE Append(p[2], q[p[1]])]
<1>0. n \in Nat /\ (\A i \in 1..n : q[i] \in A) /\ <<>> \in Seq(A)
  BY LenProperties, ElementOfSeq, EmptySeq
<1>1. ASSUME NEW i \in 1..n, NEW v \in Seq(A)
      PROVE  (IF q[i] = <<>> THEN v ELSE Append(v, q[i])) \in Seq(A)
  <2>1. q[i] \in A
    BY <1>0
  <2>2. QED
    BY <2>1, AppendProperties
<1>2. next \in [(1..n) \X Seq(A) -> Seq(A)]
  <2> HIDE DEF n
  <2>1. \A p \in (1..n) \X Seq(A) : p[1] \in 1..n /\ p[2] \in Seq(A)
    OBVIOUS
  <2>2. QED
    BY <1>1, <2>1
<1>3. \A i \in 1..n, v \in Seq(A) : next[<<i, v>>] = IF q[i] = <<>> THEN v ELSE Append(v, q[i])
  OBVIOUS
<1> HIDE DEF next
<1>4. PICK f \in [0..n -> Seq(A)] : Iterates(f, n, <<>>, next)
  <2> HIDE DEF n
  <2> DEFINE V == Seq(A)
             first == <<>>
  <2>1. first \in V /\ n \in Nat /\ next \in [(1..n) \X V -> V]
    BY <1>0, <1>2
  <2> HIDE DEF V, first
  <2>2. \E f \in [0..n -> V] : Iterates(f, n, first, next)
    BY <2>1, Iteration, Zenon
  <2>3. QED
    BY <2>2 DEF V, first
<1>5. /\ f[0] = <<>>
      /\ \A i \in 1..n : f[i] = IF q[i] = <<>> THEN f[i - 1] ELSE Append(f[i - 1], q[i])
  <2> HIDE DEF n
  <2>1. \A i \in 1..n : f[i - 1] \in Seq(A)
    BY <1>0
  <2>2. QED
    BY <1>3, <1>4, <2>1 DEF Iterates
<1>6. Is(f)
  <2>1. \A i \in 0..n : i = 0 \/ (i # 0 /\ i \in 1..n)
    BY <1>0
  <2>2. \A i \in 0..n : f[i] = IF i = 0 THEN <<>>
                               ELSE IF q[i] = <<>> THEN f[i - 1] ELSE Append(f[i - 1], q[i])
    BY <1>5, <2>1, Zenon
  <2>3. QED
    BY <2>2
<1> DEFINE kept == CHOOSE g : Is(g)
<1>7. Is(kept) /\ NotEmpty(q) = kept[n]
  BY <1>6 DEF NotEmpty
<1> HIDE DEF kept
<1>8. /\ kept[0] = <<>>
      /\ \A i \in 1..n :
           kept[i] = IF q[i] = <<>> THEN kept[i - 1] ELSE Append(kept[i - 1], q[i])
  <2>1. \A i \in 0..n : kept[i] = IF i = 0 THEN <<>>
                                  ELSE IF q[i] = <<>> THEN kept[i - 1]
                                  ELSE Append(kept[i - 1], q[i])
    BY <1>7
  <2>2. 0 \in 0..n /\ \A i \in 1..n : i \in 0..n /\ i # 0
    BY <1>0
  <2> HIDE DEF n
  <2>3. QED
    BY <2>1, <2>2
<1>9. QED
  BY <1>7, <1>8 DEF KeptTable

(* The text that is written, packet by packet. *)
WrittenTable(text, q) ==
  /\ text[0] = <<>>
  /\ \A i \in 1..Len(q) :
       /\ q[i] = <<>> => text[i] = text[i - 1]
       /\ q[i] # <<>> => text[i] = text[i - 1] \o q[i] \o <<NewLine>>

LEMMA WrittenOf ==
  ASSUME NEW A, NewLine \in A, NEW q \in Seq(Seq(A))
  PROVE  \E text \in [0..Len(q) -> Seq(A)] :
           WrittenTable(text, q) /\ Written(q) = text[Len(q)]
<1> DEFINE n == Len(q)
           Line(v, i) == v \o q[i] \o <<NewLine>>
           Is(f) == f = [i \in 0..Len(q) |->
                           IF i = 0 THEN <<>>
                           ELSE IF q[i] = <<>> THEN f[i - 1]
                           ELSE f[i - 1] \o q[i] \o <<NewLine>>]
           next == [p \in (1..n) \X Seq(A) |->
                      IF q[p[1]] = <<>> THEN p[2] ELSE Line(p[2], p[1])]
<1>0. n \in Nat /\ (\A i \in 1..n : q[i] \in Seq(A)) /\ <<>> \in Seq(A)
  BY LenProperties, ElementOfSeq, EmptySeq
<1>1. ASSUME NEW i \in 1..n, NEW v \in Seq(A)
      PROVE  (IF q[i] = <<>> THEN v ELSE Line(v, i)) \in Seq(A)
  <2>1. q[i] \in Seq(A) /\ <<NewLine>> \in Seq(A)
    BY <1>0
  <2>2. v \o q[i] \in Seq(A)
    BY <2>1, ConcatProperties
  <2>3. Line(v, i) \in Seq(A)
    BY <2>1, <2>2, ConcatProperties
  <2>4. QED
    BY <2>3
<1>2. next \in [(1..n) \X Seq(A) -> Seq(A)]
  <2> HIDE DEF n, Line
  <2>1. \A p \in (1..n) \X Seq(A) : p[1] \in 1..n /\ p[2] \in Seq(A)
    OBVIOUS
  <2>2. QED
    BY <1>1, <2>1
<1>3. \A i \in 1..n, v \in Seq(A) : next[<<i, v>>] = IF q[i] = <<>> THEN v ELSE Line(v, i)
  <2> HIDE DEF n, Line
  <2>1. QED
    OBVIOUS
<1> HIDE DEF next
<1>4. PICK f \in [0..n -> Seq(A)] : Iterates(f, n, <<>>, next)
  <2> HIDE DEF n
  <2> DEFINE V == Seq(A)
             first == <<>>
  <2>1. first \in V /\ n \in Nat /\ next \in [(1..n) \X V -> V]
    BY <1>0, <1>2
  <2> HIDE DEF V, first
  <2>2. \E f \in [0..n -> V] : Iterates(f, n, first, next)
    BY <2>1, Iteration, Zenon
  <2>3. QED
    BY <2>2 DEF V, first
<1>5. f[0] = <<>> /\ \A i \in 1..n : f[i] = IF q[i] = <<>> THEN f[i - 1] ELSE Line(f[i - 1], i)
  <2> HIDE DEF n, Line
  <2>1. \A i \in 1..n : f[i - 1] \in Seq(A)
    BY <1>0
  <2>2. QED
    BY <1>3, <1>4, <2>1 DEF Iterates
<1>6. Is(f)
  <2> HIDE DEF Line
  <2>1. \A i \in 0..n : f[i] = IF i = 0 THEN <<>>
                               ELSE IF q[i] = <<>> THEN f[i - 1] ELSE Line(f[i - 1], i)
    BY <1>0, <1>5
  <2>2. f = [i \in 0..n |-> IF i = 0 THEN <<>>
                            ELSE IF q[i] = <<>> THEN f[i - 1] ELSE Line(f[i - 1], i)]
    BY <2>1
  <2>3. QED
    BY <2>2, Zenon DEF Line
<1> DEFINE text == CHOOSE g : Is(g)
<1>7. Is(text) /\ Written(q) = text[n]
  BY <1>6, Zenon DEF Written
<1> HIDE DEF text
<1>8. /\ text[0] = <<>>
      /\ \A i \in 1..n : text[i] = IF q[i] = <<>> THEN text[i - 1] ELSE Line(text[i - 1], i)
  <2>0. text = [i \in 0..n |-> IF i = 0 THEN <<>>
                               ELSE IF q[i] = <<>> THEN text[i - 1] ELSE Line(text[i - 1], i)]
    BY <1>7, Zenon
  <2> HIDE DEF Line
  <2>1. \A i \in 0..n : text[i] = IF i = 0 THEN <<>>
                                  ELSE IF q[i] = <<>> THEN text[i - 1] ELSE Line(text[i - 1], i)
    BY <2>0
  <2>2. 0 \in 0..n /\ \A i \in 1..n : i \in 0..n /\ i # 0
    BY <1>0
  <2> HIDE DEF n
  <2>3. QED
    BY <2>1, <2>2
<1> DEFINE S == {i \in 0..n : text[i] \in Seq(A)}
<1>9. ASSUME NEW i \in 0..(n - 1), i \in S PROVE i + 1 \in S
  <2>1. i + 1 \in 1..n /\ i + 1 \in 0..n /\ (i + 1) - 1 = i
    BY <1>0
  <2> HIDE DEF Line
  <2>2. text[i + 1] = (IF q[i + 1] = <<>> THEN text[i] ELSE Line(text[i], i + 1))
        /\ text[i] \in Seq(A)
    BY <1>8, <1>9, <2>1
  <2>3. QED
    BY <1>1, <2>1, <2>2
<1>10. \A i \in 0..n : i \in S
  <2>1. 0 \in S
    <3> HIDE DEF n
    <3>1. 0 \in 0..n
      BY <1>0
    <3>2. text[0] \in Seq(A)
      BY <1>0, <1>8
    <3>3. QED
      BY <3>1, <3>2
  <2> HIDE DEF S, n
  <2>2. QED
    BY <1>0, <1>9, <2>1, Induction, Zenon
<1>11. text \in [0..n -> Seq(A)]
  <2>1. text = [j \in 0..n |-> text[j]]
    BY <1>7
  <2>2. QED
    BY <1>10, <2>1
<1>12. WrittenTable(text, q)
  BY <1>8, Zenon DEF WrittenTable
<1>13. QED
  BY <1>7, <1>11, <1>12

-----------------------------------------------------------------------------
(* Reading a text back. *)
ReadTable(read, text) ==
  read[0] = NothingRead /\ \A i \in 1..Len(text) : read[i] = ReadChar(read[i - 1], text[i])

LEMMA LinesOfRead ==
  ASSUME NEW A, NEW text \in Seq(A)
  PROVE  \E read : /\ ReadTable(read, text)
                   /\ read[Len(text)].line = <<>> => LinesOf(text) = read[Len(text)].lines
<1> DEFINE n == Len(text)
           V == [lines : Seq(Seq(A)), line : Seq(A)]
           Is(f) == f = [i \in 0..Len(text) |->
                           IF i = 0 THEN NothingRead ELSE ReadChar(f[i - 1], text[i])]
           next == [p \in (1..n) \X V |-> ReadChar(p[2], text[p[1]])]
<1>0. n \in Nat /\ (\A i \in 1..n : text[i] \in A) /\ NothingRead \in V
  <2>1. <<>> \in Seq(A) /\ <<>> \in Seq(Seq(A))
    BY EmptySeq
  <2>2. QED
    BY <2>1, LenProperties, ElementOfSeq DEF NothingRead
<1>1. ASSUME NEW v \in V, NEW c \in A PROVE ReadChar(v, c) \in V
  <2>1. v.lines \in Seq(Seq(A)) /\ v.line \in Seq(A) /\ <<>> \in Seq(A)
    BY EmptySeq
  <2>2. Append(v.lines, v.line) \in Seq(Seq(A)) /\ Append(v.line, c) \in Seq(A)
    BY <2>1, AppendProperties
  <2>3. QED
    BY <2>1, <2>2 DEF ReadChar
<1> HIDE DEF V
<1>2. next \in [(1..n) \X V -> V]
  <2> HIDE DEF n
  <2>1. \A p \in (1..n) \X V : p[1] \in 1..n /\ p[2] \in V
    OBVIOUS
  <2>2. \A p \in (1..n) \X V : ReadChar(p[2], text[p[1]]) \in V
    BY <1>0, <1>1, <2>1
  <2>3. QED
    BY <2>2
<1>3. \A i \in 1..n, v \in V : next[<<i, v>>] = ReadChar(v, text[i])
  OBVIOUS
<1> HIDE DEF next
<1>4. PICK f \in [0..n -> V] : Iterates(f, n, NothingRead, next)
  <2> HIDE DEF n
  <2>1. QED
    BY <1>0, <1>2, Iteration, Zenon
<1>5. f[0] = NothingRead /\ \A i \in 1..n : f[i] = ReadChar(f[i - 1], text[i])
  <2> HIDE DEF n
  <2>1. \A i \in 1..n : f[i - 1] \in V
    BY <1>0
  <2>2. QED
    BY <1>3, <1>4, <2>1 DEF Iterates
<1>6. Is(f)
  <2>1. \A i \in 0..n : i = 0 \/ (i # 0 /\ i \in 1..n)
    BY <1>0
  <2>2. \A i \in 0..n : f[i] = IF i = 0 THEN NothingRead ELSE ReadChar(f[i - 1], text[i])
    BY <1>5, <2>1, Zenon
  <2>3. QED
    BY <2>2
<1> DEFINE read == CHOOSE g : Is(g)
<1>7. /\ Is(read)
      /\ LinesOf(text) = IF read[n].line = <<>> THEN read[n].lines
                         ELSE Append(read[n].lines, read[n].line)
  BY <1>6, Zenon DEF LinesOf
<1> HIDE DEF read
<1>8. read[0] = NothingRead /\ \A i \in 1..n : read[i] = ReadChar(read[i - 1], text[i])
  <2>1. \A i \in 0..n : read[i] = IF i = 0 THEN NothingRead ELSE ReadChar(read[i - 1], text[i])
    BY <1>7
  <2>2. 0 \in 0..n /\ \A i \in 1..n : i \in 0..n /\ i # 0
    BY <1>0
  <2> HIDE DEF n
  <2>3. QED
    BY <2>1, <2>2
<1>9. QED
  BY <1>7, <1>8 DEF ReadTable

(* A text without a line end, and the line end behind it, make a line.      *)
LineAt(text, k, p) ==
  /\ k + Len(p) + 1 <= Len(text)
  /\ \A j \in 1..Len(p) : text[k + j] = p[j]
  /\ text[k + Len(p) + 1] = NewLine

LEMMA ReadLine ==
  ASSUME NEW A, NewLine \notin A, NEW p \in Seq(A), NEW k \in Nat, NEW text, NEW read, NEW L,
         ReadTable(read, text), Len(text) \in Nat, LineAt(text, k, p),
         read[k] = [lines |-> L, line |-> <<>>]
  PROVE  read[k + Len(p) + 1] = [lines |-> Append(L, p), line |-> <<>>]
<1> DEFINE m == Len(p)
           part(j) == SubSeq(p, 1, j)
           S == {j \in 0..m : read[k + j] = [lines |-> L, line |-> part(j)]}
<1>0. m \in Nat /\ \A j \in 1..m : p[j] \in A /\ p[j] # NewLine
  BY LenProperties, ElementOfSeq
<1>a. /\ k + m + 1 <= Len(text) /\ text[k + m + 1] = NewLine
      /\ \A j \in 1..m : text[k + j] = p[j]
  BY DEF LineAt
<1>1. \A j \in 0..m : part(j) \in Seq(A) /\ Len(part(j)) = j /\ \A i \in 1..j : part(j)[i] = p[i]
  BY <1>0
<1>2. ASSUME NEW j \in 0..(m - 1) PROVE Append(part(j), p[j + 1]) = part(j + 1)
  <2>1. j \in 0..m /\ j + 1 \in 0..m /\ j + 1 \in 1..m /\ j \in Nat
    BY <1>0
  <2> DEFINE s == part(j)
             t == part(j + 1)
             a == Append(s, p[j + 1])
  <2>2. s \in Seq(A) /\ Len(s) = j /\ \A i \in 1..j : s[i] = p[i]
    BY <1>1, <2>1
  <2>3. t \in Seq(A) /\ Len(t) = j + 1 /\ \A i \in 1..j + 1 : t[i] = p[i]
    BY <1>1, <2>1
  <2>4. p[j + 1] \in A
    BY <1>0, <2>1
  <2> HIDE DEF s, t, m
  <2>5. a \in Seq(A) /\ Len(a) = j + 1 /\ \A i \in 1..j + 1 : a[i] = p[i]
    BY <2>1, <2>2, <2>4
  <2> HIDE DEF a
  <2>6. a = t
    BY <2>3, <2>5, SeqEqual
  <2>7. QED
    BY <2>6 DEF a, s, t
<1>3. part(0) = <<>> /\ part(m) = p
  <2>1. part(0) \in Seq(A) /\ Len(part(0)) = 0
    BY <1>0, <1>1
  <2>2. part(m) \in Seq(A) /\ Len(part(m)) = Len(p) /\ \A i \in 1..m : part(m)[i] = p[i]
    BY <1>0, <1>1
  <2> HIDE DEF part
  <2>3. part(0) = <<>>
    BY <2>1, EmptySeq
  <2>4. part(m) = p
    BY <2>2, SeqEqual
  <2>5. QED
    BY <2>3, <2>4
<1> HIDE DEF part
<1>4. ASSUME NEW j \in 0..(m - 1), j \in S PROVE j + 1 \in S
  <2>1. j + 1 \in 0..m /\ j + 1 \in 1..m /\ k + (j + 1) \in 1..Len(text)
        /\ (k + (j + 1)) - 1 = k + j
    BY <1>0, <1>a
  <2> DEFINE i == k + (j + 1)
  <2>2. read[i] = ReadChar(read[i - 1], text[i])
    BY <2>1 DEF ReadTable
  <2>3. text[i] = p[j + 1] /\ p[j + 1] # NewLine /\ read[i - 1] = [lines |-> L, line |-> part(j)]
    BY <1>0, <1>a, <1>4, <2>1
  <2> HIDE DEF i
  <2>4. read[i] = [lines |-> L, line |-> Append(part(j), p[j + 1])]
    BY <2>2, <2>3 DEF ReadChar
  <2>5. read[i] = [lines |-> L, line |-> part(j + 1)]
    BY <1>2, <2>4
  <2>6. QED
    BY <2>1, <2>5 DEF i
<1>5. m \in S
  <2>1. 0 \in S
    <3>1. 0 \in 0..m /\ k + 0 = k
      BY <1>0
    <3>2. QED
      BY <1>3, <3>1
  <2> HIDE DEF S, m
  <2>2. \A j \in 0..m : j \in S
    BY <1>0, <1>4, <2>1, Induction, Zenon
  <2>3. m \in 0..m
    BY <1>0
  <2>4. QED
    BY <2>2, <2>3
<1>6. read[k + m] = [lines |-> L, line |-> p]
  BY <1>3, <1>5
<1>7. k + m + 1 \in 1..Len(text) /\ (k + m + 1) - 1 = k + m
  BY <1>0, <1>a
<1>8. read[k + m + 1] = ReadChar(read[k + m], NewLine)
  BY <1>a, <1>7 DEF ReadTable
<1>9. QED
  BY <1>6, <1>8 DEF ReadChar

(* What a line adds to the text in front of it.                            *)
LEMMA LineOf ==
  ASSUME NEW B, NEW v \in Seq(B), NEW p \in Seq(B), NewLine \in B
  PROVE  LET t == v \o p \o <<NewLine>>
         IN  /\ t \in Seq(B) /\ Len(t) = Len(v) + Len(p) + 1
             /\ \A j \in 1..Len(v) : t[j] = v[j]
             /\ \A j \in 1..Len(p) : t[Len(v) + j] = p[j]
             /\ t[Len(v) + Len(p) + 1] = NewLine
<1> DEFINE e == <<NewLine>>
           a == v \o p
           t == a \o e
<1>1. e \in Seq(B) /\ Len(e) = 1 /\ e[1] = NewLine
  OBVIOUS
<1>2. Len(v) \in Nat /\ Len(p) \in Nat
  BY LenProperties
<1>3. /\ a \in Seq(B) /\ Len(a) = Len(v) + Len(p)
      /\ \A j \in 1..Len(v) + Len(p) : a[j] = IF j <= Len(v) THEN v[j] ELSE p[j - Len(v)]
  BY ConcatProperties, Zenon
<1> HIDE DEF e, a
<1>3a. a \in Seq(B) /\ e \in Seq(B)
  BY <1>1, <1>3
<1>4. /\ t \in Seq(B) /\ Len(t) = Len(a) + Len(e)
      /\ \A j \in 1..Len(a) + Len(e) : t[j] = IF j <= Len(a) THEN a[j] ELSE e[j - Len(a)]
  BY <1>3a, ConcatProperties, Zenon
<1> HIDE DEF t
<1>5. ASSUME NEW j \in 1..Len(v) PROVE t[j] = v[j]
  <2>1. j \in 1..Len(v) + Len(p) /\ j <= Len(v) /\ j \in 1..Len(a) + Len(e) /\ j <= Len(a)
    BY <1>1, <1>2, <1>3
  <2>2. QED
    BY <1>3, <1>4, <2>1
<1>6. ASSUME NEW j \in 1..Len(p) PROVE t[Len(v) + j] = p[j]
  <2> DEFINE i == Len(v) + j
  <2>1. i \in 1..Len(v) + Len(p) /\ ~ (i <= Len(v)) /\ i \in 1..Len(a) + Len(e) /\ i <= Len(a)
        /\ i - Len(v) = j
    BY <1>1, <1>2, <1>3
  <2> HIDE DEF i
  <2>2. t[i] = p[j]
    BY <1>3, <1>4, <2>1
  <2>3. QED
    BY <2>2 DEF i
<1>7. t[Len(v) + Len(p) + 1] = NewLine
  <2> DEFINE i == Len(v) + Len(p) + 1
  <2>1. i \in 1..Len(a) + Len(e) /\ ~ (i <= Len(a)) /\ i - Len(a) = 1
    BY <1>1, <1>2, <1>3
  <2> HIDE DEF i
  <2>2. t[i] = NewLine
    BY <1>1, <1>4, <2>1
  <2>3. QED
    BY <2>2 DEF i
<1>8. Len(t) = Len(v) + Len(p) + 1
  BY <1>1, <1>3, <1>4
<1>9. QED
  BY <1>4, <1>5, <1>6, <1>7, <1>8 DEF t, a, e

(* Nothing that was written is changed by what is written later.            *)
Grows(w, n) ==
  \A i \in 0..n : /\ Len(w[i]) <= Len(w[n])
                  /\ \A j \in 1..Len(w[i]) : w[n][j] = w[i][j]

LEMMA WrittenGrows ==
  ASSUME NEW B, NewLine \in B, NEW q \in Seq(Seq(B)), NEW w \in [0..Len(q) -> Seq(B)],
         WrittenTable(w, q)
  PROVE  Grows(w, Len(q))
<1> DEFINE n == Len(q)
           Starts(i) == Len(w[i]) <= Len(w[n]) /\ \A j \in 1..Len(w[i]) : w[n][j] = w[i][j]
           S == {m \in 0..n : Starts(n - m)}
<1>0. n \in Nat /\ (\A i \in 1..n : q[i] \in Seq(B))
      /\ \A i \in 0..n : w[i] \in Seq(B) /\ Len(w[i]) \in Nat
  BY LenProperties, ElementOfSeq
<1>1. ASSUME NEW i \in 0..(n - 1), Starts(i + 1) PROVE Starts(i)
  <2>1. i + 1 \in 1..n /\ i + 1 \in 0..n /\ i \in 0..n /\ (i + 1) - 1 = i
    BY <1>0
  <2>2. Len(w[i]) <= Len(w[i + 1]) /\ \A j \in 1..Len(w[i]) : w[i + 1][j] = w[i][j]
    <3>1. CASE q[i + 1] = <<>>
      <4>1. w[i + 1] = w[i]
        BY <2>1, <3>1 DEF WrittenTable
      <4>2. QED
        BY <1>0, <2>1, <4>1
    <3>2. CASE q[i + 1] # <<>>
      <4>1. w[i + 1] = w[i] \o q[i + 1] \o <<NewLine>>
        BY <2>1, <3>2 DEF WrittenTable
      <4>2. w[i] \in Seq(B) /\ q[i + 1] \in Seq(B) /\ Len(w[i]) \in Nat /\ Len(q[i + 1]) \in Nat
        BY <1>0, <2>1, LenProperties
      <4>3. /\ Len(w[i + 1]) = Len(w[i]) + Len(q[i + 1]) + 1
            /\ \A j \in 1..Len(w[i]) : w[i + 1][j] = w[i][j]
        <5> DEFINE v == w[i]
                   p == q[i + 1]
                   t == v \o p \o <<NewLine>>
        <5>1. v \in Seq(B) /\ p \in Seq(B)
          BY <4>2
        <5> HIDE DEF v, p
        <5>2. Len(t) = Len(v) + Len(p) + 1 /\ \A j \in 1..Len(v) : t[j] = v[j]
          BY <5>1, LineOf
        <5> HIDE DEF t
        <5>3. w[i + 1] = t
          BY <4>1 DEF t, v, p
        <5>4. QED
          BY <5>2, <5>3 DEF v, p
      <4>4. Len(w[i]) <= Len(w[i + 1])
        <5>1. PICK a \in Nat, b \in Nat : a = Len(w[i]) /\ b = Len(q[i + 1])
          BY <4>2
        <5>2. Len(w[i + 1]) = a + b + 1
          BY <4>3, <5>1
        <5>3. a <= a + b + 1
          OBVIOUS
        <5>4. QED
          BY <5>1, <5>2, <5>3, Zenon
      <4>5. QED
        BY <4>3, <4>4
    <3>3. QED
      BY <3>1, <3>2
  <2>3. Len(w[i]) \in Nat /\ Len(w[i + 1]) \in Nat /\ Len(w[n]) \in Nat
    BY <1>0, <2>1
  <2>4. \A j \in 1..Len(w[i]) : j \in 1..Len(w[i + 1])
    BY <2>2, <2>3
  <2>5. Len(w[i]) <= Len(w[n])
    BY <1>1, <2>2, <2>3
  <2>6. QED
    BY <1>1, <2>2, <2>4, <2>5
<1>2. ASSUME NEW m \in 0..(n - 1), m \in S PROVE m + 1 \in S
  <2> DEFINE i == n - (m + 1)
  <2>1. i \in 0..(n - 1) /\ n - m = i + 1 /\ m + 1 \in 0..n
    BY <1>0
  <2> HIDE DEF i, Starts
  <2>2. Starts(i)
    BY <1>1, <1>2, <2>1
  <2>3. QED
    BY <2>1, <2>2 DEF i
<1>3. \A m \in 0..n : m \in S
  <2>1. 0 \in S
    <3>1. 0 \in 0..n /\ n - 0 = n
      BY <1>0
    <3>2. Starts(n)
      BY <1>0
    <3> HIDE DEF Starts
    <3>3. QED
      BY <3>1, <3>2
  <2> HIDE DEF S, n
  <2>2. QED
    BY <1>0, <1>2, <2>1, Induction, Zenon
<1>4. \A i \in 0..n : Starts(i)
  <2> HIDE DEF Starts
  <2> TAKE i \in 0..n
  <2>1. n - i \in 0..n /\ n - (n - i) = i
    BY <1>0
  <2>2. QED
    BY <1>3, <2>1
<1>5. QED
  BY <1>4 DEF Grows

(* Packets without a line end come back from the text as they went in, but   *)
(* for the empty ones, in order.                                           *)
LEMMA TextRoundTrip ==
  ASSUME NEW A, NewLine \notin A, NEW q \in Seq(Seq(A))
  PROVE  LinesOf(Written(q)) = NotEmpty(q)
<1> DEFINE n == Len(q)
           B == A \union {NewLine}
<1>0. n \in Nat /\ (\A i \in 1..n : q[i] \in Seq(A)) /\ NewLine \in B
      /\ (\A p \in Seq(A) : p \in Seq(B))
  BY LenProperties, ElementOfSeq
<1>1. q \in Seq(Seq(B))
  BY <1>0
<1> HIDE DEF B
<1>2. PICK w \in [0..n -> Seq(B)] : WrittenTable(w, q) /\ Written(q) = w[n]
  BY <1>0, <1>1, WrittenOf
<1>3. PICK kept : KeptTable(kept, q) /\ NotEmpty(q) = kept[n]
  BY NotEmptyOf
<1> DEFINE text == w[n]
<1>4. text \in Seq(B) /\ Len(text) \in Nat /\ \A i \in 0..n : w[i] \in Seq(B) /\ Len(w[i]) \in Nat
  BY <1>0, LenProperties
<1>5. PICK read : /\ ReadTable(read, text)
                  /\ read[Len(text)].line = <<>> => LinesOf(text) = read[Len(text)].lines
  BY <1>4, LinesOfRead
<1>6. \A i \in 0..n : Len(w[i]) <= Len(text) /\ \A j \in 1..Len(w[i]) : text[j] = w[i][j]
  <2>1. Grows(w, n)
    BY <1>1, <1>0, <1>2, WrittenGrows
  <2>2. QED
    BY <2>1 DEF Grows
<1> HIDE DEF text
<1> DEFINE S == {i \in 0..n : read[Len(w[i])] = [lines |-> kept[i], line |-> <<>>]}
<1>7. ASSUME NEW i \in 0..(n - 1), i \in S PROVE i + 1 \in S
  <2>1. i + 1 \in 1..n /\ i + 1 \in 0..n /\ i \in 0..n /\ (i + 1) - 1 = i
    BY <1>0
  <2> DEFINE p == q[i + 1]
             k == Len(w[i])
  <2>2. p \in Seq(A) /\ p \in Seq(B) /\ k \in Nat /\ Len(p) \in Nat
    BY <1>0, <1>4, <2>1, LenProperties
  <2>3. read[k] = [lines |-> kept[i], line |-> <<>>]
    BY <1>7
  <2>4. CASE p = <<>>
    <3>1. w[i + 1] = w[i] /\ kept[i + 1] = kept[i]
      BY <1>2, <1>3, <2>1, <2>4 DEF WrittenTable, KeptTable
    <3>2. QED
      BY <2>1, <2>3, <3>1
  <2>5. CASE p # <<>>
    <3>1. w[i + 1] = w[i] \o p \o <<NewLine>> /\ kept[i + 1] = Append(kept[i], p)
      BY <1>2, <1>3, <2>1, <2>5 DEF WrittenTable, KeptTable
    <3>2. w[i] \in Seq(B)
      BY <1>4, <2>1
    <3> DEFINE t == w[i + 1]
    <3>3. /\ Len(t) = k + Len(p) + 1
          /\ \A j \in 1..Len(p) : t[k + j] = p[j]
          /\ t[k + Len(p) + 1] = NewLine
      <4>1. LET s == w[i] \o p \o <<NewLine>>
            IN  /\ Len(s) = Len(w[i]) + Len(p) + 1
                /\ \A j \in 1..Len(p) : s[Len(w[i]) + j] = p[j]
                /\ s[Len(w[i]) + Len(p) + 1] = NewLine
        BY <1>0, <2>2, <3>2, LineOf
      <4>2. QED
        BY <3>1, <4>1
    <3>4. Len(t) <= Len(text) /\ \A j \in 1..Len(t) : text[j] = t[j]
      BY <1>6, <2>1
    <3> HIDE DEF p, k, t
    <3>5. k + Len(p) + 1 \in 1..Len(t) /\ \A j \in 1..Len(p) : k + j \in 1..Len(t)
      BY <2>2, <3>3
    <3>6. k + Len(p) + 1 <= Len(text)
      BY <3>3, <3>4
    <3>7. LineAt(text, k, p)
      BY <3>3, <3>4, <3>5, <3>6 DEF LineAt
    <3>8. read[k + Len(p) + 1] = [lines |-> Append(kept[i], p), line |-> <<>>]
      <4>1. ReadTable(read, text) /\ Len(text) \in Nat /\ p \in Seq(A) /\ k \in Nat
        BY <1>4, <1>5, <2>2
      <4> DEFINE L == kept[i]
      <4>2. read[k] = [lines |-> L, line |-> <<>>]
        BY <2>3
      <4> HIDE DEF L
      <4>3. read[k + Len(p) + 1] = [lines |-> Append(L, p), line |-> <<>>]
        BY <3>7, <4>1, <4>2, ReadLine
      <4>4. QED
        BY <4>3 DEF L
    <3>9. read[Len(t)] = [lines |-> kept[i + 1], line |-> <<>>]
      BY <3>1, <3>3, <3>8
    <3>10. QED
      BY <2>1, <3>9 DEF t
  <2>6. QED
    BY <2>4, <2>5
<1>8. n \in S
  <2>1. 0 \in S
    <3>1. w[0] = <<>> /\ kept[0] = <<>> /\ 0 \in 0..n
      BY <1>0, <1>2, <1>3 DEF WrittenTable, KeptTable
    <3>2. Len(w[0]) = 0
      BY <3>1
    <3>3. read[0] = [lines |-> kept[0], line |-> <<>>]
      BY <1>5, <3>1 DEF ReadTable, NothingRead
    <3>4. QED
      BY <3>1, <3>2, <3>3
  <2> HIDE DEF S, n
  <2>2. \A i \in 0..n : i \in S
    BY <1>0, <1>7, <2>1, Induction, Zenon
  <2>3. n \in 0..n
    BY <1>0
  <2>4. QED
    BY <2>2, <2>3
<1>9. read[Len(text)] = [lines |-> kept[n], line |-> <<>>]
  BY <1>8 DEF text
<1>10. QED
  BY <1>2, <1>3, <1>5, <1>9 DEF text

-----------------------------------------------------------------------------
(* Nothing is dropped from a sequence without an empty element.            *)
LEMMA NotEmptyIsWhole ==
  ASSUME NEW A, NEW q \in Seq(A), \A i \in 1..Len(q) : q[i] # <<>>
  PROVE  NotEmpty(q) = q
<1> DEFINE n == Len(q)
<1>0. n \in Nat /\ \A i \in 1..n : q[i] \in A
  BY LenProperties, ElementOfSeq
<1>1. PICK kept : KeptTable(kept, q) /\ NotEmpty(q) = kept[n]
  BY NotEmptyOf
<1>2. kept[0] = <<>> /\ \A i \in 1..n : kept[i] = Append(kept[i - 1], q[i])
  BY <1>1 DEF KeptTable
<1> HIDE DEF n
<1> DEFINE Same(s, i) == s \in Seq(A) /\ Len(s) = i /\ \A j \in 1..i : s[j] = q[j]
           S == {i \in 0..n : Same(kept[i], i)}
<1>3. ASSUME NEW i \in 0..(n - 1), i \in S PROVE i + 1 \in S
  <2>1. i + 1 \in 1..n /\ i + 1 \in 0..n /\ (i + 1) - 1 = i /\ i \in Nat
    BY <1>0
  <2> DEFINE s == kept[i]
             t == kept[i + 1]
             c == q[i + 1]
  <2>2. c \in A /\ t = Append(s, c) /\ Same(s, i)
    BY <1>0, <1>2, <1>3, <2>1
  <2> HIDE DEF s, t
  <2>3. t \in Seq(A) /\ Len(t) = i + 1 /\ \A j \in 1..i + 1 : t[j] = q[j]
    BY <2>1, <2>2
  <2>4. QED
    BY <2>1, <2>3 DEF t
<1>4. n \in S
  <2>1. 0 \in S
    <3>1. 0 \in 0..n /\ kept[0] \in Seq(A) /\ Len(kept[0]) = 0
      BY <1>0, <1>2, EmptySeq
    <3>2. QED
      BY <3>1
  <2> HIDE DEF S
  <2>2. \A i \in 0..n : i \in S
    BY <1>0, <1>3, <2>1, Induction, Zenon
  <2>3. n \in 0..n
    BY <1>0
  <2>4. QED
    BY <2>2, <2>3
<1>5. kept[n] \in Seq(A) /\ Len(kept[n]) = Len(q) /\ \A j \in 1..Len(q) : kept[n][j] = q[j]
  BY <1>4 DEF n
<1>6. kept[n] = q
  BY <1>5, SeqEqual
<1>7. QED
  BY <1>1, <1>6

(* What is kept of a queue is not empty.                                   *)
LEMMA NotEmptyKeeps ==
  ASSUME NEW A, <<>> \notin A, NEW q \in Seq(A \union {<<>>})
  PROVE  NotEmpty(q) \in Seq(A)
<1> DEFINE n == Len(q)
<1>0. n \in Nat /\ \A i \in 1..n : q[i] \in A \union {<<>>}
  BY LenProperties, ElementOfSeq
<1>1. PICK kept : KeptTable(kept, q) /\ NotEmpty(q) = kept[n]
  BY NotEmptyOf
<1> DEFINE S == {i \in 0..n : kept[i] \in Seq(A)}
<1>2. ASSUME NEW i \in 0..(n - 1), i \in S PROVE i + 1 \in S
  <2>1. i + 1 \in 1..n /\ i + 1 \in 0..n /\ (i + 1) - 1 = i
    BY <1>0
  <2>2. kept[i] \in Seq(A)
    BY <1>2
  <2>3. CASE q[i + 1] = <<>>
    <3>1. kept[i + 1] = kept[i]
      BY <1>1, <2>1, <2>3 DEF KeptTable
    <3>2. QED
      BY <2>1, <2>2, <3>1
  <2>4. CASE q[i + 1] # <<>>
    <3>1. kept[i + 1] = Append(kept[i], q[i + 1])
      BY <1>1, <2>1, <2>4 DEF KeptTable
    <3>2. q[i + 1] \in A
      BY <1>0, <2>1, <2>4
    <3>3. kept[i + 1] \in Seq(A)
      BY <2>2, <3>1, <3>2, AppendProperties
    <3>4. QED
      BY <2>1, <3>3
  <2>5. QED
    BY <2>3, <2>4
<1>3. n \in S
  <2>1. 0 \in S
    <3>1. 0 \in 0..n
      BY <1>0
    <3>2. kept[0] \in Seq(A)
      BY <1>1, EmptySeq DEF KeptTable
    <3>3. QED
      BY <3>1, <3>2
  <2> HIDE DEF S, n
  <2>2. \A i \in 0..n : i \in S
    BY <1>0, <1>2, <2>1, Induction, Zenon
  <2>3. n \in 0..n
    BY <1>0
  <2>4. QED
    BY <2>2, <2>3
<1>4. QED
  BY <1>1, <1>3

-----------------------------------------------------------------------------
(* What becomes of a packet when it is read back: 06 becomes 21, the @ goes. *)
Replayed(b) == <<"$", "2", "1", b>>

LEMMA ReplayOpen == ASSUME NEW b \in Body PROVE Replay(Open(b)) = Replayed(b)
<1> DEFINE E == {"$", "0", "6", "2", "1", "@", b}
           s == Open(b)
           head == <<"$", "2", "1">>
           tail == SubSeq(s, 4, Len(s))
           r == Replayed(b)
<1>1. /\ s \in Seq(E) /\ Len(s) = 4 /\ s[1] = "$" /\ s[4] = b
  BY DEF Open
<1>2. /\ head \in Seq(E) /\ Len(head) = 3
      /\ head[1] = "$" /\ head[2] = "2" /\ head[3] = "1"
  OBVIOUS
<1>3. /\ r \in Seq(E) /\ Len(r) = 4
      /\ r[1] = "$" /\ r[2] = "2" /\ r[3] = "1" /\ r[4] = b
  BY DEF Replayed
<1>4. b # "@" /\ r # <<>>
  BY DEF Body, Replayed
<1> HIDE DEF E, s, head, r
<1>5. tail \in Seq(E) /\ Len(tail) = 1 /\ tail[1] = b
  BY <1>1
<1> HIDE DEF tail
<1>6. /\ head \o tail \in Seq(E) /\ Len(head \o tail) = Len(head) + Len(tail)
      /\ \A i \in 1..Len(head) + Len(tail) :
           (head \o tail)[i] = IF i <= Len(head) THEN head[i] ELSE tail[i - Len(head)]
  BY <1>2, <1>5, ConcatProperties, Zenon
<1>7. /\ Len(head \o tail) = 4
      /\ \A i \in 1..4 : (head \o tail)[i] = IF i <= 3 THEN head[i] ELSE tail[i - 3]
  BY <1>2, <1>5, <1>6
<1>8. \A i \in 1..4 : (head \o tail)[i] = r[i]
  BY <1>2, <1>3, <1>5, <1>7
<1>9. head \o tail = r
  BY <1>3, <1>6, <1>7, <1>8, SeqEqual
<1>10. Last(r) = b
  BY <1>3 DEF Last
<1>11. Replay(s) = r
  <2>1. Len(s) >= 3 /\ s[1] = "$"
    BY <1>1
  <2>2. Replay(s) = IF r # <<>> /\ Last(r) = "@" THEN Front(r) ELSE r
    BY <1>9, <2>1 DEF Replay, head, tail
  <2>3. QED
    BY <1>4, <1>10, <2>2
<1>12. QED
  BY <1>11 DEF s, r

LEMMA ReplayWhole == ASSUME NEW b \in Body PROVE Replay(Whole(b)) = Replayed(b)
<1> DEFINE E == {"$", "0", "6", "2", "1", "@", b}
           s == Whole(b)
           head == <<"$", "2", "1">>
           tail == SubSeq(s, 4, Len(s))
           r == Replayed(b)
           m == head \o tail
<1>1. /\ s \in Seq(E) /\ Len(s) = 5 /\ s[1] = "$" /\ s[4] = b /\ s[5] = "@"
  BY DEF Whole
<1>2. /\ head \in Seq(E) /\ Len(head) = 3
      /\ head[1] = "$" /\ head[2] = "2" /\ head[3] = "1"
  OBVIOUS
<1>3. /\ r \in Seq(E) /\ Len(r) = 4
      /\ r[1] = "$" /\ r[2] = "2" /\ r[3] = "1" /\ r[4] = b
  BY DEF Replayed
<1> HIDE DEF E, s, head, r
<1>4. tail \in Seq(E) /\ Len(tail) = 2 /\ tail[1] = b /\ tail[2] = "@"
  <2>1. /\ SubSeq(s, 4, 5) \in Seq(E) /\ Len(SubSeq(s, 4, 5)) = 2
        /\ \A i \in 1..2 : SubSeq(s, 4, 5)[i] = s[4 + i - 1]
    <3>1. \A i \in 4..5 : s[i] \in E
      <4>1. \A i \in 4..5 : i = 4 \/ i = 5
        OBVIOUS
      <4>2. QED
        BY <1>1, <4>1 DEF E
    <3>2. SubSeq(s, 4, 5) \in Seq(E)
      BY <3>1, SMT
    <3>3. Len(SubSeq(s, 4, 5)) = 2
      OBVIOUS
    <3>4. \A i \in 1..2 : SubSeq(s, 4, 5)[i] = s[4 + i - 1]
      OBVIOUS
    <3>5. QED
      BY <3>2, <3>3, <3>4
  <2>2. SubSeq(s, 4, 5)[1] = s[4] /\ SubSeq(s, 4, 5)[2] = s[5]
    BY <2>1
  <2>3. QED
    BY <1>1, <2>1, <2>2
<1> HIDE DEF tail
<1>5. /\ m \in Seq(E) /\ Len(m) = Len(head) + Len(tail)
      /\ \A i \in 1..Len(head) + Len(tail) :
           m[i] = IF i <= Len(head) THEN head[i] ELSE tail[i - Len(head)]
  BY <1>2, <1>4, ConcatProperties, Zenon
<1> HIDE DEF m
<1>6. /\ Len(m) = 5
      /\ \A i \in 1..5 : m[i] = IF i <= 3 THEN head[i] ELSE tail[i - 3]
  BY <1>2, <1>4, <1>5
<1>7. m[1] = "$" /\ m[2] = "2" /\ m[3] = "1" /\ m[4] = b /\ m[5] = "@"
  BY <1>2, <1>4, <1>6
<1>8. m # <<>> /\ Last(m) = "@" /\ Front(m) = SubSeq(m, 1, 4)
  <2>1. m # <<>> /\ m[Len(m)] = "@" /\ Len(m) - 1 = 4
    BY <1>6, <1>7
  <2>2. QED
    BY <2>1, Zenon DEF Last, Front
<1>9. SubSeq(m, 1, 4) \in Seq(E) /\ Len(SubSeq(m, 1, 4)) = 4
      /\ \A i \in 1..4 : SubSeq(m, 1, 4)[i] = m[i]
  <2>1. 1 \in 1..Len(m) + 1 /\ 4 \in 0..Len(m)
    BY <1>6
  <2>2. QED
    BY <1>5, <1>6, <2>1
<1>10. \A i \in 1..4 : m[i] = r[i]
  BY <1>3, <1>7
<1>11. SubSeq(m, 1, 4) = r
  BY <1>3, <1>9, <1>10, SeqEqual
<1>12. Replay(s) = r
  <2>1. Len(s) >= 3 /\ s[1] = "$"
    BY <1>1
  <2>2. Replay(s) = IF m # <<>> /\ Last(m) = "@" THEN Front(m) ELSE m
    BY <2>1 DEF Replay, m, head, tail
  <2>3. QED
    BY <1>8, <1>11, <2>2
<1>13. QED
  BY <1>12 DEF s, r

-----------------------------------------------------------------------------
(* A queue of any length comes back from the store file: every packet, once, *)
(* in order, as command 21; only the empty text of a round without a buffer  *)
(* drops out.                                                              *)
LEMMA QueueRoundTrip ==
  ASSUME NEW q \in Seq(Texts)
  PROVE  LET packets == NotEmpty(q)
             sent == readFromFile(Written(q))
         IN  /\ packets \in Seq(Texts \ {<<>>}) /\ Len(sent) = Len(packets)
             /\ \A i \in DOMAIN packets : \E b \in Body :
                  packets[i] \in {Open(b), Whole(b)} /\ sent[i] = Replayed(b)
<1> DEFINE A == {"$", "0", "6", "@", "nofix", "fix"}
           packets == NotEmpty(q)
           sent == readFromFile(Written(q))
           P == Texts \ {<<>>}
<1>1. NewLine \notin A
  BY DEF NewLine
<1>2. ASSUME NEW t \in Texts PROVE t \in Seq(A)
  <2>1. CASE t = <<>>
    BY <2>1, EmptySeq
  <2>2. ASSUME NEW b \in Body, t = Open(b) PROVE t \in Seq(A)
    BY <2>2 DEF Body, Open
  <2>3. ASSUME NEW b \in Body, t = Whole(b) PROVE t \in Seq(A)
    BY <2>3 DEF Body, Whole
  <2>4. QED
    BY <2>1, <2>2, <2>3 DEF Texts, WholeTexts
<1> HIDE DEF A
<1>3. q \in Seq(Seq(A))
  BY <1>2
<1>4. LinesOf(Written(q)) = packets
  BY <1>1, <1>3, TextRoundTrip
<1>5. packets \in Seq(P)
  <2>1. <<>> \notin P /\ \A t \in Texts : t \in P \union {<<>>}
    OBVIOUS
  <2> HIDE DEF P
  <2>2. q \in Seq(P \union {<<>>})
    BY <2>1
  <2>3. QED
    BY <2>1, <2>2, NotEmptyKeeps
<1>6. \A i \in 1..Len(packets) : packets[i] \in P
  BY <1>5, ElementOfSeq
<1>7. NotEmpty(packets) = packets
  BY <1>5, <1>6, NotEmptyIsWhole
<1> HIDE DEF packets
<1>8. sent = [i \in DOMAIN packets |-> Replay(packets[i])]
  BY <1>4, <1>7 DEF readFromFile
<1>9. DOMAIN packets = 1..Len(packets) /\ Len(packets) \in Nat
  BY <1>5, LenProperties
<1> HIDE DEF sent
<1>10. Len(sent) = Len(packets)
  BY <1>8, <1>9
<1>11. ASSUME NEW i \in DOMAIN packets
       PROVE  \E b \in Body : packets[i] \in {Open(b), Whole(b)} /\ sent[i] = Replayed(b)
  <2>1. packets[i] \in P
    BY <1>6, <1>9
  <2>2. PICK b \in Body : packets[i] \in {Open(b), Whole(b)}
    BY <2>1 DEF Texts, WholeTexts
  <2>3. sent[i] = Replayed(b)
    BY <1>8, <2>2, ReplayOpen, ReplayWhole
  <2>4. QED
    BY <2>2, <2>3
<1>12. QED
  BY <1>5, <1>10, <1>11 DEF packets, sent

(* Whenever the process ends, what is left in transmit is read back packet   *)
(* by packet, in order, with nothing but the command and the @ changed        *)
(* (protocol_process.cpp:134-201).                                         *)
THEOREM StoreRoundTrip == Spec => []StoredIsReplayed
<1>1. PackInv => StoredIsReplayed
  <2> SUFFICES ASSUME PackInv PROVE StoredIsReplayed
    OBVIOUS
  <2> DEFINE packets == NotEmpty(transmit)
             sent == readFromFile(Written(transmit))
  <2>1. transmit \in Seq(Texts)
    BY DEF PackInv
  <2>2. /\ Len(sent) = Len(packets)
        /\ \A i \in DOMAIN packets : \E b \in Body :
             packets[i] \in {Open(b), Whole(b)} /\ sent[i] = Replayed(b)
    BY <2>1, QueueRoundTrip
  <2> HIDE DEF packets, sent
  <2>3. \A i \in DOMAIN packets : \E b \in {"nofix", "fix"} :
          /\ packets[i] \in {<<"$", "0", "6", b>>, <<"$", "0", "6", b, "@">>}
          /\ sent[i] = <<"$", "2", "1", b>>
    BY <2>2, Zenon DEF Body, Open, Whole, Replayed
  <2>4. QED
    BY <2>2, <2>3, Zenon DEF StoredIsReplayed, packets, sent
<1>2. QED
  BY <1>1, PipelineInv, PTL
=============================================================================
