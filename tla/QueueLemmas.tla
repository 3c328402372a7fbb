------------------------------ MODULE QueueLemmas ------------------------------
(***************************************************************************)
(* What the proofs about both queues rest on: rounding up to a power of    *)
(* two, indices that wrap around and are masked, and runs of numbers.      *)
(*                                                                         *)
(* A proof by induction is one of the least number for which the fact      *)
(* would fail.                                                             *)
(***************************************************************************)
EXTENDS PowersOfTwo, Integers, SequenceTheorems, WellFoundedInduction, TLAPS

(* A set of numbers that is not empty has a least one.                     *)
LEMMA LeastNumber ==
    ASSUME NEW S \in SUBSET Nat, S # {}
    PROVE  \E n \in S : \A m \in S : n <= m
<1> DEFINE R == {ss \in Nat \X Nat : ss[1] < ss[2]}
<1>1. IsWellFoundedOn(R, Nat)
  BY NatLessThanWellFounded DEF OpToRel
<1>2. PICK n \in S : \A m \in S : <<m, n>> \notin R
  BY <1>1, WFMin
<1>3. \A m \in S : ~(m < n)
  BY <1>2
<1> QED  BY <1>3

-----------------------------------------------------------------------------
(* Powers of two: f doubles from 1 on, up to n.                            *)
Doubles(f, n) == 
   /\ f \in [0 .. n -> Nat]
   /\ \A i \in 0 .. n : f[i] = IF i = 0 THEN 1 ELSE 2 * f[i - 1]

(* Two ways agree as far as both go ...                                    *)
LEMMA DoublesUnique ==
   ASSUME NEW n \in Nat, NEW m \in Nat, NEW f, NEW g, Doubles(f, n), Doubles(g, m), n <= m
   PROVE \A i \in 0 .. n : f[i] = g[i]
<1> DEFINE D == {i \in 0 .. n : f[i] # g[i]}
<1> SUFFICES ASSUME D # {} PROVE FALSE
  OBVIOUS
<1>0. D \in SUBSET Nat
  OBVIOUS
<1>1. PICK i \in D : \A j \in D : i <= j
  BY <1>0, LeastNumber
<1>2. CASE i = 0
  BY <1>1, <1>2 DEF Doubles
<1>3. CASE i # 0
  <2>1. i - 1 \in 0 .. n /\ i - 1 \notin D
    BY <1>1, <1>3
  <2> QED BY <2>1, <1>3 DEF Doubles
<1> QED BY <1>2, <1>3

(* ... there is one up to any number ...                                   *)
LEMMA DoublesExists == \A n \in Nat : \E f : Doubles(f, n)
<1> DEFINE D == {n \in Nat : ~ \E f : Doubles(f, n)}
<1> SUFFICES ASSUME D # {} PROVE FALSE
  OBVIOUS
<1>0. D \in SUBSET Nat
  OBVIOUS
<1>1. PICK n \in D : \A m \in D : n <= m
  BY <1>0, LeastNumber
<1>2. CASE n = 0
  <2>1. Doubles([i \in 0 .. 0 |-> 1], 0)
    BY DEF Doubles
  <2> QED BY <2>1, <1>2
<1>3. CASE n # 0
  <2>1. n - 1 \in Nat /\ n - 1 \notin D
    BY <1>1, <1>3
  <2>2. PICK f : Doubles(f, n - 1)
    BY <2>1
  <2>3. Doubles([i \in 0 .. n |-> IF i = n THEN 2 * f[n - 1] ELSE f[i]], n)
    BY <2>2, <1>3 DEF Doubles
  <2> QED BY <2>3
<1> QED BY <1>2, <1>3

(* ... so that the recursion defines a function, and this is its equation. *)
LEMMA Pow2Def == \A i \in Nat : pow2[i] = IF i = 0 THEN 1 ELSE 2 * pow2[i - 1]
<1> DEFINE up(n) == CHOOSE f : Doubles(f, n)
           h == [n \in Nat |-> up(n)[n]]
<1>1. \A n \in Nat : Doubles(up(n), n)
  BY DoublesExists
<1> HIDE DEF up
<1>2. \A n \in Nat : h[n] = up(n)[n]
  OBVIOUS
<1>3. h[0] = 1
  BY <1>1, <1>2 DEF Doubles
<1>4. ASSUME NEW n \in Nat, n # 0 PROVE h[n] = 2 * h[n-1]
  <2>1. up(n)[n-1] = up(n-1)[n-1]
    BY <1>1, <1>4, DoublesUnique
  <2>2. up(n)[n] = 2 * up(n)[n-1]
    BY <1>1, <1>4 DEF Doubles
  <2>3. h[n] = up(n)[n] /\ h[n-1] = up(n-1)[n-1]
    BY <1>2, <1>4
  <2> HIDE DEF h
  <2> QED BY <2>1, <2>2, <2>3
<1>5. h = [i \in Nat |-> IF i = 0 THEN 1 ELSE 2 * h[i - 1]]
  <2>1. \A i \in Nat : h[i] = IF i = 0 THEN 1 ELSE 2 * h[i - 1]
    BY <1>3, <1>4
  <2>2. h = [i \in Nat |-> h[i]]
    OBVIOUS
  <2> HIDE DEF h
  <2> QED BY <2>1, <2>2
<1> HIDE DEF h
<1>6. pow2 = [i \in Nat |-> IF i = 0 THEN 1 ELSE 2 * pow2[i - 1]]
  BY <1>5, Zenon DEF pow2
<1> QED  BY <1>6, Zenon

(* The powers are numbers, each more than its exponent.                    *)
LEMMA Pow2Facts ==
    ASSUME NEW n \in Nat
    PROVE  /\ pow2[n] \in Nat /\ n < pow2[n]
           /\ pow2[n + 1] = 2 * pow2[n]
<1>1. pow2[0] = 1 /\ \A i \in Nat : pow2[i + 1] = 2 * pow2[i]
  BY Pow2Def
<1> DEFINE D == {i \in Nat : ~(pow2[i] \in Nat /\ i < pow2[i])}
<1>2. D = {}
  <2> SUFFICES ASSUME D # {} PROVE FALSE
    OBVIOUS
  <2>0. D \in SUBSET Nat
    OBVIOUS
  <2>1. PICK i \in D : \A j \in D : i <= j
    BY <2>0, LeastNumber
  <2>2. i # 0
    BY <1>1, <2>1
  <2>3. i - 1 \in Nat /\ i - 1 \notin D
    BY <2>1, <2>2
  <2>4. pow2[(i - 1) + 1] = 2 * pow2[i - 1]
    BY <1>1, <2>3
  <2> QED  BY <2>1, <2>2, <2>3, <2>4
<1> QED  BY <1>1, <1>2

(* ceilToPow2 gives a power of two that is no less than what it is given,  *)
(* and the least of those.                                                 *)
LEMMA CeilRoundsUp ==
    ASSUME NEW x \in Nat
    PROVE  /\ \E i \in 0 .. x : CeilToPow2(x) = pow2[i]
           /\ CeilToPow2(x) \in Nat
           /\ CeilToPow2(x) >= x
           /\ \A i \in 0 .. x : pow2[i] >= x => CeilToPow2(x) <= pow2[i]
<1> DEFINE P == {pow2[i] : i \in 0 .. x}
           Q == {p \in P : p >= x}
<1>1. P \subseteq Nat /\ pow2[x] \in P /\ pow2[x] >= x
  BY Pow2Facts
<1>2. Q \in SUBSET Nat /\ Q # {}
  BY <1>1
<1>3. PICK p \in Q : \A q \in Q : p <= q
  BY <1>2, LeastNumber
<1>4. \E p_1 \in P : p_1 >= x /\ \A q \in P : q >= x => p_1 <= q
  BY <1>3
<1>5. /\ CeilToPow2(x) \in P /\ CeilToPow2(x) >= x
      /\ \A q \in P : q >= x => CeilToPow2(x) <= q
  BY <1>4 DEF CeilToPow2
<1> QED  BY <1>1, <1>5

(* Each power of two is a multiple of those before it.                     *)
LEMMA Pow2Multiple ==
    ASSUME NEW i \in Nat, NEW j \in Nat, i <= j
    PROVE  \E m \in Nat \ {0} : pow2[j] = pow2[i] * m
<1> DEFINE D == {k \in Nat : ~ \E m \in Nat \ {0} : pow2[i + k] = pow2[i] * m}
<1>1. D = {}
  <2> SUFFICES ASSUME D # {} PROVE FALSE
    OBVIOUS
  <2>0. D \in SUBSET Nat
    OBVIOUS
  <2>1. PICK k \in D : \A l \in D : k <= l
    BY <2>0, LeastNumber
  <2>2. k # 0
    <3>1. pow2[i + 0] = pow2[i] * 1
      BY Pow2Facts
    <3> QED  BY <3>1, <2>1
  <2>3. k - 1 \in Nat /\ k - 1 \notin D
    BY <2>1, <2>2
  <2>4. PICK m \in Nat \ {0} : pow2[i + (k - 1)] = pow2[i] * m
    BY <2>3
  <2>5. pow2[(i + (k - 1)) + 1] = 2 * pow2[i + (k - 1)]
    BY <2>3, Pow2Facts
  <2>6. (i + (k - 1)) + 1 = i + k
    BY <2>1
  <2>7. pow2[i] \in Nat
    BY Pow2Facts
  <2>8. pow2[i + k] = pow2[i] * (2 * m) /\ 2 * m \in Nat \ {0}
    <3> DEFINE a == pow2[i]  b == pow2[i + k]
    <3>1. b = 2 * (a * m) /\ a \in Nat
      BY <2>4, <2>5, <2>6, <2>7
    <3> HIDE DEF a, b
    <3>2. b = a * (2 * m) /\ 2 * m \in Nat \ {0}
      BY <3>1
    <3> QED  BY <3>2 DEF a, b
  <2> QED  BY <2>1, <2>8
<1>2. j - i \in Nat /\ i + (j - i) = j
  OBVIOUS
<1> QED  BY <1>1, <1>2

(* What ceilToPow2 gives divides every power of two that is large enough.  *)
LEMMA CeilDivides ==
    ASSUME NEW x \in Nat, NEW w \in Nat, x <= pow2[w]
    PROVE  \E m \in Nat \ {0} : pow2[w] = CeilToPow2(x) * m
<1>1. PICK i \in 0 .. x : CeilToPow2(x) = pow2[i]
  BY CeilRoundsUp
<1>2. CASE i <= w
  BY <1>1, <1>2, Pow2Multiple
<1>3. CASE w < i
  <2>1. PICK m \in Nat \ {0} : pow2[i] = pow2[w + 1] * m
    BY <1>3, Pow2Multiple
  <2>2. /\ pow2[w] \in Nat /\ w < pow2[w] /\ pow2[w + 1] = 2 * pow2[w]
        /\ pow2[i] \in Nat
    BY <1>1, Pow2Facts
  <2>3. pow2[i] <= pow2[w]
    <3>1. w \in 0 .. x
      BY <1>1, <1>3
    <3> QED  BY <3>1, <1>1, CeilRoundsUp
  <2> DEFINE a == pow2[w]  b == pow2[i]
  <2>4. a \in Nat /\ a > 0 /\ b = (2 * a) * m /\ b <= a
    BY <2>1, <2>2, <2>3
  <2> HIDE DEF a, b
  <2>5. (2 * a) * m >= 2 * a
    BY <2>4
  <2> QED  BY <2>4, <2>5
<1> QED  BY <1>1, <1>2, <1>3
-----------------------------------------------------------------------------
(* Remainders: what is left of a number that is n times q and less than n  *)
(* more ...                                                                *)
LEMMA ModIs ==
    ASSUME NEW n \in Nat \ {0}, NEW q \in Nat, NEW r \in 0 .. n - 1
    PROVE  (n * q + r) % n = r
  OBVIOUS

(* ... and every number is of that form.                                   *)
LEMMA DivMod ==
    ASSUME NEW n \in Nat \ {0}, NEW x \in Nat
    PROVE  \E q \in Nat, r \in 0 .. n - 1 : x = n * q + r /\ x % n = r
<1> DEFINE d == x \div n
<1>1. d \in Int /\ n * d <= x /\ x < n * (d + 1)
  OBVIOUS
<1>2. d \in Nat
  <2> HIDE DEF d
  <2>1. CASE d < 0
    <3>1. d + 1 <= 0
      BY <1>1, <2>1
    <3>2. n * (d+1) <= 0
      BY <3>1, <1>1
    <3> QED BY <1>1, <3>2
  <2> QED BY <1>1, <2>1
<1> HIDE DEF d
<1> DEFINE r == x - n * d
<1>3. n * d \in Int /\ n * (d + 1) = n * d + n
  BY <1>2
<1>4. r \in 0 .. n - 1 /\ x = n * d + r
  BY <1>1, <1>3
<1> HIDE DEF r
<1>5. x % n = r
  BY <1>2, <1>4, ModIs
<1> QED BY <1>2, <1>4, <1>5

(* The remainder of the next number.                                       *)
LEMMA ModStep ==
    ASSUME NEW n \in Nat \ {0}, NEW x \in Nat
    PROVE  (x + 1) % n = IF (x % n) + 1 = n THEN 0 ELSE (x % n) + 1
<1>1. PICK q \in Nat, r \in 0 .. n - 1 : x = n * q + r /\ x % n = r
  BY DivMod
<1>2. CASE r + 1 = n
  <2>1. x + 1 = n * (q + 1) + 0 /\ q + 1 \in Nat /\ 0 \in 0 .. n - 1
    BY <1>1, <1>2
  <2>2. (n * (q + 1) + 0) % n = 0
    BY <2>1, ModIs
  <2> QED BY <1>1, <1>2, <2>1, <2>2
<1>3. CASE r + 1 # n
  <2>1. x + 1 = n * q + (r + 1) /\ r + 1 \in 0 .. n - 1
    BY <1>1, <1>3
  <2>2. (n * q + (r + 1)) % n = r + 1
    BY <2>1, ModIs
  <2> QED BY <1>1, <1>3, <2>1, <2>2
<1> QED BY <1>2, <1>3

(* What counts up to a multiple w of n and starts again may be masked by n *)
(* as if it never did.                                                     *)
LEMMA ModWraps ==
    ASSUME NEW n \in Nat \ {0}, NEW m \in Nat \ {0}, NEW w \in Nat \ {0},
           NEW x \in Nat, NEW k \in Nat, w = n * m
    PROVE  ((x % w) + k) % n = (x + k) % n
<1>1. PICK q \in Nat, r \in 0 .. w - 1 : x = w * q + r /\ x % w = r
  BY DivMod
<1>2. r + k \in Nat
  BY <1>1
<1>3. PICK p \in Nat, s \in 0 .. n - 1 : r + k = n * p + s /\ (r + k) % n = s
  BY <1>2, DivMod
<1>4. x + k = n * (m * q + p) + s /\ m * q + p \in Nat
  BY <1>1, <1>3
<1>5. (n * (m * q + p) + s) % n = s
  BY <1>4, ModIs
<1> QED  BY <1>1, <1>3, <1>4, <1>5

(* Nor does it matter to add w.                                            *)
LEMMA ModPlus ==
    ASSUME NEW n \in Nat \ {0}, NEW m \in Nat \ {0}, NEW x \in Nat
    PROVE  (x + n * m) % n = x % n
<1>1. PICK q \in Nat, r \in 0 .. n - 1 : x = n * q + r /\ x % n = r
  BY DivMod
<1>2. x + n * m = n * (q + m) + r /\ q + m \in Nat
  BY <1>1
<1>3. (n * (q + m) + r) % n = r
  BY <1>2, ModIs
<1> QED  BY <1>1, <1>2, <1>3

(* The difference of two counters that wrap around is the difference of    *)
(* what they count, if that is less than where they start again.           *)
LEMMA ModDifference ==
    ASSUME NEW w \in Nat \ {0}, NEW g \in Nat, NEW k \in 0 .. w - 1
    PROVE  (((g + k) % w) + w - (g % w)) % w = k
<1>1. PICK q \in Nat, r \in 0 .. w - 1 : g = w * q + r /\ g % w = r
  BY DivMod
<1>2. CASE r + k < w
  <2>1. g + k = w * q + (r + k) /\ r + k \in 0 .. w - 1
    BY <1>1, <1>2
  <2>2. (w * q + (r + k)) % w = r + k
    BY <2>1, ModIs
  <2>3. (w * 1 + k) % w = k
    BY ModIs
  <2>4. (r + k) + w - r = w * 1 + k
    BY <1>1
  <2> QED  BY <1>1, <2>1, <2>2, <2>3, <2>4
<1>3. CASE r + k >= w
  <2>1. /\ g + k = w * (q + 1) + (r + k - w)
        /\ r + k - w \in 0 .. w - 1 /\ q + 1 \in Nat
    BY <1>1, <1>3
  <2>2. (w * (q + 1) + (r + k - w)) % w = r + k - w
    BY <2>1, ModIs
  <2>3. k % w = k
    OBVIOUS
  <2>4. (r + k - w) + w - r = k
    BY <1>1
  <2> QED  BY <1>1, <2>1, <2>2, <2>3, <2>4
<1> QED  BY <1>1, <1>2, <1>3

(* Numbers less than n apart have not the same remainder.                  *)
LEMMA ModApart ==
    ASSUME NEW n \in Nat \ {0}, NEW x \in Nat, NEW k \in 1 .. n - 1
    PROVE  (x + k) % n # x % n
<1>1. PICK q \in Nat, r \in 0 .. n - 1 : x = n * q + r /\ x % n = r
  BY DivMod
<1>2. CASE r + k < n
  <2>1. x + k = n * q + (r + k) /\ r + k \in 0 .. n - 1
    BY <1>1, <1>2
  <2>2. (n * q + (r + k)) % n = r + k
    BY <2>1, ModIs
  <2> QED BY <1>1, <2>1, <2>2
<1>3. CASE r + k >= n
  <2>1. x + k = n * (q + 1) + (r + k - n) /\ r + k - n \in 0 .. n - 1 /\ q + 1 \in Nat
    BY <1>1, <1>3
  <2>2. (n * (q + 1) + (r + k - n)) % n = r + k - n
    BY <2>1, ModIs
  <2> QED BY <1>1, <2>1, <2>2
<1> QED BY <1>1, <1>2, <1>3
-----------------------------------------------------------------------------
(* The numbers above lo, up to hi.                                         *)
Nums(lo, hi) == [i \in 1 .. hi - lo |-> lo + i]

(* Ranges of numbers that meet are one range.                              *)
LEMMA NumsJoin ==
    ASSUME NEW a \in Nat, NEW b \in Nat, NEW c \in Nat, a <= b, b <= c
    PROVE  Nums(a, b) \o Nums(b, c) = Nums(a, c)
  BY DEF Nums

(* A range is a sequence, and empty if it ends where it begins.            *)
LEMMA NumsEmpty ==
    ASSUME NEW a \in Nat, NEW b \in Nat, a <= b
    PROVE  /\ Nums(a, a) = <<>>
           /\ Nums(a, b) \in Seq(Nat) /\ Len(Nums(a, b)) = b - a
           /\ <<>> \o Nums(a, b) = Nums(a, b)
           /\ Nums(a, b) \o <<>> = Nums(a, b)
  BY DEF Nums

(* A range grows at its end and shrinks at its front.                      *)
LEMMA NumsStep ==
    ASSUME NEW a \in Nat, NEW b \in Nat
    PROVE  /\ a <= b => Append(Nums(a, b), b + 1) = Nums(a, b + 1)
           /\ a < b => /\ Nums(a, b) # <<>>
                       /\ Head(Nums(a, b)) = a + 1
                       /\ Tail(Nums(a, b)) = Nums(a + 1, b)
<1>1. ASSUME a <= b PROVE Append(Nums(a, b), b + 1) = Nums(a, b + 1)
  <2>1. b + 1 - a = (b - a) + 1 /\ b - a \in Nat
    BY <1>1
  <2> QED  BY <2>1 DEF Nums
<1>2. ASSUME a < b
      PROVE  Nums(a, b) # <<>> /\ Head(Nums(a, b)) = a + 1
             /\ Tail(Nums(a, b)) = Nums(a + 1, b)
  <2> DEFINE s == Nums(a, b)
             n == b - a
  <2>1. n \in Nat /\ n # 0 /\ b - (a + 1) = n - 1
    BY <1>2
  <2>2. s = [i \in 1 .. n |-> a + i]
    BY DEF Nums
  <2> HIDE DEF n
  <2>3. s \in Seq(Nat) /\ Len(s) = n /\ s[1] = a + 1
    BY <2>1, <2>2
  <2>4. s # <<>> /\ Head(s) = a + 1
    BY <2>1, <2>3
  <2>5. Tail(s) = [i \in 1 .. n - 1 |-> a + 1 + i]
    <3> DEFINE r == [i \in 1 .. n - 1 |-> a + 1 + i]
    <3>1. r \in Seq(Nat) /\ Len(r) = n - 1
          /\ \A i \in 1 .. n - 1 : r[i] = a + 1 + i
      BY <2>1
    <3>2. /\ Tail(s) \in Seq(Nat) /\ Len(Tail(s)) = n - 1
          /\ \A i \in 1 .. n - 1 : Tail(s)[i] = s[i + 1]
      BY <2>3, <2>4, HeadTailProperties
    <3>3. \A i \in 1 .. n - 1 : s[i + 1] = a + 1 + i
      BY <2>1, <2>2
    <3> HIDE DEF r, s
    <3>4. \A i \in 1 .. n - 1 : Tail(s)[i] = r[i]
      BY <3>1, <3>2, <3>3
    <3>5. Tail(s) = r
      BY <3>1, <3>2, <3>4, SeqEqual
    <3> QED  BY <3>5 DEF r
  <2>6. Nums(a + 1, b) = [i \in 1 .. n - 1 |-> a + 1 + i]
    BY <2>1 DEF Nums
  <2> QED  BY <2>4, <2>5, <2>6
<1> QED  BY <1>1, <1>2
=============================================================================
