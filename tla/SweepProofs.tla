---------------------------- MODULE SweepProofs ----------------------------
(***************************************************************************)
(* Proofs about the sweep: what prefixes are, what expandCIDRs lists, and  *)
(* that the goroutines of runSweep lose and invent nothing.  Recursive     *)
(* definitions are reasoned about by their least counterexample.           *)
(***************************************************************************)
EXTENDS Sweep, Progress, FiniteSetTheorems, TLAPS

\* A set of naturals that is not empty has a least element.  This is all the
\* induction that is used here.
LEMMA LeastElement ==
    ASSUME NEW S \in SUBSET Nat, S # {}
    PROVE  \E x \in S : \A y \in S : x <= y
<1>1. PICK x \in S : \A y \in S : <<y, x>> \notin OpToRel(<, Nat)
    BY NatLessThanWellFounded, WFMin, Zenon
<1>2. \A y \in S : x <= y
    <2> SUFFICES ASSUME NEW y \in S PROVE x <= y
        OBVIOUS
    <2>1. <<y, x>> \notin {ss \in Nat \X Nat : ss[1] < ss[2]}
        BY <1>1 DEF OpToRel
    <2>2. x \in Nat /\ y \in Nat
        OBVIOUS
    <2> QED BY <2>1, <2>2
<1> QED BY <1>2

\* Induction up to N.
LEMMA InductionUpto ==
    ASSUME NEW N \in Nat, NEW G, 0 \in G, \A n \in 1 .. N : n - 1 \in G => n \in G
    PROVE  0 .. N \subseteq G
<1> DEFINE T == (0 .. N) \ G
<1> SUFFICES ASSUME T # {} PROVE FALSE
  OBVIOUS
<1>1. T \in SUBSET Nat
  OBVIOUS
<1>2. PICK n \in T : \A x \in T : n <= x
  BY <1>1, LeastElement, Zenon
<1>3. n \in 1 .. N /\ n \notin G
  BY <1>2
<1>4. n - 1 \in G
  BY <1>2, <1>3
<1> QED
  BY <1>3, <1>4

\* F[1], F[2], .. are functions on S; the chains of their values from base.
StepsIn(S, N, F) == \A n \in 1 .. N : \A x \in S : F[n][x] \in S
Chains(S, N, base, F) ==
    {f \in [0 .. N -> S] : f[0] = base /\ \A n \in 1 .. N : f[n] = F[n][f[n - 1]]}

\* Functions defined by recursion exist.
LEMMA RecursionExists ==
    ASSUME NEW S, NEW N \in Nat, NEW base \in S, NEW F, StepsIn(S, N, F)
    PROVE  \E f : f \in Chains(S, N, base, F)
<1> USE DEF StepsIn
<1> DEFINE Upto(m) ==
             \E f \in [0 .. m -> S] : f[0] = base /\ \A n \in 1 .. m : f[n] = F[n][f[n - 1]]
           G == {m \in 0 .. N : Upto(m)}
<1>1. Upto(0)
  <2> DEFINE f == [i \in 0 .. 0 |-> base]
  <2>1. f \in [0 .. 0 -> S] /\ f[0] = base /\ \A n \in 1 .. 0 : f[n] = F[n][f[n - 1]]
    OBVIOUS
  <2> HIDE DEF f
  <2> QED
    BY <2>1
<1>2. ASSUME NEW m \in 1 .. N, Upto(m - 1) PROVE Upto(m)
  <2>1. PICK f \in [0 .. m - 1 -> S] :
           f[0] = base /\ \A n \in 1 .. m - 1 : f[n] = F[n][f[n - 1]]
    BY <1>2
  <2> DEFINE g == [i \in 0 .. m |-> IF i = m THEN F[m][f[m - 1]] ELSE f[i]]
  <2>2. f[m - 1] \in S /\ F[m][f[m - 1]] \in S
    BY <2>1
  <2>3. g \in [0 .. m -> S]
    BY <2>1, <2>2
  <2>4. g[0] = base
    BY <2>1
  <2>5. ASSUME NEW n \in 1 .. m PROVE g[n] = F[n][g[n - 1]]
    <3>1. g[n - 1] = f[n - 1]
      OBVIOUS
    <3>2. n # m => n \in 1 .. m - 1 /\ g[n] = f[n]
      OBVIOUS
    <3>3. g[m] = F[m][f[m - 1]]
      OBVIOUS
    <3> HIDE DEF g
    <3> QED
      BY <2>1, <3>1, <3>2, <3>3
  <2> HIDE DEF g
  <2> QED
    BY <2>3, <2>4, <2>5
<1> HIDE DEF Upto
<1>3. 0 \in G /\ \A n \in 1 .. N : n - 1 \in G => n \in G
  BY <1>1, <1>2
<1> HIDE DEF G
<1>4. 0 .. N \subseteq G
  BY <1>3, InductionUpto
<1>5. Upto(N)
  BY <1>4 DEF G
<1> QED
  BY <1>5 DEF Upto, Chains
-----------------------------------------------------------------------------
(* Prefixes and the addresses in them. *)

LEMMA Pow2Def ==
    /\ Pow2 \in [0 .. Width -> Nat \ {0}]
    /\ Pow2[0] = 1
    /\ \A n \in 1 .. Width : Pow2[n] = 2 * Pow2[n - 1]
<1> DEFINE F == [n \in 1 .. Width |-> [x \in Nat \ {0} |-> 2 * x]]
           Eq(f) == f = [n \in 0 .. Width |-> IF n = 0 THEN 1 ELSE 2 * f[n - 1]]
<1>1. Width \in Nat
  BY SweepAssumption
<1>2. \E f : Eq(f)
  <2> DEFINE Pos == Nat \ {0}
  <2>1. \A n \in 1 .. Width : \A x \in Pos : F[n][x] = 2 * x
    BY <1>1
  <2>2. 1 \in Pos /\ StepsIn(Pos, Width, F)
    BY <1>1 DEF StepsIn
  <2> HIDE DEF F, Pos
  <2>3. \E f : f \in Chains(Pos, Width, 1, F)
    BY <1>1, <2>2, RecursionExists
  <2>4. PICK f \in [0 .. Width -> Pos] :
           f[0] = 1 /\ \A n \in 1 .. Width : f[n] = F[n][f[n - 1]]
    BY <2>3, Zenon DEF Chains
  <2>5. ASSUME NEW n \in 1 .. Width PROVE f[n] = 2 * f[n - 1]
    <3>1. f[n - 1] \in Pos
      BY <1>1, <2>4
    <3> QED
      BY <2>1, <2>4, <3>1
  <2>6. Eq(f)
    BY <1>1, <2>4, <2>5
  <2> QED
    BY <2>6, Zenon
<1>3. Eq(Pow2)
  BY <1>2, Zenon DEF Pow2
<1>4. /\ DOMAIN Pow2 = 0 .. Width /\ Pow2 = [n \in 0 .. Width |-> Pow2[n]] /\ Pow2[0] = 1
      /\ \A n \in 1 .. Width : Pow2[n] = 2 * Pow2[n - 1]
  BY <1>1, <1>3
<1> HIDE DEF Eq
<1> DEFINE G == {n \in 0 .. Width : Pow2[n] \in Nat \ {0}}
<1>5. 0 \in G
  BY <1>1, <1>4
<1>6. ASSUME NEW n \in 1 .. Width, n - 1 \in G PROVE n \in G
  <2>1. Pow2[n] = 2 * Pow2[n - 1]
    BY <1>4, Zenon
  <2>2. PICK x \in Nat \ {0} : x = Pow2[n - 1]
    BY <1>6, Zenon
  <2>3. 2 * x \in Nat \ {0} /\ n \in 0 .. Width
    BY <1>1
  <2> QED
    BY <2>1, <2>2, <2>3, Zenon
<1> HIDE DEF G
<1>7. 0 .. Width \subseteq G
  BY <1>1, <1>5, <1>6, InductionUpto
<1> QED
  BY <1>4, <1>7, Zenon DEF G

\* A larger power is a multiple of a smaller one.
LEMMA Pow2Divides ==
    ASSUME NEW m \in 0 .. Width, NEW n \in 0 .. m
    PROVE  \E k \in Nat \ {0} : Pow2[m] = k * Pow2[n]
<1> DEFINE Div(x, y) == \E k \in Nat \ {0} : Pow2[x] = k * Pow2[y]
           G == {x \in 0 .. Width : \A y \in 0 .. x : Div(x, y)}
<1>1. Width \in Nat
  BY SweepAssumption
<1>2. ASSUME NEW x \in 0 .. Width PROVE Div(x, x)
  <2>1. Pow2[x] = 1 * Pow2[x]
    BY Pow2Def
  <2> QED
    BY <2>1
<1>3. ASSUME NEW x \in 1 .. Width, NEW y \in 0 .. x - 1, Div(x - 1, y) PROVE Div(x, y)
  <2>1. PICK k \in Nat \ {0} : Pow2[x - 1] = k * Pow2[y]
    BY <1>3
  <2>2. Pow2[x] = 2 * (k * Pow2[y]) /\ Pow2[y] \in Nat
    BY <1>1, <2>1, Pow2Def
  <2>3. \A z \in Nat : 2 * (k * z) = (2 * k) * z
    OBVIOUS
  <2>4. Pow2[x] = (2 * k) * Pow2[y] /\ 2 * k \in Nat \ {0}
    BY <2>2, <2>3
  <2> QED
    BY <2>4
<1> HIDE DEF Div
<1>4. 0 \in G
  BY <1>1, <1>2
<1>5. ASSUME NEW x \in 1 .. Width, x - 1 \in G PROVE x \in G
  BY <1>1, <1>2, <1>3, <1>5
<1>6. 0 .. Width \subseteq G
  BY <1>1, <1>4, <1>5, InductionUpto, Zenon
<1> QED
  BY <1>6 DEF Div

\* Multiplication by a positive number keeps order, and is undone by % and \div.
LEMMA TimesOrder ==
    ASSUME NEW s \in Nat \ {0}, NEW x \in Nat, NEW y \in Nat, s * x < s * y
    PROVE  s * x + s <= s * y
<1>1. x < y
  <2> SUFFICES ASSUME y <= x PROVE FALSE
    OBVIOUS
  <2>1. s * (y + (x - y)) = s * y + s * (x - y)
    OBVIOUS
  <2>2. s * (x - y) >= 0
    OBVIOUS
  <2> QED
    BY <2>1, <2>2
<1>2. s * (x + 1 + (y - x - 1)) = s * x + s + s * (y - x - 1)
  OBVIOUS
<1>3. s * (y - x - 1) >= 0
  BY <1>1
<1> QED
  BY <1>2, <1>3

LEMMA Division ==
    ASSUME NEW s \in Nat \ {0}, NEW a \in Nat
    PROVE  /\ a % s \in 0 .. s - 1
           /\ \E q \in Nat : a = s * q + (a % s) /\ a - (a % s) = s * q
<1>1. a % s \in 0 .. s - 1 /\ a = s * (a \div s) + (a % s) /\ a \div s \in Nat
  OBVIOUS
<1>2. PICK q \in Nat : q = a \div s
  BY <1>1
<1>3. PICK r \in 0 .. s - 1 : r = a % s
  BY <1>1
<1>4. a = s * q + r
  BY <1>1, <1>2, <1>3
<1>5. a - r = s * q
  BY <1>4
<1> QED
  BY <1>3, <1>4, <1>5, Zenon

LEMMA Remainder ==
    ASSUME NEW s \in Nat \ {0}, NEW q \in Nat, NEW r \in 0 .. s - 1
    PROVE  (s * q + r) % s = r
  OBVIOUS

\* A prefix is the interval of Size(p) addresses from its masked address on.
Interval(p) == Masked(p).addr .. Masked(p).addr + Size(p) - 1

LEMMA SizeOfPrefix ==
    ASSUME NEW p \in Prefix
    PROVE  Size(p) \in Nat \ {0} /\ p.addr \in Nat /\ p.addr < Pow2[Width]
<1>1. Width - p.bits \in 0 .. Width /\ p.addr \in Address
  BY SweepAssumption DEF Prefix
<1> QED
  BY <1>1, Pow2Def, SweepAssumption DEF Size, Address

LEMMA MaskedPrefix ==
    ASSUME NEW p \in Prefix
    PROVE  /\ Masked(p) \in Prefix
           /\ Masked(p).bits = p.bits
           /\ Size(Masked(p)) = Size(p)
           /\ Masked(p).addr = p.addr - (p.addr % Size(p))
           /\ \E q \in Nat : Masked(p).addr = Size(p) * q
           /\ Interval(p) \subseteq Address
           /\ p.addr \in Interval(p)
<1> DEFINE s == Size(p)
           m == p.addr - (p.addr % s)
<1>1. s \in Nat \ {0} /\ p.addr \in Nat /\ p.addr < Pow2[Width]
  BY SizeOfPrefix
<1>2. PICK q \in Nat : p.addr = s * q + (p.addr % s) /\ m = s * q
  BY <1>1, Division, Zenon
<1>3. p.addr % s \in 0 .. s - 1
  BY <1>1, Division, Zenon
<1>4. Masked(p).addr = m /\ Masked(p).bits = p.bits
  BY DEF Masked, Prefix
<1>5. PICK k \in Nat \ {0} : Pow2[Width] = k * s
  <2>1. Width \in 0 .. Width /\ Width - p.bits \in 0 .. Width
    BY SweepAssumption DEF Prefix
  <2> QED
    BY <2>1, Pow2Divides DEF Size
<1>6. s * q < s * k
  BY <1>1, <1>2, <1>3, <1>5
<1>7. s * q + s <= s * k
  BY <1>1, <1>6, TimesOrder
<1>8. m \in Nat /\ m + s <= Pow2[Width] /\ m <= p.addr /\ p.addr < m + s
  <2>1. PICK r \in 0 .. s - 1 : r = p.addr % s
    BY <1>3
  <2>2. m = s * q /\ s * q \in Nat /\ s * k = k * s
    BY <1>1, <1>2
  <2>3. p.addr = s * q + r
    BY <1>2, <2>1
  <2> HIDE DEF m, s
  <2> QED
    BY <1>1, <1>5, <1>7, <2>2, <2>3
<1>9. Size(Masked(p)) = s
  BY <1>4 DEF Size
<1>10. Pow2[Width] \in Nat
  BY Pow2Def, SweepAssumption
<1>11. Interval(p) \subseteq Address
  BY <1>1, <1>4, <1>8, <1>10 DEF Interval, Address
<1>12. Masked(p) \in Prefix
  <2>1. m \in Address
    BY <1>1, <1>8, <1>10 DEF Address
  <2> QED
    BY <2>1 DEF Masked, Prefix
<1>13. p.addr \in Interval(p)
  BY <1>1, <1>4, <1>8 DEF Interval
<1> HIDE DEF s, m
<1>14. \E z \in Nat : Masked(p).addr = s * z
  BY <1>2, <1>4
<1> QED
  BY <1>4, <1>9, <1>11, <1>12, <1>13, <1>14 DEF s, m

LEMMA PrefixIsInterval ==
    ASSUME NEW p \in Prefix, NEW a \in Nat
    PROVE  PrefixContains(p, a) <=> a \in Interval(p)
<1> DEFINE s == Size(p)
           m == Masked(p).addr
<1>1. s \in Nat \ {0}
  BY SizeOfPrefix
<1>2. PICK q \in Nat : m = s * q
  BY MaskedPrefix
<1> HIDE DEF s, m
<1>3. ASSUME PrefixContains(p, a) PROVE a \in m .. m + s - 1
  <2>1. a - (a % s) = m
    BY <1>3 DEF PrefixContains, s, m
  <2>2. PICK r \in 0 .. s - 1 : r = a % s
    BY <1>1, Division
  <2>3. m \in Nat
    BY <1>1, <1>2
  <2> QED
    BY <1>1, <2>1, <2>2, <2>3
<1>4. ASSUME a \in m .. m + s - 1 PROVE PrefixContains(p, a)
  <2>1. m \in Nat
    BY <1>1, <1>2
  <2>2. PICK r \in 0 .. s - 1 : a = m + r
    <3>1. a - m \in 0 .. s - 1 /\ a = m + (a - m)
      BY <1>1, <1>4, <2>1
    <3> QED
      BY <3>1
  <2>3. (s * q + r) % s = r
    BY <1>1, Remainder
  <2>4. a % s = r
    BY <1>2, <2>2, <2>3
  <2>5. a - r = m
    BY <1>1, <2>1, <2>2
  <2> QED
    BY <2>4, <2>5 DEF PrefixContains, s, m
<1> QED
  BY <1>3, <1>4 DEF Interval, s, m

LEMMA MaskedTwice ==
    ASSUME NEW p \in Prefix
    PROVE  Masked(Masked(p)) = Masked(p) /\ Interval(Masked(p)) = Interval(p)
<1> DEFINE m == Masked(p)
           s == Size(p)
<1>1. s \in Nat \ {0} /\ m \in Prefix /\ Size(m) = s
  BY SizeOfPrefix, MaskedPrefix
<1>2. PICK q \in Nat : m.addr = s * q
  BY MaskedPrefix
<1> HIDE DEF s
<1>3. (s * q + 0) % s = 0 /\ s * q + 0 = s * q
  BY <1>1, Remainder
<1>4. m.addr % s = 0 /\ m.addr \in Nat
  BY <1>1, <1>2, <1>3
<1> HIDE DEF m
<1>5. Masked(m) = m
  BY <1>1, <1>4 DEF Masked, Prefix
<1> QED
  BY <1>1, <1>5 DEF Interval, m, s

\* prefixWithinAny is right: a prefix whose first address lies in p, and that
\* has at least as many bits, lies in p.
LEMMA PrefixWithin ==
    ASSUME NEW p \in Prefix, NEW r \in Prefix, r.bits >= p.bits,
           PrefixContains(p, Masked(r).addr)
    PROVE  Interval(r) \subseteq Interval(p)
<1> DEFINE s == Size(r)
           S == Size(p)
           m == Masked(r).addr
           M == Masked(p).addr
<1>1. s \in Nat \ {0} /\ S \in Nat \ {0}
  BY SizeOfPrefix
<1>2. PICK q \in Nat : m = s * q
  BY MaskedPrefix
<1>3. PICK Q \in Nat : M = S * Q
  BY MaskedPrefix
<1>4. PICK k \in Nat \ {0} : S = k * s
  <2>1. Width - p.bits \in 0 .. Width /\ Width - r.bits \in 0 .. Width - p.bits
    BY SweepAssumption DEF Prefix
  <2> QED
    BY <2>1, Pow2Divides DEF Size
<1>5. m \in M .. M + S - 1
  <2>1. m \in Nat
    BY <1>1, <1>2
  <2> QED
    BY <2>1, PrefixIsInterval DEF Interval
<1> HIDE DEF s, S, m, M
<1>6. M = s * (k * Q) /\ M + S = s * (k * Q + k)
  <2>1. (k * s) * Q = s * (k * Q)
    BY <1>1
  <2>2. s * (k * Q + k) = s * (k * Q) + k * s
    BY <1>1
  <2> QED
    BY <1>3, <1>4, <2>1, <2>2
<1>7. k * Q + k \in Nat
  OBVIOUS
<1>8. s * q < s * (k * Q + k)
  <2>1. m \in Nat /\ M + S \in Nat
    BY <1>1, <1>2, <1>6
  <2> QED
    BY <1>1, <1>2, <1>5, <1>6, <2>1
<1>9. s * q + s <= s * (k * Q + k)
  BY <1>1, <1>7, <1>8, TimesOrder
<1>10. M <= m /\ m + s <= M + S /\ m \in Nat /\ M \in Nat
  BY <1>1, <1>2, <1>3, <1>5, <1>6, <1>9
<1>11. m .. m + s - 1 \subseteq M .. M + S - 1
  BY <1>1, <1>10
<1> QED
  BY <1>11 DEF Interval, s, S, m, M

LEMMA HostsAreInside ==
    ASSUME NEW p \in Prefix
    PROVE  /\ HostsOf(p) \subseteq Interval(p) /\ HostsOf(p) \subseteq Address
           /\ IsFiniteSet(HostsOf(p))
<1> DEFINE s == Size(p)
           m == Masked(p).addr
           skip == IF p.bits <= Width - 2 THEN 1 ELSE 0
<1>1. s \in Nat /\ m \in Nat
  <2>1. Masked(p) \in Prefix
    BY MaskedPrefix
  <2> QED
    BY <2>1, SizeOfPrefix
<1>2. skip \in {0, 1}
  OBVIOUS
<1>3. HostsOf(p) = (m + skip) .. (m + s - 1 - skip)
  BY DEF HostsOf
<1> HIDE DEF s, m, skip
<1>4. HostsOf(p) \subseteq m .. m + s - 1
  BY <1>1, <1>2, <1>3
<1>5. m + skip \in Int /\ m + s - 1 - skip \in Int
  BY <1>1, <1>2
<1>6. IsFiniteSet(HostsOf(p))
  BY <1>3, <1>5, FS_Interval
<1>7. HostsOf(p) \subseteq Interval(p)
  BY <1>4 DEF Interval, s, m
<1> QED
  BY <1>6, <1>7, MaskedPrefix

\* The ascending enumerations of a set.
Enumerations(S) ==
    {s \in [1 .. Cardinality(S) -> S] : \A i, j \in DOMAIN s : i < j => s[i] < s[j]}

LEMMA EnumerationExists ==
    ASSUME NEW N \in Nat, NEW S \in SUBSET (0 .. N - 1)
    PROVE  \E s : s \in Enumerations(S)
<1> DEFINE Below(n) == {a \in S : a < n}
           G == {n \in 0 .. N : \E s : s \in Enumerations(Below(n))}
<1>0. \A a \in S : a \in Nat /\ a < N
  OBVIOUS
<1>1. ASSUME NEW n \in 0 .. N PROVE IsFiniteSet(Below(n))
  <2>1. IsFiniteSet(0 .. N - 1)
    BY FS_Interval
  <2>2. Below(n) \in SUBSET (0 .. N - 1)
    BY <1>0, Zenon
  <2> QED
    BY <2>1, <2>2, FS_Subset
<1>2. \E s : s \in Enumerations(Below(0))
  <2>1. Below(0) = {}
    <3>1. ASSUME NEW x \in Below(0) PROVE FALSE
      <4>1. x \in Nat /\ x < 0
        BY <1>0
      <4> QED
        BY <4>1
    <3> QED
      BY <3>1, Zenon
  <2>2. Cardinality(Below(0)) = 0
    BY <2>1, FS_EmptySet
  <2> HIDE DEF Below
  <2> DEFINE e == [i \in 1 .. 0 |-> 0]
  <2>3. e \in [1 .. 0 -> Below(0)] /\ \A i, j \in 1 .. 0 : i < j => e[i] < e[j]
    OBVIOUS
  <2> HIDE DEF e
  <2>4. e \in Enumerations(Below(0))
    BY <2>2, <2>3 DEF Enumerations
  <2> QED
    BY <2>4
<1>3. ASSUME NEW n \in 1 .. N, \E s : s \in Enumerations(Below(n - 1))
      PROVE  \E s : s \in Enumerations(Below(n))
  <2> DEFINE c == Cardinality(Below(n - 1))
             a == n - 1
  <2>1. PICK s : s \in Enumerations(Below(n - 1))
    BY <1>3, Zenon
  <2>2. c \in Nat /\ IsFiniteSet(Below(n - 1))
    BY <1>1, FS_CardinalityType
  <2>3. CASE a \in S
    <3>0. ASSUME NEW x \in S PROVE x < n <=> (x < n - 1 \/ x = a)
      <4>1. x \in Nat
        BY <1>0
      <4> QED
        BY <4>1
    <3>1. Below(n) = Below(n - 1) \cup {a} /\ a \notin Below(n - 1)
      <4>1. a \in Int /\ a < n /\ ~(a < n - 1)
        OBVIOUS
      <4>2. ASSUME NEW x PROVE x \in Below(n) <=> x \in Below(n - 1) \cup {a}
        <5>1. x \in Below(n) <=> x \in S /\ x < n
          OBVIOUS
        <5>2. x \in Below(n - 1) \cup {a} <=> (x \in S /\ x < n - 1) \/ x = a
          OBVIOUS
        <5> HIDE DEF Below, a
        <5> QED
          BY <2>3, <3>0, <5>1, <5>2, Zenon
      <4>3. a \notin Below(n - 1)
        BY <4>1
      <4> HIDE DEF Below, a
      <4> QED
        BY <4>2, <4>3
    <3>2. Cardinality(Below(n)) = c + 1
      BY <2>2, <3>1, FS_AddElement, Zenon
    <3>3. s \in [1 .. c -> Below(n - 1)] /\ \A i, j \in 1 .. c : i < j => s[i] < s[j]
      BY <2>1 DEF Enumerations
    <3>4. \A x \in Below(n - 1) : x < a /\ x \in Nat
      BY <1>0
    <3> HIDE DEF Below, c, a
    <3> DEFINE e == [i \in 1 .. c + 1 |-> IF i = c + 1 THEN a ELSE s[i]]
    <3>5. e \in [1 .. c + 1 -> Below(n)]
      BY <2>2, <3>1, <3>3
    <3>6. ASSUME NEW i \in 1 .. c + 1, NEW j \in 1 .. c + 1, i < j PROVE e[i] < e[j]
      <4>1. i \in 1 .. c /\ e[i] = s[i] /\ s[i] \in Below(n - 1)
        BY <2>2, <3>3, <3>6
      <4>2. CASE j = c + 1
        BY <3>4, <4>1, <4>2
      <4>3. CASE j # c + 1
        BY <2>2, <3>3, <3>6, <4>1, <4>3
      <4> QED
        BY <4>2, <4>3
    <3> HIDE DEF e
    <3>7. e \in Enumerations(Below(n))
      BY <3>2, <3>5, <3>6 DEF Enumerations
    <3> QED
      BY <3>7
  <2>4. CASE a \notin S
    <3>0. ASSUME NEW x \in S PROVE x < n <=> x < n - 1
      <4>1. x \in Nat /\ x # n - 1
        BY <1>0, <2>4
      <4> QED
        BY <4>1
    <3>1. Below(n) = Below(n - 1)
      BY <3>0, Zenon
    <3> QED
      BY <2>1, <3>1
  <2> QED
    BY <2>3, <2>4
<1>4. Below(N) = S
  BY <1>0, Zenon
<1> HIDE DEF Below
<1>5. 0 \in G /\ \A n \in 1 .. N : n - 1 \in G => n \in G
  BY <1>2, <1>3
<1> HIDE DEF G
<1>6. 0 .. N \subseteq G
  BY <1>5, InductionUpto
<1>7. N \in G
  BY <1>6
<1> QED
  BY <1>4, <1>7 DEF G

\* The order of addr.Next() visits every address once.
LEMMA AscendingIsEnumeration ==
    ASSUME NEW S \in SUBSET Address
    PROVE  Ascending(S) \in Seq(S) /\ Range(Ascending(S)) = S
<1> DEFINE s == Ascending(S)
           c == Cardinality(S)
<1>1. Pow2[Width] \in Nat
  BY Pow2Def, SweepAssumption
<1>2. S \in SUBSET (0 .. Pow2[Width] - 1)
  BY DEF Address
<1>3. IsFiniteSet(S) /\ c \in Nat
  <2>1. IsFiniteSet(0 .. Pow2[Width] - 1)
    BY <1>1, FS_Interval
  <2> QED
    BY <1>2, <2>1, FS_Subset, FS_CardinalityType, Zenon
<1>4. \E e : e \in Enumerations(S)
  BY <1>1, <1>2, EnumerationExists, Zenon
<1>5. s \in [1 .. c -> S] /\ \A i, j \in DOMAIN s : i < j => s[i] < s[j]
  BY <1>4, Zenon DEF Ascending, Enumerations
<1> HIDE DEF s
<1>6. Range(s) \in SUBSET S /\ s \in [1 .. c -> Range(s)]
  BY <1>5 DEF Range
<1>7. Range(s) = S
  <2> SUFFICES ASSUME Range(s) # S PROVE FALSE
    OBVIOUS
  <2>1. IsFiniteSet(Range(s)) /\ Cardinality(Range(s)) < c /\ Cardinality(Range(s)) \in Nat
    BY <1>3, <1>6, FS_Subset, FS_CardinalityType
  <2>2. IsFiniteSet(1 .. c) /\ Cardinality(1 .. c) = c
    BY <1>3, FS_Interval
  <2>3. PICK x, y \in 1 .. c : x # y /\ s[x] = s[y]
    BY <1>6, <2>1, <2>2, FS_PigeonHole, Zenon
  <2>4. s[x] \in Nat /\ s[y] \in Nat
    <3>1. \A a \in S : a \in Nat
      BY <1>1, <1>2
    <3> QED
      BY <1>5, <2>3, <3>1
  <2> QED
    BY <1>3, <1>5, <2>3, <2>4
<1>8. s \in Seq(S)
  BY <1>3, <1>5
<1> QED
  BY <1>7, <1>8 DEF s
-----------------------------------------------------------------------------
(* The sweep. *)

\* The addresses a request for these CIDRs and exclusions stands for.
AddressesOf(cs, ex) ==
    {a \in UNION {HostsOf(cs[i]) : i \in DOMAIN cs} : ~IsExcluded(a, ex)}

\* What expandCIDRs carries from one CIDR to the next.
Expansion == [ok : BOOLEAN, addrs : Seq(Address), excluded : Nat]

KeptOf(p, ex) == {a \in HostsOf(p) : ~IsExcluded(a, ex)}

\* What a concatenation holds.
LEMMA RangeOfConcatenation ==
    ASSUME NEW S, NEW s \in Seq(S), NEW t \in Seq(S)
    PROVE  Range(s \o t) = Range(s) \cup Range(t)
<1>1. /\ Len(s) \in Nat /\ Len(t) \in Nat
      /\ DOMAIN s = 1 .. Len(s) /\ DOMAIN t = 1 .. Len(t)
      /\ DOMAIN (s \o t) = 1 .. Len(s) + Len(t)
  OBVIOUS
<1>2. ASSUME NEW i \in 1 .. Len(s) PROVE i \in DOMAIN (s \o t) /\ (s \o t)[i] = s[i]
  BY <1>1
<1>3. ASSUME NEW i \in 1 .. Len(t)
      PROVE  Len(s) + i \in DOMAIN (s \o t) /\ (s \o t)[Len(s) + i] = t[i]
  BY <1>1
<1>4. ASSUME NEW i \in DOMAIN (s \o t)
      PROVE  \/ i \in 1 .. Len(s) /\ (s \o t)[i] = s[i]
             \/ i - Len(s) \in 1 .. Len(t) /\ (s \o t)[i] = t[i - Len(s)]
  BY <1>1
<1>5. ASSUME NEW x \in Range(s \o t) PROVE x \in Range(s) \cup Range(t)
  <2>1. PICK i \in DOMAIN (s \o t) : x = (s \o t)[i]
    BY Zenon DEF Range
  <2> QED
    BY <1>1, <1>4, <2>1, Zenon DEF Range
<1>6. ASSUME NEW x \in Range(s) PROVE x \in Range(s \o t)
  <2>1. PICK i \in 1 .. Len(s) : x = s[i]
    BY <1>1, Zenon DEF Range
  <2> QED
    BY <1>2, <2>1, Zenon DEF Range
<1>7. ASSUME NEW x \in Range(t) PROVE x \in Range(s \o t)
  <2>1. PICK i \in 1 .. Len(t) : x = t[i]
    BY <1>1, Zenon DEF Range
  <2> QED
    BY <1>3, <2>1, Zenon DEF Range
<1> QED
  BY <1>5, <1>6, <1>7, Zenon

LEMMA ExpandOneIsExact ==
    ASSUME NEW acc \in Expansion, NEW p \in Prefix, NEW ex \in SUBSET Prefix
    PROVE  LET e == ExpandOne(acc, p, ex)
           IN  /\ e \in Expansion
               /\ e.ok => acc.ok /\ Range(e.addrs) = Range(acc.addrs) \cup KeptOf(p, ex)
<1> DEFINE e == ExpandOne(acc, p, ex)
           kept == KeptOf(p, ex)
           left == HostsOf(p) \ kept
           over == ~acc.ok \/ Len(acc.addrs) + Size(p) > MaxSweepAddresses
<1>1. e = IF over THEN [acc EXCEPT !.ok = FALSE]
          ELSE [acc EXCEPT !.addrs = @ \o Ascending(kept), !.excluded = @ + Cardinality(left)]
  BY DEF ExpandOne, KeptOf
<1>2. kept \in SUBSET Address
  BY HostsAreInside DEF KeptOf
<1>3. Ascending(kept) \in Seq(kept) /\ Range(Ascending(kept)) = kept
  BY <1>2, AscendingIsEnumeration
<1>4. Cardinality(left) \in Nat
  <2>1. IsFiniteSet(HostsOf(p)) /\ left \in SUBSET HostsOf(p)
    BY HostsAreInside
  <2> QED
    BY <2>1, FS_Subset, FS_CardinalityType
<1> HIDE DEF kept, left, over
<1>5. Ascending(kept) \in Seq(Address)
  BY <1>2, <1>3
<1>6. acc.addrs \in Seq(Address) /\ acc.excluded \in Nat
  BY DEF Expansion
<1>7. acc.addrs \o Ascending(kept) \in Seq(Address)
  BY <1>5, <1>6
<1>8. Range(acc.addrs \o Ascending(kept)) = Range(acc.addrs) \cup kept
  BY <1>3, <1>5, <1>6, RangeOfConcatenation
<1>9. CASE over
  <2>1. e = [acc EXCEPT !.ok = FALSE]
    BY <1>1, <1>9
  <2> HIDE DEF e
  <2>2. e \in Expansion /\ e.ok = FALSE
    BY <2>1, Zenon DEF Expansion
  <2> QED
    BY <2>2 DEF e
<1>10. CASE ~over
  <2>1. e = [acc EXCEPT !.addrs = @ \o Ascending(kept), !.excluded = @ + Cardinality(left)]
    BY <1>1, <1>10
  <2>2. acc.ok
    BY <1>10 DEF over
  <2> HIDE DEF e
  <2>3. /\ e.addrs = acc.addrs \o Ascending(kept) /\ e.ok = acc.ok
        /\ e.excluded = acc.excluded + Cardinality(left)
    BY <2>1 DEF Expansion
  <2>4. e \in Expansion
    <3>1. acc.excluded + Cardinality(left) \in Nat
      BY <1>4, <1>6
    <3> QED
      BY <1>7, <2>1, <3>1, Zenon DEF Expansion
  <2>5. Range(e.addrs) = Range(acc.addrs) \cup kept
    BY <1>8, <2>3
  <2> QED
    BY <2>2, <2>4, <2>5 DEF e, kept
<1> QED
  BY <1>9, <1>10

\* expandCIDRs lists exactly the addresses asked for.
LEMMA ExpandIsExact ==
    ASSUME NEW cs \in Seq(Prefix), NEW ex \in SUBSET Prefix
    PROVE  LET e == ExpandCIDRs(cs, ex)
           IN  e \in Expansion /\ (e.ok => Range(e.addrs) = AddressesOf(cs, ex))
<1> DEFINE N == Len(cs)
           first == [ok |-> TRUE, addrs |-> <<>>, excluded |-> 0]
           upto[n \in 0 .. Len(cs)] ==
               IF n = 0 THEN [ok |-> TRUE, addrs |-> <<>>, excluded |-> 0]
                        ELSE ExpandOne(upto[n - 1], cs[n], ex)
           Eq(f) == f = [n \in 0 .. Len(cs) |->
                            IF n = 0 THEN [ok |-> TRUE, addrs |-> <<>>, excluded |-> 0]
                                     ELSE ExpandOne(f[n - 1], cs[n], ex)]
           F == [n \in 1 .. N |-> [x \in Expansion |-> ExpandOne(x, cs[n], ex)]]
<1>1. N \in Nat /\ \A n \in 1 .. N : cs[n] \in Prefix
  OBVIOUS
<1>2. first \in Expansion
  BY DEF Expansion
<1>3. \A n \in 1 .. N, x \in Expansion : ExpandOne(x, cs[n], ex) \in Expansion
  BY <1>1, ExpandOneIsExact
<1>4. \A n \in 1 .. N, x \in Expansion : F[n][x] = ExpandOne(x, cs[n], ex)
  OBVIOUS
<1>5. StepsIn(Expansion, N, F)
  BY <1>3, <1>4 DEF StepsIn
<1> HIDE DEF F
<1>6. \E f : f \in Chains(Expansion, N, first, F)
  BY <1>1, <1>2, <1>5, RecursionExists
<1>7. \E f : Eq(f)
  <2>1. PICK f \in [0 .. N -> Expansion] : f[0] = first /\ \A n \in 1 .. N : f[n] = F[n][f[n - 1]]
    BY <1>6 DEF Chains
  <2>2. ASSUME NEW n \in 1 .. N PROVE f[n] = ExpandOne(f[n - 1], cs[n], ex)
    <3>1. f[n - 1] \in Expansion
      BY <1>1, <2>1
    <3> QED
      BY <1>4, <2>1, <3>1, SMTT(30)
  <2>3. Eq(f)
    BY <1>1, <2>1, <2>2
  <2> QED
    BY <2>3
<1>8. Eq(upto)
  BY <1>7, Zenon
<1>9. ExpandCIDRs(cs, ex) = upto[N]
  BY DEF ExpandCIDRs
<1>10. upto[0] = first /\ \A n \in 1 .. N : upto[n] = ExpandOne(upto[n - 1], cs[n], ex)
  <2>1. ASSUME NEW f, Eq(f)
        PROVE  f[0] = first /\ \A n \in 1 .. N : f[n] = ExpandOne(f[n - 1], cs[n], ex)
    <3>1. f[0] = first
      BY <1>1, <2>1
    <3>2. ASSUME NEW n \in 1 .. N PROVE f[n] = ExpandOne(f[n - 1], cs[n], ex)
      <4>1. n \in 0 .. Len(cs) /\ n # 0
        BY <1>1
      <4> QED
        BY <2>1, <4>1, Zenon
    <3> QED
      BY <3>1, <3>2
  <2> HIDE DEF upto, Eq
  <2> QED
    BY <1>8, <2>1
<1> HIDE DEF upto, Eq
<1> DEFINE Listed(n) == UNION {KeptOf(cs[i], ex) : i \in 1 .. n}
           Good(n) == upto[n] \in Expansion /\ (upto[n].ok => Range(upto[n].addrs) = Listed(n))
           G == {n \in 0 .. N : Good(n)}
<1>11. Good(0)
  <2>1. Range(<<>>) = {} /\ Listed(0) = {}
    BY DEF Range
  <2>2. upto[0].addrs = <<>>
    BY <1>10
  <2> QED
    BY <1>2, <1>10, <2>1, <2>2
<1>12. ASSUME NEW n \in 1 .. N, Good(n - 1) PROVE Good(n)
  <2>1. /\ upto[n] \in Expansion
        /\ upto[n].ok => /\ upto[n - 1].ok
                         /\ Range(upto[n].addrs) = Range(upto[n - 1].addrs) \cup KeptOf(cs[n], ex)
    <3>1. upto[n - 1] \in Expansion /\ cs[n] \in Prefix
      BY <1>1, <1>12
    <3>2. upto[n] = ExpandOne(upto[n - 1], cs[n], ex)
      BY <1>10
    <3> QED
      BY <3>1, <3>2, ExpandOneIsExact
  <2>2. Listed(n) = Listed(n - 1) \cup KeptOf(cs[n], ex)
    <3>1. 1 .. n = 1 .. n - 1 \cup {n}
      OBVIOUS
    <3> QED
      BY <3>1
  <2> HIDE DEF Listed
  <2> QED
    BY <1>12, <2>1, <2>2
<1> HIDE DEF Good
<1>13. 0 \in G /\ \A n \in 1 .. N : n - 1 \in G => n \in G
  BY <1>1, <1>11, <1>12
<1> HIDE DEF G
<1>14. 0 .. N \subseteq G
  BY <1>1, <1>13, InductionUpto, Zenon
<1>15. Good(N)
  BY <1>1, <1>14 DEF G
<1>16. Listed(N) = AddressesOf(cs, ex)
  <2>1. DOMAIN cs = 1 .. N
    OBVIOUS
  <2> QED
    BY <2>1 DEF AddressesOf, KeptOf
<1> QED
  BY <1>9, <1>15, <1>16, Zenon DEF Good

\* The list being swept is exactly that of the request, and the request passed
\* the scope test.
ListIsRequest ==
    /\ cidrs \in Seq(Prefix) /\ addrs \in Seq(Address)
    /\ \A i \in DOMAIN cidrs :
          Masked(cidrs[i]) = cidrs[i] /\ (allowedNets # {} => PrefixWithinAny(cidrs[i], allowedNets))
    /\ Range(addrs) = AddressesOf(cidrs, exclusions)

\* Before and after a request there is nothing left of another.
NothingLeftOver ==
    sweepStage \in {"idle", "refused"} =>
        /\ cidrs = <<>> /\ exclusions = {} /\ addrs = <<>> /\ fed = 0
        /\ workClosed = FALSE /\ sweepCancelled = FALSE
        /\ probed = {} /\ answered = {} /\ DOMAIN hosts = {}

\* What a worker holds.
WorkersHold ==
    \A w \in 1 .. NWorkers :
        /\ worker[w].at \in {"receive", "ended"} => worker[w].port = 1 /\ worker[w].open = {}
        /\ worker[w].at \in {"probe", "offer"} => worker[w].ip \in Range(addrs)
        /\ worker[w].at = "probe" => worker[w].port \in Ports
        /\ worker[w].at = "offer" => worker[w].open # {}
        /\ \A q \in worker[w].open : <<worker[w].ip, q>> \in answered

ProbesListed == probed \subseteq Range(addrs) \X Ports

\* An address handed over has been probed on a port, or a worker is on its way
\* to that port.
HandedOverIsProbed ==
    ~sweepCancelled =>
        \A i \in 1 .. fed, q \in Ports :
            \/ <<addrs[i], q>> \in probed
            \/ \E w \in 1 .. NWorkers :
                  worker[w].at = "probe" /\ worker[w].ip = addrs[i] /\ worker[w].port <= q

\* The feeder closes work after the last address, the workers end after that.
ClosedAtTheEnd ==
    ~sweepCancelled =>
        /\ workClosed => fed = Len(addrs)
        /\ sweepStage \in {"probing", "returned"} =>
              \A w \in 1 .. NWorkers : w <= Len(addrs) /\ worker[w].at = "ended" => workClosed

ReturnedAfterWorkers ==
    sweepStage = "returned" => \A w \in 1 .. NWorkers : worker[w].at = "ended"

\* An answer is in the result or with a worker, and the result has only answers.
AnswersAreKept ==
    /\ \A a \in DOMAIN hosts : hosts[a] # {} /\ \A q \in hosts[a] : <<a, q>> \in answered
    /\ ~sweepCancelled =>
          \A pair \in answered :
              \/ pair[1] \in DOMAIN hosts
              \/ \E w \in 1 .. NWorkers :
                    worker[w].at \in {"probe", "offer"} /\ worker[w].ip = pair[1] /\ worker[w].open # {}

SweepIInv ==
    /\ SweepTypeOK /\ ListIsRequest /\ NothingLeftOver /\ WorkersHold /\ ProbesListed
    /\ HandedOverIsProbed /\ ClosedAtTheEnd /\ ReturnedAfterWorkers /\ AnswersAreKept

LEMMA IdleWorkers == Ready \in Worker /\ Gone \in Worker
<1>1. 0 \in Address
  BY Pow2Def, SweepAssumption DEF Address
<1>2. Cardinality(Ports) \in Nat
  BY SweepAssumption, FS_CardinalityType
<1> QED
  BY <1>1, <1>2 DEF Ready, Gone, Worker

LEMMA NothingIsListed == Range(<<>>) = {} /\ AddressesOf(<<>>, {}) = {}
  BY DEF Range, AddressesOf

\* No request is being handled.
SweepAtRest == allowedNets \subseteq Prefix /\ SweepInit(allowedNets)

LEMMA SweepInitIInv == SweepAtRest => SweepIInv
<1> SUFFICES ASSUME SweepAtRest PROVE SweepIInv
  OBVIOUS
<1> USE DEF SweepAtRest, SweepInit
<1>1. SweepTypeOK
  <2>1. worker \in [1 .. NWorkers -> Worker]
    BY IdleWorkers
  <2>2. allowedNets \subseteq Prefix
    OBVIOUS
  <2>3. DOMAIN cidrs = {} /\ DOMAIN addrs = {} /\ Len(addrs) = 0 /\ DOMAIN hosts = {}
    OBVIOUS
  <2>4. workClosed \in BOOLEAN /\ sweepCancelled \in BOOLEAN
    BY Zenon
  <2>5. fed \in 0 .. Len(addrs) /\ excluded \in Nat
    BY <2>3
  <2>6. /\ exclusions \subseteq Prefix /\ answered \subseteq Address \X Ports
        /\ probed \subseteq Address \X Ports
        /\ sweepStage \in {"idle", "probing", "refused", "returned"}
    OBVIOUS
  <2> HIDE DEF SweepAtRest, SweepInit
  <2> QED
    BY <2>1, <2>2, <2>3, <2>4, <2>5, <2>6 DEF SweepTypeOK
<1>2. ListIsRequest
  <2>1. cidrs \in Seq(Prefix) /\ addrs \in Seq(Address) /\ DOMAIN cidrs = {}
    OBVIOUS
  <2>2. cidrs = <<>> /\ addrs = <<>> /\ exclusions = {}
    OBVIOUS
  <2>3. Range(addrs) = AddressesOf(cidrs, exclusions)
    BY <2>2, NothingIsListed, Zenon
  <2> QED
    BY <2>1, <2>3 DEF ListIsRequest
<1>3. NothingLeftOver
  BY DEF NothingLeftOver
<1>4. WorkersHold
  BY DEF WorkersHold, Gone
<1>5. ProbesListed
  BY DEF ProbesListed
<1>6. HandedOverIsProbed
  BY DEF HandedOverIsProbed
<1>7. ClosedAtTheEnd
  BY DEF ClosedAtTheEnd
<1>8. ReturnedAfterWorkers
  BY DEF ReturnedAfterWorkers
<1>9. AnswersAreKept
  BY DEF AnswersAreKept
<1> QED
  BY <1>1, <1>2, <1>3, <1>4, <1>5, <1>6, <1>7, <1>8, <1>9 DEF SweepIInv

\* The parameters of a request, once parsed.
LEMMA ParsedParams ==
    ASSUME NEW raw \in Seq(Prefix), NEW rawEx \in SUBSET Prefix
    PROVE  LET cfg == ParseSweepParams(raw, rawEx)
           IN  /\ cfg.cidrs \in Seq(Prefix) /\ cfg.exclusions \in SUBSET Prefix
               /\ \A i \in DOMAIN cfg.cidrs : Masked(cfg.cidrs[i]) = cfg.cidrs[i]
<1> DEFINE cfg == ParseSweepParams(raw, rawEx)
<1>1. cfg.cidrs = [i \in DOMAIN raw |-> Masked(raw[i])]
  BY DEF ParseSweepParams
<1>2. cfg.exclusions = {Masked(p) : p \in rawEx}
  BY DEF ParseSweepParams
<1> HIDE DEF cfg
<1>3. DOMAIN raw = 1 .. Len(raw) /\ Len(raw) \in Nat /\ \A i \in DOMAIN raw : raw[i] \in Prefix
  OBVIOUS
<1>4. \A i \in DOMAIN raw : Masked(raw[i]) \in Prefix /\ Masked(Masked(raw[i])) = Masked(raw[i])
  BY <1>3, MaskedPrefix, MaskedTwice
<1>5. cfg.cidrs \in [1 .. Len(raw) -> Prefix]
  BY <1>1, <1>3, <1>4
<1>6. cfg.cidrs \in Seq(Prefix)
  BY <1>3, <1>5
<1>7. cfg.exclusions \in SUBSET Prefix
  BY <1>2, MaskedPrefix
<1>8. ASSUME NEW i \in DOMAIN cfg.cidrs PROVE Masked(cfg.cidrs[i]) = cfg.cidrs[i]
  BY <1>1, <1>4
<1> QED
  BY <1>6, <1>7, <1>8 DEF cfg

LEMMA HandleSweepIInv ==
    ASSUME SweepIInv, NEW raw \in Seq(Prefix), NEW rawEx \in SUBSET Prefix,
           HandleSweep(raw, rawEx)
    PROVE  SweepIInv'
<1> DEFINE cfg == ParseSweepParams(raw, rawEx)
           e == ExpandCIDRs(cfg.cidrs, cfg.exclusions)
<1>1. /\ cfg.cidrs \in Seq(Prefix) /\ cfg.exclusions \in SUBSET Prefix
      /\ \A i \in DOMAIN cfg.cidrs : Masked(cfg.cidrs[i]) = cfg.cidrs[i]
  BY ParsedParams
<1>2. e \in Expansion /\ (e.ok => Range(e.addrs) = AddressesOf(cfg.cidrs, cfg.exclusions))
  <2> HIDE DEF cfg
  <2> QED
    BY <1>1, ExpandIsExact
<1>3. /\ sweepStage = "idle"
      /\ UNCHANGED <<allowedNets, fed, workClosed, hosts, answered, probed, sweepCancelled>>
  BY DEF HandleSweep
<1>4. /\ cidrs = <<>> /\ exclusions = {} /\ addrs = <<>> /\ fed = 0
      /\ workClosed = FALSE /\ sweepCancelled = FALSE
      /\ probed = {} /\ answered = {} /\ DOMAIN hosts = {}
  BY <1>3 DEF SweepIInv, NothingLeftOver
<1>5. CASE /\ sweepStage' = "refused"
           /\ UNCHANGED <<cidrs, exclusions, addrs, excluded, worker>>
  <2> USE <1>3, <1>5
  <2>1. SweepTypeOK'
    BY DEF SweepIInv, SweepTypeOK
  <2>2. ListIsRequest'
    BY DEF SweepIInv, ListIsRequest
  <2>3. NothingLeftOver'
    BY <1>4 DEF NothingLeftOver
  <2>4. WorkersHold'
    BY DEF SweepIInv, WorkersHold
  <2>5. ProbesListed'
    BY DEF SweepIInv, ProbesListed
  <2>6. HandedOverIsProbed'
    BY <1>4 DEF HandedOverIsProbed
  <2>7. ClosedAtTheEnd'
    BY <1>4 DEF ClosedAtTheEnd
  <2>8. ReturnedAfterWorkers'
    BY DEF ReturnedAfterWorkers
  <2>9. AnswersAreKept'
    BY <1>4 DEF AnswersAreKept
  <2> QED
    BY <2>1, <2>2, <2>3, <2>4, <2>5, <2>6, <2>7, <2>8, <2>9 DEF SweepIInv
<1>6. CASE /\ cfg.ok /\ InScope(cfg) /\ e.ok
           /\ sweepStage' = "probing"
           /\ cidrs' = cfg.cidrs
           /\ exclusions' = cfg.exclusions
           /\ addrs' = e.addrs
           /\ excluded' = e.excluded
           /\ worker' = [w \in 1 .. NWorkers |-> IF w <= Len(e.addrs) THEN Ready ELSE Gone]
  <2>1. e.addrs \in Seq(Address) /\ e.excluded \in Nat
    BY <1>2 DEF Expansion
  <2>2. \A i \in DOMAIN cfg.cidrs : allowedNets # {} => PrefixWithinAny(cfg.cidrs[i], allowedNets)
    BY <1>6 DEF InScope
  <2> HIDE DEF cfg, e
  <2>3. worker' \in [1 .. NWorkers -> Worker]
    BY <1>6, IdleWorkers
  <2>4. \A w \in 1 .. NWorkers : worker'[w] \in {Ready, Gone} /\ (w <= Len(e.addrs) => worker'[w] = Ready)
    BY <1>6
  <2>5. SweepTypeOK'
    BY <1>1, <1>3, <1>4, <1>6, <2>1, <2>3, SMTT(30) DEF SweepIInv, SweepTypeOK
  <2>6. ListIsRequest'
    BY <1>1, <1>2, <1>3, <1>6, <2>1, <2>2 DEF ListIsRequest
  <2>7. NothingLeftOver'
    BY <1>6 DEF NothingLeftOver
  <2>8. WorkersHold'
    BY <2>4 DEF WorkersHold, Ready, Gone
  <2>9. ProbesListed'
    BY <1>3, <1>4 DEF ProbesListed
  <2>10. HandedOverIsProbed'
    BY <1>3, <1>4 DEF HandedOverIsProbed
  <2>11. ClosedAtTheEnd'
    BY <1>3, <1>4, <1>6, <2>4 DEF ClosedAtTheEnd, Ready
  <2>12. ReturnedAfterWorkers'
    BY <1>6 DEF ReturnedAfterWorkers
  <2>13. AnswersAreKept'
    BY <1>3, <1>4 DEF AnswersAreKept
  <2> QED
    BY <2>5, <2>6, <2>7, <2>8, <2>9, <2>10, <2>11, <2>12, <2>13 DEF SweepIInv
<1> QED
  BY <1>5, <1>6 DEF HandleSweep

LEMMA PortNumbers ==
    /\ Cardinality(Ports) \in Nat \ {0}
    /\ Ports = 1 .. Cardinality(Ports)
<1>1. Cardinality(Ports) \in Nat /\ Ports = 1 .. Cardinality(Ports) /\ Ports # {}
  BY SweepAssumption, FS_CardinalityType
<1> QED
  BY <1>1

LEMMA FeedIInv ==
    ASSUME SweepIInv, NEW w \in 1 .. NWorkers, Feed(w)
    PROVE  SweepIInv'
<1> DEFINE a == addrs[fed + 1]
           v == [worker[w] EXCEPT !.at = "probe", !.ip = a]
<1>1. /\ sweepStage = "probing" /\ ~workClosed /\ fed < Len(addrs)
      /\ worker[w].at = "receive" /\ fed' = fed + 1
      /\ worker' = [worker EXCEPT ![w] = v]
      /\ UNCHANGED <<allowedNets, sweepStage, cidrs, exclusions, addrs, excluded, workClosed,
                     hosts, answered, probed, sweepCancelled>>
  BY DEF Feed
<1>2. SweepTypeOK /\ addrs \in Seq(Address)
  BY DEF SweepIInv, ListIsRequest
<1>3. worker \in [1 .. NWorkers -> Worker] /\ fed \in 0 .. Len(addrs) /\ Len(addrs) \in Nat
  BY <1>2 DEF SweepTypeOK
<1>4. a \in Range(addrs) /\ a \in Address
  <2>1. fed + 1 \in DOMAIN addrs
    BY <1>1, <1>2, <1>3
  <2> QED
    BY <1>2, <2>1 DEF Range
<1>5. worker[w].port = 1 /\ worker[w].open = {}
  BY <1>1 DEF SweepIInv, WorkersHold
<1> HIDE DEF a
<1>6. /\ v \in Worker /\ v.at = "probe" /\ v.ip = a /\ v.port = 1 /\ v.open = {}
  BY <1>3, <1>4, <1>5, ZenonT(40) DEF Worker
<1> HIDE DEF v
<1>7. worker' \in [1 .. NWorkers -> Worker] /\ worker'[w] = v
  BY <1>1, <1>3, <1>6
<1>8. \A x \in 1 .. NWorkers : x # w => worker'[x] = worker[x]
  BY <1>1, <1>3
<1>9. SweepTypeOK'
  <2>1. fed' \in 0 .. Len(addrs)
    BY <1>1, <1>3
  <2> QED
    BY <1>1, <1>2, <1>7, <2>1 DEF SweepTypeOK
<1>10. ListIsRequest'
  BY <1>1 DEF SweepIInv, ListIsRequest
<1>11. NothingLeftOver'
  BY <1>1, SMTT(30) DEF NothingLeftOver
<1>12. WorkersHold'
  <2>1. ASSUME NEW x \in 1 .. NWorkers, x # w
        PROVE  /\ worker'[x] = worker[x] /\ addrs' = addrs /\ answered' = answered
    BY <1>1, <1>8, <2>1
  <2>2. 1 \in Ports
    BY PortNumbers
  <2> QED
    BY <1>1, <1>4, <1>6, <1>7, <2>1, <2>2, ZenonT(40) DEF SweepIInv, WorkersHold
<1>13. ProbesListed'
  BY <1>1 DEF SweepIInv, ProbesListed
<1>14. HandedOverIsProbed'
  <2> SUFFICES ASSUME ~sweepCancelled, NEW i \in 1 .. fed + 1, NEW q \in Ports
               PROVE  \/ <<addrs[i], q>> \in probed
                      \/ \E x \in 1 .. NWorkers :
                            worker'[x].at = "probe" /\ worker'[x].ip = addrs[i] /\ worker'[x].port <= q
    BY <1>1 DEF HandedOverIsProbed
  <2>1. CASE i = fed + 1
    <3>1. 1 <= q
      BY PortNumbers
    <3> QED
      BY <1>6, <1>7, <2>1, <3>1 DEF a
  <2>2. CASE i # fed + 1
    <3>1. i \in 1 .. fed
      BY <1>3, <2>2
    <3>2. CASE <<addrs[i], q>> \in probed
      BY <3>2
    <3>3. CASE \E x \in 1 .. NWorkers :
                  worker[x].at = "probe" /\ worker[x].ip = addrs[i] /\ worker[x].port <= q
      <4>1. PICK x \in 1 .. NWorkers :
                  worker[x].at = "probe" /\ worker[x].ip = addrs[i] /\ worker[x].port <= q
        BY <3>3
      <4>2. x # w
        BY <1>1, <4>1
      <4> QED
        BY <1>8, <4>1, <4>2
    <3> QED
      BY <3>1, <3>2, <3>3 DEF SweepIInv, HandedOverIsProbed
  <2> QED
    BY <2>1, <2>2
<1>15. ClosedAtTheEnd'
  <2>1. \A x \in 1 .. NWorkers : worker'[x].at = "ended" => worker[x].at = "ended"
    BY <1>6, <1>7, <1>8
  <2> QED
    BY <1>1, <2>1 DEF SweepIInv, ClosedAtTheEnd
<1>16. ReturnedAfterWorkers'
  BY <1>1 DEF ReturnedAfterWorkers
<1>17. AnswersAreKept'
  <2>1. \A x \in 1 .. NWorkers :
           worker[x].at \in {"probe", "offer"} => worker'[x] = worker[x]
    BY <1>1, <1>8
  <2>2. ASSUME ~sweepCancelled, NEW pair \in answered, pair[1] \notin DOMAIN hosts
        PROVE  \E x \in 1 .. NWorkers :
                  worker'[x].at \in {"probe", "offer"} /\ worker'[x].ip = pair[1] /\ worker'[x].open # {}
    BY <2>1, <2>2 DEF SweepIInv, AnswersAreKept
  <2>3. \A b \in DOMAIN hosts : hosts[b] # {} /\ \A q \in hosts[b] : <<b, q>> \in answered
    BY DEF SweepIInv, AnswersAreKept
  <2> QED
    BY <1>1, <2>2, <2>3 DEF AnswersAreKept
<1> QED
  BY <1>9, <1>10, <1>11, <1>12, <1>13, <1>14, <1>15, <1>16, <1>17 DEF SweepIInv

LEMMA CloseWorkIInv == ASSUME SweepIInv, CloseWork PROVE SweepIInv'
<1>1. /\ sweepStage = "probing" /\ FeedEnds /\ workClosed' = TRUE
      /\ UNCHANGED <<allowedNets, sweepStage, cidrs, exclusions, addrs, excluded, fed, worker,
                     hosts, answered, probed, sweepCancelled>>
  BY DEF CloseWork
<1>2. SweepTypeOK'
  BY <1>1 DEF SweepIInv, SweepTypeOK
<1>3. ListIsRequest' /\ ProbesListed'
  BY <1>1 DEF SweepIInv, ListIsRequest, ProbesListed
<1>4. NothingLeftOver' /\ ReturnedAfterWorkers'
  BY <1>1 DEF NothingLeftOver, ReturnedAfterWorkers
<1>5. WorkersHold'
  BY <1>1 DEF SweepIInv, WorkersHold
<1>6. HandedOverIsProbed'
  BY <1>1 DEF SweepIInv, HandedOverIsProbed
<1>7. ClosedAtTheEnd'
  BY <1>1, ZenonT(20) DEF ClosedAtTheEnd, FeedEnds
<1>8. AnswersAreKept'
  BY <1>1 DEF SweepIInv, AnswersAreKept
<1> QED
  BY <1>2, <1>3, <1>4, <1>5, <1>6, <1>7, <1>8 DEF SweepIInv

\* Worker v after its port was probed, with these ports open so far, and what
\* becomes of it.
Tried(v, open) == [v EXCEPT !.port = v.port + 1, !.open = open]

AfterTry(u, v, open) ==
    /\ u \in Worker
    /\ u.at \in {"probe", "offer", "receive"}
    /\ u.at = "probe" => u.ip = v.ip /\ u.port = v.port + 1 /\ u.open = open /\ u.port \in Ports
    /\ u.at = "offer" => u.ip = v.ip /\ u.open = open /\ open # {}
    /\ u.at = "receive" => u = Ready /\ open = {} /\ v.port = Cardinality(Ports)
    /\ u.at # "probe" => v.port = Cardinality(Ports)

LEMMA AfterPortCases ==
    ASSUME NEW v \in Worker, v.at = "probe", v.port \in Ports, NEW open \in SUBSET Ports
    PROVE  AfterTry(AfterPort(Tried(v, open)), v, open)
<1> DEFINE n == Tried(v, open)
           u == AfterPort(n)
           C == Cardinality(Ports)
<1>1. C \in Nat \ {0} /\ Ports = 1 .. C
  BY PortNumbers
<1>2. v.port \in 1 .. C /\ v.port + 1 \in 1 .. C + 1
  BY <1>1
<1>3. n.at = "probe" /\ n.ip = v.ip /\ n.port = v.port + 1 /\ n.open = open /\ n \in Worker
  BY <1>2, Zenon DEF Worker, Tried
<1> HIDE DEF n, C
<1>4. CASE n.port <= C
  <2>1. AfterPort(n) = n
    BY <1>1, <1>2, <1>3, <1>4 DEF AfterPort, C
  <2>2. n.port \in Ports
    BY <1>1, <1>2, <1>3, <1>4
  <2> QED
    BY <1>3, <2>1, <2>2 DEF AfterTry, n
<1>5. CASE ~(n.port <= C)
  <2>1. n.port > C /\ v.port = C
    BY <1>1, <1>2, <1>3, <1>5
  <2>2. CASE open # {}
    <3>1. AfterPort(n) = [n EXCEPT !.at = "offer"]
      BY <1>3, <1>5, <2>1, <2>2 DEF AfterPort, C
    <3>2. u = [n EXCEPT !.at = "offer"]
      BY <3>1
    <3> HIDE DEF u
    <3>3. u \in Worker /\ u.at = "offer" /\ u.ip = v.ip /\ u.open = open
      BY <1>3, <3>2 DEF Worker
    <3> QED
      BY <2>1, <2>2, <3>3 DEF AfterTry, C, u, n
  <2>3. CASE open = {}
    <3>1. AfterPort(n) = Ready
      BY <1>3, <1>5, <2>1, <2>3 DEF AfterPort, C
    <3>2. Ready.at = "receive"
      BY DEF Ready
    <3> QED
      BY <2>1, <2>3, <3>1, <3>2, IdleWorkers DEF AfterTry, n, C
  <2> QED
    BY <2>2, <2>3
<1> QED
  BY <1>4, <1>5

LEMMA ProbeIInv ==
    ASSUME SweepIInv, NEW w \in 1 .. NWorkers, NEW connects \in BOOLEAN, Probe(w, connects)
    PROVE  SweepIInv'
<1> DEFINE v == worker[w]
           open == IF connects THEN v.open \cup {v.port} ELSE v.open
           u == AfterPort(Tried(v, open))
           here == <<v.ip, v.port>>
<1>1. /\ sweepStage = "probing" /\ v.at = "probe" /\ ~sweepCancelled
      /\ probed' = probed \cup {here}
      /\ answered' = (IF connects THEN answered \cup {here} ELSE answered)
      /\ UNCHANGED <<allowedNets, sweepStage, cidrs, exclusions, addrs, excluded, fed, workClosed,
                     hosts, sweepCancelled>>
  BY DEF Probe
<1>2. worker' = [worker EXCEPT ![w] = u]
  BY DEF Probe, Tried
<1>3. SweepTypeOK /\ worker \in [1 .. NWorkers -> Worker] /\ v \in Worker
  BY DEF SweepIInv, SweepTypeOK
<1>4. /\ v.ip \in Range(addrs) /\ v.port \in Ports /\ v.open \in SUBSET Ports /\ v.ip \in Address
      /\ \A q \in v.open : <<v.ip, q>> \in answered
  BY <1>1, <1>3 DEF SweepIInv, WorkersHold, Worker
<1>5. /\ open \in SUBSET Ports
      /\ v.open \subseteq open
      /\ connects => v.port \in open
      /\ \A q \in open : q \in v.open \/ (connects /\ q = v.port)
  BY <1>4
<1> HIDE DEF v, open
<1>6. AfterTry(u, v, open)
  BY <1>1, <1>3, <1>4, <1>5, AfterPortCases
<1> HIDE DEF u, here
<1>7. worker' \in [1 .. NWorkers -> Worker] /\ worker'[w] = u
  BY <1>2, <1>3, <1>6 DEF AfterTry
<1>8. \A x \in 1 .. NWorkers : x # w => worker'[x] = worker[x]
  BY <1>2, <1>3
<1>9. answered \subseteq answered' /\ (connects => here \in answered')
  BY <1>1
<1>10. SweepTypeOK'
  <2>1. here \in Address \X Ports
    BY <1>4 DEF here
  <2>2. answered' \subseteq Address \X Ports /\ probed' \subseteq Address \X Ports
    BY <1>1, <1>3, <2>1 DEF SweepTypeOK
  <2> QED
    BY <1>1, <1>3, <1>7, <2>2 DEF SweepTypeOK
<1>11. ListIsRequest'
  BY <1>1, ZenonT(20) DEF SweepIInv, ListIsRequest
<1>12. NothingLeftOver' /\ ReturnedAfterWorkers'
  BY <1>1 DEF NothingLeftOver, ReturnedAfterWorkers
<1>13. WorkersHold'
  <2>1. ASSUME NEW x \in 1 .. NWorkers, x # w
        PROVE  /\ worker'[x] = worker[x] /\ addrs' = addrs
               /\ \A q \in worker[x].open : <<worker[x].ip, q>> \in answered'
    BY <1>1, <1>8, <1>9, <2>1 DEF SweepIInv, WorkersHold
  <2>2. \A q \in open : <<v.ip, q>> \in answered'
    BY <1>4, <1>5, <1>9 DEF here
  <2>3. u.at = "receive" => u.port = 1 /\ u.open = {}
    BY <1>6 DEF AfterTry, Ready
  <2>4. \A q \in u.open : <<u.ip, q>> \in answered'
    BY <1>6, <2>2, <2>3 DEF AfterTry
  <2>5. ASSUME NEW x \in 1 .. NWorkers
        PROVE  /\ worker'[x].at \in {"receive", "ended"} => worker'[x].port = 1 /\ worker'[x].open = {}
               /\ worker'[x].at \in {"probe", "offer"} => worker'[x].ip \in Range(addrs)
               /\ worker'[x].at = "probe" => worker'[x].port \in Ports
               /\ worker'[x].at = "offer" => worker'[x].open # {}
               /\ \A q \in worker'[x].open : <<worker'[x].ip, q>> \in answered'
    <3>1. CASE x = w
      BY <1>4, <1>6, <1>7, <2>3, <2>4, <3>1, ZenonT(20) DEF AfterTry
    <3>2. CASE x # w
      BY <2>1, <3>2, ZenonT(20) DEF SweepIInv, WorkersHold
    <3> QED
      BY <3>1, <3>2
  <2> QED
    BY <1>1, <2>5 DEF WorkersHold
<1>14. ProbesListed'
  BY <1>1, <1>4 DEF SweepIInv, ProbesListed, here
<1>15. HandedOverIsProbed'
  <2> SUFFICES ASSUME NEW i \in 1 .. fed, NEW q \in Ports, <<addrs[i], q>> \notin probed'
               PROVE  \E x \in 1 .. NWorkers :
                         worker'[x].at = "probe" /\ worker'[x].ip = addrs[i] /\ worker'[x].port <= q
    BY <1>1 DEF HandedOverIsProbed
  <2>1. PICK x \in 1 .. NWorkers :
           worker[x].at = "probe" /\ worker[x].ip = addrs[i] /\ worker[x].port <= q
    BY <1>1 DEF SweepIInv, HandedOverIsProbed
  <2>2. CASE x # w
    BY <1>8, <2>1, <2>2
  <2>3. CASE x = w
    <3>1. v.ip = addrs[i] /\ v.port <= q /\ v.port # q
      BY <1>1, <2>1, <2>3 DEF v, here
    <3>2. v.port # Cardinality(Ports) /\ v.port + 1 <= q
      BY <1>4, <3>1, PortNumbers
    <3>3. u.at = "probe" /\ u.ip = addrs[i] /\ u.port <= q
      BY <1>6, <3>1, <3>2 DEF AfterTry
    <3> QED
      BY <1>7, <3>3
  <2> QED
    BY <2>2, <2>3
<1>16. ClosedAtTheEnd'
  <2>1. \A x \in 1 .. NWorkers : worker'[x].at = "ended" => worker[x].at = "ended"
    BY <1>6, <1>7, <1>8 DEF AfterTry
  <2> QED
    BY <1>1, <2>1 DEF SweepIInv, ClosedAtTheEnd
<1>17. AnswersAreKept'
  <2>1. open # {} => u.at \in {"probe", "offer"} /\ u.ip = v.ip /\ u.open # {}
    BY <1>6 DEF AfterTry
  <2>2. ASSUME NEW pair \in answered', pair[1] \notin DOMAIN hosts
        PROVE  \E x \in 1 .. NWorkers :
                  worker'[x].at \in {"probe", "offer"} /\ worker'[x].ip = pair[1] /\ worker'[x].open # {}
    <3>1. CASE pair \in answered
      <4>1. PICK x \in 1 .. NWorkers :
                  worker[x].at \in {"probe", "offer"} /\ worker[x].ip = pair[1] /\ worker[x].open # {}
        BY <1>1, <2>2, <3>1 DEF SweepIInv, AnswersAreKept
      <4>2. CASE x # w
        BY <1>8, <4>1, <4>2
      <4>3. CASE x = w
        <5>1. open # {} /\ v.ip = pair[1]
          BY <1>5, <4>1, <4>3 DEF v
        <5> QED
          BY <1>7, <2>1, <5>1
      <4> QED
        BY <4>2, <4>3
    <3>2. CASE pair \notin answered
      <4>1. connects /\ pair = here
        BY <1>1, <2>2, <3>2
      <4>2. open # {} /\ pair[1] = v.ip
        BY <1>5, <4>1 DEF here
      <4> QED
        BY <1>7, <2>1, <4>2
    <3> QED
      BY <3>1, <3>2
  <2>3. \A b \in DOMAIN hosts : hosts[b] # {} /\ \A q \in hosts[b] : <<b, q>> \in answered'
    BY <1>9 DEF SweepIInv, AnswersAreKept
  <2> QED
    BY <1>1, <2>2, <2>3 DEF AnswersAreKept
<1> QED
  BY <1>10, <1>11, <1>12, <1>13, <1>14, <1>15, <1>16, <1>17 DEF SweepIInv

LEMMA CollectIInv ==
    ASSUME SweepIInv, NEW w \in 1 .. NWorkers, Collect(w)
    PROVE  SweepIInv'
<1> DEFINE v == worker[w]
<1>1. /\ sweepStage = "probing" /\ v.at = "offer"
      /\ hosts' = [a \in DOMAIN hosts \cup {v.ip} |-> IF a = v.ip THEN v.open ELSE hosts[a]]
      /\ worker' = [worker EXCEPT ![w] = Ready]
      /\ UNCHANGED <<allowedNets, sweepStage, cidrs, exclusions, addrs, excluded, fed, workClosed,
                     answered, probed, sweepCancelled>>
  BY DEF Collect
<1>2. SweepTypeOK /\ worker \in [1 .. NWorkers -> Worker] /\ v.ip \in Address /\ v.open \in SUBSET Ports
  BY DEF SweepIInv, SweepTypeOK, Worker
<1>3. v.open # {} /\ \A q \in v.open : <<v.ip, q>> \in answered
  BY <1>1 DEF SweepIInv, WorkersHold
<1>4. worker' \in [1 .. NWorkers -> Worker] /\ worker'[w] = Ready
  BY <1>1, <1>2, IdleWorkers
<1>5. \A x \in 1 .. NWorkers : x # w => worker'[x] = worker[x]
  BY <1>1, <1>2
<1>6. Ready.at = "receive" /\ Ready.port = 1 /\ Ready.open = {}
  BY DEF Ready
<1> HIDE DEF v
<1>7. DOMAIN hosts' = DOMAIN hosts \cup {v.ip}
  BY <1>1
<1>8. \A a \in DOMAIN hosts' : hosts'[a] = IF a = v.ip THEN v.open ELSE hosts[a]
  BY <1>1
<1>9. SweepTypeOK'
  <2>1. DOMAIN hosts' \subseteq Address
    BY <1>2, <1>7 DEF SweepTypeOK
  <2>2. \A a \in DOMAIN hosts' : hosts'[a] \in SUBSET Ports
    BY <1>2, <1>7, <1>8 DEF SweepTypeOK
  <2> QED
    BY <1>1, <1>2, <1>4, <2>1, <2>2 DEF SweepTypeOK
<1>10. ListIsRequest' /\ ProbesListed'
  BY <1>1 DEF SweepIInv, ListIsRequest, ProbesListed
<1>11. NothingLeftOver' /\ ReturnedAfterWorkers'
  BY <1>1 DEF NothingLeftOver, ReturnedAfterWorkers
<1>12. WorkersHold'
  BY <1>1, <1>4, <1>5, <1>6, ZenonT(20) DEF SweepIInv, WorkersHold
<1>13. HandedOverIsProbed'
  <2>1. \A x \in 1 .. NWorkers : worker[x].at = "probe" => worker'[x] = worker[x]
    BY <1>1, <1>5 DEF v
  <2>2. ASSUME ~sweepCancelled, NEW i \in 1 .. fed, NEW q \in Ports, <<addrs[i], q>> \notin probed
        PROVE  \E x \in 1 .. NWorkers :
                  worker'[x].at = "probe" /\ worker'[x].ip = addrs[i] /\ worker'[x].port <= q
    BY <2>1, <2>2 DEF SweepIInv, HandedOverIsProbed
  <2> QED
    BY <1>1, <2>2 DEF HandedOverIsProbed
<1>14. ClosedAtTheEnd'
  <2>1. \A x \in 1 .. NWorkers : worker'[x].at = "ended" => worker[x].at = "ended"
    BY <1>4, <1>5, <1>6
  <2> QED
    BY <1>1, <2>1 DEF SweepIInv, ClosedAtTheEnd
<1>15. AnswersAreKept'
  <2>1. ASSUME NEW a \in DOMAIN hosts'
        PROVE  hosts'[a] # {} /\ \A q \in hosts'[a] : <<a, q>> \in answered
    BY <1>3, <1>7, <1>8 DEF SweepIInv, AnswersAreKept
  <2>2. ASSUME ~sweepCancelled, NEW pair \in answered, pair[1] \notin DOMAIN hosts'
        PROVE  \E x \in 1 .. NWorkers :
                  worker'[x].at \in {"probe", "offer"} /\ worker'[x].ip = pair[1] /\ worker'[x].open # {}
    <3>1. pair[1] \notin DOMAIN hosts /\ pair[1] # v.ip
      BY <1>7, <2>2
    <3>2. PICK x \in 1 .. NWorkers :
             worker[x].at \in {"probe", "offer"} /\ worker[x].ip = pair[1] /\ worker[x].open # {}
      BY <2>2, <3>1 DEF SweepIInv, AnswersAreKept
    <3>3. x # w
      BY <3>1, <3>2 DEF v
    <3> QED
      BY <1>5, <3>2, <3>3
  <2> QED
    BY <1>1, <2>1, <2>2, ZenonT(20) DEF AnswersAreKept
<1> QED
  BY <1>9, <1>10, <1>11, <1>12, <1>13, <1>14, <1>15, SMTT(30) DEF SweepIInv

LEMMA EndWorkerIInv ==
    ASSUME SweepIInv, NEW w \in 1 .. NWorkers, EndWorker(w)
    PROVE  SweepIInv'
<1>1. /\ sweepStage = "probing" /\ worker' = [worker EXCEPT ![w] = Gone]
      /\ UNCHANGED <<allowedNets, sweepStage, cidrs, exclusions, addrs, excluded, fed, workClosed,
                     hosts, answered, probed, sweepCancelled>>
  BY DEF EndWorker
<1>2. ~sweepCancelled => worker[w].at = "receive" /\ workClosed
  BY DEF EndWorker, WorkerReturns
<1>3. SweepTypeOK /\ worker \in [1 .. NWorkers -> Worker]
  BY DEF SweepIInv, SweepTypeOK
<1>4. worker' \in [1 .. NWorkers -> Worker] /\ worker'[w] = Gone
  BY <1>1, <1>3, IdleWorkers
<1>5. \A x \in 1 .. NWorkers : x # w => worker'[x] = worker[x]
  BY <1>1, <1>3
<1>6. Gone.at = "ended" /\ Gone.port = 1 /\ Gone.open = {}
  BY DEF Gone
<1>7. SweepTypeOK'
  BY <1>1, <1>3, <1>4 DEF SweepTypeOK
<1>8. ListIsRequest' /\ ProbesListed'
  BY <1>1 DEF SweepIInv, ListIsRequest, ProbesListed
<1>9. NothingLeftOver' /\ ReturnedAfterWorkers'
  BY <1>1 DEF NothingLeftOver, ReturnedAfterWorkers
<1>10. WorkersHold'
  BY <1>1, <1>4, <1>5, <1>6 DEF SweepIInv, WorkersHold
<1>11. ~sweepCancelled => \A x \in 1 .. NWorkers :
          worker[x].at \in {"probe", "offer"} => worker'[x] = worker[x]
  BY <1>2, <1>5
<1>12. HandedOverIsProbed'
  <2>1. ASSUME ~sweepCancelled, NEW i \in 1 .. fed, NEW q \in Ports, <<addrs[i], q>> \notin probed
        PROVE  \E x \in 1 .. NWorkers :
                  worker'[x].at = "probe" /\ worker'[x].ip = addrs[i] /\ worker'[x].port <= q
    BY <1>11, <2>1 DEF SweepIInv, HandedOverIsProbed
  <2> QED
    BY <1>1, <2>1 DEF HandedOverIsProbed
<1>13. ClosedAtTheEnd'
  BY <1>1, <1>2 DEF SweepIInv, ClosedAtTheEnd
<1>14. AnswersAreKept'
  <2>1. ASSUME ~sweepCancelled, NEW pair \in answered, pair[1] \notin DOMAIN hosts
        PROVE  \E x \in 1 .. NWorkers :
                  worker'[x].at \in {"probe", "offer"} /\ worker'[x].ip = pair[1] /\ worker'[x].open # {}
    BY <1>11, <2>1 DEF SweepIInv, AnswersAreKept
  <2>2. \A b \in DOMAIN hosts : hosts[b] # {} /\ \A q \in hosts[b] : <<b, q>> \in answered
    BY DEF SweepIInv, AnswersAreKept
  <2> QED
    BY <1>1, <2>1, <2>2 DEF AnswersAreKept
<1> QED
  BY <1>7, <1>8, <1>9, <1>10, <1>12, <1>13, <1>14 DEF SweepIInv

LEMMA ReturnSweepIInv == ASSUME SweepIInv, ReturnSweep PROVE SweepIInv'
<1>1. /\ sweepStage = "probing" /\ sweepStage' = "returned"
      /\ \A w \in 1 .. NWorkers : worker[w].at = "ended"
      /\ UNCHANGED <<allowedNets, cidrs, exclusions, addrs, excluded, fed, workClosed, worker,
                     hosts, answered, probed, sweepCancelled>>
  BY DEF ReturnSweep
<1>2. SweepTypeOK'
  BY <1>1, ZenonT(20) DEF SweepIInv, SweepTypeOK
<1>3. ListIsRequest' /\ ProbesListed'
  BY <1>1 DEF SweepIInv, ListIsRequest, ProbesListed
<1>4. NothingLeftOver' /\ ReturnedAfterWorkers'
  BY <1>1 DEF NothingLeftOver, ReturnedAfterWorkers
<1>5. WorkersHold'
  BY <1>1, ZenonT(20) DEF SweepIInv, WorkersHold
<1>6. HandedOverIsProbed'
  BY <1>1 DEF SweepIInv, HandedOverIsProbed
<1>7. ClosedAtTheEnd'
  BY <1>1 DEF SweepIInv, ClosedAtTheEnd
<1>8. AnswersAreKept'
  BY <1>1 DEF SweepIInv, AnswersAreKept
<1> QED
  BY <1>2, <1>3, <1>4, <1>5, <1>6, <1>7, <1>8 DEF SweepIInv

LEMMA CancelSweepIInv == ASSUME SweepIInv, CancelSweep PROVE SweepIInv'
<1>1. /\ sweepStage = "probing" /\ sweepCancelled' = TRUE
      /\ UNCHANGED <<allowedNets, sweepStage, cidrs, exclusions, addrs, excluded, fed, workClosed,
                     worker, hosts, answered, probed>>
  BY DEF CancelSweep
<1>2. SweepTypeOK'
  BY <1>1 DEF SweepIInv, SweepTypeOK
<1>3. ListIsRequest' /\ ProbesListed'
  BY <1>1 DEF SweepIInv, ListIsRequest, ProbesListed
<1>4. NothingLeftOver' /\ ReturnedAfterWorkers'
  BY <1>1 DEF NothingLeftOver, ReturnedAfterWorkers
<1>5. WorkersHold'
  BY <1>1 DEF SweepIInv, WorkersHold
<1>6. HandedOverIsProbed' /\ ClosedAtTheEnd'
  BY <1>1 DEF HandedOverIsProbed, ClosedAtTheEnd
<1>7. AnswersAreKept'
  BY <1>1 DEF SweepIInv, AnswersAreKept
<1> QED
  BY <1>2, <1>3, <1>4, <1>5, <1>6, <1>7 DEF SweepIInv

LEMMA SweepAnsweredIInv == ASSUME SweepIInv, SweepAnswered PROVE SweepIInv'
<1>1. SweepAtRest'
  BY DEF SweepAnswered, SweepAtRest, SweepInit, SweepIInv, SweepTypeOK
<1> QED
  BY <1>1, SweepInitIInv, PTL

LEMMA SweepNextIInv == ASSUME SweepIInv, [SweepNext]_sweepVars PROVE SweepIInv'
<1>1. CASE UNCHANGED sweepVars
  <2> USE <1>1 DEF sweepVars
  <2>1. SweepTypeOK' /\ ListIsRequest' /\ NothingLeftOver'
    BY ZenonT(20) DEF SweepIInv, SweepTypeOK, ListIsRequest, NothingLeftOver
  <2>2. WorkersHold' /\ ProbesListed'
    BY ZenonT(20) DEF SweepIInv, WorkersHold, ProbesListed
  <2>3. HandedOverIsProbed'
    BY DEF SweepIInv, HandedOverIsProbed
  <2>4. ClosedAtTheEnd' /\ ReturnedAfterWorkers'
    BY ZenonT(20) DEF SweepIInv, ClosedAtTheEnd, ReturnedAfterWorkers
  <2>5. AnswersAreKept'
    BY DEF SweepIInv, AnswersAreKept
  <2> QED
    BY <2>1, <2>2, <2>3, <2>4, <2>5, SMTT(30) DEF SweepIInv
<1>2. ASSUME NEW n \in 0 .. MaxCIDRs, NEW raw \in [1 .. n -> RawPrefixes],
             NEW ex \in {{}} \cup {{p} : p \in RawPrefixes}, HandleSweep(raw, ex)
      PROVE  SweepIInv'
  <2>1. RawPrefixes \subseteq Prefix /\ MaxCIDRs \in Nat
    BY SweepAssumption
  <2>2. raw \in Seq(Prefix)
    BY <2>1
  <2>3. ex \in SUBSET Prefix
    BY <2>1
  <2> QED
    BY <1>2, <2>2, <2>3, HandleSweepIInv
<1>3. CASE SweepStep
  BY <1>3, FeedIInv, CollectIInv, EndWorkerIInv, ProbeIInv, CloseWorkIInv, ReturnSweepIInv
     DEF SweepStep
<1> QED
  BY <1>1, <1>2, <1>3, CancelSweepIInv, SweepAnsweredIInv DEF SweepNext

\* The scope test and the exclusions confine the list, hence the probes.
LEMMA SweepStaysInScope == SweepIInv => SweepInScope
<1> SUFFICES ASSUME SweepIInv, NEW pair \in probed
             PROVE  /\ allowedNets # {} => \E p \in allowedNets : PrefixContains(p, pair[1])
                    /\ ~IsExcluded(pair[1], exclusions)
  BY DEF SweepInScope
<1> DEFINE a == pair[1]
<1>1. a \in AddressesOf(cidrs, exclusions)
  BY DEF SweepIInv, ProbesListed, ListIsRequest
<1>2. PICK i \in DOMAIN cidrs : a \in HostsOf(cidrs[i])
  BY <1>1 DEF AddressesOf
<1>3. ~IsExcluded(a, exclusions)
  BY <1>1 DEF AddressesOf
<1> HIDE DEF a
<1>4. ASSUME allowedNets # {} PROVE \E p \in allowedNets : PrefixContains(p, a)
  <2>1. /\ cidrs[i] \in Prefix /\ Masked(cidrs[i]) = cidrs[i]
        /\ PrefixWithinAny(cidrs[i], allowedNets)
    BY <1>4 DEF SweepIInv, ListIsRequest
  <2>2. PICK p \in allowedNets : PrefixContains(p, cidrs[i].addr) /\ cidrs[i].bits >= p.bits
    BY <2>1, ZenonT(20) DEF PrefixWithinAny
  <2>3. p \in Prefix
    BY <2>2, ZenonT(20) DEF SweepIInv, SweepTypeOK
  <2>4. Interval(cidrs[i]) \subseteq Interval(p)
    BY <2>1, <2>2, <2>3, PrefixWithin, ZenonT(20)
  <2>5. a \in Interval(p) /\ a \in Address
    BY <1>2, <2>1, <2>4, HostsAreInside
  <2>6. a \in Nat
    BY <2>5 DEF Address
  <2>7. PrefixContains(p, a)
    BY <2>3, <2>5, <2>6, PrefixIsInterval
  <2> QED
    BY <2>7
<1> QED
  BY <1>3, <1>4 DEF a

LEMMA SizeAboveTwo ==
    ASSUME NEW p \in Prefix
    PROVE  Size(p) > 2 <=> p.bits <= Width - 2
<1> DEFINE n == Width - p.bits
<1>1. Width \in Nat /\ p.bits \in 0 .. Width /\ n \in 0 .. Width
  BY SweepAssumption DEF Prefix
<1>2. Pow2[0] = 1 /\ (1 \in 0 .. Width => Pow2[1] = 2)
  BY <1>1, Pow2Def
<1>3. ASSUME n >= 2 PROVE Pow2[n] > 2
  <2>1. 2 \in 1 .. Width /\ 2 \in 0 .. n
    BY <1>1, <1>3
  <2>2. Pow2[2] = 4
    BY <1>1, <1>2, <2>1, Pow2Def
  <2>3. PICK k \in Nat \ {0} : Pow2[n] = k * Pow2[2]
    BY <1>1, <2>1, Pow2Divides
  <2> QED
    BY <2>2, <2>3
<1>4. ASSUME n < 2 PROVE ~(Pow2[n] > 2)
  <2>1. n = 0 \/ n = 1
    BY <1>1, <1>4
  <2> QED
    BY <1>1, <1>2, <2>1
<1>5. n >= 2 <=> p.bits <= Width - 2
  BY <1>1
<1> QED
  BY <1>1, <1>3, <1>4, <1>5 DEF Size

\* The addresses expandCIDRs takes of a prefix are those with a neighbour on
\* either side, or all of them when it has no more than two.
LEMMA HostsAreInner ==
    ASSUME NEW p \in Prefix, NEW inside, inside = {b \in Address : PrefixContains(p, b)}, NEW a
    PROVE  a \in HostsOf(p) <=>
               /\ a \in inside
               /\ Cardinality(inside) > 2 => \E lo, hi \in inside : lo < a /\ a < hi
<1> DEFINE s == Size(p)
           m == Masked(p).addr
<1>1. s \in Nat \ {0} /\ m \in Nat
  <2>1. Masked(p) \in Prefix
    BY MaskedPrefix
  <2> QED
    BY <2>1, SizeOfPrefix
<1>2. inside = m .. m + s - 1
  <2>1. \A b \in Address : b \in Nat
    BY DEF Address
  <2>2. \A b \in Address : PrefixContains(p, b) <=> b \in Interval(p)
    BY <2>1, PrefixIsInterval
  <2>3. Interval(p) \subseteq Address
    BY MaskedPrefix
  <2>4. inside = Interval(p)
    BY <2>2, <2>3
  <2> QED
    BY <2>4 DEF Interval
<1>3. s > 2 <=> p.bits <= Width - 2
  BY SizeAboveTwo
<1>4. HostsOf(p) = IF s > 2 THEN m + 1 .. m + s - 2 ELSE m .. m + s - 1
  <2>1. CASE s > 2
    <3>1. HostsOf(p) = (m + 1) .. (m + s - 1 - 1)
      BY <1>3, <2>1 DEF HostsOf
    <3> QED
      BY <1>1, <2>1, <3>1
  <2>2. CASE ~(s > 2)
    <3>1. HostsOf(p) = (m + 0) .. (m + s - 1 - 0)
      BY <1>3, <2>2 DEF HostsOf
    <3> QED
      BY <1>1, <2>2, <3>1
  <2> QED
    BY <2>1, <2>2
<1> HIDE DEF s, m
<1>5. Cardinality(inside) = s
  <2>1. PICK z \in Int : z = m + s - 1
    BY <1>1
  <2>2. Cardinality(m .. z) = IF m > z THEN 0 ELSE z - m + 1
    BY <1>1, FS_Interval
  <2>3. ~(m > z) /\ z - m + 1 = s
    BY <1>1, <2>1
  <2>4. inside = m .. z
    BY <1>2, <2>1
  <2> QED
    BY <2>2, <2>3, <2>4, ZenonT(40)
<1>6. CASE ~(s > 2)
  BY <1>2, <1>4, <1>5, <1>6
<1>7. CASE s > 2
  <2>1. ASSUME a \in m + 1 .. m + s - 2
        PROVE  a \in inside /\ \E lo, hi \in inside : lo < a /\ a < hi
    <3>1. m \in inside /\ m + s - 1 \in inside /\ m < a /\ a < m + s - 1 /\ a \in inside
      BY <1>1, <1>2, <1>7, <2>1
    <3> QED
      BY <3>1
  <2>2. ASSUME a \in inside, NEW lo \in inside, NEW hi \in inside, lo < a, a < hi
        PROVE  a \in m + 1 .. m + s - 2
    BY <1>1, <1>2, <2>2
  <2> QED
    BY <1>4, <1>5, <1>7, <2>1, <2>2
<1> QED
  BY <1>6, <1>7

LEMMA WantedIsListed == SweepIInv => Wanted = Range(addrs)
<1> SUFFICES ASSUME SweepIInv PROVE Wanted = AddressesOf(cidrs, exclusions)
  BY DEF SweepIInv, ListIsRequest
<1> DEFINE Inside(i) == {b \in Address : PrefixContains(cidrs[i], b)}
           Inner(a, i) == /\ a \in Inside(i)
                          /\ Cardinality(Inside(i)) > 2 =>
                                \E lo, hi \in Inside(i) : lo < a /\ a < hi
<1>1. \A i \in DOMAIN cidrs : cidrs[i] \in Prefix
  BY DEF SweepIInv, ListIsRequest
<1>2. ASSUME NEW i \in DOMAIN cidrs, NEW a PROVE a \in HostsOf(cidrs[i]) <=> Inner(a, i)
  <2>1. PICK inside : inside = Inside(i)
    BY Zenon
  <2>2. a \in HostsOf(cidrs[i]) <=>
            /\ a \in inside
            /\ Cardinality(inside) > 2 => \E lo, hi \in inside : lo < a /\ a < hi
    BY <1>1, <2>1, HostsAreInner
  <2> HIDE DEF Inside
  <2> QED
    BY <2>1, <2>2
<1>3. \A a : a \in Wanted <=>
         a \in Address /\ (\E i \in DOMAIN cidrs : Inner(a, i)) /\ ~IsExcluded(a, exclusions)
  BY DEF Wanted
<1> HIDE DEF Inner
<1>4. \A a : a \in AddressesOf(cidrs, exclusions) <=>
         (\E i \in DOMAIN cidrs : a \in HostsOf(cidrs[i])) /\ ~IsExcluded(a, exclusions)
  BY DEF AddressesOf
<1>5. \A i \in DOMAIN cidrs : HostsOf(cidrs[i]) \subseteq Address
  BY <1>1, HostsAreInside
<1> QED
  BY <1>2, <1>3, <1>4, <1>5, Zenon

LEMMA SweepIsWhole == SweepIInv => SweepComplete
<1> SUFFICES ASSUME SweepIInv, sweepStage = "returned", ~sweepCancelled
             PROVE  /\ probed = Wanted \X Ports
                    /\ DOMAIN hosts = {pair[1] : pair \in answered}
                    /\ \A a \in DOMAIN hosts :
                          hosts[a] # {} /\ hosts[a] \subseteq {p \in Ports : <<a, p>> \in answered}
  BY DEF SweepComplete
<1>1. \A w \in 1 .. NWorkers : worker[w].at = "ended"
  BY DEF SweepIInv, ReturnedAfterWorkers
<1>2. addrs \in Seq(Address) /\ Len(addrs) \in Nat /\ DOMAIN addrs = 1 .. Len(addrs)
  BY DEF SweepIInv, ListIsRequest
<1>3. fed = Len(addrs)
  <2>1. CASE Len(addrs) = 0
    BY <2>1 DEF SweepIInv, SweepTypeOK
  <2>2. CASE Len(addrs) # 0
    <3>1. 1 \in 1 .. NWorkers /\ 1 <= Len(addrs)
      BY <1>2, <2>2, SweepAssumption
    <3> QED
      BY <1>1, <3>1 DEF SweepIInv, ClosedAtTheEnd
  <2> QED
    BY <2>1, <2>2
<1>4. \A i \in 1 .. Len(addrs), q \in Ports : <<addrs[i], q>> \in probed
  BY <1>1, <1>3 DEF SweepIInv, HandedOverIsProbed
<1>5. probed = Range(addrs) \X Ports
  <2>1. Range(addrs) \X Ports \subseteq probed
    BY <1>2, <1>4 DEF Range
  <2> QED
    BY <2>1 DEF SweepIInv, ProbesListed
<1>6. \A pair \in answered : pair[1] \in DOMAIN hosts
  BY <1>1 DEF SweepIInv, AnswersAreKept
<1>7. \A a \in DOMAIN hosts : hosts[a] # {} /\ \A q \in hosts[a] : <<a, q>> \in answered /\ q \in Ports
  BY DEF SweepIInv, AnswersAreKept, SweepTypeOK
<1>8. \A a \in DOMAIN hosts : \E pair \in answered : pair[1] = a
  <2>1. ASSUME NEW a \in DOMAIN hosts PROVE \E pair \in answered : pair[1] = a
    <3>1. PICK q \in hosts[a] : <<a, q>> \in answered
      BY <1>7
    <3>2. <<a, q>>[1] = a
      OBVIOUS
    <3> QED
      BY <3>1, <3>2
  <2> QED
    BY <2>1
<1>9. DOMAIN hosts = {pair[1] : pair \in answered}
  BY <1>6, <1>8, Zenon
<1> QED
  BY <1>5, <1>7, <1>9, WantedIsListed
-----------------------------------------------------------------------------
(* Why a sweep comes to its end. *)

\* What a worker has before it when it gets no further address, and the feeder:
\* at 0, its close of work.
WorkerAhead(v) ==
    CASE v.at = "ended" -> 0
      [] v.at = "receive" -> 1
      [] v.at = "offer" -> 2
      [] v.at = "probe" -> 3 + Cardinality(Ports) - v.port

SweepAhead ==
    [w \in 0 .. NWorkers |->
        IF w = 0 THEN IF workClosed THEN 0 ELSE 1 ELSE WorkerAhead(worker[w])]

\* Nobody waits for somebody who waits: the worker's hand-overs have their partner.
SweepGoesOn ==
    sweepStage = "probing" =>
        \/ ~workClosed /\ FeedEnds
        \/ \E w \in 1 .. NWorkers :
              \/ ~workClosed /\ fed < Len(addrs) /\ worker[w].at = "receive"
              \/ worker[w].at = "probe" /\ ~sweepCancelled
              \/ worker[w].at = "offer"
              \/ WorkerReturns(w)
        \/ \A w \in 1 .. NWorkers : worker[w].at = "ended"

\* What a step of a running sweep does: it answers, hands an address over, leaves
\* less to do, or ends the context, which can happen once.
SweepGetsNearer ==
    sweepStage = "probing" =>
        \/ sweepStage' = "returned"
        \/ /\ UNCHANGED <<sweepStage, addrs>>
           /\ \/ fed' = fed + 1 /\ fed' <= Len(addrs)
              \/ fed' = fed /\ Fewer(SweepAhead', SweepAhead)
              \/ ~sweepCancelled /\ sweepCancelled' /\ UNCHANGED <<fed, SweepAhead>>

LEMMA SweepGoesOnAlways == ASSUME SweepIInv PROVE SweepGoesOn
<1> SUFFICES ASSUME sweepStage = "probing", NEW w \in 1 .. NWorkers, worker[w].at # "ended",
                    workClosed \/ ~FeedEnds
             PROVE  \/ ~workClosed /\ fed < Len(addrs) /\ worker[w].at = "receive"
                    \/ worker[w].at = "probe" /\ ~sweepCancelled
                    \/ worker[w].at = "offer"
                    \/ WorkerReturns(w)
  BY Zenon DEF SweepGoesOn
<1>1. worker[w].at \in {"receive", "probe", "offer"}
  BY ZenonT(20) DEF SweepIInv, SweepTypeOK, Worker
<1>2. Len(addrs) \in Nat /\ fed \in 0 .. Len(addrs)
  BY DEF SweepIInv, SweepTypeOK, ListIsRequest
<1>3. ~workClosed => fed < Len(addrs)
  BY <1>2 DEF FeedEnds
<1> QED
  BY <1>1, <1>3 DEF WorkerReturns

\* How far a worker still has to go.
LEMMA WorkerAheadIsNumber ==
    ASSUME NEW v \in Worker
    PROVE  /\ WorkerAhead(v) \in Nat
           /\ v.at = "ended" => WorkerAhead(v) = 0
           /\ v.at = "receive" => WorkerAhead(v) = 1
           /\ v.at = "offer" => WorkerAhead(v) = 2
           /\ v.at = "probe" => WorkerAhead(v) = 3 + Cardinality(Ports) - v.port
<1>1. Cardinality(Ports) \in Nat
  BY SweepAssumption, FS_CardinalityType
<1>2. v.at \in {"receive", "probe", "offer", "ended"} /\ v.port \in 1 .. Cardinality(Ports) + 1
  BY DEF Worker
<1> QED
  BY <1>1, <1>2 DEF WorkerAhead

LEMMA OneIsLess == 1 < 2
OBVIOUS

\* A step of one worker that brings it nearer to its end.
LEMMA OneWorkerNearer ==
    ASSUME SweepTypeOK, NEW w \in 1 .. NWorkers, NEW v \in Worker, UNCHANGED workClosed,
           worker' = [worker EXCEPT ![w] = v], WorkerAhead(v) < WorkerAhead(worker[w])
    PROVE  Fewer(SweepAhead', SweepAhead)
<1> DEFINE before == SweepAhead
           after == SweepAhead'
<1>1. DOMAIN before = 0 .. NWorkers /\ NWorkers \in Nat \ {0}
  BY SweepAssumption DEF SweepAhead
<1>2. before[0] = after[0] /\ before[0] \in Nat
  BY <1>1 DEF SweepAhead
<1>3. ASSUME NEW g \in 1 .. NWorkers
      PROVE  /\ before[g] = WorkerAhead(worker[g]) /\ before[g] \in Nat
             /\ after[g] = IF g = w THEN WorkerAhead(v) ELSE before[g]
  <2>1. worker[g] \in Worker /\ worker'[g] = IF g = w THEN v ELSE worker[g]
    BY DEF SweepTypeOK
  <2>2. g \in 0 .. NWorkers /\ g # 0
    BY <1>1
  <2>3. before[g] = WorkerAhead(worker[g]) /\ after[g] = WorkerAhead(worker'[g])
    BY <2>2 DEF SweepAhead
  <2> QED
    BY <2>1, <2>3, WorkerAheadIsNumber
<1> HIDE DEF before, after
<1>4. \A g \in 0 .. NWorkers : after[g] <= before[g]
  <2>1. WorkerAhead(v) \in Nat
    BY WorkerAheadIsNumber
  <2>2. \A g \in 1 .. NWorkers : after[g] <= before[g]
    BY <1>3, <2>1
  <2>3. \A g \in 0 .. NWorkers : g = 0 \/ g \in 1 .. NWorkers
    BY <1>1
  <2> QED
    BY <1>2, <2>2, <2>3
<1>5. w \in 0 .. NWorkers /\ after[w] < before[w]
  BY <1>1, <1>3
<1>6. \E g \in 0 .. NWorkers : after[g] < before[g]
  BY <1>5
<1>7. Fewer(after, before)
  BY <1>1, <1>4, <1>6, Zenon DEF Fewer
<1> QED
  BY <1>7 DEF before, after

LEMMA ProbeNearer ==
    ASSUME SweepIInv, NEW w \in 1 .. NWorkers, NEW connects \in BOOLEAN, Probe(w, connects)
    PROVE  Fewer(SweepAhead', SweepAhead)
<1> DEFINE v == worker[w]
           open == IF connects THEN v.open \cup {v.port} ELSE v.open
           u == AfterPort(Tried(v, open))
<1>1. v.at = "probe" /\ UNCHANGED workClosed /\ worker' = [worker EXCEPT ![w] = u]
  BY ZenonT(20) DEF Probe, Tried
<1>2. SweepTypeOK /\ v \in Worker /\ v.port \in Ports /\ open \in SUBSET Ports
  BY <1>1 DEF SweepIInv, SweepTypeOK, WorkersHold, Worker
<1> HIDE DEF v, open
<1>3. AfterTry(u, v, open)
  BY <1>1, <1>2, AfterPortCases
<1> HIDE DEF u
<1>4. u \in Worker /\ u.at \in {"probe", "offer", "receive"} /\ (u.at = "probe" => u.port = v.port + 1)
  BY <1>3 DEF AfterTry
<1>5. WorkerAhead(v) = 3 + Cardinality(Ports) - v.port /\ v.port \in 1 .. Cardinality(Ports)
  BY <1>1, <1>2, PortNumbers, WorkerAheadIsNumber
<1>6. WorkerAhead(u) < WorkerAhead(v)
  BY <1>4, <1>5, PortNumbers, WorkerAheadIsNumber
<1> QED
  BY <1>1, <1>2, <1>4, <1>6, OneWorkerNearer, ZenonT(20) DEF v

LEMMA WorkerNearer ==
    ASSUME SweepIInv, NEW w \in 1 .. NWorkers, Collect(w) \/ EndWorker(w)
    PROVE  Fewer(SweepAhead', SweepAhead)
<1>1. SweepTypeOK /\ worker[w] \in Worker /\ UNCHANGED workClosed
  BY DEF SweepIInv, SweepTypeOK, Collect, EndWorker
<1>2. CASE Collect(w)
  <2>1. worker' = [worker EXCEPT ![w] = Ready] /\ worker[w].at = "offer"
    BY <1>2, ZenonT(20) DEF Collect
  <2>a. Ready \in Worker /\ Ready.at = "receive"
    BY IdleWorkers, Zenon DEF Ready
  <2>b. WorkerAhead(Ready) = 1 /\ WorkerAhead(worker[w]) = 2
    BY <1>1, <2>1, <2>a, WorkerAheadIsNumber, Zenon
  <2>2. WorkerAhead(Ready) < WorkerAhead(worker[w])
    BY <2>b, OneIsLess, Zenon
  <2> QED
    BY <1>1, <2>1, <2>2, IdleWorkers, OneWorkerNearer, ZenonT(20)
<1>3. CASE EndWorker(w)
  <2>1. worker' = [worker EXCEPT ![w] = Gone] /\ worker[w].at \in {"receive", "probe", "offer"}
    BY <1>3 DEF EndWorker, WorkerReturns
  <2>2. WorkerAhead(Gone) = 0
    BY IdleWorkers, WorkerAheadIsNumber, ZenonT(20) DEF Gone
  <2>3. worker[w].at = "probe" => worker[w].port \in 1 .. Cardinality(Ports)
    BY PortNumbers DEF SweepIInv, WorkersHold
  <2>4. WorkerAhead(Gone) < WorkerAhead(worker[w])
    BY <1>1, <2>1, <2>2, <2>3, PortNumbers, WorkerAheadIsNumber
  <2> QED
    BY <1>1, <2>1, <2>4, IdleWorkers, OneWorkerNearer, ZenonT(20)
<1> QED
  BY <1>2, <1>3

LEMMA CloseWorkNearer ==
    ASSUME SweepIInv, CloseWork
    PROVE  Fewer(SweepAhead', SweepAhead)
<1> DEFINE before == SweepAhead
           after == SweepAhead'
<1>1. ~workClosed /\ workClosed' /\ UNCHANGED worker
  BY DEF CloseWork
<1>2. DOMAIN before = 0 .. NWorkers /\ NWorkers \in Nat \ {0}
  BY SweepAssumption DEF SweepAhead
<1>3. before[0] = 1 /\ after[0] = 0
  BY <1>1, <1>2 DEF SweepAhead
<1>4. ASSUME NEW g \in 1 .. NWorkers PROVE after[g] = before[g] /\ before[g] \in Nat
  <2>1. g \in 0 .. NWorkers /\ g # 0
    BY <1>2
  <2>2. before[g] = WorkerAhead(worker[g]) /\ after[g] = WorkerAhead(worker[g])
    BY <1>1, <2>1 DEF SweepAhead
  <2> QED
    BY <2>2, WorkerAheadIsNumber DEF SweepIInv, SweepTypeOK
<1> HIDE DEF before, after
<1>5. \A g \in 0 .. NWorkers : after[g] <= before[g]
  BY <1>2, <1>3, <1>4
<1>6. \E g \in 0 .. NWorkers : after[g] < before[g]
  BY <1>2, <1>3
<1>7. Fewer(after, before)
  BY <1>2, <1>5, <1>6, Zenon DEF Fewer
<1> QED
  BY <1>7 DEF before, after

LEMMA SweepNearer == ASSUME SweepIInv, [SweepNext]_sweepVars PROVE [SweepGetsNearer]_sweepVars
<1> SUFFICES ASSUME SweepNext, sweepStage = "probing"
             PROVE  SweepGetsNearer
  BY Zenon DEF SweepGetsNearer
<1>1. ASSUME NEW w \in 1 .. NWorkers, Feed(w) PROVE SweepGetsNearer
  <2>1. addrs \in Seq(Address) /\ fed \in 0 .. Len(addrs)
    BY Zenon DEF SweepIInv, SweepTypeOK, ListIsRequest
  <2>2. fed' = fed + 1 /\ UNCHANGED <<sweepStage, addrs>> /\ fed < Len(addrs)
    BY <1>1, Zenon DEF Feed
  <2>3. fed' <= Len(addrs)
    BY <2>1, <2>2
  <2> QED
    BY <2>2, <2>3, Zenon DEF SweepGetsNearer
<1>2. ASSUME NEW w \in 1 .. NWorkers, Collect(w) \/ EndWorker(w) PROVE SweepGetsNearer
  <2>1. Fewer(SweepAhead', SweepAhead)
    BY <1>2, WorkerNearer
  <2> QED
    BY <1>2, <2>1, Zenon DEF Collect, EndWorker, SweepGetsNearer
<1>3. ASSUME NEW w \in 1 .. NWorkers, NEW connects \in BOOLEAN, Probe(w, connects) PROVE SweepGetsNearer
  <2>1. Fewer(SweepAhead', SweepAhead)
    BY <1>3, ProbeNearer
  <2> QED
    BY <1>3, <2>1, Zenon DEF Probe, SweepGetsNearer
<1>4. CASE CloseWork
  <2>1. Fewer(SweepAhead', SweepAhead)
    BY <1>4, CloseWorkNearer
  <2> QED
    BY <1>4, <2>1, Zenon DEF CloseWork, SweepGetsNearer
<1>5. CASE ReturnSweep
  BY <1>5, Zenon DEF ReturnSweep, SweepGetsNearer
<1>6. CASE CancelSweep
  <2>1. SweepAhead' = SweepAhead
    BY <1>6, Zenon DEF CancelSweep, SweepAhead
  <2> QED
    BY <1>6, <2>1, Zenon DEF CancelSweep, SweepGetsNearer
<1> QED
  BY <1>1, <1>2, <1>3, <1>4, <1>5, <1>6, ZenonT(20) DEF SweepNext, SweepStep, HandleSweep, SweepAnswered
=============================================================================
