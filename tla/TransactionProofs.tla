------------------------- MODULE TransactionProofs --------------------------
(***************************************************************************)
(* That the change of a Transaction under construction is that of the      *)
(* transaction as it stands, that working it out again loses no payment,   *)
(* that the signatures in the inputs cover what they are part of, and that *)
(* the interpreter accepts the inputs that have them all; for any inputs   *)
(* and payments and any number of calls.                                   *)
(***************************************************************************)
EXTENDS Transaction, ScriptProofs

-----------------------------------------------------------------------------
(* Runs of folds. *)

\* The states a fold goes through, place by place.
IsRun(st, A, base, n, F) ==
    /\ st \in [0..n -> A]
    /\ st[0] = base
    /\ \A j \in 1..n : st[j] = F[<<st[j - 1], j>>]

RunsTo(A, base, n, F, v) == \E st : IsRun(st, A, base, n, F) /\ st[n] = v

\* What a fold is on the sets of places.
IsIterated(it, A, base, n, F) ==
    /\ it[{}] = base
    /\ \A s \in SUBSET (1..n) : s # {} /\ it[s \ {Max(s)}] \in A =>
           it[s] = F[<<it[s \ {Max(s)}], Max(s)>>]

LEMMA RunOfFold ==
    ASSUME NEW A, NEW base \in A, NEW n \in Nat, NEW F,
           \A a \in A, i \in 1..n : F[<<a, i>>] \in A,
           NEW it, IsIterated(it, A, base, n, F), NEW v, v = it[1..n]
    PROVE  RunsTo(A, base, n, F, v)
<1> DEFINE st == [j \in 0..n |-> it[1..j]]
           T == {j \in 0..n : st[j] \in A}
<1>1. st[0] = base
  <2>1. 1..0 = {}
    OBVIOUS
  <2> QED
    BY <2>1 DEF IsIterated
<1>2. \A j \in 1..n : st[j - 1] \in A => st[j] = F[<<st[j - 1], j>>]
  <2> SUFFICES ASSUME NEW j \in 1..n, st[j - 1] \in A PROVE st[j] = F[<<st[j - 1], j>>]
    OBVIOUS
  <2>1. 1..j \in SUBSET (1..n) /\ 1..j # {} /\ (1..j) \ {j} = 1..(j - 1)
    BY FirstNumbers
  <2>2. Max(1..j) = j
    BY FirstNumbers
  <2>3. it[1..(j - 1)] \in A /\ st[j] = it[1..j] /\ st[j - 1] = it[1..(j - 1)]
    OBVIOUS
  <2> HIDE DEF st
  <2> QED
    BY <2>1, <2>2, <2>3 DEF IsIterated
<1>3. 0 \in T
  BY <1>1
<1>4. \A k \in 0..(n - 1) : k \in T => k + 1 \in T
  <2> SUFFICES ASSUME NEW k \in 0..(n - 1), k \in T PROVE k + 1 \in T
    OBVIOUS
  <2>1. k + 1 \in 1..n /\ k + 1 \in 0..n /\ (k + 1) - 1 = k /\ st[k] \in A
    OBVIOUS
  <2> HIDE DEF st
  <2>2. st[k + 1] = F[<<st[k], k + 1>>]
    BY <1>2, <2>1
  <2>3. F[<<st[k], k + 1>>] \in A
    BY <2>1
  <2> QED
    BY <2>1, <2>2, <2>3
<1> HIDE DEF st
<1>5. \A j \in 0..n : st[j] \in A
  <2> HIDE DEF T
  <2>1. 0..n \subseteq T
    BY <1>3, <1>4, AllNumbers
  <2> QED
    BY <2>1 DEF T
<1>6. st \in [0..n -> A]
  <2>1. st = [j \in 0..n |-> st[j]]
    BY DEF st
  <2> QED
    BY <1>5, <2>1
<1>7. \A j \in 1..n : st[j] = F[<<st[j - 1], j>>]
  <2>1. \A j \in 1..n : j - 1 \in 0..n
    OBVIOUS
  <2> QED
    BY <1>2, <1>5, <2>1
<1>8. st[n] = v
  BY DEF st
<1>9. IsRun(st, A, base, n, F)
  BY <1>1, <1>6, <1>7 DEF IsRun
<1> QED
  BY <1>8, <1>9 DEF RunsTo

-----------------------------------------------------------------------------
(* Sums.  v is the sum of the first n weights when a run of partial sums   *)
(* ends in it.                                                             *)

IsTotal(w, n, v) ==
    \E s \in [0..n -> Int] :
        s[0] = 0 /\ (\A i \in 1..n : s[i] = s[i - 1] + w[i]) /\ v = s[n]

LEMMA TotalNone == ASSUME NEW w PROVE IsTotal(w, 0, 0)
<1> DEFINE s == [i \in 0..0 |-> 0]
<1>1. s \in [0..0 -> Int] /\ s[0] = 0 /\ \A i \in 1..0 : s[i] = s[i - 1] + w[i]
  OBVIOUS
<1> HIDE DEF s
<1> QED
  BY <1>1 DEF IsTotal

LEMMA TotalInt == ASSUME NEW w, NEW n \in Nat, NEW v, IsTotal(w, n, v) PROVE v \in Int
BY DEF IsTotal

LEMMA TotalOnce ==
    ASSUME NEW w, NEW n \in Nat, NEW u, NEW v, IsTotal(w, n, u), IsTotal(w, n, v)
    PROVE  u = v
<1>1. PICK s \in [0..n -> Int] :
          s[0] = 0 /\ (\A i \in 1..n : s[i] = s[i - 1] + w[i]) /\ u = s[n]
  BY DEF IsTotal
<1>2. PICK r \in [0..n -> Int] :
          r[0] = 0 /\ (\A i \in 1..n : r[i] = r[i - 1] + w[i]) /\ v = r[n]
  BY DEF IsTotal
<1> DEFINE T == {i \in 0..n : s[i] = r[i]}
<1>3. 0 \in T
  BY <1>1, <1>2
<1>4. \A k \in 0..(n - 1) : k \in T => k + 1 \in T
  <2> SUFFICES ASSUME NEW k \in 0..(n - 1), k \in T PROVE k + 1 \in T
    OBVIOUS
  <2>1. k + 1 \in 1..n /\ k + 1 \in 0..n /\ (k + 1) - 1 = k /\ s[k] = r[k]
    OBVIOUS
  <2> QED
    BY <1>1, <1>2, <2>1
<1>5. n \in T
  <2> HIDE DEF T
  <2>1. 0..n \subseteq T
    BY <1>3, <1>4, AllNumbers
  <2> QED
    BY <2>1
<1> QED
  BY <1>1, <1>2, <1>5

LEMMA TotalMore ==
    ASSUME NEW w, NEW n \in Nat, NEW v, IsTotal(w, n, v), w[n + 1] \in Int
    PROVE  IsTotal(w, n + 1, v + w[n + 1])
<1>1. PICK s \in [0..n -> Int] :
          s[0] = 0 /\ (\A i \in 1..n : s[i] = s[i - 1] + w[i]) /\ v = s[n]
  BY DEF IsTotal
<1> DEFINE r == [i \in 0..(n + 1) |-> IF i = n + 1 THEN s[n] + w[n + 1] ELSE s[i]]
<1>2. r \in [0..(n + 1) -> Int] /\ r[0] = 0 /\ r[n + 1] = v + w[n + 1]
  BY <1>1
<1>3. \A i \in 1..(n + 1) : r[i] = r[i - 1] + w[i]
  <2> SUFFICES ASSUME NEW i \in 1..(n + 1) PROVE r[i] = r[i - 1] + w[i]
    OBVIOUS
  <2>1. CASE i = n + 1
    <3>1. r[i - 1] = s[n] /\ r[i] = s[n] + w[n + 1]
      BY <2>1
    <3> QED
      BY <2>1, <3>1
  <2>2. CASE i \in 1..n
    <3>1. r[i] = s[i] /\ r[i - 1] = s[i - 1]
      BY <2>2
    <3> QED
      BY <1>1, <2>2, <3>1
  <2> QED
    BY <2>1, <2>2
<1> HIDE DEF r
<1> QED
  BY <1>2, <1>3 DEF IsTotal

LEMMA TotalExists ==
    ASSUME NEW n \in Nat, NEW w, \A i \in 1..n : w[i] \in Int
    PROVE  \E v \in Int : IsTotal(w, n, v)
<1> DEFINE T == {i \in 0..n : \E v : IsTotal(w, i, v)}
<1>1. 0 \in T
  BY TotalNone
<1>2. \A k \in 0..(n - 1) : k \in T => k + 1 \in T
  <2> SUFFICES ASSUME NEW k \in 0..(n - 1), k \in T PROVE k + 1 \in T
    OBVIOUS
  <2>1. PICK v : IsTotal(w, k, v)
    OBVIOUS
  <2>2. k \in Nat /\ w[k + 1] \in Int /\ k + 1 \in 0..n
    OBVIOUS
  <2>3. IsTotal(w, k + 1, v + w[k + 1])
    BY <2>1, <2>2, TotalMore
  <2> QED
    BY <2>2, <2>3
<1> HIDE DEF T
<1>3. 0..n \subseteq T
  BY <1>1, <1>2, AllNumbers
<1>4. PICK v : IsTotal(w, n, v)
  <2>1. n \in T
    BY <1>3
  <2> QED
    BY <2>1 DEF T
<1> QED
  BY <1>4, TotalInt

LEMMA TotalSame ==
    ASSUME NEW n \in Nat, NEW w, NEW x, NEW v, IsTotal(w, n, v), \A i \in 1..n : w[i] = x[i]
    PROVE  IsTotal(x, n, v)
BY DEF IsTotal

\* One weight less.
LEMMA TotalWithout ==
    ASSUME NEW n \in Nat, NEW k \in 1..n, NEW w, NEW x, NEW v, IsTotal(w, n, v),
           \A i \in 1..n : w[i] \in Int,
           \A i \in 1..(n - 1) : x[i] = IF i < k THEN w[i] ELSE w[i + 1]
    PROVE  IsTotal(x, n - 1, v - w[k])
<1>1. PICK s \in [0..n -> Int] :
          s[0] = 0 /\ (\A i \in 1..n : s[i] = s[i - 1] + w[i]) /\ v = s[n]
  BY DEF IsTotal
<1> DEFINE r == [i \in 0..(n - 1) |-> IF i < k THEN s[i] ELSE s[i + 1] - w[k]]
<1>2. r \in [0..(n - 1) -> Int] /\ r[0] = 0
  BY <1>1
<1>3. r[n - 1] = v - w[k]
  <2>1. CASE n - 1 < k
    <3>1. n = k /\ s[n] = s[n - 1] + w[n] /\ r[n - 1] = s[n - 1] /\ s[n - 1] \in Int
      BY <1>1, <2>1
    <3> QED
      BY <1>1, <3>1
  <2>2. CASE ~(n - 1 < k)
    <3>1. (n - 1) + 1 = n
      OBVIOUS
    <3> QED
      BY <1>1, <2>2, <3>1
  <2> QED
    BY <2>1, <2>2
<1>4. \A i \in 1..(n - 1) : r[i] = r[i - 1] + x[i]
  <2> SUFFICES ASSUME NEW i \in 1..(n - 1) PROVE r[i] = r[i - 1] + x[i]
    OBVIOUS
  <2>0. /\ i \in 1..n /\ i + 1 \in 1..n /\ (i + 1) - 1 = i
        /\ s[i] \in Int /\ s[i + 1] \in Int /\ s[i - 1] \in Int
        /\ w[i] \in Int /\ w[i + 1] \in Int /\ w[k] \in Int
    OBVIOUS
  <2>1. s[i] = s[i - 1] + w[i] /\ s[i + 1] = s[i] + w[i + 1]
    BY <1>1, <2>0
  <2>2. CASE i < k
    BY <2>0, <2>1, <2>2
  <2>3. CASE i = k
    <3>1. r[i] = s[i + 1] - w[k] /\ r[i - 1] = s[i - 1] /\ x[i] = w[i + 1]
      BY <2>3
    <3> DEFINE Shift(a, b, c, d, e) == b = a + c /\ d = b + e => d - c = a + e
    <3>2. \A a, b, c, d, e \in Int : Shift(a, b, c, d, e)
      OBVIOUS
    <3>3. s[i + 1] - w[i] = s[i - 1] + w[i + 1]
      <4>1. s[i - 1] \in Int /\ s[i] \in Int /\ w[i] \in Int
        BY <2>0, Zenon
      <4>2. s[i + 1] \in Int /\ w[i + 1] \in Int
        BY <2>0, Zenon
      <4>3. Shift(s[i - 1], s[i], w[i], s[i + 1], w[i + 1])
        <5> HIDE DEF Shift
        <5> QED
          BY <3>2, <4>1, <4>2, Zenon
      <4> QED
        BY <2>1, <4>3, Zenon
    <3> HIDE DEF r
    <3> QED
      BY <2>3, <3>1, <3>3
  <2>4. CASE i > k
    <3>1. r[i] = s[i + 1] - w[k] /\ r[i - 1] = s[i] - w[k] /\ x[i] = w[i + 1]
      <4>1. ~(i - 1 < k) /\ (i - 1) + 1 = i /\ i - 1 \in 0..(n - 1) /\ ~(i < k)
        BY <2>4
      <4> QED
        BY <4>1
    <3> DEFINE Shift(a, b, c, d) == b = a + c => b - d = a - d + c
    <3>2. \A a, b, c, d \in Int : Shift(a, b, c, d)
      OBVIOUS
    <3>3. s[i + 1] - w[k] = s[i] - w[k] + w[i + 1]
      <4>1. s[i] \in Int /\ w[k] \in Int
        BY <2>0, Zenon
      <4>2. s[i + 1] \in Int /\ w[i + 1] \in Int
        BY <2>0, Zenon
      <4>3. Shift(s[i], s[i + 1], w[i + 1], w[k])
        <5> HIDE DEF Shift
        <5> QED
          BY <3>2, <4>1, <4>2, Zenon
      <4> QED
        BY <2>1, <4>3, Zenon
    <3> HIDE DEF r
    <3> QED
      BY <3>1, <3>3
  <2> QED
    BY <2>2, <2>3, <2>4
<1> HIDE DEF r
<1>5. n - 1 \in Nat
  OBVIOUS
<1> QED
  BY <1>2, <1>3, <1>4 DEF IsTotal

LEMMA OrderReachesAll ==
    ASSUME NEW n \in Nat, NEW p \in Orders(n), NEW j \in 1..n
    PROVE  \E i \in 1..n : p[i] = j
<1>1. IsFiniteSet(1..n)
  BY FS_Interval
<1>2. p \in Injection(1..n, 1..n)
  BY DEF Orders, Injection, IsInjective
<1>3. p \in Surjection(1..n, 1..n)
  BY <1>1, <1>2, FS_Injection
<1> QED
  BY <1>3 DEF Surjection

\* The weights in another order.
PermutedAt(n) ==
    \A p \in Orders(n) : \A w, x, v :
        /\ \A i \in 1..n : w[i] \in Int /\ x[i] = w[p[i]]
        /\ IsTotal(w, n, v)
        => IsTotal(x, n, v)

LEMMA PermutedAtNone == PermutedAt(0)
<1> SUFFICES ASSUME NEW p \in Orders(0), NEW w, NEW x, NEW v, IsTotal(w, 0, v)
             PROVE  IsTotal(x, 0, v)
  BY Zenon DEF PermutedAt
<1>1. \A i \in 1..0 : w[i] = x[i]
  OBVIOUS
<1> QED
  BY <1>1, TotalSame

LEMMA PermutedAtMore == ASSUME NEW k \in Nat, PermutedAt(k) PROVE PermutedAt(k + 1)
<1> SUFFICES ASSUME NEW p \in Orders(k + 1), NEW w, NEW x, NEW v,
                    \A i \in 1..(k + 1) : w[i] \in Int /\ x[i] = w[p[i]],
                    IsTotal(w, k + 1, v)
             PROVE  IsTotal(x, k + 1, v)
  BY Zenon DEF PermutedAt
<1>1. k + 1 \in Nat /\ k + 1 \in 1..(k + 1) /\ (k + 1) - 1 = k
  OBVIOUS
<1>2. /\ \A i \in 1..(k + 1) : p[i] \in 1..(k + 1)
      /\ \A i, j \in 1..(k + 1) : p[i] = p[j] => i = j
  BY <1>1 DEF Orders
<1>3. PICK l \in 1..(k + 1) : p[l] = k + 1
  BY <1>1, OrderReachesAll
<1> DEFINE q == [i \in 1..k |-> IF i < l THEN p[i] ELSE p[i + 1]]
           y == [i \in 1..k |-> IF i < l THEN x[i] ELSE x[i + 1]]
<1>4. \A i \in 1..k : i \in 1..(k + 1) /\ i + 1 \in 1..(k + 1)
  OBVIOUS
<1>5. q \in Orders(k)
  <2>1. \A i \in 1..k : q[i] \in 1..k
    <3> SUFFICES ASSUME NEW i \in 1..k PROVE q[i] \in 1..k
      OBVIOUS
    <3>1. CASE i < l
      <4>1. p[i] \in 1..(k + 1) /\ p[i] # k + 1
        BY <1>2, <1>3, <1>4, <3>1
      <4> QED
        BY <3>1, <4>1
    <3>2. CASE ~(i < l)
      <4>1. p[i + 1] \in 1..(k + 1) /\ p[i + 1] # k + 1
        <5>1. i + 1 # l
          BY <3>2
        <5> QED
          BY <1>2, <1>3, <1>4, <5>1
      <4> QED
        BY <3>2, <4>1
    <3> QED
      BY <3>1, <3>2
  <2>2. ASSUME NEW i \in 1..k, NEW j \in 1..k, q[i] = q[j] PROVE i = j
    <3> DEFINE At(h) == IF h < l THEN h ELSE h + 1
    <3>1. At(i) \in 1..(k + 1) /\ At(j) \in 1..(k + 1)
      BY <1>4
    <3>2. q[i] = p[At(i)] /\ q[j] = p[At(j)]
      OBVIOUS
    <3>3. At(i) = At(j)
      <4> HIDE DEF At, q
      <4> QED
        BY <1>2, <2>2, <3>1, <3>2
    <3> QED
      BY <3>3
  <2> HIDE DEF q
  <2>3. q = [i \in 1..k |-> q[i]]
    BY DEF q
  <2> QED
    BY <2>1, <2>2, <2>3 DEF Orders
<1>6. \A i \in 1..k : w[i] \in Int /\ y[i] = w[q[i]]
  BY <1>2, <1>4
<1>7. IsTotal(w, k, v - w[k + 1])
  <2>1. \A i \in 1..((k + 1) - 1) : w[i] = IF i < k + 1 THEN w[i] ELSE w[i + 1]
    OBVIOUS
  <2>2. IsTotal(w, (k + 1) - 1, v - w[k + 1])
    BY <1>1, <2>1, TotalWithout
  <2> QED
    BY <1>1, <2>2
<1>8. IsTotal(y, k, v - w[k + 1])
  <2> HIDE DEF q, y
  <2>1. \A u : IsTotal(w, k, u) => IsTotal(y, k, u)
    BY <1>5, <1>6 DEF PermutedAt
  <2> QED
    BY <1>7, <2>1
<1>9. \A i \in 1..(k + 1) : x[i] \in Int
  BY <1>2
<1>10. PICK u \in Int : IsTotal(x, k + 1, u)
  BY <1>1, <1>9, TotalExists
<1>11. IsTotal(y, k, u - x[l])
  <2>1. \A i \in 1..((k + 1) - 1) : y[i] = IF i < l THEN x[i] ELSE x[i + 1]
    BY <1>1
  <2> HIDE DEF y
  <2>2. IsTotal(y, (k + 1) - 1, u - x[l])
    BY <1>1, <1>9, <1>10, <2>1, TotalWithout
  <2> QED
    BY <1>1, <2>2
<1>12. u - x[l] = v - w[k + 1]
  <2> HIDE DEF y
  <2> QED
    BY <1>8, <1>11, TotalOnce
<1>13. u = v
  <2>1. v \in Int /\ w[k + 1] \in Int /\ x[l] = w[k + 1]
    BY <1>1, <1>3, TotalInt
  <2> QED
    BY <1>12, <2>1
<1> QED
  BY <1>10, <1>13

LEMMA TotalPermuted ==
    ASSUME NEW n \in Nat, NEW p \in Orders(n), NEW w, NEW x, NEW v, IsTotal(w, n, v),
           \A i \in 1..n : w[i] \in Int /\ x[i] = w[p[i]]
    PROVE  IsTotal(x, n, v)
<1> DEFINE T == {k \in 0..n : PermutedAt(k)}
<1>1. 0 \in T
  BY PermutedAtNone
<1>2. \A k \in 0..(n - 1) : k \in T => k + 1 \in T
  BY PermutedAtMore
<1> HIDE DEF T
<1>3. 0..n \subseteq T
  BY <1>1, <1>2, AllNumbers
<1>4. PermutedAt(n)
  BY <1>3 DEF T
<1> QED
  BY <1>4, Zenon DEF PermutedAt

\* How often something occurs is a sum.
Hits(p, s, n) == [i \in 1..n |-> IF s[i] = p THEN 1 ELSE 0]

LEMMA HitsTotal ==
    ASSUME NEW p, NEW s, NEW n \in Nat
    PROVE  /\ IsTotal(Hits(p, s, n), n, Cardinality({i \in 1..n : s[i] = p}))
           /\ Cardinality({i \in 1..n : s[i] = p}) \in Nat
<1> DEFINE H == Hits(p, s, n)
           C(k) == {i \in 1..k : s[i] = p}
           T == {k \in 0..n : IsTotal(H, k, Cardinality(C(k)))}
<1>1. ASSUME NEW k \in 0..n PROVE IsFiniteSet(C(k)) /\ Cardinality(C(k)) \in Nat
  <2>1. IsFiniteSet(1..k) /\ C(k) \in SUBSET (1..k)
    <3>1. k \in Int /\ 1 \in Int
      OBVIOUS
    <3> QED
      BY <3>1, FS_Interval
  <2>2. IsFiniteSet(C(k))
    BY <2>1, FS_Subset
  <2> HIDE DEF C
  <2> QED
    BY <2>2, FS_CardinalityType
<1>2. 0 \in T
  <2>1. C(0) = {} /\ Cardinality({}) = 0
    BY FS_EmptySet
  <2> HIDE DEF H, C
  <2> QED
    BY <2>1, TotalNone
<1>3. \A k \in 0..(n - 1) : k \in T => k + 1 \in T
  <2> SUFFICES ASSUME NEW k \in 0..(n - 1), k \in T PROVE k + 1 \in T
    OBVIOUS
  <2>1. k \in Nat /\ k \in 0..n /\ k + 1 \in 0..n /\ k + 1 \in 1..n /\ k + 1 \notin 1..k
    OBVIOUS
  <2>2. IsTotal(H, k, Cardinality(C(k))) /\ Cardinality(C(k)) \in Nat /\ IsFiniteSet(C(k))
    BY <1>1, <2>1
  <2>3. H[k + 1] = (IF s[k + 1] = p THEN 1 ELSE 0) /\ H[k + 1] \in Int
    BY <2>1 DEF Hits
  <2>4. Cardinality(C(k + 1)) = Cardinality(C(k)) + H[k + 1]
    <3>1. CASE s[k + 1] = p
      <4>1. C(k + 1) = C(k) \cup {k + 1} /\ k + 1 \notin C(k)
        BY <3>1
      <4> HIDE DEF C, H
      <4> QED
        BY <2>2, <2>3, <3>1, <4>1, FS_AddElement
    <3>2. CASE s[k + 1] # p
      <4>1. C(k + 1) = C(k)
        BY <3>2
      <4> HIDE DEF C, H
      <4> QED
        BY <2>2, <2>3, <3>2, <4>1
    <3> QED
      BY <3>1, <3>2
  <2> HIDE DEF H, C
  <2>5. IsTotal(H, k + 1, Cardinality(C(k)) + H[k + 1])
    BY <2>1, <2>2, <2>3, TotalMore
  <2> QED
    BY <2>1, <2>4, <2>5
<1>4. n \in T
  <2> HIDE DEF T
  <2>1. 0..n \subseteq T
    BY <1>2, <1>3, AllNumbers
  <2> QED
    BY <2>1
<1>5. n \in 0..n
  OBVIOUS
<1> QED
  BY <1>1, <1>4, <1>5

OutputWeights(w, outputs, n) ==
    DOMAIN outputs = 1..n /\ \A i \in 1..n : w[i] \in Int /\ w[i] = outputs[i].satoshis

LEMMA OutputSumTotal ==
    ASSUME NEW outputs, NEW n \in Nat, NEW w, OutputWeights(w, outputs, n)
    PROVE  IsTotal(w, n, OutputSum(outputs))
<1> DEFINE F == [p \in Int \X (1..n) |-> p[1] + w[p[2]]]
           Turn(a, output) == a + output.satoshis
           Iter(g) == g = [s \in SUBSET (DOMAIN outputs) |->
                              IF s = {} THEN 0
                              ELSE Turn(g[s \ {Max(s)}], outputs[Max(s)])]
<1>1. DOMAIN outputs = 1..n /\ \A i \in 1..n : w[i] \in Int /\ w[i] = outputs[i].satoshis
  BY DEF OutputWeights
<1>2. \A a \in Int, i \in 1..n :
          /\ F[<<a, i>>] = Turn(a, outputs[i]) /\ F[<<a, i>>] = a + w[i] /\ F[<<a, i>>] \in Int
  BY <1>1
<1> HIDE DEF F, Turn
<1>3. \A s \in SUBSET (1..n) : s # {} => Max(s) \in s /\ s \ {Max(s)} \in SUBSET (1..n)
  BY GreatestOf
<1>4. PICK g : IsFold(g, Int, 0, n, F)
  <2>1. \A a \in Int, i \in 1..n : F[<<a, i>>] \in Int
    BY <1>2, Zenon
  <2>2. 0 \in Int
    OBVIOUS
  <2> QED
    BY <2>1, <2>2, FoldExists
<1>5. Iter(g)
  <2>1. \A s \in SUBSET (1..n) : s # {} =>
            F[<<g[s \ {Max(s)}], Max(s)>>] = Turn(g[s \ {Max(s)}], outputs[Max(s)])
    BY <1>2, <1>3, <1>4 DEF IsFold
  <2>2. \A s \in SUBSET (1..n) :
            g[s] = IF s = {} THEN 0 ELSE Turn(g[s \ {Max(s)}], outputs[Max(s)])
    BY <1>4, <2>1 DEF IsFold
  <2>3. g = [s \in SUBSET (1..n) |-> g[s]]
    BY <1>4 DEF IsFold
  <2> QED
    BY <1>1, <2>2, <2>3
<1>6. PICK it : Iter(it) /\ OutputSum(outputs) = it[DOMAIN outputs]
  <2> DEFINE it == CHOOSE h : Iter(h)
  <2>1. Iter(it)
    BY <1>5, Zenon
  <2>2. OutputSum(outputs) = it[DOMAIN outputs]
    BY Zenon DEF OutputSum, FoldLeft, MapThenFoldSet, Turn
  <2> QED
    BY <2>1, <2>2
<1>7. /\ it[{}] = 0
      /\ \A s \in SUBSET (1..n) : s # {} => it[s] = Turn(it[s \ {Max(s)}], outputs[Max(s)])
  BY <1>1, <1>3, <1>6
<1>8. IsIterated(it, Int, 0, n, F)
  BY <1>2, <1>3, <1>7 DEF IsIterated
<1>9. PICK v : v = it[1..n]
  OBVIOUS
<1>10. RunsTo(Int, 0, n, F, v)
  <2>1. \A a \in Int, i \in 1..n : F[<<a, i>>] \in Int
    BY <1>2, Zenon
  <2>2. 0 \in Int
    OBVIOUS
  <2> QED
    BY <1>8, <1>9, <2>1, <2>2, RunOfFold
<1>11. PICK st : IsRun(st, Int, 0, n, F) /\ st[n] = v
  BY <1>10 DEF RunsTo
<1>12. /\ st \in [0..n -> Int] /\ st[0] = 0
       /\ \A i \in 1..n : st[i] = st[i - 1] + w[i]
  <2>1. \A i \in 1..n : i - 1 \in 0..n
    OBVIOUS
  <2> QED
    BY <1>2, <1>11, <2>1 DEF IsRun
<1>13. OutputSum(outputs) = st[n]
  BY <1>1, <1>6, <1>9, <1>11
<1> QED
  BY <1>12, <1>13 DEF IsTotal

InputWeights(w, inputs, n) ==
    DOMAIN inputs = 1..n /\ \A i \in 1..n : w[i] \in Int /\ w[i] = Utxos[inputs[i].utxo].satoshis

LEMMA InputSumTotal ==
    ASSUME NEW inputs, NEW n \in Nat, NEW w, InputWeights(w, inputs, n)
    PROVE  IsTotal(w, n, InputSum(inputs))
<1> DEFINE F == [p \in Int \X (1..n) |-> p[1] + w[p[2]]]
           Turn(a, input) == a + Utxos[input.utxo].satoshis
           Iter(g) == g = [s \in SUBSET (DOMAIN inputs) |->
                              IF s = {} THEN 0
                              ELSE Turn(g[s \ {Max(s)}], inputs[Max(s)])]
<1>1. DOMAIN inputs = 1..n /\ \A i \in 1..n : w[i] \in Int /\ w[i] = Utxos[inputs[i].utxo].satoshis
  BY DEF InputWeights
<1>2. \A a \in Int, i \in 1..n :
          /\ F[<<a, i>>] = Turn(a, inputs[i]) /\ F[<<a, i>>] = a + w[i] /\ F[<<a, i>>] \in Int
  BY <1>1
<1> HIDE DEF F, Turn
<1>3. \A s \in SUBSET (1..n) : s # {} => Max(s) \in s /\ s \ {Max(s)} \in SUBSET (1..n)
  BY GreatestOf
<1>4. PICK g : IsFold(g, Int, 0, n, F)
  <2>1. \A a \in Int, i \in 1..n : F[<<a, i>>] \in Int
    BY <1>2, Zenon
  <2>2. 0 \in Int
    OBVIOUS
  <2> QED
    BY <2>1, <2>2, FoldExists
<1>5. Iter(g)
  <2>1. \A s \in SUBSET (1..n) : s # {} =>
            F[<<g[s \ {Max(s)}], Max(s)>>] = Turn(g[s \ {Max(s)}], inputs[Max(s)])
    BY <1>2, <1>3, <1>4 DEF IsFold
  <2>2. \A s \in SUBSET (1..n) :
            g[s] = IF s = {} THEN 0 ELSE Turn(g[s \ {Max(s)}], inputs[Max(s)])
    BY <1>4, <2>1 DEF IsFold
  <2>3. g = [s \in SUBSET (1..n) |-> g[s]]
    BY <1>4 DEF IsFold
  <2> QED
    BY <1>1, <2>2, <2>3
<1>6. PICK it : Iter(it) /\ InputSum(inputs) = it[DOMAIN inputs]
  <2> DEFINE it == CHOOSE h : Iter(h)
  <2>1. Iter(it)
    BY <1>5, Zenon
  <2>2. InputSum(inputs) = it[DOMAIN inputs]
    BY Zenon DEF InputSum, FoldLeft, MapThenFoldSet, Turn
  <2> QED
    BY <2>1, <2>2
<1>7. /\ it[{}] = 0
      /\ \A s \in SUBSET (1..n) : s # {} => it[s] = Turn(it[s \ {Max(s)}], inputs[Max(s)])
  BY <1>1, <1>3, <1>6
<1>8. IsIterated(it, Int, 0, n, F)
  BY <1>2, <1>3, <1>7 DEF IsIterated
<1>9. PICK v : v = it[1..n]
  OBVIOUS
<1>10. RunsTo(Int, 0, n, F, v)
  <2>1. \A a \in Int, i \in 1..n : F[<<a, i>>] \in Int
    BY <1>2, Zenon
  <2>2. 0 \in Int
    OBVIOUS
  <2> QED
    BY <1>8, <1>9, <2>1, <2>2, RunOfFold
<1>11. PICK st : IsRun(st, Int, 0, n, F) /\ st[n] = v
  BY <1>10 DEF RunsTo
<1>12. /\ st \in [0..n -> Int] /\ st[0] = 0
       /\ \A i \in 1..n : st[i] = st[i - 1] + w[i]
  <2>1. \A i \in 1..n : i - 1 \in 0..n
    OBVIOUS
  <2> QED
    BY <1>2, <1>11, <2>1 DEF IsRun
<1>13. InputSum(inputs) = st[n]
  BY <1>1, <1>6, <1>9, <1>11
<1> QED
  BY <1>12, <1>13 DEF IsTotal

LEMMA SumMore ==
    ASSUME NEW n \in Nat, NEW w, NEW x, NEW u, NEW v, IsTotal(w, n, u), IsTotal(x, n + 1, v),
           x[n + 1] \in Int, \A i \in 1..n : w[i] = x[i]
    PROVE  v = u + x[n + 1]
<1>1. IsTotal(x, n, u)
  BY TotalSame
<1>2. IsTotal(x, n + 1, u + x[n + 1])
  BY <1>1, TotalMore
<1>3. n + 1 \in Nat
  OBVIOUS
<1> QED
  BY <1>2, <1>3, TotalOnce

LEMMA SumLess ==
    ASSUME NEW n \in Nat, NEW k \in 1..n, NEW w, NEW x, NEW u, NEW v,
           IsTotal(w, n, u), IsTotal(x, n - 1, v), \A i \in 1..n : w[i] \in Int,
           \A i \in 1..(n - 1) : x[i] = IF i < k THEN w[i] ELSE w[i + 1]
    PROVE  v = u - w[k]
<1>1. IsTotal(x, n - 1, u - w[k])
  BY TotalWithout
<1>2. n - 1 \in Nat
  OBVIOUS
<1> QED
  BY <1>1, <1>2, TotalOnce

LEMMA SumOrdered ==
    ASSUME NEW n \in Nat, NEW p \in Orders(n), NEW w, NEW x, NEW u, NEW v,
           IsTotal(w, n, u), IsTotal(x, n, v), \A i \in 1..n : w[i] \in Int /\ x[i] = w[p[i]]
    PROVE  v = u
<1>1. IsTotal(x, n, u)
  BY TotalPermuted
<1> QED
  BY <1>1, TotalOnce

-----------------------------------------------------------------------------
(* Lists that grow, shrink and change their order. *)

\* r is s with e after it, without its element at k, in the order p.
IsMore(r, s, e) == Len(r) = Len(s) + 1 /\ r[Len(s) + 1] = e /\ \A i \in 1..Len(s) : r[i] = s[i]

IsWithout(r, s, k) ==
    Len(r) = Len(s) - 1 /\ \A i \in 1..(Len(s) - 1) : r[i] = IF i < k THEN s[i] ELSE s[i + 1]

IsOrder(r, s, p) == Len(r) = Len(s) /\ \A i \in 1..Len(s) : p[i] \in 1..Len(s) /\ r[i] = s[p[i]]

LEMMA Appended ==
    ASSUME NEW Y, NEW s \in Seq(Y), NEW e \in Y, NEW r, r = Append(s, e)
    PROVE  r \in Seq(Y) /\ IsMore(r, s, e)
BY DEF IsMore

LEMMA Removed ==
    ASSUME NEW Y, NEW s \in Seq(Y), NEW n \in Nat, n = Len(s), NEW k \in 1..n,
           NEW r, r = RemoveAt(s, k)
    PROVE  r \in Seq(Y) /\ IsWithout(r, s, k)
<1>1. PICK a : a = SubSeq(s, 1, k - 1)
  OBVIOUS
<1>2. PICK b : b = SubSeq(s, k + 1, n)
  OBVIOUS
<1>3. a \in Seq(Y) /\ Len(a) = k - 1 /\ \A i \in 1..(k - 1) : a[i] = s[i]
  BY <1>1
<1>4. b \in Seq(Y) /\ Len(b) = n - k /\ \A i \in 1..(n - k) : b[i] = s[k + i]
  <2>1. \A i \in (k + 1)..n : s[i] \in Y
    OBVIOUS
  <2>2. b \in Seq(Y) /\ Len(b) = n - k
    BY <1>2, <2>1
  <2>3. \A i \in 1..(n - k) : b[i] = s[(k + 1) + i - 1] /\ (k + 1) + i - 1 = k + i
    BY <1>2
  <2> QED
    BY <2>2, <2>3
<1>5. r = a \o b
  BY <1>1, <1>2 DEF RemoveAt
<1>6. IsJoined(r, a, b, k - 1, n - k, Y)
  <2>1. k - 1 \in Nat /\ n - k \in Nat
    OBVIOUS
  <2> QED
    BY <1>3, <1>4, <1>5, <2>1, Joined
<1>7. r \in Seq(Y) /\ Len(r) = n - 1
  BY <1>6 DEF IsJoined
<1>8. \A i \in 1..(n - 1) : r[i] = IF i < k THEN s[i] ELSE s[i + 1]
  <2> SUFFICES ASSUME NEW i \in 1..(n - 1) PROVE r[i] = IF i < k THEN s[i] ELSE s[i + 1]
    OBVIOUS
  <2>1. CASE i < k
    BY <1>3, <1>6, <2>1 DEF IsJoined
  <2>2. CASE ~(i < k)
    <3>1. PICK j \in 1..(n - k) : (k - 1) + j = i /\ k + j = i + 1
      <4>1. i - k + 1 \in 1..(n - k) /\ (k - 1) + (i - k + 1) = i /\ k + (i - k + 1) = i + 1
        BY <2>2
      <4> QED
        BY <4>1
    <3>2. r[(k - 1) + j] = b[j]
      BY <1>6 DEF IsJoined
    <3>3. b[j] = s[k + j]
      BY <1>4
    <3> QED
      BY <2>2, <3>1, <3>2, <3>3
  <2> QED
    BY <2>1, <2>2
<1> QED
  BY <1>7, <1>8 DEF IsWithout

LEMMA Ordered ==
    ASSUME NEW Y, NEW s \in Seq(Y), NEW n \in Nat, n = Len(s), NEW p \in Orders(n),
           NEW r, r = [i \in DOMAIN p |-> s[p[i]]]
    PROVE  r \in Seq(Y) /\ IsOrder(r, s, p)
<1>1. DOMAIN p = 1..n /\ \A i \in 1..n : p[i] \in 1..n
  BY DEF Orders
<1>2. \A i \in 1..n : s[p[i]] \in Y
  BY <1>1
<1> QED
  BY <1>1, <1>2 DEF IsOrder

\* The counts.
LEMMA HowOftenTotal ==
    ASSUME NEW Y, NEW s \in Seq(Y), NEW p
    PROVE  /\ IsTotal(Hits(p, s, Len(s)), Len(s), HowOften(p, s))
           /\ HowOften(p, s) \in Nat
<1>1. Len(s) \in Nat /\ DOMAIN s = 1..Len(s)
  OBVIOUS
<1>2. HowOften(p, s) = Cardinality({i \in 1..Len(s) : s[i] = p})
  BY <1>1 DEF HowOften
<1> QED
  BY <1>1, <1>2, HitsTotal

LEMMA HowOftenMore ==
    ASSUME NEW Y, NEW s \in Seq(Y), NEW r \in Seq(Y), NEW e, IsMore(r, s, e), NEW p
    PROVE  HowOften(p, r) = HowOften(p, s) + (IF e = p THEN 1 ELSE 0)
<1>1. PICK n \in Nat : n = Len(s)
  OBVIOUS
<1>2. PICK w : w = Hits(p, s, n)
  OBVIOUS
<1>3. PICK x : x = Hits(p, r, n + 1)
  OBVIOUS
<1>4. IsTotal(w, n, HowOften(p, s)) /\ IsTotal(x, n + 1, HowOften(p, r))
  BY <1>1, <1>2, <1>3, HowOftenTotal DEF IsMore
<1>5. \A i \in 1..n : w[i] = x[i]
  BY <1>1, <1>2, <1>3 DEF Hits, IsMore
<1>6. x[n + 1] = (IF e = p THEN 1 ELSE 0) /\ x[n + 1] \in Int
  BY <1>1, <1>3 DEF Hits, IsMore
<1> QED
  BY <1>4, <1>5, <1>6, SumMore

LEMMA HowOftenLess ==
    ASSUME NEW Y, NEW s \in Seq(Y), NEW r \in Seq(Y), NEW k \in 1..Len(s), IsWithout(r, s, k),
           NEW p
    PROVE  HowOften(p, r) = HowOften(p, s) - (IF s[k] = p THEN 1 ELSE 0)
<1>1. PICK n \in Nat : n = Len(s) /\ k \in 1..n
  OBVIOUS
<1>2. PICK w : w = Hits(p, s, n)
  OBVIOUS
<1>3. PICK x : x = Hits(p, r, n - 1)
  OBVIOUS
<1>4. IsTotal(w, n, HowOften(p, s)) /\ IsTotal(x, n - 1, HowOften(p, r))
  BY <1>1, <1>2, <1>3, HowOftenTotal DEF IsWithout
<1>5. \A i \in 1..n : w[i] \in Int /\ w[i] = IF s[i] = p THEN 1 ELSE 0
  BY <1>2 DEF Hits
<1>6. \A i \in 1..(n - 1) : x[i] = IF i < k THEN w[i] ELSE w[i + 1]
  <2>1. \A i \in 1..(n - 1) : i \in 1..n /\ i + 1 \in 1..n
    OBVIOUS
  <2> QED
    BY <1>1, <1>3, <1>5, <2>1 DEF Hits, IsWithout
<1>7. HowOften(p, r) = HowOften(p, s) - w[k]
  BY <1>1, <1>4, <1>5, <1>6, SumLess
<1> QED
  BY <1>1, <1>5, <1>7

LEMMA HowOftenOrdered ==
    ASSUME NEW Y, NEW s \in Seq(Y), NEW r \in Seq(Y), NEW q \in Orders(Len(s)), IsOrder(r, s, q),
           NEW p
    PROVE  HowOften(p, r) = HowOften(p, s)
<1>1. PICK n \in Nat : n = Len(s) /\ q \in Orders(n)
  OBVIOUS
<1>2. PICK w : w = Hits(p, s, n)
  OBVIOUS
<1>3. PICK x : x = Hits(p, r, n)
  OBVIOUS
<1>4. IsTotal(w, n, HowOften(p, s)) /\ IsTotal(x, n, HowOften(p, r))
  BY <1>1, <1>2, <1>3, HowOftenTotal DEF IsOrder
<1>5. \A i \in 1..n : w[i] \in Int /\ w[i] = IF s[i] = p THEN 1 ELSE 0
  BY <1>2 DEF Hits
<1>6. \A i \in 1..n : x[i] = w[q[i]]
  BY <1>1, <1>3, <1>5 DEF Hits, IsOrder
<1> QED
  BY <1>1, <1>4, <1>5, <1>6, SumOrdered

-----------------------------------------------------------------------------
(* The sums of outputs and of inputs. *)

LEMMA OutputSumMore ==
    ASSUME NEW Y, NEW s \in Seq(Y), NEW r \in Seq(Y), NEW e \in Y, IsMore(r, s, e),
           \A y \in Y : y.satoshis \in Int
    PROVE  OutputSum(r) = OutputSum(s) + e.satoshis /\ OutputSum(s) \in Int
<1>1. PICK n \in Nat : n = Len(s) /\ DOMAIN s = 1..n /\ DOMAIN r = 1..(n + 1)
  BY DEF IsMore
<1>2. PICK w : w = [i \in 1..n |-> s[i].satoshis]
  OBVIOUS
<1>3. PICK x : x = [i \in 1..(n + 1) |-> r[i].satoshis]
  OBVIOUS
<1>4. IsTotal(w, n, OutputSum(s))
  <2>1. OutputWeights(w, s, n)
    BY <1>1, <1>2 DEF OutputWeights
  <2> QED
    BY <2>1, OutputSumTotal
<1>5. IsTotal(x, n + 1, OutputSum(r))
  <2>1. OutputWeights(x, r, n + 1)
    BY <1>1, <1>3 DEF OutputWeights, IsMore
  <2> QED
    BY <2>1, OutputSumTotal
<1>6. \A i \in 1..n : w[i] = x[i]
  BY <1>1, <1>2, <1>3 DEF IsMore
<1>7. x[n + 1] = e.satoshis /\ x[n + 1] \in Int
  BY <1>1, <1>3 DEF IsMore
<1> QED
  BY <1>4, <1>5, <1>6, <1>7, SumMore, TotalInt

LEMMA OutputSumLess ==
    ASSUME NEW Y, NEW s \in Seq(Y), NEW r \in Seq(Y), NEW k \in 1..Len(s), IsWithout(r, s, k),
           \A y \in Y : y.satoshis \in Int
    PROVE  OutputSum(r) = OutputSum(s) - s[k].satoshis /\ OutputSum(s) \in Int
<1>1. PICK n \in Nat : n = Len(s) /\ DOMAIN s = 1..n /\ DOMAIN r = 1..(n - 1) /\ k \in 1..n
  BY DEF IsWithout
<1>2. PICK w : w = [i \in 1..n |-> s[i].satoshis]
  OBVIOUS
<1>3. PICK x : x = [i \in 1..(n - 1) |-> r[i].satoshis]
  OBVIOUS
<1>4. IsTotal(w, n, OutputSum(s))
  <2>1. OutputWeights(w, s, n)
    BY <1>1, <1>2 DEF OutputWeights
  <2> QED
    BY <2>1, OutputSumTotal
<1>5. IsTotal(x, n - 1, OutputSum(r))
  <2>1. n - 1 \in Nat
    BY <1>1
  <2>2. OutputWeights(x, r, n - 1)
    BY <1>1, <1>3 DEF OutputWeights, IsWithout
  <2> QED
    BY <2>1, <2>2, OutputSumTotal
<1>6. \A i \in 1..n : w[i] \in Int /\ w[i] = s[i].satoshis
  BY <1>1, <1>2
<1>7. \A i \in 1..(n - 1) : x[i] = IF i < k THEN w[i] ELSE w[i + 1]
  <2>1. \A i \in 1..(n - 1) : i \in 1..n /\ i + 1 \in 1..n
    OBVIOUS
  <2> QED
    BY <1>1, <1>3, <1>6, <2>1 DEF IsWithout
<1>8. OutputSum(r) = OutputSum(s) - w[k]
  BY <1>1, <1>4, <1>5, <1>6, <1>7, SumLess
<1> QED
  BY <1>1, <1>4, <1>6, <1>8, TotalInt

LEMMA OutputSumOrdered ==
    ASSUME NEW Y, NEW s \in Seq(Y), NEW r \in Seq(Y), NEW q \in Orders(Len(s)), IsOrder(r, s, q),
           \A y \in Y : y.satoshis \in Int
    PROVE  OutputSum(r) = OutputSum(s) /\ OutputSum(s) \in Int
<1>1. PICK n \in Nat : n = Len(s) /\ DOMAIN s = 1..n /\ DOMAIN r = 1..n /\ q \in Orders(n)
  BY DEF IsOrder
<1>2. PICK w : w = [i \in 1..n |-> s[i].satoshis]
  OBVIOUS
<1>3. PICK x : x = [i \in 1..n |-> r[i].satoshis]
  OBVIOUS
<1>4. IsTotal(w, n, OutputSum(s))
  <2>1. OutputWeights(w, s, n)
    BY <1>1, <1>2 DEF OutputWeights
  <2> QED
    BY <2>1, OutputSumTotal
<1>5. IsTotal(x, n, OutputSum(r))
  <2>1. OutputWeights(x, r, n)
    BY <1>1, <1>3 DEF OutputWeights, IsOrder
  <2> QED
    BY <2>1, OutputSumTotal
<1>6. \A i \in 1..n : w[i] \in Int /\ w[i] = s[i].satoshis
  BY <1>1, <1>2
<1>7. \A i \in 1..n : x[i] = w[q[i]]
  BY <1>1, <1>3, <1>6 DEF IsOrder
<1> QED
  BY <1>1, <1>4, <1>5, <1>6, <1>7, SumOrdered, TotalInt

LEMMA InputSumMore ==
    ASSUME NEW Y, NEW s \in Seq(Y), NEW r \in Seq(Y), NEW e \in Y, IsMore(r, s, e),
           \A y \in Y : Utxos[y.utxo].satoshis \in Int
    PROVE  InputSum(r) = InputSum(s) + Utxos[e.utxo].satoshis /\ InputSum(s) \in Int
<1>1. PICK n \in Nat : n = Len(s) /\ DOMAIN s = 1..n /\ DOMAIN r = 1..(n + 1)
  BY DEF IsMore
<1>2. PICK w : w = [i \in 1..n |-> Utxos[s[i].utxo].satoshis]
  OBVIOUS
<1>3. PICK x : x = [i \in 1..(n + 1) |-> Utxos[r[i].utxo].satoshis]
  OBVIOUS
<1>4. IsTotal(w, n, InputSum(s))
  <2>1. InputWeights(w, s, n)
    BY <1>1, <1>2 DEF InputWeights
  <2> QED
    BY <2>1, InputSumTotal
<1>5. IsTotal(x, n + 1, InputSum(r))
  <2>1. InputWeights(x, r, n + 1)
    BY <1>1, <1>3 DEF InputWeights, IsMore
  <2> QED
    BY <2>1, InputSumTotal
<1>6. \A i \in 1..n : w[i] = x[i]
  BY <1>1, <1>2, <1>3 DEF IsMore
<1>7. x[n + 1] = Utxos[e.utxo].satoshis /\ x[n + 1] \in Int
  BY <1>1, <1>3 DEF IsMore
<1> QED
  BY <1>4, <1>5, <1>6, <1>7, SumMore, TotalInt

LEMMA InputSumLess ==
    ASSUME NEW Y, NEW s \in Seq(Y), NEW r \in Seq(Y), NEW k \in 1..Len(s), IsWithout(r, s, k),
           \A y \in Y : Utxos[y.utxo].satoshis \in Int
    PROVE  InputSum(r) = InputSum(s) - Utxos[s[k].utxo].satoshis /\ InputSum(s) \in Int
<1>1. PICK n \in Nat : n = Len(s) /\ DOMAIN s = 1..n /\ DOMAIN r = 1..(n - 1) /\ k \in 1..n
  BY DEF IsWithout
<1>2. PICK w : w = [i \in 1..n |-> Utxos[s[i].utxo].satoshis]
  OBVIOUS
<1>3. PICK x : x = [i \in 1..(n - 1) |-> Utxos[r[i].utxo].satoshis]
  OBVIOUS
<1>4. IsTotal(w, n, InputSum(s))
  <2>1. InputWeights(w, s, n)
    BY <1>1, <1>2 DEF InputWeights
  <2> QED
    BY <2>1, InputSumTotal
<1>5. IsTotal(x, n - 1, InputSum(r))
  <2>1. n - 1 \in Nat
    BY <1>1
  <2>2. InputWeights(x, r, n - 1)
    BY <1>1, <1>3 DEF InputWeights, IsWithout
  <2> QED
    BY <2>1, <2>2, InputSumTotal
<1>6. \A i \in 1..n : w[i] \in Int /\ w[i] = Utxos[s[i].utxo].satoshis
  BY <1>1, <1>2
<1>7. \A i \in 1..(n - 1) : x[i] = IF i < k THEN w[i] ELSE w[i + 1]
  <2>1. \A i \in 1..(n - 1) : i \in 1..n /\ i + 1 \in 1..n
    OBVIOUS
  <2> QED
    BY <1>1, <1>3, <1>6, <2>1 DEF IsWithout
<1>8. InputSum(r) = InputSum(s) - w[k]
  BY <1>1, <1>4, <1>5, <1>6, <1>7, SumLess
<1> QED
  BY <1>1, <1>4, <1>6, <1>8, TotalInt

LEMMA InputSumOrdered ==
    ASSUME NEW Y, NEW s \in Seq(Y), NEW r \in Seq(Y), NEW q \in Orders(Len(s)), IsOrder(r, s, q),
           \A y \in Y : Utxos[y.utxo].satoshis \in Int
    PROVE  InputSum(r) = InputSum(s) /\ InputSum(s) \in Int
<1>1. PICK n \in Nat : n = Len(s) /\ DOMAIN s = 1..n /\ DOMAIN r = 1..n /\ q \in Orders(n)
  BY DEF IsOrder
<1>2. PICK w : w = [i \in 1..n |-> Utxos[s[i].utxo].satoshis]
  OBVIOUS
<1>3. PICK x : x = [i \in 1..n |-> Utxos[r[i].utxo].satoshis]
  OBVIOUS
<1>4. IsTotal(w, n, InputSum(s))
  <2>1. InputWeights(w, s, n)
    BY <1>1, <1>2 DEF InputWeights
  <2> QED
    BY <2>1, InputSumTotal
<1>5. IsTotal(x, n, InputSum(r))
  <2>1. InputWeights(x, r, n)
    BY <1>1, <1>3 DEF InputWeights, IsOrder
  <2> QED
    BY <2>1, InputSumTotal
<1>6. \A i \in 1..n : w[i] \in Int /\ w[i] = Utxos[s[i].utxo].satoshis
  BY <1>1, <1>2
<1>7. \A i \in 1..n : x[i] = w[q[i]]
  BY <1>1, <1>3, <1>6 DEF IsOrder
<1> QED
  BY <1>1, <1>4, <1>5, <1>6, <1>7, SumOrdered, TotalInt

LEMMA InputSumSame ==
    ASSUME NEW Y, NEW s \in Seq(Y), NEW r \in Seq(Y), Len(r) = Len(s),
           \A i \in 1..Len(s) : r[i].utxo = s[i].utxo,
           \A y \in Y : Utxos[y.utxo].satoshis \in Int
    PROVE  InputSum(r) = InputSum(s)
<1>1. PICK n \in Nat : n = Len(s) /\ DOMAIN s = 1..n /\ DOMAIN r = 1..n
  OBVIOUS
<1>2. PICK w : w = [i \in 1..n |-> Utxos[s[i].utxo].satoshis]
  OBVIOUS
<1>3. PICK x : x = [i \in 1..n |-> Utxos[r[i].utxo].satoshis]
  OBVIOUS
<1>4. IsTotal(w, n, InputSum(s))
  <2>1. InputWeights(w, s, n)
    BY <1>1, <1>2 DEF InputWeights
  <2> QED
    BY <2>1, InputSumTotal
<1>5. IsTotal(x, n, InputSum(r))
  <2>1. InputWeights(x, r, n)
    BY <1>1, <1>3 DEF InputWeights
  <2> QED
    BY <2>1, InputSumTotal
<1>6. \A i \in 1..n : w[i] = x[i]
  BY <1>1, <1>2, <1>3
<1>7. IsTotal(x, n, InputSum(s))
  BY <1>4, <1>6, TotalSame
<1> QED
  BY <1>5, <1>7, TotalOnce

-----------------------------------------------------------------------------
(* Transactions.  S are the signatures in the inputs, and None. *)

Seqs == {"final", "locktime", "rbf"}

InputsOf(S) == [utxo : DOMAIN Utxos, info : BOOLEAN, seq : Seqs,
                kind : {"base", "pkh", "pk", "multisig", "p2sh"}, signatures : Seq(S)]

OutputsOf == Payments \cup [script : {ChangeScript}, satoshis : Int]

TxOf(S) == [inputs : Seq(InputsOf(S)), outputs : Seq(OutputsOf),
            inputAmount : Int \cup {None}, outputAmount : Int \cup {None},
            changeScript : {None, ChangeScript}, changeIndex : Nat \cup {None},
            fee : Nat \cup {None}, feePerKb : Nat \cup {None}, nLockTime : Nat,
            thrown : BOOLEAN]

LEMMA InputFacts ==
    ASSUME NEW S
    PROVE  \A y \in InputsOf(S) : Utxos[y.utxo].satoshis \in Int /\ Utxos[y.utxo].satoshis \in Nat
BY BuildAssumption DEF InputsOf

LEMMA OutputFacts == \A y \in OutputsOf : y.satoshis \in Int
BY BuildAssumption DEF OutputsOf

SameSettings(s, t) ==
    /\ s.changeScript = t.changeScript /\ s.changeIndex = t.changeIndex
    /\ s.fee = t.fee /\ s.feePerKb = t.feePerKb

SameSums(s, t) == s.inputAmount = t.inputAmount /\ s.outputAmount = t.outputAmount

\* Inputs that spend the same outputs, as inputs of the same kinds.
Alike(r, s) ==
    /\ Len(r) = Len(s)
    /\ \A i \in 1..Len(s) : r[i].utxo = s[i].utxo /\ r[i].kind = s[i].kind /\ r[i].info = s[i].info

LEMMA NewInputFacts ==
    ASSUME NEW S, None \in S, NEW u \in DOMAIN Utxos, NEW info \in BOOLEAN
    PROVE  NewInput(u, info) \in InputsOf(S) /\ NewInput(u, info).utxo = u
<1>1. [i \in DOMAIN Utxos[u].keys |-> None] \in Seq(S)
  <2>1. PICK n : n = Len(Utxos[u].keys) /\ DOMAIN Utxos[u].keys = 1..n
    BY BuildAssumption
  <2> QED
    OBVIOUS
<1>2. (IF info THEN Utxos[u].kind ELSE "base") \in {"base", "pkh", "pk", "multisig", "p2sh"}
  BY BuildAssumption
<1> QED
  BY <1>1, <1>2 DEF NewInput, InputsOf, Seqs

Unsigned(t) ==
    \A i \in 1..Len(t.inputs) :
        /\ t.inputs[i].kind # "base"
        /\ \A j \in DOMAIN t.inputs[i].signatures : t.inputs[i].signatures[j] = None

LEMMA ClearedFacts ==
    ASSUME NEW S, None \in S, NEW t \in TxOf(S), NEW c, c = ClearSignatures(t)
    PROVE  /\ c \in TxOf(S) /\ Alike(c.inputs, t.inputs)
           /\ c.outputs = t.outputs /\ c.nLockTime = t.nLockTime
           /\ SameSettings(c, t) /\ SameSums(c, t)
           /\ c.thrown = FALSE => Unsigned(c)
<1>1. PICK n \in Nat : n = Len(t.inputs) /\ DOMAIN t.inputs = 1..n
  BY DEF TxOf
<1> DEFINE bases == {i \in DOMAIN t.inputs : t.inputs[i].kind = "base"}
           Cleared(input) == [input EXCEPT !.signatures = [i \in DOMAIN @ |-> None]]
           ins == [i \in DOMAIN t.inputs |-> IF \E j \in bases : j <= i THEN t.inputs[i]
                                             ELSE Cleared(t.inputs[i])]
           thrown == bases # {}
<1>2. c = [t EXCEPT !.inputs = ins, !.thrown = thrown]
  BY DEF ClearSignatures, TxOf
<1>3. \A x \in InputsOf(S) :
          /\ Cleared(x) \in InputsOf(S) /\ Cleared(x).utxo = x.utxo
          /\ Cleared(x).kind = x.kind /\ Cleared(x).info = x.info
          /\ \A j \in DOMAIN Cleared(x).signatures : Cleared(x).signatures[j] = None
  BY DEF InputsOf
<1>4. \A i \in 1..n : t.inputs[i] \in InputsOf(S)
  BY <1>1 DEF TxOf
<1>7. bases = {} => \A i \in 1..n : ins[i] = Cleared(t.inputs[i]) /\ t.inputs[i].kind # "base"
  <2> HIDE DEF Cleared
  <2> QED
    BY <1>1
<1> HIDE DEF bases, Cleared
<1>5. ins \in Seq(InputsOf(S)) /\ Alike(ins, t.inputs)
  BY <1>1, <1>3, <1>4 DEF Alike
<1>6. thrown \in BOOLEAN
  OBVIOUS
<1>8. thrown = FALSE => bases = {}
  OBVIOUS
<1> HIDE DEF ins, thrown
<1>9. /\ c \in TxOf(S) /\ c.inputs = ins /\ c.outputs = t.outputs /\ c.nLockTime = t.nLockTime
      /\ SameSettings(c, t) /\ SameSums(c, t) /\ c.thrown = thrown
  BY <1>2, <1>5, <1>6 DEF TxOf, SameSettings, SameSums
<1>10. c.thrown = FALSE => Unsigned(c)
  <2> SUFFICES ASSUME c.thrown = FALSE, NEW i \in 1..Len(c.inputs)
               PROVE  /\ c.inputs[i].kind # "base"
                      /\ \A j \in DOMAIN c.inputs[i].signatures : c.inputs[i].signatures[j] = None
    BY DEF Unsigned
  <2>1. i \in 1..n /\ c.inputs[i] = Cleared(t.inputs[i]) /\ t.inputs[i].kind # "base"
    BY <1>1, <1>5, <1>7, <1>8, <1>9 DEF Alike
  <2> QED
    BY <1>3, <1>4, <2>1
<1> QED
  BY <1>5, <1>9, <1>10

\* What stays when sums are worked out.
SameLists(s, t) ==
    /\ s.inputs = t.inputs /\ s.outputs = t.outputs /\ s.nLockTime = t.nLockTime
    /\ SameSettings(s, t)

LEMMA InputsKnown ==
    ASSUME NEW S, NEW ins \in Seq(InputsOf(S)), NEW l \in Nat, l = Len(ins),
           NEW n, n = CHOOSE m \in 0..l : /\ \A i \in 1..m : ins[i].info
                                          /\ m < l => ~ins[m + 1].info
    PROVE  /\ n \in 0..l
           /\ \A i \in 1..n : ins[i].info
           /\ n < l => ~ins[n + 1].info
<1> DEFINE Known(m) == \A i \in 1..m : ins[i].info
           Stops(m) == Known(m) /\ (m < l => ~ins[m + 1].info)
           T == {m \in 0..l : m < l => ~ins[m + 1].info}
<1>1. T \in SUBSET Nat /\ l \in T
  OBVIOUS
<1>2. PICK m \in T : \A y \in T : m <= y
  <2> HIDE DEF T
  <2> QED
    BY <1>1, LeastOf
<1>3. Known(m)
  <2> SUFFICES ASSUME NEW i \in 1..m PROVE ins[i].info
    OBVIOUS
  <2>1. i - 1 \in 0..l /\ i - 1 < l /\ (i - 1) + 1 = i /\ ~(m <= i - 1)
    BY <1>2
  <2>2. i - 1 \notin T
    <3> HIDE DEF T
    <3> QED
      BY <1>2, <2>1
  <2> QED
    BY <2>1, <2>2
<1>4. m \in 0..l /\ Stops(m)
  BY <1>2, <1>3
<1>5. n \in 0..l /\ Stops(n)
  <2>1. n = CHOOSE k \in 0..l : Stops(k)
    OBVIOUS
  <2> HIDE DEF Stops
  <2> QED
    BY <1>4, <2>1
<1> QED
  BY <1>5

LEMMA InputAmountFacts ==
    ASSUME NEW S, NEW t \in TxOf(S), t.thrown = FALSE, NEW g, g = GetInputAmount(t)
    PROVE  /\ g \in TxOf(S) /\ SameLists(g, t) /\ g.outputAmount = t.outputAmount
           /\ t.inputAmount # None => g = t
           /\ g.thrown = FALSE /\ t.inputAmount = None =>
                  g.inputAmount = InputSum(t.inputs) /\ g.inputAmount # None
           /\ g.thrown = FALSE => g.inputAmount \in Int
<1>1. PICK l \in Nat : l = Len(t.inputs) /\ DOMAIN t.inputs = 1..l
  BY DEF TxOf
<1>2. PICK ins \in Seq(InputsOf(S)) : ins = t.inputs
  BY DEF TxOf
<1>3. PICK n : n = CHOOSE m \in 0..Len(t.inputs) :
                        /\ \A i \in 1..m : t.inputs[i].info
                        /\ m < Len(t.inputs) => ~t.inputs[m + 1].info
  OBVIOUS
<1>4. n \in 0..l
  <2>1. n = CHOOSE m \in 0..l : /\ \A i \in 1..m : ins[i].info
                                /\ m < l => ~ins[m + 1].info
    BY <1>1, <1>2, <1>3, Zenon
  <2> QED
    BY <1>1, <1>2, <2>1, InputsKnown
<1>5. PICK sum : sum = InputSum(SubSeq(ins, 1, n))
  OBVIOUS
<1>6. sum \in Int
  <2>1. PICK part : part = SubSeq(ins, 1, n)
    OBVIOUS
  <2>2. part \in Seq(InputsOf(S)) /\ DOMAIN part = 1..n
    <3>1. \A i \in 1..n : ins[i] \in InputsOf(S)
      BY <1>1, <1>2, <1>4
    <3> QED
      BY <1>4, <2>1, <3>1
  <2>3. \A i \in 1..n : Utxos[part[i].utxo].satoshis \in Int
    <3>1. \A y \in InputsOf(S) : Utxos[y.utxo].satoshis \in Int
      BY InputFacts
    <3>2. \A i \in 1..n : part[i] \in InputsOf(S)
      <4>1. Len(part) = n
        BY <1>4, <2>2
      <4> QED
        BY <2>2, <4>1
    <3> QED
      BY <3>1, <3>2
  <2>4. PICK w : w = [i \in 1..n |-> Utxos[part[i].utxo].satoshis]
    OBVIOUS
  <2>5. InputWeights(w, part, n)
    BY <2>2, <2>3, <2>4 DEF InputWeights
  <2>6. n \in Nat
    BY <1>4
  <2> QED
    BY <1>5, <2>1, <2>5, <2>6, InputSumTotal, TotalInt
<1>7. ~(n < l) => sum = InputSum(ins)
  <2>1. ~(n < l) => SubSeq(ins, 1, n) = ins
    BY <1>1, <1>2, <1>4
  <2> QED
    BY <1>5, <2>1
<1>8. g = IF t.inputAmount # None THEN t
          ELSE [t EXCEPT !.inputAmount = sum, !.thrown = n < l]
  <2>1. g = IF t.inputAmount # None THEN t
            ELSE [t EXCEPT !.inputAmount = InputSum(SubSeq(t.inputs, 1, n)),
                           !.thrown = n < Len(t.inputs)]
    BY <1>3 DEF GetInputAmount
  <2> QED
    BY <1>1, <1>2, <1>5, <2>1, Zenon
<1>9. (n < l) \in BOOLEAN
  BY <1>4
<1>10. PICK b \in BOOLEAN : b = (n < l)
  BY <1>9, Zenon
<1>11. None \notin Int
  BY BuildAssumption
<1>12. CASE t.inputAmount # None
  <2>1. g = t
    BY <1>8, <1>12
  <2> QED
    BY <1>12, <2>1 DEF TxOf, SameLists, SameSettings
<1>13. CASE t.inputAmount = None
  <2>1. g = [t EXCEPT !.inputAmount = sum, !.thrown = b]
    BY <1>8, <1>10, <1>13, Zenon
  <2>2. /\ g \in TxOf(S) /\ SameLists(g, t) /\ g.outputAmount = t.outputAmount
        /\ g.inputAmount = sum /\ g.thrown = b
    BY <1>6, <2>1 DEF TxOf, SameLists, SameSettings
  <2>3. g.thrown = FALSE => ~(n < l)
    BY <1>10, <2>2
  <2> QED
    BY <1>2, <1>6, <1>7, <1>11, <1>13, <2>2, <2>3
<1> QED
  BY <1>12, <1>13

LEMMA OutputAmountFacts ==
    ASSUME NEW S, NEW t \in TxOf(S), NEW g, g = GetOutputAmount(t)
    PROVE  /\ g \in TxOf(S) /\ SameLists(g, t) /\ g.inputAmount = t.inputAmount
           /\ g.thrown = t.thrown
           /\ t.outputAmount # None => g = t
           /\ t.outputAmount = None => g.outputAmount = OutputSum(t.outputs)
           /\ g.outputAmount \in Int
<1>1. PICK l \in Nat : l = Len(t.outputs) /\ DOMAIN t.outputs = 1..l
  BY DEF TxOf
<1>2. PICK outs \in Seq(OutputsOf) : outs = t.outputs
  BY DEF TxOf
<1>3. OutputSum(outs) \in Int
  <2>1. \A i \in 1..l : outs[i].satoshis \in Int
    BY <1>1, <1>2, OutputFacts
  <2>2. PICK w : w = [i \in 1..l |-> outs[i].satoshis]
    OBVIOUS
  <2>3. OutputWeights(w, outs, l)
    BY <1>1, <1>2, <2>1, <2>2 DEF OutputWeights
  <2> QED
    BY <2>3, OutputSumTotal, TotalInt
<1>4. None \notin Int
  BY BuildAssumption
<1>5. g = IF t.outputAmount # None THEN t ELSE [t EXCEPT !.outputAmount = OutputSum(outs)]
  BY <1>2 DEF GetOutputAmount
<1> QED
  BY <1>2, <1>3, <1>4, <1>5 DEF TxOf, SameLists, SameSettings

\* The sums that are cached are those of the lists.
SumsOK(t) ==
    /\ t.inputAmount # None => t.inputAmount = InputSum(t.inputs)
    /\ t.outputAmount # None => t.outputAmount = OutputSum(t.outputs)

LEMMA AmountsFacts ==
    ASSUME NEW S, NEW t \in TxOf(S), t.thrown = FALSE, NEW g, g = GetAmounts(t)
    PROVE  /\ g \in TxOf(S) /\ SameLists(g, t)
           /\ g.thrown = FALSE => g.inputAmount \in Int /\ g.outputAmount \in Int
           /\ SumsOK(t) /\ g.thrown = FALSE =>
                  /\ SumsOK(g)
                  /\ g.inputAmount = InputSum(t.inputs) /\ g.outputAmount = OutputSum(t.outputs)
<1>1. PICK h : h = GetInputAmount(t)
  OBVIOUS
<1>2. /\ h \in TxOf(S) /\ SameLists(h, t) /\ h.outputAmount = t.outputAmount
      /\ t.inputAmount # None => h = t
      /\ h.thrown = FALSE /\ t.inputAmount = None =>
             h.inputAmount = InputSum(t.inputs) /\ h.inputAmount # None
      /\ h.thrown = FALSE => h.inputAmount \in Int
  <2>1. /\ h \in TxOf(S) /\ SameLists(h, t) /\ h.outputAmount = t.outputAmount
        /\ t.inputAmount # None => h = t
    BY <1>1, InputAmountFacts
  <2>2. /\ h.thrown = FALSE /\ t.inputAmount = None =>
               h.inputAmount = InputSum(t.inputs) /\ h.inputAmount # None
        /\ h.thrown = FALSE => h.inputAmount \in Int
    BY <1>1, InputAmountFacts
  <2> QED
    BY <2>1, <2>2, Zenon
<1>3. PICK k : k = GetOutputAmount(h)
  OBVIOUS
<1>4. /\ k \in TxOf(S) /\ SameLists(k, h) /\ k.inputAmount = h.inputAmount
      /\ k.thrown = h.thrown
      /\ h.outputAmount # None => k = h
      /\ h.outputAmount = None => k.outputAmount = OutputSum(h.outputs)
      /\ k.outputAmount \in Int
  BY <1>2, <1>3, OutputAmountFacts
<1>5. g = IF h.thrown THEN h ELSE k
  BY <1>1, <1>3 DEF GetAmounts
<1>6. h.thrown \in BOOLEAN
  BY <1>2 DEF TxOf
<1>7. CASE h.thrown = TRUE
  <2>1. g = h
    BY <1>5, <1>7
  <2> QED
    BY <1>2, <1>7, <2>1
<1>8. CASE h.thrown = FALSE
  <2>1. g = k
    BY <1>5, <1>8
  <2>2. SameLists(g, t) /\ k.inputs = t.inputs /\ k.outputs = t.outputs /\ h.outputs = t.outputs
    BY <1>2, <1>4, <2>1 DEF SameLists, SameSettings
  <2>3. SumsOK(t) => k.inputAmount = InputSum(t.inputs) /\ k.outputAmount = OutputSum(t.outputs)
    BY <1>2, <1>4, <1>8, <2>2 DEF SumsOK
  <2> QED
    BY <1>2, <1>4, <1>8, <2>1, <2>2, <2>3 DEF SumsOK
<1> QED
  BY <1>6, <1>7, <1>8

-----------------------------------------------------------------------------
(* The change. *)

LEMMA FeeFacts ==
    ASSUME NEW S, NEW t \in TxOf(S), NEW a \in Int
    PROVE  FeeOf(t, a) \in Int /\ EstimateFee(t, a) \in Int
<1>1. PICK rate \in Nat : rate = IF t.feePerKb \in {None, 0} THEN BaseRate ELSE t.feePerKb
  BY BuildAssumption DEF TxOf
<1>2. PICK size \in Int :
          size = ExtraSize + InputSize * Len(t.inputs) + OutputSize * Len(t.outputs)
  <2>1. PICK m, n \in Nat : m = Len(t.inputs) /\ n = Len(t.outputs)
    BY DEF TxOf
  <2>2. PICK x, y, z \in Int : x = ExtraSize /\ y = InputSize /\ z = OutputSize
    BY BuildAssumption
  <2>3. y * m \in Int /\ z * n \in Int
    OBVIOUS
  <2>4. PICK a1, a2 \in Int : a1 = y * m /\ a2 = z * n
    BY <2>3
  <2>5. x + a1 + a2 \in Int
    OBVIOUS
  <2>6. x + a1 + a2 = ExtraSize + InputSize * Len(t.inputs) + OutputSize * Len(t.outputs)
    BY <2>1, <2>2, <2>4, Zenon
  <2> QED
    BY <2>5, <2>6, Zenon
<1>3. Kb \in Int /\ Kb > 0 /\ ChangeSize \in Int
  BY BuildAssumption
<1>4. \A bytes \in Int : CeilDiv(bytes, Kb) \in Int
  BY <1>3 DEF CeilDiv
<1>5. CeilDiv(size, Kb) * rate \in Int /\ CeilDiv(size + ChangeSize, Kb) * rate \in Int
  <2>1. size + ChangeSize \in Int
    BY <1>3
  <2>2. PICK x, y \in Int : x = CeilDiv(size, Kb) /\ y = CeilDiv(size + ChangeSize, Kb)
    BY <1>4, <2>1
  <2>3. x * rate \in Int /\ y * rate \in Int
    OBVIOUS
  <2> QED
    BY <2>2, <2>3
<1>6. EstimateFee(t, a) = IF a > CeilDiv(size, Kb) * rate THEN CeilDiv(size + ChangeSize, Kb) * rate
                          ELSE CeilDiv(size, Kb) * rate
  BY <1>1, <1>2, Zenon DEF EstimateFee
<1>7. EstimateFee(t, a) \in Int
  BY <1>5, <1>6
<1>8. t.fee = None \/ t.fee \in Int
  BY DEF TxOf
<1> QED
  BY <1>7, <1>8 DEF FeeOf

LEMMA FeeSame ==
    ASSUME NEW s, NEW t, s.fee = t.fee, s.feePerKb = t.feePerKb,
           Len(s.inputs) = Len(t.inputs), Len(s.outputs) = Len(t.outputs), NEW a
    PROVE  FeeOf(s, a) = FeeOf(t, a) /\ EstimateFee(s, a) = EstimateFee(t, a)
BY Zenon DEF FeeOf, EstimateFee

LEMMA DropFacts ==
    ASSUME NEW S, NEW t \in TxOf(S), NEW k, NEW d, d = DropOutput(t, k)
    PROVE  /\ d \in TxOf(S) /\ d.inputs = t.inputs /\ d.nLockTime = t.nLockTime
           /\ SameSettings(d, t) /\ d.inputAmount = t.inputAmount /\ d.outputAmount = None
           /\ d.thrown = t.thrown
           /\ k \in 1..Len(t.outputs) => IsWithout(d.outputs, t.outputs, k)
           /\ k \notin 1..Len(t.outputs) => d.outputs = t.outputs
<1>1. PICK n \in Nat : n = Len(t.outputs) /\ DOMAIN t.outputs = 1..n
  BY DEF TxOf
<1>2. PICK outs \in Seq(OutputsOf) : outs = t.outputs
  BY DEF TxOf
<1>3. PICK rest : rest = IF k \in 1..n THEN RemoveAt(outs, k) ELSE outs
  OBVIOUS
<1>4. k \in 1..n => rest \in Seq(OutputsOf) /\ IsWithout(rest, outs, k)
  BY <1>1, <1>2, <1>3, Removed
<1>5. d = [t EXCEPT !.outputs = rest, !.outputAmount = None]
  BY <1>1, <1>2, <1>3 DEF DropOutput, TxOf
<1>6. rest \in Seq(OutputsOf)
  BY <1>3, <1>4
<1>7. /\ d \in TxOf(S) /\ d.inputs = t.inputs /\ d.nLockTime = t.nLockTime
      /\ SameSettings(d, t) /\ d.inputAmount = t.inputAmount /\ d.outputAmount = None
      /\ d.thrown = t.thrown /\ d.outputs = rest
  BY <1>5, <1>6 DEF TxOf, SameSettings
<1> QED
  BY <1>1, <1>2, <1>3, <1>4, <1>7

LEMMA AppendFacts ==
    ASSUME NEW S, NEW t \in TxOf(S), NEW e \in OutputsOf, NEW d, d = AppendOutput(t, e)
    PROVE  /\ d \in TxOf(S) /\ d.inputs = t.inputs /\ d.nLockTime = t.nLockTime
           /\ SameSettings(d, t) /\ d.inputAmount = t.inputAmount /\ d.outputAmount = None
           /\ d.thrown = t.thrown
           /\ IsMore(d.outputs, t.outputs, e)
<1>1. PICK outs \in Seq(OutputsOf) : outs = t.outputs
  BY DEF TxOf
<1>2. PICK more : more = Append(outs, e)
  OBVIOUS
<1>3. more \in Seq(OutputsOf) /\ IsMore(more, outs, e)
  BY <1>2, Appended
<1>4. d = [t EXCEPT !.outputs = more, !.outputAmount = None]
  BY <1>1, <1>2 DEF AppendOutput, TxOf
<1>5. /\ d \in TxOf(S) /\ d.inputs = t.inputs /\ d.nLockTime = t.nLockTime
      /\ SameSettings(d, t) /\ d.inputAmount = t.inputAmount /\ d.outputAmount = None
      /\ d.thrown = t.thrown /\ d.outputs = more
  BY <1>3, <1>4 DEF TxOf, SameSettings
<1> QED
  BY <1>1, <1>3, <1>5

\* One more at the end, and that one taken away again.
LEMMA MoreAndLess ==
    ASSUME NEW Y, NEW s \in Seq(Y), NEW r \in Seq(Y), NEW q \in Seq(Y), NEW e,
           IsMore(r, s, e), IsWithout(q, r, Len(s) + 1)
    PROVE  q = s
<1>1. PICK n \in Nat : n = Len(s)
  OBVIOUS
<1>2. Len(r) = n + 1 /\ Len(q) = n
  BY <1>1 DEF IsMore, IsWithout
<1>3. \A i \in 1..n : q[i] = s[i]
  <2> SUFFICES ASSUME NEW i \in 1..n PROVE q[i] = s[i]
    OBVIOUS
  <2>1. i \in 1..(Len(r) - 1) /\ i < Len(s) + 1
    BY <1>1, <1>2
  <2>2. q[i] = r[i]
    BY <2>1 DEF IsWithout
  <2>3. r[i] = s[i]
    BY <1>1 DEF IsMore
  <2> QED
    BY <2>2, <2>3
<1> QED
  BY <1>1, <1>2, <1>3, SeqEqual

TrueFeeOf(t) == InputSum(t.inputs) - OutputSum(t.outputs)

IndexOK(t) == t.changeIndex # None => t.changeIndex \in 1..Len(t.outputs)

KeptOutputs(t) == IF t.changeIndex = None THEN t.outputs ELSE DropOutput(t, t.changeIndex).outputs

\* What ChangeIsCurrent says of a transaction.
CurrentChange(t) ==
    IF t.changeIndex = None THEN TrueFeeOf(t) - FeeOf(t, TrueFeeOf(t)) <= 0
    ELSE /\ t.changeIndex \in DOMAIN t.outputs
         /\ t.outputs[t.changeIndex].script = t.changeScript
         /\ t.outputs[t.changeIndex].satoshis =
                (InputSum(t.inputs) - OutputSum(KeptOutputs(t)))
                    - FeeOf(DropOutput(t, t.changeIndex),
                            InputSum(t.inputs) - OutputSum(KeptOutputs(t)))

LEMMA WithIndex ==
    ASSUME NEW S, NEW t \in TxOf(S), NEW k \in Nat \cup {None},
           NEW m, m = [t EXCEPT !.changeIndex = k]
    PROVE  /\ m \in TxOf(S) /\ m.inputs = t.inputs /\ m.outputs = t.outputs
           /\ m.nLockTime = t.nLockTime /\ m.changeScript = t.changeScript /\ m.fee = t.fee
           /\ m.feePerKb = t.feePerKb /\ m.changeIndex = k
           /\ SameSums(m, t) /\ m.thrown = t.thrown
BY DEF TxOf, SameSums

LEMMA UpdateSame ==
    ASSUME NEW t, t.changeScript = None
    PROVE  UpdateChangeOutput(t) = t
BY Zenon DEF UpdateChangeOutput

\* What updating leads to, with a change address.
IsUpdated(new, t, S) ==
    /\ new \in TxOf(S) /\ Alike(new.inputs, t.inputs)
    /\ new.changeScript = t.changeScript /\ new.fee = t.fee /\ new.feePerKb = t.feePerKb
    /\ new.nLockTime = t.nLockTime
    /\ new.thrown = FALSE =>
           /\ Unsigned(new)
           /\ SumsOK(t) => /\ SumsOK(new) /\ IndexOK(new) /\ CurrentChange(new)
                           /\ KeptOutputs(new) = KeptOutputs(t)

LEMMA UpdateFacts ==
    ASSUME NEW S, None \in S, NEW t \in TxOf(S), t.thrown = FALSE, t.changeScript # None,
           NEW new, new = UpdateChangeOutput(t)
    PROVE  IsUpdated(new, t, S)
<1>1. PICK c : c = ClearSignatures(t)
  OBVIOUS
<1>2. PICK w : w = IF t.changeIndex = None THEN c ELSE DropOutput(c, t.changeIndex)
  OBVIOUS
<1>3. PICK g : g = GetAmounts(w)
  OBVIOUS
<1>4. PICK change : change = Unspent(g) - FeeOf(g, Unspent(g))
  OBVIOUS
<1>5. new = IF c.thrown THEN c
            ELSE IF g.thrown THEN g
            ELSE IF change > 0
            THEN AppendOutput([g EXCEPT !.changeIndex = Len(g.outputs) + 1],
                              [script |-> t.changeScript, satoshis |-> change])
            ELSE [g EXCEPT !.changeIndex = None]
  BY <1>1, <1>2, <1>3, <1>4, Zenon DEF UpdateChangeOutput
<1>6. /\ c \in TxOf(S) /\ Alike(c.inputs, t.inputs)
      /\ c.outputs = t.outputs /\ c.nLockTime = t.nLockTime
      /\ SameSettings(c, t) /\ SameSums(c, t)
      /\ c.thrown = FALSE => Unsigned(c)
  BY <1>1, ClearedFacts
<1>7. CASE c.thrown = TRUE
  <2>1. new = c
    BY <1>5, <1>7
  <2> QED
    BY <1>6, <1>7, <2>1 DEF IsUpdated, SameSettings
<1>8. CASE c.thrown = FALSE
  <2>1. /\ w \in TxOf(S) /\ w.inputs = c.inputs /\ w.nLockTime = t.nLockTime /\ w.thrown = FALSE
        /\ SameSettings(w, t) /\ w.inputAmount = t.inputAmount
        /\ (w.outputAmount = t.outputAmount /\ w.outputs = t.outputs) \/ w.outputAmount = None
        /\ w.outputs = KeptOutputs(t)
    <3>1. CASE t.changeIndex = None
      BY <1>2, <1>6, <1>8, <3>1 DEF SameSettings, SameSums, KeptOutputs
    <3>2. CASE t.changeIndex # None
      <4>1. w = DropOutput(c, t.changeIndex)
        BY <1>2, <3>2
      <4>2. /\ w \in TxOf(S) /\ w.inputs = c.inputs /\ w.nLockTime = c.nLockTime
            /\ SameSettings(w, c) /\ w.inputAmount = c.inputAmount /\ w.outputAmount = None
            /\ w.thrown = c.thrown
        BY <1>6, <4>1, DropFacts
      <4>3. w.outputs = KeptOutputs(t)
        <5>1. w.outputs = IF t.changeIndex \in DOMAIN c.outputs
                          THEN RemoveAt(c.outputs, t.changeIndex) ELSE c.outputs
          BY <1>6, <4>1 DEF DropOutput, TxOf
        <5>2. KeptOutputs(t) = IF t.changeIndex \in DOMAIN t.outputs
                               THEN RemoveAt(t.outputs, t.changeIndex) ELSE t.outputs
          BY <3>2 DEF DropOutput, TxOf, KeptOutputs
        <5> QED
          BY <1>6, <5>1, <5>2
      <4> QED
        BY <1>6, <1>8, <4>2, <4>3 DEF SameSettings, SameSums
    <3> QED
      BY <3>1, <3>2
  <2>2. SumsOK(t) => SumsOK(w)
    <3>1. InputSum(c.inputs) = InputSum(t.inputs)
      <4>1. \A y \in InputsOf(S) : Utxos[y.utxo].satoshis \in Int
        BY InputFacts
      <4>2. c.inputs \in Seq(InputsOf(S)) /\ t.inputs \in Seq(InputsOf(S))
        BY <1>6 DEF TxOf
      <4> QED
        BY <1>6, <4>1, <4>2, InputSumSame DEF Alike
    <3> QED
      BY <2>1, <3>1 DEF SumsOK
  <2>3. /\ g \in TxOf(S) /\ SameLists(g, w)
        /\ g.thrown = FALSE => g.inputAmount \in Int /\ g.outputAmount \in Int
        /\ SumsOK(w) /\ g.thrown = FALSE =>
               /\ SumsOK(g)
               /\ g.inputAmount = InputSum(w.inputs) /\ g.outputAmount = OutputSum(w.outputs)
    BY <1>3, <2>1, AmountsFacts
  <2>4. /\ g.inputs = c.inputs /\ g.outputs = KeptOutputs(t) /\ g.nLockTime = t.nLockTime
        /\ SameSettings(g, t)
    BY <2>1, <2>3 DEF SameLists, SameSettings
  <2>5. Alike(g.inputs, t.inputs) /\ Unsigned(g)
    BY <1>6, <1>8, <2>4 DEF Unsigned
  <2>6. CASE g.thrown = TRUE
    <3>1. new = g
      BY <1>5, <1>8, <2>6
    <3> QED
      BY <2>3, <2>4, <2>5, <2>6, <3>1 DEF IsUpdated, SameSettings
  <2>7. CASE g.thrown = FALSE
    <3>0. /\ Unspent(g) = g.inputAmount - g.outputAmount /\ Unspent(g) \in Int
          /\ g.inputAmount \in Int /\ g.outputAmount \in Int
      BY <2>3, <2>7 DEF Unspent
    <3>1. FeeOf(g, Unspent(g)) \in Int /\ change \in Int
      <4>1. FeeOf(g, Unspent(g)) \in Int
        BY <2>3, <3>0, FeeFacts
      <4> QED
        BY <1>4, <3>0, <4>1
    <3>2. SumsOK(t) => g.inputAmount = InputSum(g.inputs) /\ g.outputAmount = OutputSum(g.outputs)
      BY <2>1, <2>2, <2>3, <2>4, <2>7 DEF SameLists
    <3>3. CASE change > 0
      <4>1. PICK n \in Nat : n = Len(g.outputs) /\ g.outputs \in Seq(OutputsOf)
        BY <2>3 DEF TxOf
      <4>2. PICK e : e = [script |-> t.changeScript, satoshis |-> change]
        OBVIOUS
      <4>3. e \in OutputsOf
        BY <3>1, <4>2 DEF OutputsOf, TxOf
      <4>4. PICK m : m = [g EXCEPT !.changeIndex = n + 1]
        OBVIOUS
      <4>5. /\ m \in TxOf(S) /\ m.inputs = g.inputs /\ m.outputs = g.outputs
            /\ m.nLockTime = g.nLockTime /\ m.changeScript = g.changeScript /\ m.fee = g.fee
            /\ m.feePerKb = g.feePerKb /\ m.changeIndex = n + 1
            /\ SameSums(m, g) /\ m.thrown = g.thrown
        <5>1. n + 1 \in Nat \cup {None}
          OBVIOUS
        <5> QED
          BY <2>3, <4>4, <5>1, WithIndex
      <4>6. new = AppendOutput(m, e)
        BY <1>5, <1>8, <2>7, <3>3, <4>1, <4>2, <4>4
      <4>7. /\ new \in TxOf(S) /\ new.inputs = m.inputs /\ new.nLockTime = m.nLockTime
            /\ SameSettings(new, m) /\ new.inputAmount = m.inputAmount /\ new.outputAmount = None
            /\ new.thrown = m.thrown
            /\ IsMore(new.outputs, m.outputs, e)
        BY <4>3, <4>5, <4>6, AppendFacts
      <4>8. Len(new.outputs) = n + 1 /\ new.outputs[n + 1] = e /\ new.changeIndex = n + 1
        BY <4>1, <4>5, <4>7 DEF IsMore, SameSettings
      <4>9. n + 1 # None
        BY BuildAssumption
      <4>10. PICK d : d = DropOutput(new, n + 1)
        OBVIOUS
      <4>11. /\ d \in TxOf(S) /\ d.inputs = new.inputs /\ SameSettings(d, new)
             /\ IsWithout(d.outputs, new.outputs, n + 1)
        <5>1. n + 1 \in 1..Len(new.outputs)
          BY <4>8
        <5> QED
          BY <4>7, <4>10, <5>1, DropFacts
      <4>12. d.outputs = g.outputs /\ KeptOutputs(new) = g.outputs
        <5>1. d.outputs \in Seq(OutputsOf) /\ new.outputs \in Seq(OutputsOf)
          BY <4>7, <4>11 DEF TxOf
        <5>2. d.outputs = g.outputs
          BY <4>1, <4>5, <4>7, <4>11, <5>1, MoreAndLess
        <5> QED
          BY <4>8, <4>9, <4>10, <5>2 DEF KeptOutputs
      <4>13. SumsOK(t) => CurrentChange(new)
        <5> SUFFICES ASSUME SumsOK(t) PROVE CurrentChange(new)
          OBVIOUS
        <5>1. InputSum(new.inputs) - OutputSum(KeptOutputs(new)) = Unspent(g)
          BY <3>0, <3>2, <4>5, <4>7, <4>12
        <5>2. FeeOf(d, Unspent(g)) = FeeOf(g, Unspent(g))
          <6>1. d.fee = g.fee /\ d.feePerKb = g.feePerKb /\ d.inputs = g.inputs
            BY <4>5, <4>7, <4>11 DEF SameSettings
          <6> QED
            BY <4>12, <6>1, FeeSame
        <5>3. new.changeScript = t.changeScript
          BY <2>4, <4>5, <4>7 DEF SameSettings
        <5>4. n + 1 \in DOMAIN new.outputs
          <6>1. new.outputs \in Seq(OutputsOf)
            BY <4>7 DEF TxOf
          <6> QED
            BY <4>8, <6>1
        <5>5. e.script = t.changeScript /\ e.satoshis = change
          BY <4>2
        <5> QED
          BY <1>4, <4>8, <4>9, <4>10, <5>1, <5>2, <5>3, <5>4, <5>5 DEF CurrentChange
      <4>14. SumsOK(t) => SumsOK(new)
        BY <3>2, <4>5, <4>7 DEF SumsOK, SameSums
      <4>15. IndexOK(new)
        BY <4>8 DEF IndexOK
      <4>16. Unsigned(new) /\ Alike(new.inputs, t.inputs)
        BY <2>5, <4>5, <4>7 DEF Unsigned
      <4> QED
        BY <2>4, <4>5, <4>7, <4>12, <4>13, <4>14, <4>15, <4>16 DEF IsUpdated, SameSettings
    <3>4. CASE ~(change > 0)
      <4>1. new = [g EXCEPT !.changeIndex = None]
        BY <1>5, <1>8, <2>7, <3>4
      <4>2. /\ new \in TxOf(S) /\ new.inputs = g.inputs /\ new.outputs = g.outputs
            /\ new.nLockTime = g.nLockTime /\ new.changeScript = g.changeScript /\ new.fee = g.fee
            /\ new.feePerKb = g.feePerKb /\ new.changeIndex = None
            /\ SameSums(new, g) /\ new.thrown = g.thrown
        BY <2>3, <4>1 DEF TxOf, SameSums
      <4>3. SumsOK(t) => CurrentChange(new)
        <5> SUFFICES ASSUME SumsOK(t) PROVE CurrentChange(new)
          OBVIOUS
        <5>1. TrueFeeOf(new) = Unspent(g)
          BY <3>0, <3>2, <4>2 DEF TrueFeeOf
        <5>2. FeeOf(new, Unspent(g)) = FeeOf(g, Unspent(g))
          BY <4>2, FeeSame
        <5>3. Unspent(g) - FeeOf(g, Unspent(g)) <= 0
          BY <1>4, <3>1, <3>4
        <5> QED
          BY <4>2, <5>1, <5>2, <5>3 DEF CurrentChange
      <4>4. KeptOutputs(new) = KeptOutputs(t)
        BY <2>4, <4>2 DEF KeptOutputs
      <4>5. SumsOK(t) => SumsOK(new)
        BY <3>2, <4>2 DEF SumsOK, SameSums
      <4>6. Unsigned(new) /\ Alike(new.inputs, t.inputs) /\ IndexOK(new)
        BY <2>5, <4>2 DEF Unsigned, IndexOK
      <4> QED
        BY <2>4, <4>2, <4>3, <4>4, <4>5, <4>6 DEF IsUpdated, SameSettings
    <3> QED
      BY <3>1, <3>3, <3>4
  <2>8. g.thrown \in BOOLEAN
    BY <2>3 DEF TxOf
  <2> QED
    BY <2>6, <2>7, <2>8
<1>9. c.thrown \in BOOLEAN
  BY <1>6 DEF TxOf
<1> QED
  BY <1>7, <1>8, <1>9

-----------------------------------------------------------------------------
(* The invariant: sums that are cached are right, the change is current,   *)
(* and the other outputs are those that were asked for.                    *)

NoIndexWithoutScript(t) == t.changeScript = None => t.changeIndex = None

Counted(t, counts) == \A p \in Payments : HowOften(p, KeptOutputs(t)) = counts[p]

BuildInv(S) ==
    /\ None \in S /\ tx \in TxOf(S) /\ tx.thrown = FALSE
    /\ asked \in [Payments -> Nat]
    /\ broken \in BOOLEAN /\ strayed \in BOOLEAN /\ lost \in BOOLEAN
    /\ NoIndexWithoutScript(tx)
    /\ broken = FALSE => SumsOK(tx) /\ IndexOK(tx)
    /\ broken = FALSE /\ lost = FALSE /\ tx.changeScript # None => CurrentChange(tx)
    /\ broken = FALSE /\ lost = FALSE /\ strayed = FALSE => Counted(tx, asked)

LEMMA KeptIs ==
    ASSUME NEW S, NEW t \in TxOf(S)
    PROVE  /\ KeptOutputs(t) = IF t.changeIndex \in 1..Len(t.outputs)
                               THEN RemoveAt(t.outputs, t.changeIndex) ELSE t.outputs
           /\ KeptOutputs(t) \in Seq(OutputsOf)
           /\ t.changeIndex \in 1..Len(t.outputs) =>
                  IsWithout(KeptOutputs(t), t.outputs, t.changeIndex)
           /\ t.changeIndex \notin 1..Len(t.outputs) => KeptOutputs(t) = t.outputs
<1>1. PICK n \in Nat : n = Len(t.outputs) /\ DOMAIN t.outputs = 1..n /\ t.outputs \in Seq(OutputsOf)
  BY DEF TxOf
<1>2. None \notin 1..n
  BY BuildAssumption
<1>3. KeptOutputs(t) = IF t.changeIndex \in 1..n THEN RemoveAt(t.outputs, t.changeIndex)
                       ELSE t.outputs
  <2>1. CASE t.changeIndex = None
    BY <1>2, <2>1 DEF KeptOutputs
  <2>2. CASE t.changeIndex # None
    BY <1>1, <2>2 DEF KeptOutputs, DropOutput, TxOf
  <2> QED
    BY <2>1, <2>2
<1>4. PICK outs \in Seq(OutputsOf), k \in Nat \cup {None} : outs = t.outputs /\ k = t.changeIndex
  BY <1>1 DEF TxOf
<1>5. k \in 1..n => /\ RemoveAt(outs, k) \in Seq(OutputsOf)
                    /\ IsWithout(RemoveAt(outs, k), outs, k)
  BY <1>1, <1>4, Removed
<1> QED
  BY <1>1, <1>3, <1>4, <1>5

LEMMA WithThrown ==
    ASSUME NEW S, NEW t \in TxOf(S), NEW b \in BOOLEAN, NEW m, m = [t EXCEPT !.thrown = b]
    PROVE  /\ m \in TxOf(S) /\ m.thrown = b
           /\ m.changeScript = t.changeScript /\ m.changeIndex = t.changeIndex
           /\ m.inputs = t.inputs /\ m.outputs = t.outputs /\ m.nLockTime = t.nLockTime
           /\ t.thrown = b => m = t
BY DEF TxOf

LEMMA Called ==
    ASSUME NEW S, NEW t \in TxOf(S), NEW clears, Call(t, clears), broken \in BOOLEAN
    PROVE  /\ tx' \in TxOf(S) /\ tx'.thrown = FALSE /\ broken' \in BOOLEAN
           /\ tx'.changeScript = t.changeScript /\ tx'.changeIndex = t.changeIndex
           /\ tx'.inputs = t.inputs /\ tx'.outputs = t.outputs /\ tx'.nLockTime = t.nLockTime
           /\ broken' = FALSE => broken = FALSE /\ t.thrown = FALSE /\ tx' = t
<1>1. tx' = [t EXCEPT !.thrown = FALSE] /\ broken' = (broken \/ t.thrown)
  BY Zenon DEF Call
<1>2. t.thrown \in BOOLEAN
  BY DEF TxOf
<1>3. broken' \in BOOLEAN /\ (broken' = FALSE => broken = FALSE /\ t.thrown = FALSE)
  BY <1>1, <1>2, Zenon
<1>4. PICK b \in BOOLEAN : b = FALSE
  OBVIOUS
<1>5. PICK m : m = [t EXCEPT !.thrown = b]
  OBVIOUS
<1>6. /\ m \in TxOf(S) /\ m.thrown = b
      /\ m.changeScript = t.changeScript /\ m.changeIndex = t.changeIndex
      /\ m.inputs = t.inputs /\ m.outputs = t.outputs /\ m.nLockTime = t.nLockTime
      /\ t.thrown = b => m = t
  BY <1>5, WithThrown
<1>7. tx' = m
  BY <1>1, <1>4, <1>5, Zenon
<1>8. /\ tx' \in TxOf(S) /\ tx'.thrown = FALSE
      /\ tx'.changeScript = t.changeScript /\ tx'.changeIndex = t.changeIndex
      /\ tx'.inputs = t.inputs /\ tx'.outputs = t.outputs /\ tx'.nLockTime = t.nLockTime
      /\ t.thrown = FALSE => tx' = t
  BY <1>4, <1>6, <1>7
<1> QED
  BY <1>3, <1>8

\* A transaction that a call may hand to _updateChangeOutput.
Ready(t, S) == t \in TxOf(S) /\ t.thrown = FALSE /\ NoIndexWithoutScript(t)

\* What a call that ends in _updateChangeOutput leaves.
AfterUpdate(t, S) ==
    /\ tx' \in TxOf(S) /\ tx'.thrown = FALSE /\ broken' \in BOOLEAN
    /\ NoIndexWithoutScript(tx')
    /\ broken' = FALSE => broken = FALSE
    /\ broken' = FALSE /\ SumsOK(t) =>
           /\ SumsOK(tx') /\ IndexOK(tx')
           /\ tx'.changeScript # None => CurrentChange(tx')
           /\ KeptOutputs(tx') = KeptOutputs(t)

LEMMA UpdateCallFacts ==
    ASSUME NEW S, None \in S, NEW t, Ready(t, S), broken \in BOOLEAN,
           NEW clears, Call(UpdateChangeOutput(t), clears)
    PROVE  AfterUpdate(t, S)
<1>1. PICK new : new = UpdateChangeOutput(t)
  OBVIOUS
<1>2. Call(new, clears)
  BY <1>1
<1>3. CASE t.changeScript = None
  <2>1. new = t
    BY <1>1, <1>3, UpdateSame
  <2>2. /\ tx' \in TxOf(S) /\ tx'.thrown = FALSE /\ broken' \in BOOLEAN
        /\ tx'.changeScript = t.changeScript /\ tx'.changeIndex = t.changeIndex
        /\ broken' = FALSE => broken = FALSE /\ t.thrown = FALSE /\ tx' = t
    BY <1>2, <2>1, Called DEF Ready
  <2>3. t.changeIndex = None
    BY <1>3 DEF Ready, NoIndexWithoutScript
  <2> QED
    BY <1>3, <2>2, <2>3 DEF AfterUpdate, NoIndexWithoutScript, IndexOK
<1>4. CASE t.changeScript # None
  <2>1. IsUpdated(new, t, S)
    BY <1>1, <1>4, UpdateFacts DEF Ready
  <2>2. new \in TxOf(S) /\ new.changeScript # None
    BY <1>4, <2>1 DEF IsUpdated
  <2>3. /\ tx' \in TxOf(S) /\ tx'.thrown = FALSE /\ broken' \in BOOLEAN
        /\ tx'.changeScript = new.changeScript /\ tx'.changeIndex = new.changeIndex
        /\ broken' = FALSE => broken = FALSE /\ new.thrown = FALSE /\ tx' = new
    BY <1>2, <2>2, Called
  <2>4. broken' = FALSE /\ SumsOK(t) =>
           /\ SumsOK(new) /\ IndexOK(new)
           /\ CurrentChange(new)
           /\ KeptOutputs(new) = KeptOutputs(t)
    BY <2>1, <2>3 DEF IsUpdated
  <2> QED
    BY <2>2, <2>3, <2>4 DEF AfterUpdate, NoIndexWithoutScript
<1> QED
  BY <1>3, <1>4

LEMMA UpdatedFacts ==
    ASSUME NEW S, None \in S, NEW t, Ready(t, S), Updated(t), broken \in BOOLEAN
    PROVE  AfterUpdate(t, S)
<1>1. PICK clears : Call(UpdateChangeOutput(t), clears)
  BY DEF Updated
<1> QED
  BY <1>1, UpdateCallFacts

\* How the invariant follows after such a call.
LEMMA InvAfterUpdate ==
    ASSUME NEW S, BuildInv(S), NEW t, AfterUpdate(t, S), asked' \in [Payments -> Nat],
           strayed' \in BOOLEAN, lost' = lost, broken = FALSE => SumsOK(t),
           broken = FALSE /\ strayed' = FALSE /\ lost = FALSE => Counted(t, asked')
    PROVE  BuildInv(S)'
<1>1. broken' = FALSE => broken = FALSE
  BY DEF AfterUpdate
<1>2. broken' = FALSE => /\ SumsOK(tx') /\ IndexOK(tx')
                         /\ tx'.changeScript # None => CurrentChange(tx')
                         /\ KeptOutputs(tx') = KeptOutputs(t)
  BY <1>1 DEF AfterUpdate
<1>3. broken' = FALSE /\ lost' = FALSE /\ strayed' = FALSE => Counted(tx', asked')
  BY <1>1, <1>2 DEF Counted
<1> QED
  BY <1>1, <1>2, <1>3 DEF BuildInv, AfterUpdate

-----------------------------------------------------------------------------
(* The calls that end in _updateChangeOutput. *)

LEMMA KeptSame ==
    ASSUME NEW S, NEW t \in TxOf(S), NEW s \in TxOf(S), t.outputs = s.outputs,
           t.changeIndex = s.changeIndex
    PROVE  KeptOutputs(t) = KeptOutputs(s)
<1>1. /\ KeptOutputs(t) = IF t.changeIndex \in 1..Len(t.outputs)
                          THEN RemoveAt(t.outputs, t.changeIndex) ELSE t.outputs
      /\ KeptOutputs(s) = IF s.changeIndex \in 1..Len(s.outputs)
                          THEN RemoveAt(s.outputs, s.changeIndex) ELSE s.outputs
  BY KeptIs
<1> QED
  BY <1>1

\* A call that leaves the payments alone.
LEMMA UpdatedKeeps ==
    ASSUME NEW S, BuildInv(S), NEW t, Ready(t, S), Updated(t),
           asked' = asked, strayed' = strayed, lost' = lost,
           KeptOutputs(t) = KeptOutputs(tx), broken = FALSE => SumsOK(t)
    PROVE  BuildInv(S)'
<1>1. AfterUpdate(t, S)
  BY UpdatedFacts DEF BuildInv
<1>2. asked' \in [Payments -> Nat] /\ strayed' \in BOOLEAN
  BY DEF BuildInv
<1>3. broken = FALSE /\ strayed' = FALSE /\ lost = FALSE => Counted(t, asked')
  BY DEF BuildInv, Counted
<1> QED
  BY <1>1, <1>2, <1>3, InvAfterUpdate

LEMMA FromKeeps ==
    ASSUME NEW S, BuildInv(S), NEW u \in DOMAIN Utxos, NEW info \in BOOLEAN, From(u, info)
    PROVE  BuildInv(S)'
<1>1. PICK ins : ins = Append(tx.inputs, NewInput(u, info))
  OBVIOUS
<1>2. ins \in Seq(InputsOf(S))
  <2>1. NewInput(u, info) \in InputsOf(S)
    BY NewInputFacts DEF BuildInv
  <2>2. tx.inputs \in Seq(InputsOf(S))
    BY DEF BuildInv, TxOf
  <2> QED
    BY <1>1, <2>1, <2>2
<1>3. PICK t : t = [tx EXCEPT !.inputs = ins, !.inputAmount = None]
  OBVIOUS
<1>4. /\ t \in TxOf(S) /\ t.outputs = tx.outputs /\ t.changeIndex = tx.changeIndex
      /\ t.changeScript = tx.changeScript /\ t.thrown = FALSE
      /\ t.inputAmount = None /\ t.outputAmount = tx.outputAmount
  BY <1>2, <1>3 DEF BuildInv, TxOf
<1>5. Updated(t) /\ asked' = asked /\ strayed' = strayed /\ lost' = lost
  <2>1. t = [tx EXCEPT !.inputs = Append(@, NewInput(u, info)), !.inputAmount = None]
    BY <1>1, <1>3 DEF BuildInv, TxOf
  <2> QED
    BY <2>1, Zenon DEF From
<1>6. Ready(t, S) /\ (broken = FALSE => SumsOK(t))
  BY <1>4 DEF BuildInv, Ready, NoIndexWithoutScript, SumsOK
<1>7. KeptOutputs(t) = KeptOutputs(tx)
  BY <1>4, KeptSame DEF BuildInv
<1> QED
  BY <1>5, <1>6, <1>7, UpdatedKeeps

LEMMA RemoveInputKeeps ==
    ASSUME NEW S, BuildInv(S), NEW i \in DOMAIN tx.inputs, RemoveInput(i)
    PROVE  BuildInv(S)'
<1>1. PICK before \in Seq(InputsOf(S)) : before = tx.inputs
  BY DEF BuildInv, TxOf
<1>2. PICK ins : ins = RemoveAt(before, i)
  OBVIOUS
<1>3. ins \in Seq(InputsOf(S))
  <2>1. i \in 1..Len(before)
    BY <1>1
  <2> QED
    BY <1>2, <2>1, Removed
<1>4. PICK t : t = [tx EXCEPT !.inputs = ins, !.inputAmount = None]
  OBVIOUS
<1>5. /\ t \in TxOf(S) /\ t.outputs = tx.outputs /\ t.changeIndex = tx.changeIndex
      /\ t.changeScript = tx.changeScript /\ t.thrown = FALSE
      /\ t.inputAmount = None /\ t.outputAmount = tx.outputAmount
  BY <1>3, <1>4 DEF BuildInv, TxOf
<1>6. Updated(t) /\ asked' = asked /\ strayed' = strayed /\ lost' = lost
  <2>1. t = [tx EXCEPT !.inputs = RemoveAt(@, i), !.inputAmount = None]
    BY <1>1, <1>2, <1>4 DEF BuildInv, TxOf
  <2> QED
    BY <2>1, Zenon DEF RemoveInput
<1>7. Ready(t, S) /\ (broken = FALSE => SumsOK(t))
  BY <1>5 DEF BuildInv, Ready, NoIndexWithoutScript, SumsOK
<1>8. KeptOutputs(t) = KeptOutputs(tx)
  BY <1>5, KeptSame DEF BuildInv
<1> QED
  BY <1>6, <1>7, <1>8, UpdatedKeeps

LEMMA SettingsKeep ==
    ASSUME NEW S, BuildInv(S),
           \/ Change
           \/ \E amount \in Fees : SetFee(amount)
           \/ \E rate \in Rates : FeePerKb(rate)
    PROVE  BuildInv(S)'
<1>1. PICK t : /\ \/ t = [tx EXCEPT !.changeScript = ChangeScript]
                  \/ \E amount \in Fees : t = [tx EXCEPT !.fee = amount]
                  \/ \E rate \in Rates : t = [tx EXCEPT !.feePerKb = rate]
               /\ Updated(t) /\ asked' = asked /\ strayed' = strayed /\ lost' = lost
  BY Zenon DEF Change, SetFee, FeePerKb
<1>2. /\ t \in TxOf(S) /\ t.inputs = tx.inputs /\ t.outputs = tx.outputs
      /\ t.changeIndex = tx.changeIndex
      /\ t.changeScript = tx.changeScript \/ t.changeScript = ChangeScript
      /\ t.thrown = FALSE /\ SameSums(t, tx)
  <2>1. CASE t = [tx EXCEPT !.changeScript = ChangeScript]
    BY <2>1 DEF BuildInv, TxOf, SameSums
  <2>2. CASE \E amount \in Fees : t = [tx EXCEPT !.fee = amount]
    <3>1. PICK amount \in Fees : t = [tx EXCEPT !.fee = amount]
      BY <2>2
    <3>2. amount \in Nat
      BY BuildAssumption
    <3> QED
      BY <3>1, <3>2 DEF BuildInv, TxOf, SameSums
  <2>3. CASE \E rate \in Rates : t = [tx EXCEPT !.feePerKb = rate]
    <3>1. PICK rate \in Rates : t = [tx EXCEPT !.feePerKb = rate]
      BY <2>3
    <3>2. rate \in Nat
      BY BuildAssumption
    <3> QED
      BY <3>1, <3>2 DEF BuildInv, TxOf, SameSums
  <2> QED
    BY <1>1, <2>1, <2>2, <2>3
<1>3. Ready(t, S) /\ (broken = FALSE => SumsOK(t))
  <2>1. ChangeScript # None
    BY BuildAssumption
  <2> QED
    BY <1>2, <2>1 DEF BuildInv, Ready, NoIndexWithoutScript, SumsOK, SameSums
<1>4. KeptOutputs(t) = KeptOutputs(tx)
  BY <1>2, KeptSame DEF BuildInv
<1> QED
  BY <1>1, <1>3, <1>4, UpdatedKeeps

LEMMA KeptOften ==
    ASSUME NEW S, NEW t \in TxOf(S), NEW p
    PROVE  /\ HowOften(p, KeptOutputs(t)) =
                  HowOften(p, t.outputs)
                      - (IF /\ t.changeIndex \in 1..Len(t.outputs)
                            /\ t.outputs[t.changeIndex] = p THEN 1 ELSE 0)
           /\ HowOften(p, KeptOutputs(t)) \in Nat /\ HowOften(p, t.outputs) \in Nat
<1>1. PICK r : r = KeptOutputs(t)
  OBVIOUS
<1>2. PICK s \in Seq(OutputsOf) : s = t.outputs
  BY DEF TxOf
<1>3. PICK k : k = t.changeIndex
  OBVIOUS
<1>4. /\ r \in Seq(OutputsOf)
      /\ k \in 1..Len(s) => IsWithout(r, s, k)
      /\ k \notin 1..Len(s) => r = s
  BY <1>1, <1>2, <1>3, KeptIs
<1>5. HowOften(p, r) \in Nat /\ HowOften(p, s) \in Nat
  BY <1>4, HowOftenTotal
<1>6. CASE k \in 1..Len(s)
  <2>1. HowOften(p, r) = HowOften(p, s) - (IF s[k] = p THEN 1 ELSE 0)
    BY <1>4, <1>6, HowOftenLess
  <2> QED
    BY <1>1, <1>2, <1>3, <1>5, <1>6, <2>1
<1>7. CASE k \notin 1..Len(s)
  BY <1>1, <1>2, <1>3, <1>4, <1>5, <1>7
<1> QED
  BY <1>6, <1>7

LEMMA AddOutputKeeps ==
    ASSUME NEW S, BuildInv(S), NEW p \in Payments, AddOutput(p)
    PROVE  BuildInv(S)'
<1>1. PICK t : t = AppendOutput(tx, p)
  OBVIOUS
<1>2. /\ t \in TxOf(S) /\ t.inputs = tx.inputs
      /\ SameSettings(t, tx) /\ t.inputAmount = tx.inputAmount /\ t.outputAmount = None
      /\ t.thrown = tx.thrown
      /\ IsMore(t.outputs, tx.outputs, p)
  <2>1. p \in OutputsOf
    BY DEF OutputsOf
  <2> QED
    BY <1>1, <2>1, AppendFacts DEF BuildInv
<1>3. Updated(t) /\ strayed' = strayed /\ lost' = lost /\ asked' = [asked EXCEPT ![p] = @ + 1]
  BY <1>1, Zenon DEF AddOutput
<1>4. Ready(t, S) /\ (broken = FALSE => SumsOK(t))
  BY <1>2 DEF BuildInv, Ready, NoIndexWithoutScript, SumsOK, SameSettings
<1>5. AfterUpdate(t, S)
  BY <1>3, <1>4, UpdatedFacts DEF BuildInv
<1>6. asked' \in [Payments -> Nat] /\ strayed' \in BOOLEAN
  <2>1. asked \in [Payments -> Nat] /\ strayed \in BOOLEAN
    BY DEF BuildInv
  <2> QED
    BY <1>3, <2>1
<1>7. broken = FALSE /\ strayed' = FALSE /\ lost = FALSE => Counted(t, asked')
  <2> SUFFICES ASSUME broken = FALSE, strayed = FALSE, lost = FALSE, NEW q \in Payments
               PROVE  HowOften(q, KeptOutputs(t)) = asked'[q]
    BY <1>3 DEF Counted
  <2>1. PICK n \in Nat : n = Len(tx.outputs) /\ tx.outputs \in Seq(OutputsOf)
    BY DEF BuildInv, TxOf
  <2>2. PICK k : k = tx.changeIndex /\ k = t.changeIndex
    BY <1>2 DEF SameSettings
  <2>3. k \in 1..n \/ k = None
    BY <2>1, <2>2 DEF BuildInv, IndexOK
  <2>4. k \notin 1..n => k \notin 1..(n + 1)
    BY <2>3, BuildAssumption
  <2>5. Len(t.outputs) = n + 1 /\ \A i \in 1..n : t.outputs[i] = tx.outputs[i]
    BY <1>2, <2>1 DEF IsMore
  <2>6. HowOften(q, t.outputs) = HowOften(q, tx.outputs) + (IF p = q THEN 1 ELSE 0)
    <3>1. t.outputs \in Seq(OutputsOf)
      BY <1>2 DEF TxOf
    <3>2. PICK r \in Seq(OutputsOf), s \in Seq(OutputsOf) : r = t.outputs /\ s = tx.outputs
      BY <2>1, <3>1
    <3> QED
      BY <1>2, <3>2, HowOftenMore
  <2>7. /\ HowOften(q, KeptOutputs(t)) =
               HowOften(q, t.outputs)
                   - (IF t.changeIndex \in 1..Len(t.outputs) /\ t.outputs[t.changeIndex] = q
                      THEN 1 ELSE 0)
        /\ HowOften(q, t.outputs) \in Nat
    BY <1>2, KeptOften
  <2>8. /\ HowOften(q, KeptOutputs(tx)) =
               HowOften(q, tx.outputs)
                   - (IF tx.changeIndex \in 1..Len(tx.outputs) /\ tx.outputs[tx.changeIndex] = q
                      THEN 1 ELSE 0)
        /\ HowOften(q, tx.outputs) \in Nat
    BY KeptOften DEF BuildInv
  <2>9. HowOften(q, KeptOutputs(tx)) = asked[q] /\ asked[q] \in Nat
    BY DEF BuildInv, Counted
  <2>10. asked'[q] = asked[q] + (IF p = q THEN 1 ELSE 0)
    BY <1>3 DEF BuildInv
  <2>11. PICK c \in {0, 1} : /\ HowOften(q, KeptOutputs(t)) = HowOften(q, t.outputs) - c
                             /\ HowOften(q, KeptOutputs(tx)) = HowOften(q, tx.outputs) - c
    <3>1. CASE k \in 1..n
      <4>1. k \in 1..(n + 1) /\ t.outputs[k] = tx.outputs[k]
        BY <2>5, <3>1
      <4> QED
        BY <2>1, <2>2, <2>5, <2>7, <2>8, <3>1, <4>1
    <3>2. CASE k \notin 1..n
      BY <2>1, <2>2, <2>4, <2>5, <2>7, <2>8, <3>2
    <3> QED
      BY <3>1, <3>2
  <2>12. PICK a, b, d, e, f \in Int : /\ a = HowOften(q, KeptOutputs(t)) /\ b = HowOften(q, t.outputs)
                                      /\ d = HowOften(q, KeptOutputs(tx))
                                      /\ e = HowOften(q, tx.outputs) /\ f = asked[q]
    BY <2>7, <2>8, <2>9, <2>11
  <2>13. PICK g \in {0, 1} : g = IF p = q THEN 1 ELSE 0
    OBVIOUS
  <2>14. b = e + g /\ a = b - c /\ d = e - c /\ d = f
    <3>1. b = e + g
      BY <2>6, <2>12, <2>13, Zenon
    <3>2. a = b - c /\ d = e - c
      BY <2>11, <2>12, Zenon
    <3>3. d = f
      BY <2>9, <2>12, Zenon
    <3> QED
      BY <3>1, <3>2, <3>3
  <2>15. a = f + g
    BY <2>14
  <2> QED
    BY <2>10, <2>12, <2>13, <2>15, Zenon
<1> QED
  BY <1>3, <1>4, <1>5, <1>6, <1>7, InvAfterUpdate

LEMMA RemoveOutputKeeps ==
    ASSUME NEW S, BuildInv(S), NEW i \in DOMAIN tx.outputs, RemoveOutput(i)
    PROVE  BuildInv(S)'
<1>0. PICK n \in Nat : n = Len(tx.outputs) /\ tx.outputs \in Seq(OutputsOf) /\ i \in 1..n
  BY DEF BuildInv, TxOf
<1>1. PICK t : t = DropOutput(tx, i)
  OBVIOUS
<1>2. /\ t \in TxOf(S) /\ t.inputs = tx.inputs
      /\ SameSettings(t, tx) /\ t.inputAmount = tx.inputAmount /\ t.outputAmount = None
      /\ t.thrown = tx.thrown
      /\ IsWithout(t.outputs, tx.outputs, i)
  BY <1>0, <1>1, DropFacts DEF BuildInv
<1>3. PICK k : k = tx.changeIndex /\ k = t.changeIndex
  BY <1>2 DEF SameSettings
<1>4. /\ Updated(t) /\ lost' = lost
      /\ IF k # None /\ i <= k
         THEN strayed' = TRUE /\ asked' = asked
         ELSE /\ strayed' = strayed
              /\ asked' = IF tx.outputs[i] \in Payments
                          THEN [asked EXCEPT ![tx.outputs[i]] = IF @ > 0 THEN @ - 1 ELSE 0]
                          ELSE asked
  BY <1>1, <1>3, Zenon DEF RemoveOutput
<1>5. Ready(t, S) /\ (broken = FALSE => SumsOK(t))
  BY <1>2 DEF BuildInv, Ready, NoIndexWithoutScript, SumsOK, SameSettings
<1>6. AfterUpdate(t, S)
  BY <1>4, <1>5, UpdatedFacts DEF BuildInv
<1>7. asked \in [Payments -> Nat] /\ strayed \in BOOLEAN
  BY DEF BuildInv
<1>8. /\ asked' \in [Payments -> Nat]
      /\ ~(k # None /\ i <= k) =>
             \A q \in Payments : asked'[q] = IF tx.outputs[i] = q
                                             THEN IF asked[q] > 0 THEN asked[q] - 1 ELSE 0
                                             ELSE asked[q]
  <2>1. PICK o : o = tx.outputs[i]
    OBVIOUS
  <2>2. CASE k # None /\ i <= k
    BY <1>4, <1>7, <2>2
  <2>3. CASE ~(k # None /\ i <= k)
    <3>1. CASE o \in Payments
      <4>1. PICK m \in Nat : m = IF asked[o] > 0 THEN asked[o] - 1 ELSE 0
        BY <1>7, <3>1
      <4>2. asked' = [asked EXCEPT ![o] = m]
        BY <1>4, <2>1, <2>3, <3>1, <4>1
      <4> QED
        BY <1>7, <2>1, <3>1, <4>1, <4>2
    <3>2. CASE o \notin Payments
      <4>1. asked' = asked
        BY <1>4, <2>1, <2>3, <3>2
      <4> QED
        BY <1>7, <2>1, <3>2, <4>1
    <3> QED
      BY <3>1, <3>2
  <2> QED
    BY <2>2, <2>3
<1>9. strayed' \in BOOLEAN /\ (strayed' = FALSE => strayed = FALSE /\ ~(k # None /\ i <= k))
  <2>1. CASE k # None /\ i <= k
    BY <1>4, <2>1
  <2>2. CASE ~(k # None /\ i <= k)
    BY <1>4, <1>7, <2>2
  <2> QED
    BY <2>1, <2>2
<1>10. broken = FALSE /\ strayed' = FALSE /\ lost = FALSE => Counted(t, asked')
  <2> SUFFICES ASSUME broken = FALSE, strayed = FALSE, lost = FALSE, ~(k # None /\ i <= k),
                      NEW q \in Payments
               PROVE  HowOften(q, KeptOutputs(t)) = asked'[q]
    BY <1>9 DEF Counted
  <2>1. k \in 1..n \/ k = None
    BY <1>0, <1>3 DEF BuildInv, IndexOK
  <2>2. Len(t.outputs) = n - 1 /\ \A j \in 1..(n - 1) : j < i => t.outputs[j] = tx.outputs[j]
    BY <1>0, <1>2 DEF IsWithout
  <2>3. HowOften(q, t.outputs) = HowOften(q, tx.outputs) - (IF tx.outputs[i] = q THEN 1 ELSE 0)
    <3>1. t.outputs \in Seq(OutputsOf)
      BY <1>2 DEF TxOf
    <3>2. PICK r \in Seq(OutputsOf), s \in Seq(OutputsOf) : r = t.outputs /\ s = tx.outputs
      BY <1>0, <3>1
    <3>3. i \in 1..Len(s)
      BY <1>0, <3>2
    <3> QED
      BY <1>2, <3>2, <3>3, HowOftenLess
  <2>4. /\ HowOften(q, KeptOutputs(t)) =
               HowOften(q, t.outputs)
                   - (IF t.changeIndex \in 1..Len(t.outputs) /\ t.outputs[t.changeIndex] = q
                      THEN 1 ELSE 0)
        /\ HowOften(q, t.outputs) \in Nat /\ HowOften(q, KeptOutputs(t)) \in Nat
    BY <1>2, KeptOften
  <2>5. /\ HowOften(q, KeptOutputs(tx)) =
               HowOften(q, tx.outputs)
                   - (IF tx.changeIndex \in 1..Len(tx.outputs) /\ tx.outputs[tx.changeIndex] = q
                      THEN 1 ELSE 0)
        /\ HowOften(q, tx.outputs) \in Nat
    BY KeptOften DEF BuildInv
  <2>6. HowOften(q, KeptOutputs(tx)) = asked[q] /\ asked[q] \in Nat
    BY DEF BuildInv, Counted
  <2>7. PICK c \in {0, 1} : /\ HowOften(q, KeptOutputs(t)) = HowOften(q, t.outputs) - c
                            /\ HowOften(q, KeptOutputs(tx)) = HowOften(q, tx.outputs) - c
    <3>1. CASE k \in 1..n
      <4>1. k < i
        BY <2>1, <3>1, <1>0, BuildAssumption
      <4>2. k \in 1..(n - 1) /\ t.outputs[k] = tx.outputs[k]
        BY <1>0, <2>2, <3>1, <4>1
      <4> QED
        BY <1>0, <1>3, <2>2, <2>4, <2>5, <3>1, <4>2
    <3>2. CASE k \notin 1..n
      <4>1. k \notin 1..(n - 1)
        BY <3>2
      <4> QED
        BY <1>0, <1>3, <2>2, <2>4, <2>5, <3>2, <4>1
    <3> QED
      BY <3>1, <3>2
  <2>8. PICK a, b, d, e, f \in Int : /\ a = HowOften(q, KeptOutputs(t)) /\ b = HowOften(q, t.outputs)
                                     /\ d = HowOften(q, KeptOutputs(tx))
                                     /\ e = HowOften(q, tx.outputs) /\ f = asked[q] /\ a >= 0
    BY <2>4, <2>5, <2>6, <2>7
  <2>9. PICK g \in {0, 1} : g = IF tx.outputs[i] = q THEN 1 ELSE 0
    OBVIOUS
  <2>10. b = e - g /\ a = b - c /\ d = e - c /\ d = f
    <3>1. b = e - g
      BY <2>3, <2>8, <2>9, Zenon
    <3>2. a = b - c /\ d = e - c
      BY <2>7, <2>8, Zenon
    <3>3. d = f
      BY <2>6, <2>8, Zenon
    <3> QED
      BY <3>1, <3>2, <3>3
  <2>11. a = f - g /\ f >= g
    BY <2>8, <2>10
  <2>12. a = asked'[q]
    <3>1. CASE tx.outputs[i] = q
      <4>1. g = 1
        BY <2>9, <3>1
      <4>2. asked'[q] = IF f > 0 THEN f - 1 ELSE 0
        BY <1>8, <2>8, <3>1
      <4> QED
        BY <2>11, <4>1, <4>2
    <3>2. CASE tx.outputs[i] # q
      <4>1. g = 0
        BY <2>9, <3>2
      <4>2. asked'[q] = f
        BY <1>8, <2>8, <3>2
      <4> QED
        BY <2>11, <4>1, <4>2
    <3> QED
      BY <3>1, <3>2
  <2> QED
    BY <2>8, <2>12
<1> QED
  BY <1>4, <1>5, <1>6, <1>8, <1>9, <1>10, InvAfterUpdate

-----------------------------------------------------------------------------
(* The other calls. *)

\* What the invariant asks of what a call has made of the transaction, unless it throws.
Holds(t, counts, isLost, isStrayed) ==
    /\ SumsOK(t) /\ IndexOK(t)
    /\ isLost = FALSE /\ t.changeScript # None => CurrentChange(t)
    /\ isLost = FALSE /\ isStrayed = FALSE => Counted(t, counts)

LEMMA CallKeeps ==
    ASSUME NEW S, None \in S, broken \in BOOLEAN, NEW t \in TxOf(S), NEW clears, Call(t, clears),
           NoIndexWithoutScript(t),
           asked' \in [Payments -> Nat], strayed' \in BOOLEAN, lost' \in BOOLEAN,
           broken = FALSE /\ t.thrown = FALSE => Holds(t, asked', lost', strayed')
    PROVE  BuildInv(S)'
<1>1. /\ tx' \in TxOf(S) /\ tx'.thrown = FALSE /\ broken' \in BOOLEAN
      /\ tx'.changeScript = t.changeScript /\ tx'.changeIndex = t.changeIndex
      /\ tx'.inputs = t.inputs /\ tx'.outputs = t.outputs /\ tx'.nLockTime = t.nLockTime
      /\ broken' = FALSE => broken = FALSE /\ t.thrown = FALSE /\ tx' = t
  BY Called
<1>2. broken' = FALSE => Holds(tx', asked', lost', strayed')
  BY <1>1
<1> QED
  BY <1>1, <1>2 DEF BuildInv, Holds, NoIndexWithoutScript

\* The change is still current with other inputs of the same sum.
LEMMA SameChange ==
    ASSUME NEW S, NEW t \in TxOf(S), NEW s \in TxOf(S), t.outputs = s.outputs, SameSettings(t, s),
           Len(t.inputs) = Len(s.inputs), InputSum(t.inputs) = InputSum(s.inputs)
    PROVE  /\ KeptOutputs(t) = KeptOutputs(s)
           /\ IndexOK(s) => IndexOK(t)
           /\ CurrentChange(s) => CurrentChange(t)
           /\ \A counts : Counted(s, counts) => Counted(t, counts)
           /\ SumsOK(s) /\ SameSums(t, s) => SumsOK(t)
<1>1. KeptOutputs(t) = KeptOutputs(s)
  BY KeptSame DEF SameSettings
<1>2. \A a : FeeOf(t, a) = FeeOf(s, a)
  BY FeeSame DEF SameSettings
<1>3. TrueFeeOf(t) = TrueFeeOf(s)
  BY DEF TrueFeeOf
<1>4. CurrentChange(s) => CurrentChange(t)
  <2>1. PICK k : k = t.changeIndex /\ k = s.changeIndex
    BY DEF SameSettings
  <2>2. PICK u, v : u = DropOutput(t, k) /\ v = DropOutput(s, k)
    OBVIOUS
  <2>3. /\ u.inputs = t.inputs /\ SameSettings(u, t) /\ v.inputs = s.inputs /\ SameSettings(v, s)
    BY <2>2, DropFacts
  <2>4. k # None => u.outputs = v.outputs
    BY <1>1, <2>1, <2>2 DEF KeptOutputs
  <2>5. k # None => \A a : FeeOf(u, a) = FeeOf(v, a)
    BY <2>3, <2>4, FeeSame DEF SameSettings
  <2>6. t.changeScript = s.changeScript
    BY DEF SameSettings
  <2> QED
    BY <1>1, <1>2, <1>3, <2>1, <2>2, <2>5, <2>6, Zenon DEF CurrentChange
<1>5. SumsOK(s) /\ SameSums(t, s) => SumsOK(t)
  BY DEF SumsOK, SameSums
<1> QED
  BY <1>1, <1>4, <1>5 DEF IndexOK, Counted, SameSettings

\* A call that touches neither the outputs nor what the inputs bring.
LEMMA QuietKeeps ==
    ASSUME NEW S, BuildInv(S), NEW R, S \subseteq R, tx \in TxOf(R), NEW t \in TxOf(R), NEW clears,
           Call(t, clears), t.outputs = tx.outputs, SameSettings(t, tx),
           Len(t.inputs) = Len(tx.inputs), InputSum(t.inputs) = InputSum(tx.inputs),
           broken = FALSE /\ t.thrown = FALSE => SumsOK(t),
           asked' = asked, strayed' = strayed, lost' = lost
    PROVE  BuildInv(R)'
<1>1. /\ IndexOK(tx) => IndexOK(t)
      /\ CurrentChange(tx) => CurrentChange(t)
      /\ \A counts : Counted(tx, counts) => Counted(t, counts)
  BY SameChange
<1>2. broken = FALSE /\ t.thrown = FALSE => Holds(t, asked', lost', strayed')
  BY <1>1 DEF Holds, BuildInv, SameSettings
<1>3. None \in R /\ broken \in BOOLEAN /\ NoIndexWithoutScript(t)
  BY DEF BuildInv, NoIndexWithoutScript, SameSettings
<1>4. asked' \in [Payments -> Nat] /\ strayed' \in BOOLEAN /\ lost' \in BOOLEAN
  BY DEF BuildInv
<1> QED
  BY <1>2, <1>3, <1>4, CallKeeps

LEMMA ClearOutputsKeeps ==
    ASSUME NEW S, BuildInv(S), ClearOutputs
    PROVE  BuildInv(S)'
<1>1. PICK e : e = [tx EXCEPT !.outputs = <<>>]
  OBVIOUS
<1>2. /\ e \in TxOf(S) /\ e.inputs = tx.inputs /\ e.outputs = <<>> /\ SameSettings(e, tx)
      /\ e.inputAmount = tx.inputAmount
  <2>1. <<>> \in Seq(OutputsOf)
    OBVIOUS
  <2>2. PICK o \in Seq(OutputsOf) : o = <<>>
    BY <2>1, Zenon
  <2> QED
    BY <1>1, <2>2 DEF BuildInv, TxOf, SameSettings
<1>3. PICK c : c = ClearSignatures(e)
  OBVIOUS
<1>4. /\ c \in TxOf(S) /\ Alike(c.inputs, e.inputs)
      /\ c.outputs = e.outputs /\ c.nLockTime = e.nLockTime
      /\ SameSettings(c, e) /\ SameSums(c, e)
  BY <1>2, <1>3, ClearedFacts DEF BuildInv
<1>5. asked' = [p \in Payments |-> 0] /\ strayed' = strayed /\ lost' = lost
  BY DEF ClearOutputs
<1>6. asked' \in [Payments -> Nat] /\ strayed' \in BOOLEAN /\ lost' \in BOOLEAN
      /\ broken \in BOOLEAN /\ None \in S
  BY <1>5 DEF BuildInv
<1>7. CASE c.thrown = TRUE
  <2>1. Call(c, FALSE)
    BY <1>1, <1>3, <1>7, Zenon DEF ClearOutputs
  <2>2. PICK clears : Call(c, clears)
    <3> WITNESS FALSE
    <3> QED
      BY <2>1
  <2>3. NoIndexWithoutScript(c)
    BY <1>2, <1>4 DEF BuildInv, NoIndexWithoutScript, SameSettings
  <2>4. broken = FALSE /\ c.thrown = FALSE => Holds(c, asked', lost', strayed')
    BY <1>7
  <2> QED
    BY <1>4, <1>6, <2>2, <2>3, <2>4, CallKeeps
<1>8. CASE c.thrown = FALSE
  <2>1. PICK t : t = [c EXCEPT !.outputAmount = None, !.changeIndex = None]
    OBVIOUS
  <2>2. Call(UpdateChangeOutput(t), TRUE)
    BY <1>1, <1>3, <1>8, <2>1, Zenon DEF ClearOutputs
  <2>3. PICK clears : Call(UpdateChangeOutput(t), clears)
    <3> WITNESS TRUE
    <3> QED
      BY <2>2
  <2>4. /\ t \in TxOf(S) /\ t.inputs = c.inputs /\ t.outputs = <<>> /\ t.changeIndex = None
        /\ t.inputAmount = tx.inputAmount /\ t.outputAmount = None /\ t.thrown = FALSE
    BY <1>2, <1>4, <1>8, <2>1 DEF TxOf, SameSums
  <2>5. Ready(t, S)
    BY <2>4 DEF Ready, NoIndexWithoutScript
  <2>6. AfterUpdate(t, S)
    BY <1>6, <2>3, <2>5, UpdateCallFacts
  <2>7. InputSum(t.inputs) = InputSum(tx.inputs)
    <3>1. \A y \in InputsOf(S) : Utxos[y.utxo].satoshis \in Int
      BY InputFacts
    <3>2. c.inputs \in Seq(InputsOf(S)) /\ e.inputs \in Seq(InputsOf(S))
      BY <1>2, <1>4 DEF TxOf
    <3> QED
      BY <1>2, <1>4, <2>4, <3>1, <3>2, InputSumSame DEF Alike
  <2>8. broken = FALSE => SumsOK(t)
    BY <2>4, <2>7 DEF SumsOK, BuildInv
  <2>9. Counted(t, asked')
    <3> SUFFICES ASSUME NEW p \in Payments PROVE HowOften(p, KeptOutputs(t)) = asked'[p]
      BY DEF Counted
    <3>1. KeptOutputs(t) = <<>>
      BY <2>4 DEF KeptOutputs
    <3>2. {i \in DOMAIN <<>> : <<>>[i] = p} = {}
      OBVIOUS
    <3>3. HowOften(p, KeptOutputs(t)) = 0
      BY <3>1, <3>2, FS_EmptySet, Zenon DEF HowOften
    <3> QED
      BY <1>5, <3>3
  <2> QED
    BY <1>5, <1>6, <2>6, <2>8, <2>9, InvAfterUpdate
<1>9. c.thrown \in BOOLEAN
  BY <1>4 DEF TxOf
<1> QED
  BY <1>7, <1>8, <1>9

\* The same outputs in another order, with the change output found again.
IsReordered(d, t, p) ==
    /\ d.inputs = t.inputs /\ d.nLockTime = t.nLockTime /\ d.changeScript = t.changeScript
    /\ d.fee = t.fee /\ d.feePerKb = t.feePerKb /\ SameSums(d, t) /\ d.thrown = t.thrown
    /\ IsOrder(d.outputs, t.outputs, p)
    /\ t.changeIndex = None => d.changeIndex = None
    /\ t.changeIndex # None => d.changeIndex # None
    /\ t.changeIndex \in 1..Len(t.outputs) =>
           /\ d.changeIndex \in 1..Len(t.outputs)
           /\ d.outputs[d.changeIndex] = t.outputs[t.changeIndex]

LEMMA NewOutputOrderFacts ==
    ASSUME NEW S, NEW t \in TxOf(S), NEW p \in Orders(Len(t.outputs)),
           NEW outs, outs = [i \in DOMAIN p |-> t.outputs[p[i]]],
           NEW d, d = NewOutputOrder(t, outs)
    PROVE  d \in TxOf(S) /\ IsReordered(d, t, p)
<1>1. PICK n \in Nat : n = Len(t.outputs) /\ DOMAIN t.outputs = 1..n
  BY DEF TxOf
<1>2. PICK before \in Seq(OutputsOf) : before = t.outputs
  BY DEF TxOf
<1>3. outs \in Seq(OutputsOf) /\ IsOrder(outs, before, p)
  BY <1>1, <1>2, Ordered
<1>4. DOMAIN outs = 1..n /\ n = Len(outs)
  BY <1>1, <1>2, <1>3 DEF IsOrder
<1>5. PICK found : found = {i \in 1..n : t.changeIndex \in 1..n => outs[i] = before[t.changeIndex]}
  OBVIOUS
<1>6. PICK k : k = IF t.changeIndex = None THEN None ELSE IF found = {} THEN 0 ELSE Min(found)
  OBVIOUS
<1>7. d = [t EXCEPT !.outputs = outs, !.changeIndex = k]
  <2>1. found = {i \in DOMAIN outs :
                     t.changeIndex \in DOMAIN t.outputs => outs[i] = t.outputs[t.changeIndex]}
    BY <1>1, <1>2, <1>4, <1>5
  <2> QED
    BY <1>6, <2>1 DEF NewOutputOrder, TxOf
<1>8. found # {} => Min(found) \in found
  <2> SUFFICES ASSUME found # {} PROVE Min(found) \in found
    OBVIOUS
  <2>1. PICK a \in found : TRUE
    OBVIOUS
  <2>2. found \in SUBSET Nat
    BY <1>5
  <2>3. PICK m \in found : \A y \in found : m <= y
    BY <2>1, <2>2, LeastOf
  <2>4. Min(found) = CHOOSE x \in found : \A y \in found : x <= y
    BY DEF Min
  <2> QED
    BY <2>3, <2>4
<1>9. k \in Nat \cup {None}
  BY <1>5, <1>6, <1>8
<1>10. /\ d \in TxOf(S) /\ d.inputs = t.inputs /\ d.nLockTime = t.nLockTime
       /\ d.changeScript = t.changeScript /\ d.fee = t.fee /\ d.feePerKb = t.feePerKb
       /\ SameSums(d, t) /\ d.thrown = t.thrown /\ d.outputs = outs /\ d.changeIndex = k
  BY <1>3, <1>7, <1>9 DEF TxOf, SameSums
<1>11. None \notin Nat
  BY BuildAssumption
<1>12. t.changeIndex # None => k # None
  <2>1. found # {} => Min(found) \in Nat
    BY <1>5, <1>8
  <2>2. t.changeIndex # None => k \in Nat
    BY <1>6, <2>1
  <2> QED
    BY <1>11, <2>2
<1>13. t.changeIndex \in 1..n => k \in 1..n /\ outs[k] = before[t.changeIndex]
  <2> SUFFICES ASSUME t.changeIndex \in 1..n PROVE k \in 1..n /\ outs[k] = before[t.changeIndex]
    OBVIOUS
  <2>1. p \in Orders(n)
    BY <1>1
  <2>2. PICK i \in 1..n : p[i] = t.changeIndex
    BY <2>1, OrderReachesAll
  <2>3. outs[i] = before[t.changeIndex]
    BY <1>1, <1>2, <1>3, <2>2 DEF IsOrder
  <2>4. found # {}
    BY <1>5, <2>3
  <2>5. k = Min(found)
    BY <1>6, <1>11, <2>4
  <2> QED
    BY <1>5, <1>8, <2>4, <2>5
<1>14. IsOrder(d.outputs, t.outputs, p)
  BY <1>2, <1>3, <1>10
<1> QED
  BY <1>1, <1>2, <1>6, <1>10, <1>12, <1>13, <1>14 DEF IsReordered

LEMMA ReorderedHolds ==
    ASSUME NEW S, NEW t \in TxOf(S), NEW d \in TxOf(S), NEW p \in Orders(Len(t.outputs)),
           IsReordered(d, t, p), SumsOK(t), IndexOK(t)
    PROVE  /\ SumsOK(d) /\ IndexOK(d)
           /\ CurrentChange(t) => CurrentChange(d)
           /\ \A counts : Counted(t, counts) => Counted(d, counts)
<1>1. PICK n \in Nat : n = Len(t.outputs) /\ n = Len(d.outputs)
  BY DEF TxOf, IsReordered, IsOrder
<1>2. PICK r \in Seq(OutputsOf), s \in Seq(OutputsOf) : r = d.outputs /\ s = t.outputs
  BY DEF TxOf
<1>3. Len(s) = n /\ Len(r) = n /\ DOMAIN r = 1..n /\ DOMAIN s = 1..n
  <2>1. Len(s) = n /\ Len(r) = n
    BY <1>1, <1>2
  <2>2. DOMAIN r = 1..Len(r) /\ DOMAIN s = 1..Len(s)
    OBVIOUS
  <2> QED
    BY <2>1, <2>2
<1>4. p \in Orders(Len(s)) /\ IsOrder(r, s, p)
  BY <1>2 DEF IsReordered
<1>5. \A y \in OutputsOf : y.satoshis \in Int
  BY OutputFacts
<1>6. OutputSum(r) = OutputSum(s) /\ OutputSum(s) \in Int
  BY <1>4, <1>5, OutputSumOrdered
<1>7. SumsOK(d)
  BY <1>2, <1>6 DEF SumsOK, IsReordered, SameSums
<1>8. IndexOK(d)
  BY <1>1 DEF IndexOK, IsReordered
<1>9. CurrentChange(t) => CurrentChange(d)
  <2> SUFFICES ASSUME CurrentChange(t) PROVE CurrentChange(d)
    OBVIOUS
  <2>1. CASE t.changeIndex = None
    <3>1. d.changeIndex = None
      BY <2>1 DEF IsReordered
    <3>2. TrueFeeOf(d) = TrueFeeOf(t)
      BY <1>2, <1>6 DEF TrueFeeOf, IsReordered
    <3>3. \A a : FeeOf(d, a) = FeeOf(t, a)
      BY <1>1, FeeSame DEF IsReordered
    <3> QED
      BY <2>1, <3>1, <3>2, <3>3 DEF CurrentChange
  <2>2. CASE t.changeIndex # None
    <3>1. PICK k \in 1..n, l \in 1..n : k = t.changeIndex /\ l = d.changeIndex /\ r[l] = s[k]
      BY <1>1, <1>2, <2>2 DEF IsReordered, IndexOK
    <3>2. None \notin Nat
      BY BuildAssumption
    <3>3. PICK u, v : u = DropOutput(d, l) /\ v = DropOutput(t, k)
      OBVIOUS
    <3>4. /\ u \in TxOf(S) /\ u.inputs = d.inputs /\ SameSettings(u, d)
          /\ IsWithout(u.outputs, d.outputs, l)
      BY <1>1, <3>3, DropFacts
    <3>5. /\ v \in TxOf(S) /\ v.inputs = t.inputs /\ SameSettings(v, t)
          /\ IsWithout(v.outputs, t.outputs, k)
      <4>1. k \in 1..Len(t.outputs) /\ v = DropOutput(t, k)
        BY <1>1, <3>3
      <4> QED
        BY <4>1, DropFacts
    <3>6. KeptOutputs(d) = u.outputs /\ KeptOutputs(t) = v.outputs
      BY <3>1, <3>2, <3>3 DEF KeptOutputs
    <3>7. OutputSum(u.outputs) = OutputSum(v.outputs)
      <4>1. PICK x \in Seq(OutputsOf), y \in Seq(OutputsOf) : x = u.outputs /\ y = v.outputs
        BY <3>4, <3>5 DEF TxOf
      <4>2. l \in 1..Len(r) /\ k \in 1..Len(s) /\ IsWithout(x, r, l) /\ IsWithout(y, s, k)
        BY <1>2, <1>3, <3>4, <3>5, <4>1
      <4>3. OutputSum(x) = OutputSum(r) - r[l].satoshis
        BY <1>5, <4>2, OutputSumLess
      <4>4. OutputSum(y) = OutputSum(s) - s[k].satoshis
        BY <1>5, <4>2, OutputSumLess
      <4> QED
        BY <1>6, <3>1, <4>1, <4>3, <4>4
    <3>8. Len(u.outputs) = Len(v.outputs)
      BY <1>1, <3>4, <3>5 DEF IsWithout
    <3>9. \A a : FeeOf(u, a) = FeeOf(v, a)
      BY <3>4, <3>5, <3>8, FeeSame DEF IsReordered, SameSettings
    <3>10. InputSum(d.inputs) - OutputSum(KeptOutputs(d))
               = InputSum(t.inputs) - OutputSum(KeptOutputs(t))
      BY <3>6, <3>7 DEF IsReordered
    <3>11. /\ t.outputs[k].script = t.changeScript
           /\ t.outputs[k].satoshis = (InputSum(t.inputs) - OutputSum(KeptOutputs(t)))
                  - FeeOf(v, InputSum(t.inputs) - OutputSum(KeptOutputs(t)))
      BY <3>1, <3>2, <3>3 DEF CurrentChange
    <3>12. d.outputs[l] = t.outputs[k] /\ d.changeScript = t.changeScript
      BY <1>2, <3>1 DEF IsReordered
    <3>13. l \in DOMAIN d.outputs
      BY <1>2, <1>3
    <3> QED
      BY <3>1, <3>2, <3>3, <3>9, <3>10, <3>11, <3>12, <3>13 DEF CurrentChange
  <2> QED
    BY <2>1, <2>2
<1>10. \A counts : Counted(t, counts) => Counted(d, counts)
  <2>1. \A q : HowOften(q, KeptOutputs(d)) = HowOften(q, KeptOutputs(t))
    <3> SUFFICES ASSUME NEW q PROVE HowOften(q, KeptOutputs(d)) = HowOften(q, KeptOutputs(t))
      OBVIOUS
    <3>1. HowOften(q, r) = HowOften(q, s)
      BY <1>4, HowOftenOrdered
    <3>2. HowOften(q, KeptOutputs(d)) =
              HowOften(q, r) - (IF d.changeIndex \in 1..n /\ r[d.changeIndex] = q THEN 1 ELSE 0)
      BY <1>1, <1>2, KeptOften
    <3>3. HowOften(q, KeptOutputs(t)) =
              HowOften(q, s) - (IF t.changeIndex \in 1..n /\ s[t.changeIndex] = q THEN 1 ELSE 0)
      BY <1>1, <1>2, KeptOften
    <3>4. (d.changeIndex \in 1..n /\ r[d.changeIndex] = q)
              <=> (t.changeIndex \in 1..n /\ s[t.changeIndex] = q)
      <4>1. None \notin 1..n
        BY BuildAssumption
      <4> QED
        BY <1>1, <1>2, <4>1 DEF IsReordered, IndexOK
    <3> QED
      BY <3>1, <3>2, <3>3, <3>4
  <2> QED
    BY <2>1 DEF Counted
<1> QED
  BY <1>7, <1>8, <1>9, <1>10

LEMMA SortOutputsKeeps ==
    ASSUME NEW S, BuildInv(S), NEW p \in Orders(Len(tx.outputs)), SortOutputs(p)
    PROVE  BuildInv(S)'
<1>1. PICK outs : outs = [i \in DOMAIN p |-> tx.outputs[p[i]]]
  OBVIOUS
<1>2. PICK d : d = NewOutputOrder(tx, outs)
  OBVIOUS
<1>3. d \in TxOf(S) /\ IsReordered(d, tx, p)
  BY <1>1, <1>2, NewOutputOrderFacts DEF BuildInv
<1>4. PICK clears : Call(d, clears)
  <2> WITNESS FALSE
  <2> QED
    BY <1>1, <1>2, Zenon DEF SortOutputs
<1>5. asked' = asked /\ strayed' = strayed /\ lost' = lost
  BY DEF SortOutputs
<1>6. broken = FALSE => Holds(d, asked', lost', strayed')
  <2>1. tx \in TxOf(S)
    BY DEF BuildInv
  <2>2. broken = FALSE => /\ SumsOK(d) /\ IndexOK(d)
                          /\ CurrentChange(tx) => CurrentChange(d)
                          /\ \A counts : Counted(tx, counts) => Counted(d, counts)
    BY <1>3, <2>1, ReorderedHolds DEF BuildInv
  <2> QED
    BY <1>3, <1>5, <2>2 DEF Holds, BuildInv, IsReordered
<1>7. None \in S /\ broken \in BOOLEAN /\ NoIndexWithoutScript(d)
  BY <1>3 DEF BuildInv, NoIndexWithoutScript, IsReordered
<1>8. asked' \in [Payments -> Nat] /\ strayed' \in BOOLEAN /\ lost' \in BOOLEAN
  BY <1>5 DEF BuildInv
<1>9. broken = FALSE /\ d.thrown = FALSE => Holds(d, asked', lost', strayed')
  BY <1>6
<1> QED
  BY <1>3, <1>4, <1>7, <1>8, <1>9, CallKeeps

LEMMA SortKeeps ==
    ASSUME NEW S, BuildInv(S), NEW p \in Orders(Len(tx.outputs)), NEW q \in Orders(Len(tx.inputs)),
           Sort(p, q)
    PROVE  BuildInv(S)'
<1>1. PICK before \in Seq(InputsOf(S)) : before = tx.inputs
  BY DEF BuildInv, TxOf
<1>2. PICK ins : ins = [i \in DOMAIN q |-> before[q[i]]]
  OBVIOUS
<1>3. ins \in Seq(InputsOf(S)) /\ IsOrder(ins, before, q)
  <2>1. q \in Orders(Len(before))
    BY <1>1
  <2> QED
    BY <1>2, <2>1, Ordered
<1>4. PICK e : e = [tx EXCEPT !.inputs = ins]
  OBVIOUS
<1>5. /\ e \in TxOf(S) /\ e.inputs = ins /\ e.outputs = tx.outputs /\ SameSettings(e, tx)
      /\ SameSums(e, tx)
  BY <1>3, <1>4 DEF BuildInv, TxOf, SameSettings, SameSums
<1>6. PICK c : c = ClearSignatures(e)
  OBVIOUS
<1>7. /\ c \in TxOf(S) /\ Alike(c.inputs, e.inputs)
      /\ c.outputs = e.outputs /\ c.nLockTime = e.nLockTime
      /\ SameSettings(c, e) /\ SameSums(c, e)
  BY <1>5, <1>6, ClearedFacts DEF BuildInv
<1>8. asked' = asked /\ strayed' = strayed /\ lost' = lost
  BY DEF Sort
<1>9. asked' \in [Payments -> Nat] /\ strayed' \in BOOLEAN /\ lost' \in BOOLEAN
      /\ broken \in BOOLEAN /\ None \in S
  BY <1>8 DEF BuildInv
<1>10. PICK outs : outs = [i \in DOMAIN p |-> tx.outputs[p[i]]]
  OBVIOUS
<1>11. IF c.thrown THEN Call(c, FALSE) ELSE Call(NewOutputOrder(c, outs), TRUE)
  <2>1. c = ClearSignatures([tx EXCEPT !.inputs = [i \in DOMAIN q |-> tx.inputs[q[i]]]])
    BY <1>1, <1>2, <1>4, <1>6
  <2> QED
    BY <1>10, <2>1, Zenon DEF Sort
<1>12. CASE c.thrown = TRUE
  <2>1. PICK clears : Call(c, clears)
    <3> WITNESS FALSE
    <3> QED
      BY <1>11, <1>12, Zenon
  <2>2. NoIndexWithoutScript(c)
    BY <1>5, <1>7 DEF BuildInv, NoIndexWithoutScript, SameSettings
  <2>3. broken = FALSE /\ c.thrown = FALSE => Holds(c, asked', lost', strayed')
    BY <1>12
  <2> QED
    BY <1>7, <1>9, <2>1, <2>2, <2>3, CallKeeps
<1>13. CASE c.thrown = FALSE
  <2>1. PICK d : d = NewOutputOrder(c, outs)
    OBVIOUS
  <2>2. p \in Orders(Len(c.outputs)) /\ outs = [i \in DOMAIN p |-> c.outputs[p[i]]]
    BY <1>5, <1>7, <1>10
  <2>3. d \in TxOf(S) /\ IsReordered(d, c, p)
    BY <1>7, <2>1, <2>2, NewOutputOrderFacts
  <2>4. PICK clears : Call(d, clears)
    <3> WITNESS TRUE
    <3> QED
      BY <1>11, <1>13, <2>1, Zenon
  <2>5. c.outputs = tx.outputs /\ SameSettings(c, tx) /\ SameSums(c, tx)
    BY <1>5, <1>7 DEF SameSettings, SameSums
  <2>6. Len(c.inputs) = Len(tx.inputs) /\ InputSum(c.inputs) = InputSum(tx.inputs)
    <3>1. \A y \in InputsOf(S) : Utxos[y.utxo].satoshis \in Int
      BY InputFacts
    <3>2. q \in Orders(Len(before))
      BY <1>1
    <3>3. InputSum(ins) = InputSum(before)
      BY <1>3, <3>1, <3>2, InputSumOrdered
    <3>4. PICK x \in Seq(InputsOf(S)) : x = c.inputs
      BY <1>7 DEF TxOf
    <3>5. Len(x) = Len(ins) /\ \A i \in 1..Len(ins) : x[i].utxo = ins[i].utxo
      BY <1>5, <1>7, <3>4 DEF Alike
    <3>6. InputSum(x) = InputSum(ins)
      BY <1>3, <3>1, <3>5, InputSumSame
    <3> QED
      BY <1>1, <1>3, <3>3, <3>4, <3>5, <3>6 DEF IsOrder
  <2>7. tx \in TxOf(S)
    BY DEF BuildInv
  <2>8. /\ IndexOK(tx) => IndexOK(c)
        /\ CurrentChange(tx) => CurrentChange(c)
        /\ \A counts : Counted(tx, counts) => Counted(c, counts)
        /\ SumsOK(tx) => SumsOK(c)
    BY <1>7, <2>5, <2>6, <2>7, SameChange
  <2>9. SumsOK(c) /\ IndexOK(c) => /\ SumsOK(d) /\ IndexOK(d)
                                   /\ CurrentChange(c) => CurrentChange(d)
                                   /\ \A counts : Counted(c, counts) => Counted(d, counts)
    BY <1>7, <2>2, <2>3, ReorderedHolds
  <2>10. broken = FALSE => Holds(d, asked', lost', strayed')
    BY <1>8, <2>3, <2>5, <2>8, <2>9 DEF Holds, BuildInv, IsReordered, SameSettings
  <2>11. NoIndexWithoutScript(d)
    BY <2>3, <2>5 DEF BuildInv, NoIndexWithoutScript, IsReordered, SameSettings
  <2>12. broken = FALSE /\ d.thrown = FALSE => Holds(d, asked', lost', strayed')
    BY <2>10
  <2> QED
    BY <1>9, <2>3, <2>4, <2>11, <2>12, CallKeeps
<1>14. c.thrown \in BOOLEAN
  BY <1>7 DEF TxOf
<1> QED
  BY <1>12, <1>13, <1>14

LEMMA LockUntilKeeps ==
    ASSUME NEW S, BuildInv(S), \/ \E time \in LockTimes : LockUntil(time)
                               \/ EnableRBF
    PROVE  BuildInv(S)'
<1>1. PICK before \in Seq(InputsOf(S)) : before = tx.inputs
  BY DEF BuildInv, TxOf
<1>2. PICK n \in Nat : n = Len(before) /\ DOMAIN before = 1..n
  OBVIOUS
<1>3. PICK locked : locked = [i \in 1..n |-> IF before[i].seq = "final"
                                             THEN [before[i] EXCEPT !.seq = "locktime"]
                                             ELSE before[i]]
  OBVIOUS
<1>4. PICK rbf : rbf = [i \in 1..n |-> [before[i] EXCEPT !.seq = "rbf"]]
  OBVIOUS
<1>5. \A y \in InputsOf(S) :
          /\ [y EXCEPT !.seq = "locktime"] \in InputsOf(S)
          /\ [y EXCEPT !.seq = "locktime"].utxo = y.utxo
          /\ [y EXCEPT !.seq = "rbf"] \in InputsOf(S) /\ [y EXCEPT !.seq = "rbf"].utxo = y.utxo
  BY DEF InputsOf, Seqs
<1>6. \A i \in 1..n : before[i] \in InputsOf(S)
  BY <1>2
<1>7. \A ins \in {locked, rbf} : /\ ins \in Seq(InputsOf(S)) /\ Len(ins) = n
                                 /\ \A i \in 1..n : ins[i].utxo = before[i].utxo
  <2>1. /\ locked \in Seq(InputsOf(S)) /\ Len(locked) = n
        /\ \A i \in 1..n : locked[i].utxo = before[i].utxo
    <3>1. \A i \in 1..n : locked[i] \in InputsOf(S) /\ locked[i].utxo = before[i].utxo
      <4> SUFFICES ASSUME NEW i \in 1..n
                   PROVE  locked[i] \in InputsOf(S) /\ locked[i].utxo = before[i].utxo
        OBVIOUS
      <4>1. PICK y \in InputsOf(S) : y = before[i]
        BY <1>6
      <4>2. locked[i] = y \/ locked[i] = [y EXCEPT !.seq = "locktime"]
        BY <1>3, <4>1
      <4> QED
        BY <1>5, <4>1, <4>2
    <3>2. locked = [i \in 1..n |-> locked[i]]
      BY <1>3
    <3> QED
      BY <3>1, <3>2
  <2>2. /\ rbf \in Seq(InputsOf(S)) /\ Len(rbf) = n
        /\ \A i \in 1..n : rbf[i].utxo = before[i].utxo
    <3>1. \A i \in 1..n : rbf[i] \in InputsOf(S) /\ rbf[i].utxo = before[i].utxo
      <4> SUFFICES ASSUME NEW i \in 1..n
                   PROVE  rbf[i] \in InputsOf(S) /\ rbf[i].utxo = before[i].utxo
        OBVIOUS
      <4>1. PICK y \in InputsOf(S) : y = before[i]
        BY <1>6
      <4>2. rbf[i] = [y EXCEPT !.seq = "rbf"]
        BY <1>4, <4>1
      <4> QED
        BY <1>5, <4>1, <4>2
    <3>2. rbf = [i \in 1..n |-> rbf[i]]
      BY <1>4
    <3> QED
      BY <3>1, <3>2
  <2> QED
    BY <2>1, <2>2
<1>8. \A y \in InputsOf(S) : Utxos[y.utxo].satoshis \in Int
  BY InputFacts
<1>9. PICK ins \in {locked, rbf}, time \in Nat, clears \in BOOLEAN :
          /\ Call([tx EXCEPT !.nLockTime = time, !.inputs = ins], clears)
          /\ asked' = asked /\ strayed' = strayed /\ lost' = lost
  <2>1. CASE \E time \in LockTimes : LockUntil(time)
    <3>1. PICK time \in LockTimes : LockUntil(time)
      BY <2>1
    <3>2. time \in Nat
      BY BuildAssumption
    <3>3. locked = [i \in DOMAIN tx.inputs |->
                        IF tx.inputs[i].seq = "final" THEN [tx.inputs[i] EXCEPT !.seq = "locktime"]
                        ELSE tx.inputs[i]]
      BY <1>1, <1>2, <1>3
    <3>4. [tx EXCEPT !.nLockTime = time, !.inputs = locked]
              = [tx EXCEPT !.nLockTime = time,
                           !.inputs = [i \in DOMAIN @ |->
                                          IF @[i].seq = "final" THEN [@[i] EXCEPT !.seq = "locktime"]
                                          ELSE @[i]]]
      BY <3>3 DEF BuildInv, TxOf
    <3>5. /\ Call([tx EXCEPT !.nLockTime = time, !.inputs = locked], FALSE)
          /\ asked' = asked /\ strayed' = strayed /\ lost' = lost
      BY <3>1, <3>4, Zenon DEF LockUntil
    <3> QED
      BY <3>2, <3>5, Zenon
  <2>2. CASE EnableRBF
    <3>1. rbf = [i \in DOMAIN tx.inputs |-> [tx.inputs[i] EXCEPT !.seq = "rbf"]]
      BY <1>1, <1>2, <1>4
    <3>2. PICK time \in Nat : time = tx.nLockTime
      BY DEF BuildInv, TxOf
    <3>3. [tx EXCEPT !.nLockTime = time, !.inputs = rbf]
              = [tx EXCEPT !.inputs = [i \in DOMAIN @ |-> [@[i] EXCEPT !.seq = "rbf"]]]
      BY <3>1, <3>2 DEF BuildInv, TxOf
    <3>4. /\ Call([tx EXCEPT !.nLockTime = time, !.inputs = rbf], FALSE)
          /\ asked' = asked /\ strayed' = strayed /\ lost' = lost
      BY <2>2, <3>3, Zenon DEF EnableRBF
    <3> QED
      BY <3>2, <3>4, Zenon
  <2> QED
    BY <2>1, <2>2
<1>10. PICK t : t = [tx EXCEPT !.nLockTime = time, !.inputs = ins]
  OBVIOUS
<1>11. Call(t, clears)
  BY <1>9, <1>10
<1>12. ins \in Seq(InputsOf(S)) /\ Len(ins) = n /\ \A i \in 1..n : ins[i].utxo = before[i].utxo
  BY <1>7
<1>13. /\ t \in TxOf(S) /\ t.inputs = ins /\ t.outputs = tx.outputs /\ SameSettings(t, tx)
       /\ SameSums(t, tx)
  BY <1>10, <1>12 DEF BuildInv, TxOf, SameSettings, SameSums
<1>14. InputSum(ins) = InputSum(before)
  BY <1>2, <1>8, <1>12, InputSumSame
<1>15. Len(t.inputs) = Len(tx.inputs) /\ InputSum(t.inputs) = InputSum(tx.inputs)
  BY <1>1, <1>2, <1>12, <1>13, <1>14
<1>16. broken = FALSE /\ t.thrown = FALSE => SumsOK(t)
  BY <1>13, <1>15 DEF SumsOK, SameSums, BuildInv
<1>17. S \subseteq S /\ tx \in TxOf(S)
  BY DEF BuildInv
<1> QED
  BY <1>9, <1>11, <1>13, <1>15, <1>16, <1>17, QuietKeeps

-----------------------------------------------------------------------------
(* Signatures in the inputs. *)

LEMMA MoreSignaturesTx ==
    ASSUME NEW S, NEW R, S \subseteq R, NEW t \in TxOf(S)
    PROVE  t \in TxOf(R)
<1>1. \A x \in Seq(S) : x \in Seq(R)
  OBVIOUS
<1>2. InputsOf(S) \subseteq InputsOf(R)
  BY <1>1 DEF InputsOf
<1>3. \A x \in Seq(InputsOf(S)) : x \in Seq(InputsOf(R))
  BY <1>2
<1> QED
  BY <1>3 DEF TxOf

\* The same transaction but for signatures.
SameCover(d, t) ==
    /\ Len(d.inputs) = Len(t.inputs)
    /\ \A i \in 1..Len(t.inputs) :
          /\ d.inputs[i].utxo = t.inputs[i].utxo /\ d.inputs[i].seq = t.inputs[i].seq
          /\ d.inputs[i].kind = t.inputs[i].kind /\ d.inputs[i].info = t.inputs[i].info
          /\ DOMAIN d.inputs[i].signatures = DOMAIN t.inputs[i].signatures
    /\ d.outputs = t.outputs /\ d.nLockTime = t.nLockTime

LEMMA SameCoverSame == ASSUME NEW t PROVE SameCover(t, t)
BY DEF SameCover

LEMMA SameCoverOn ==
    ASSUME NEW c, NEW d, NEW t, SameCover(c, d), SameCover(d, t)
    PROVE  SameCover(c, t)
BY DEF SameCover

LEMMA SameDigest ==
    ASSUME NEW S, NEW d \in TxOf(S), NEW t \in TxOf(S), SameCover(d, t), NEW type,
           NEW i \in 1..Len(t.inputs), NEW script
    PROVE  Digest(d, type, i, script) = Digest(t, type, i, script)
<1>1. PICK n \in Nat : /\ n = Len(t.inputs) /\ DOMAIN t.inputs = 1..n /\ DOMAIN d.inputs = 1..n
                       /\ i \in 1..n
  BY DEF TxOf, SameCover
<1>2. \A j \in 1..n : d.inputs[j].utxo = t.inputs[j].utxo /\ d.inputs[j].seq = t.inputs[j].seq
  BY <1>1 DEF SameCover
<1>3. CoveredInputs(d, type, i, script) = CoveredInputs(t, type, i, script)
  <2> DEFINE C(tt, j) == [utxo   |-> tt.inputs[j].utxo,
                          seq    |-> IF type.base = "ALL" \/ j = i THEN tt.inputs[j].seq ELSE "zero",
                          script |-> IF j = i THEN RemoveCodeseparators(script) ELSE <<>>]
  <2>1. \A j \in 1..n : C(d, j) = C(t, j)
    <3> SUFFICES ASSUME NEW j \in 1..n PROVE C(d, j) = C(t, j)
      OBVIOUS
    <3>1. d.inputs[j].utxo = t.inputs[j].utxo /\ d.inputs[j].seq = t.inputs[j].seq
      BY <1>2
    <3> QED
      BY <3>1, Zenon
  <2>2. /\ CoveredInputs(d, type, i, script) =
               IF type.anyoneCanPay THEN <<C(d, i)>> ELSE [j \in DOMAIN d.inputs |-> C(d, j)]
        /\ CoveredInputs(t, type, i, script) =
               IF type.anyoneCanPay THEN <<C(t, i)>> ELSE [j \in DOMAIN t.inputs |-> C(t, j)]
    BY Zenon DEF CoveredInputs
  <2> HIDE DEF C
  <2>3. [j \in DOMAIN d.inputs |-> C(d, j)] = [j \in DOMAIN t.inputs |-> C(t, j)]
    BY <1>1, <2>1
  <2>4. <<C(d, i)>> = <<C(t, i)>>
    BY <1>1, <2>1
  <2>5. CASE type.anyoneCanPay
    <3>1. /\ CoveredInputs(d, type, i, script) = <<C(d, i)>>
          /\ CoveredInputs(t, type, i, script) = <<C(t, i)>>
      BY <2>2, <2>5, Zenon
    <3> QED
      BY <2>4, <3>1, Zenon
  <2>6. CASE ~type.anyoneCanPay
    <3>1. /\ CoveredInputs(d, type, i, script) = [j \in DOMAIN d.inputs |-> C(d, j)]
          /\ CoveredInputs(t, type, i, script) = [j \in DOMAIN t.inputs |-> C(t, j)]
      BY <2>2, <2>6, Zenon
    <3> QED
      BY <2>3, <3>1, Zenon
  <2> QED
    BY <2>5, <2>6, Zenon
<1>4. d.outputs = t.outputs /\ d.nLockTime = t.nLockTime
  BY DEF SameCover
<1>5. CoveredOutputs(d, type, i) = CoveredOutputs(t, type, i)
  BY <1>4, Zenon DEF CoveredOutputs
<1>6. SinglePastTheEnd(d, type, i) <=> SinglePastTheEnd(t, type, i)
  BY <1>4, Zenon DEF SinglePastTheEnd
<1> QED
  BY <1>3, <1>4, <1>5, <1>6, Zenon DEF Digest

LEMMA SameVerify ==
    ASSUME NEW S, NEW d \in TxOf(S), NEW t \in TxOf(S), SameCover(d, t),
           NEW i \in 1..Len(t.inputs), NEW sig, NEW key, NEW script,
           VerifySignature(t, sig, key, i, script)
    PROVE  VerifySignature(d, sig, key, i, script)
<1>1. Digest(d, sig.type, i, script) = Digest(t, sig.type, i, script)
  BY SameDigest
<1> QED
  BY <1>1, Zenon DEF VerifySignature

LEMMA SameSubscript ==
    ASSUME NEW x, NEW y, x.utxo = y.utxo, x.kind = y.kind
    PROVE  SubscriptOf(x) = SubscriptOf(y) /\ KeysOf(x) = KeysOf(y)
BY Zenon DEF SubscriptOf, KeysOf

Formed(sig) == sig = Signed(sig.by, sig.type, sig.over)

\* A signature in the place of a key is one of that key over the transaction.
ValidAt(t, i, j) ==
    t.inputs[i].signatures[j] # None =>
        /\ Formed(t.inputs[i].signatures[j])
        /\ VerifySignature(t, t.inputs[i].signatures[j], Key(KeysOf(t.inputs[i])[j]), i,
                           SubscriptOf(t.inputs[i]))

ValidSignatures(t) ==
    \A i \in 1..Len(t.inputs) : \A j \in DOMAIN t.inputs[i].signatures : ValidAt(t, i, j)

\* The places for signatures are the keys, and an input has the kind of its output.
InputsFit(t) ==
    \A i \in 1..Len(t.inputs) :
        /\ DOMAIN t.inputs[i].signatures = DOMAIN KeysOf(t.inputs[i])
        /\ t.inputs[i].kind = "base" \/ t.inputs[i].kind = Utxos[t.inputs[i].utxo].kind

\* What addSignature makes of t, when it does not throw.
IsSigned(d, t, s) ==
    /\ SameCover(d, t) /\ SameSettings(d, t) /\ SameSums(d, t) /\ d.thrown = t.thrown
    /\ s.inputIndex \in 1..Len(t.inputs)
    /\ \A i \in 1..Len(t.inputs) : \A j \in DOMAIN t.inputs[i].signatures :
          \/ d.inputs[i].signatures[j] = t.inputs[i].signatures[j]
          \/ /\ i = s.inputIndex /\ d.inputs[i].signatures[j] = s.signature
             /\ VerifySignature(t, s.signature, Key(s.key), i, SubscriptOf(t.inputs[i]))
             /\ (\E n \in DOMAIN KeysOf(t.inputs[i]) : KeysOf(t.inputs[i])[n] = s.key) =>
                    KeysOf(t.inputs[i])[j] = s.key

LEMMA AddSignatureFacts ==
    ASSUME NEW S, NEW t \in TxOf(S), t.thrown = FALSE, NEW s, s.signature \in S,
           NEW d, d = AddSignature(t, s)
    PROVE  /\ d \in TxOf(S)
           /\ d.thrown = TRUE => d = Throw(t)
           /\ d.thrown = FALSE => IsSigned(d, t, s)
<1>1. PICK n \in Nat : n = Len(t.inputs) /\ DOMAIN t.inputs = 1..n
  BY DEF TxOf
<1>2. PICK ins \in Seq(InputsOf(S)) : ins = t.inputs
  BY DEF TxOf
<1>3. PICK k : k = s.inputIndex
  OBVIOUS
<1>4. PICK sig \in S : sig = s.signature
  OBVIOUS
<1>5. PICK x : x = ins[k]
  OBVIOUS
<1>6. PICK index : index = {i \in DOMAIN KeysOf(x) : KeysOf(x)[i] = s.key}
  OBVIOUS
<1>7. PICK l : l = CHOOSE i \in index : TRUE
  OBVIOUS
<1>8. \/ d = Throw(t)
      \/ /\ k \in 1..n /\ VerifySignature(t, sig, Key(s.key), k, SubscriptOf(x))
         /\ d = [t EXCEPT !.inputs[k].signatures[l] = sig]
  <2> DEFINE refused == \/ s.inputIndex \notin DOMAIN t.inputs
                        \/ t.inputs[s.inputIndex].kind = "base"
                        \/ /\ IsMultisig(t.inputs[s.inputIndex])
                           /\ InputIsFullySigned(t.inputs[s.inputIndex]) \/ index = {}
                        \/ ~VerifySignature(t, s.signature, Key(s.key), s.inputIndex,
                                            SubscriptOf(t.inputs[s.inputIndex]))
  <2>1. d = IF refused THEN Throw(t)
            ELSE [t EXCEPT !.inputs[s.inputIndex].signatures[l] = s.signature]
    BY <1>2, <1>3, <1>5, <1>6, <1>7, Zenon DEF AddSignature
  <2>2. CASE refused
    BY <2>1, <2>2, Zenon
  <2>3. CASE ~refused
    <3>1. d = [t EXCEPT !.inputs[s.inputIndex].signatures[l] = s.signature]
      BY <2>1, <2>3, Zenon
    <3>2. s.inputIndex \in DOMAIN t.inputs
          /\ VerifySignature(t, s.signature, Key(s.key), s.inputIndex,
                             SubscriptOf(t.inputs[s.inputIndex]))
      BY <2>3, Zenon
    <3> QED
      BY <1>1, <1>2, <1>3, <1>4, <1>5, <3>1, <3>2, Zenon
  <2> QED
    BY <2>2, <2>3, Zenon
<1>9. CASE d = Throw(t)
  <2>1. d \in TxOf(S) /\ d.thrown = TRUE
    BY <1>9 DEF Throw, TxOf
  <2> QED
    BY <1>9, <2>1
<1>10. CASE /\ k \in 1..n /\ VerifySignature(t, sig, Key(s.key), k, SubscriptOf(x))
            /\ d = [t EXCEPT !.inputs[k].signatures[l] = sig]
  <2>1. x \in InputsOf(S)
    BY <1>1, <1>2, <1>5, <1>10
  <2>2. PICK sigs \in Seq(S) : sigs = x.signatures
    BY <2>1 DEF InputsOf
  <2>3. PICK new : new = [sigs EXCEPT ![l] = sig]
    OBVIOUS
  <2>4. /\ new \in Seq(S) /\ DOMAIN new = DOMAIN sigs
        /\ \A j \in DOMAIN sigs : new[j] = IF j = l THEN sig ELSE sigs[j]
    <3>1. \A j \in DOMAIN sigs : new[j] = IF j = l THEN sig ELSE sigs[j]
      BY <2>3
    <3>2. DOMAIN new = DOMAIN sigs /\ new = [j \in DOMAIN sigs |-> new[j]]
      BY <2>3
    <3>3. PICK m \in Nat : m = Len(sigs) /\ DOMAIN sigs = 1..m
      OBVIOUS
    <3>4. \A j \in 1..m : new[j] \in S
      <4>1. \A j \in 1..m : sigs[j] \in S
        BY <3>3
      <4> QED
        BY <3>1, <3>3, <4>1
    <3> QED
      BY <3>1, <3>2, <3>3, <3>4
  <2>5. PICK y : y = [x EXCEPT !.signatures = new]
    OBVIOUS
  <2>6. /\ y \in InputsOf(S) /\ y.utxo = x.utxo /\ y.seq = x.seq /\ y.kind = x.kind
        /\ y.info = x.info /\ y.signatures = new
    BY <2>1, <2>4, <2>5 DEF InputsOf
  <2>7. PICK after : after = [ins EXCEPT ![k] = y]
    OBVIOUS
  <2>8. /\ after \in Seq(InputsOf(S)) /\ Len(after) = n
        /\ \A i \in 1..n : after[i] = IF i = k THEN y ELSE ins[i]
    <3>1. \A i \in 1..n : ins[i] \in InputsOf(S)
      BY <1>1, <1>2
    <3>2. \A i \in 1..n : after[i] = IF i = k THEN y ELSE ins[i]
      BY <1>1, <1>2, <2>7
    <3>3. after = [i \in 1..n |-> after[i]]
      BY <1>1, <1>2, <2>7
    <3>4. \A i \in 1..n : after[i] \in InputsOf(S)
      BY <2>6, <3>1, <3>2
    <3> QED
      BY <3>2, <3>3, <3>4
  <2>9. d = [t EXCEPT !.inputs = after]
    BY <1>1, <1>2, <1>5, <1>10, <2>2, <2>3, <2>5, <2>7 DEF TxOf, InputsOf
  <2>10. /\ d \in TxOf(S) /\ d.inputs = after /\ d.outputs = t.outputs
         /\ d.nLockTime = t.nLockTime /\ SameSettings(d, t) /\ SameSums(d, t)
         /\ d.thrown = FALSE
    BY <2>8, <2>9 DEF TxOf, SameSettings, SameSums
  <2>11. SameCover(d, t)
    <3> SUFFICES ASSUME NEW i \in 1..n
                 PROVE  /\ after[i].utxo = ins[i].utxo /\ after[i].seq = ins[i].seq
                        /\ after[i].kind = ins[i].kind /\ after[i].info = ins[i].info
                        /\ DOMAIN after[i].signatures = DOMAIN ins[i].signatures
      BY <1>1, <1>2, <2>8, <2>10 DEF SameCover
    <3>1. CASE i = k
      BY <1>5, <2>2, <2>4, <2>6, <2>8, <3>1
    <3>2. CASE i # k
      BY <2>8, <3>2
    <3> QED
      BY <3>1, <3>2
  <2>12. (\E m \in DOMAIN KeysOf(x) : KeysOf(x)[m] = s.key) => KeysOf(x)[l] = s.key
    <3> SUFFICES ASSUME NEW m \in DOMAIN KeysOf(x), KeysOf(x)[m] = s.key
                 PROVE  KeysOf(x)[l] = s.key
      OBVIOUS
    <3>1. m \in index
      BY <1>6
    <3>2. l \in index
      BY <1>7, <3>1
    <3> QED
      BY <1>6, <3>2
  <2>13. \A i \in 1..n : \A j \in DOMAIN ins[i].signatures :
            \/ after[i].signatures[j] = ins[i].signatures[j]
            \/ i = k /\ j = l /\ after[i].signatures[j] = sig
    BY <1>5, <2>2, <2>4, <2>6, <2>8
  <2>14. IsSigned(d, t, s)
    <3>1. \A i \in 1..n : \A j \in DOMAIN ins[i].signatures :
            \/ after[i].signatures[j] = ins[i].signatures[j]
            \/ /\ i = k /\ after[i].signatures[j] = sig
               /\ VerifySignature(t, sig, Key(s.key), i, SubscriptOf(ins[i]))
               /\ (\E m \in DOMAIN KeysOf(ins[i]) : KeysOf(ins[i])[m] = s.key) =>
                      KeysOf(ins[i])[j] = s.key
      BY <1>5, <1>10, <2>12, <2>13, Zenon
    <3>2. \A i \in 1..Len(t.inputs) : \A j \in DOMAIN t.inputs[i].signatures :
            \/ d.inputs[i].signatures[j] = t.inputs[i].signatures[j]
            \/ /\ i = s.inputIndex /\ d.inputs[i].signatures[j] = s.signature
               /\ VerifySignature(t, s.signature, Key(s.key), i, SubscriptOf(t.inputs[i]))
               /\ (\E m \in DOMAIN KeysOf(t.inputs[i]) : KeysOf(t.inputs[i])[m] = s.key) =>
                      KeysOf(t.inputs[i])[j] = s.key
      BY <1>1, <1>2, <1>3, <1>4, <2>10, <3>1, Zenon
    <3>3. s.inputIndex \in 1..Len(t.inputs)
      BY <1>1, <1>3, <1>10
    <3> QED
      BY <2>10, <2>11, <3>2, <3>3, Zenon DEF IsSigned
  <2> QED
    BY <2>10, <2>14
<1> QED
  BY <1>8, <1>9, <1>10

\* What getSignatures gives for the input at i.
Own(t, k, i) == [inputIndex |-> i, key |-> k,
                 signature  |-> Sign(t, k, [base |-> "ALL", anyoneCanPay |-> FALSE], i,
                                     SubscriptOf(t.inputs[i]))]

Wants(t, k) == {i \in 1..Len(t.inputs) :
                   \E n \in DOMAIN KeysOf(t.inputs[i]) : KeysOf(t.inputs[i])[n] = k}

OwnSignatures(t, k) == {Own(t, k, i) : i \in Wants(t, k)}

LEMMA SignaturesByFacts ==
    ASSUME NEW S, NEW t \in TxOf(S), NEW k
    PROVE  SignaturesBy(t, k) \in Seq(OwnSignatures(t, k))
<1>1. PICK n \in Nat : n = Len(t.inputs) /\ DOMAIN t.inputs = 1..n
  BY DEF TxOf
<1>2. PICK seq : seq = [i \in 1..n |-> i]
  OBVIOUS
<1> DEFINE A == Seq(OwnSignatures(t, k))
           Mine(i) == {j \in DOMAIN KeysOf(t.inputs[i]) : KeysOf(t.inputs[i])[j] = k}
           Turn(a, i) == IF Mine(i) = {} THEN a ELSE Append(a, Own(t, k, i))
           F == [p \in A \X (1..n) |-> Turn(p[1], p[2])]
           Iter(g) == g = [s \in SUBSET (DOMAIN seq) |->
                              IF s = {} THEN <<>>
                              ELSE Turn(g[s \ {Max(s)}], seq[Max(s)])]
<1>3. \A a \in A, i \in 1..n : F[<<a, i>>] = Turn(a, seq[i])
  <2>1. \A i \in 1..n : seq[i] = i
    BY <1>2
  <2> HIDE DEF Turn
  <2>2. \A a \in A, i \in 1..n : F[<<a, i>>] = Turn(a, i)
    OBVIOUS
  <2> HIDE DEF F, A
  <2> QED
    BY <2>1, <2>2
<1>4. \A a \in A, i \in 1..n : Turn(a, i) \in A
  <2> SUFFICES ASSUME NEW a \in A, NEW i \in 1..n PROVE Turn(a, i) \in A
    OBVIOUS
  <2>1. CASE Mine(i) = {}
    BY <2>1
  <2>2. CASE Mine(i) # {}
    <3>1. i \in Wants(t, k)
      BY <1>1, <2>2 DEF Wants
    <3>2. Own(t, k, i) \in OwnSignatures(t, k)
      BY <3>1 DEF OwnSignatures
    <3>3. Append(a, Own(t, k, i)) \in A
      BY <3>2
    <3> QED
      BY <2>2, <3>3
  <2> QED
    BY <2>1, <2>2
<1>5. <<>> \in A
  OBVIOUS
<1>6. DOMAIN seq = 1..n /\ \A i \in 1..n : seq[i] = i
  BY <1>2
<1>7. SignaturesBy(t, k) = FoldLeft(Turn, <<>>, seq)
  <2>1. seq = [i \in DOMAIN t.inputs |-> i]
    BY <1>1, <1>2
  <2> QED
    BY <2>1, Zenon DEF SignaturesBy, Own
<1> HIDE DEF F, Turn, A
<1>8. \A s \in SUBSET (1..n) : s # {} => Max(s) \in s /\ s \ {Max(s)} \in SUBSET (1..n)
  BY GreatestOf
<1>9. \A a \in A, i \in 1..n : F[<<a, i>>] \in A
  BY <1>3, <1>4, <1>6
<1>10. PICK g : IsFold(g, A, <<>>, n, F)
  BY <1>5, <1>9, FoldExists
<1>11. Iter(g)
  <2>1. \A s \in SUBSET (1..n) : s # {} =>
            F[<<g[s \ {Max(s)}], Max(s)>>] = Turn(g[s \ {Max(s)}], seq[Max(s)])
    BY <1>3, <1>6, <1>8, <1>10 DEF IsFold
  <2>2. \A s \in SUBSET (1..n) :
            g[s] = IF s = {} THEN <<>> ELSE Turn(g[s \ {Max(s)}], seq[Max(s)])
    BY <1>10, <2>1 DEF IsFold
  <2>3. g = [s \in SUBSET (1..n) |-> g[s]]
    BY <1>10 DEF IsFold
  <2> QED
    BY <1>6, <2>2, <2>3
<1>12. PICK it : Iter(it) /\ SignaturesBy(t, k) = it[DOMAIN seq]
  <2> DEFINE it == CHOOSE h : Iter(h)
  <2>1. Iter(it)
    BY <1>11, Zenon
  <2>2. SignaturesBy(t, k) = it[DOMAIN seq]
    BY <1>7, Zenon DEF FoldLeft, MapThenFoldSet
  <2> QED
    BY <2>1, <2>2
<1>13. /\ it[{}] = <<>>
       /\ \A s \in SUBSET (1..n) : s # {} => it[s] = Turn(it[s \ {Max(s)}], seq[Max(s)])
  BY <1>6, <1>8, <1>12
<1>14. IsIterated(it, A, <<>>, n, F)
  BY <1>3, <1>6, <1>8, <1>13 DEF IsIterated
<1>15. PICK v, base : v = it[1..n] /\ base = <<>>
  OBVIOUS
<1>16. RunsTo(A, base, n, F, v)
  BY <1>5, <1>9, <1>14, <1>15, RunOfFold
<1>17. v \in A
  BY <1>16 DEF RunsTo, IsRun
<1> QED
  BY <1>6, <1>12, <1>15, <1>17 DEF A

LEMMA SignedKeepsValid ==
    ASSUME NEW S, NEW d \in TxOf(S), NEW t \in TxOf(S), NEW s, IsSigned(d, t, s),
           ValidSignatures(t), Formed(s.signature),
           \E n \in DOMAIN KeysOf(t.inputs[s.inputIndex]) :
               KeysOf(t.inputs[s.inputIndex])[n] = s.key
    PROVE  ValidSignatures(d)
<1> SUFFICES ASSUME NEW i \in 1..Len(t.inputs), NEW j \in DOMAIN t.inputs[i].signatures,
                    d.inputs[i].signatures[j] # None
             PROVE  /\ Formed(d.inputs[i].signatures[j])
                    /\ VerifySignature(d, d.inputs[i].signatures[j], Key(KeysOf(d.inputs[i])[j]),
                                       i, SubscriptOf(d.inputs[i]))
  <2>1. Len(d.inputs) = Len(t.inputs)
        /\ \A i \in 1..Len(t.inputs) : DOMAIN d.inputs[i].signatures = DOMAIN t.inputs[i].signatures
    BY DEF IsSigned, SameCover
  <2> QED
    BY <2>1, Zenon DEF ValidSignatures, ValidAt
<1>1. SameCover(d, t)
  BY DEF IsSigned
<1>2. SubscriptOf(d.inputs[i]) = SubscriptOf(t.inputs[i]) /\ KeysOf(d.inputs[i]) = KeysOf(t.inputs[i])
  BY <1>1, SameSubscript DEF SameCover
<1>3. PICK sig, key, script : /\ sig = d.inputs[i].signatures[j]
                              /\ key = Key(KeysOf(t.inputs[i])[j])
                              /\ script = SubscriptOf(t.inputs[i])
  OBVIOUS
<1>4. Formed(sig) /\ VerifySignature(t, sig, key, i, script)
  <2>1. CASE sig = t.inputs[i].signatures[j]
    BY <1>3, <2>1, Zenon DEF ValidSignatures, ValidAt
  <2>2. CASE sig # t.inputs[i].signatures[j]
    <3>0. /\ i = s.inputIndex /\ d.inputs[i].signatures[j] = s.signature
          /\ VerifySignature(t, s.signature, Key(s.key), i, SubscriptOf(t.inputs[i]))
          /\ KeysOf(t.inputs[i])[j] = s.key
      <4>1. d.inputs[i].signatures[j] # t.inputs[i].signatures[j]
        BY <1>3, <2>2, Zenon
      <4>2. /\ i = s.inputIndex /\ d.inputs[i].signatures[j] = s.signature
            /\ VerifySignature(t, s.signature, Key(s.key), i, SubscriptOf(t.inputs[i]))
            /\ (\E n \in DOMAIN KeysOf(t.inputs[i]) : KeysOf(t.inputs[i])[n] = s.key) =>
                   KeysOf(t.inputs[i])[j] = s.key
        BY <4>1, Zenon DEF IsSigned
      <4>3. \E n \in DOMAIN KeysOf(t.inputs[i]) : KeysOf(t.inputs[i])[n] = s.key
        BY <4>2, Zenon
      <4> QED
        BY <4>2, <4>3, Zenon
    <3>1. /\ i = s.inputIndex /\ sig = s.signature
          /\ VerifySignature(t, s.signature, Key(s.key), i, SubscriptOf(t.inputs[i]))
          /\ KeysOf(t.inputs[i])[j] = s.key
      BY <1>3, <3>0, Zenon
    <3> QED
      BY <1>3, <3>1, Zenon
  <2> QED
    BY <2>1, <2>2
<1>5. VerifySignature(d, sig, key, i, script)
  BY <1>1, <1>4, SameVerify
<1> QED
  BY <1>2, <1>3, <1>4, <1>5, Zenon

LEMMA OwnIsFormed == ASSUME NEW t, NEW k, NEW i PROVE Formed(Own(t, k, i).signature)
BY DEF Formed, Own, Sign, Signed

\* A transaction that is t but for signatures, of which it has no others.
FewerSignatures(d, t) ==
    /\ SameCover(d, t)
    /\ \A i \in 1..Len(t.inputs) : \A j \in DOMAIN t.inputs[i].signatures :
          d.inputs[i].signatures[j] \in {None, t.inputs[i].signatures[j]}

LEMMA FewerStayValid ==
    ASSUME NEW S, NEW d \in TxOf(S), NEW t \in TxOf(S), FewerSignatures(d, t), ValidSignatures(t)
    PROVE  ValidSignatures(d)
<1>1. SameCover(d, t)
  BY DEF FewerSignatures
<1> SUFFICES ASSUME NEW i \in 1..Len(t.inputs), NEW j \in DOMAIN t.inputs[i].signatures,
                    d.inputs[i].signatures[j] # None
             PROVE  /\ Formed(d.inputs[i].signatures[j])
                    /\ VerifySignature(d, d.inputs[i].signatures[j], Key(KeysOf(d.inputs[i])[j]),
                                       i, SubscriptOf(d.inputs[i]))
  <2>1. Len(d.inputs) = Len(t.inputs)
        /\ \A i \in 1..Len(t.inputs) : DOMAIN d.inputs[i].signatures = DOMAIN t.inputs[i].signatures
    BY <1>1 DEF SameCover
  <2> QED
    BY <2>1, Zenon DEF ValidSignatures, ValidAt
<1>2. SubscriptOf(d.inputs[i]) = SubscriptOf(t.inputs[i]) /\ KeysOf(d.inputs[i]) = KeysOf(t.inputs[i])
  BY <1>1, SameSubscript DEF SameCover
<1>3. PICK sig, key, script : /\ sig = d.inputs[i].signatures[j]
                              /\ key = Key(KeysOf(t.inputs[i])[j])
                              /\ script = SubscriptOf(t.inputs[i])
  OBVIOUS
<1>4. sig = t.inputs[i].signatures[j]
  BY <1>3 DEF FewerSignatures
<1>5. Formed(sig) /\ VerifySignature(t, sig, key, i, script)
  BY <1>3, <1>4, Zenon DEF ValidSignatures, ValidAt
<1>6. VerifySignature(d, sig, key, i, script)
  BY <1>1, <1>5, SameVerify
<1> QED
  BY <1>2, <1>3, <1>5, <1>6, Zenon

\* A transaction that is t but for signatures, and as valid.
Signing(d, t) ==
    /\ SameCover(d, t) /\ SameSettings(d, t) /\ SameSums(d, t)
    /\ ValidSignatures(t) => ValidSignatures(d)

LEMMA SigningStep ==
    ASSUME NEW R, NEW t \in TxOf(R), NEW a \in TxOf(R), Signing(a, t), NEW k,
           NEW s \in OwnSignatures(t, k), s.signature \in R,
           NEW d, d = IF a.thrown THEN a ELSE AddSignature(a, s)
    PROVE  d \in TxOf(R) /\ Signing(d, t)
<1>1. a.thrown \in BOOLEAN
  BY DEF TxOf
<1>2. CASE a.thrown = TRUE
  <2>1. d = a
    BY <1>2
  <2> QED
    BY <2>1
<1>3. CASE a.thrown = FALSE
  <2>1. d = AddSignature(a, s)
    BY <1>3
  <2>2. /\ d \in TxOf(R)
        /\ d.thrown = TRUE => d = Throw(a)
        /\ d.thrown = FALSE => IsSigned(d, a, s)
    BY <1>3, <2>1, AddSignatureFacts
  <2>3. CASE d.thrown = TRUE
    <3>1. d.inputs = a.inputs /\ d.outputs = a.outputs /\ d.nLockTime = a.nLockTime
          /\ SameSettings(d, a) /\ SameSums(d, a)
      BY <2>2, <2>3 DEF Throw, TxOf, SameSettings, SameSums
    <3>2. SameCover(d, a)
      BY <3>1 DEF SameCover
    <3>3. FewerSignatures(d, a)
      BY <3>1, <3>2 DEF FewerSignatures
    <3>4. ValidSignatures(a) => ValidSignatures(d)
      BY <2>2, <3>3, FewerStayValid
    <3> QED
      BY <2>2, <3>1, <3>2, <3>4, SameCoverOn DEF Signing, SameSettings, SameSums
  <2>4. CASE d.thrown = FALSE
    <3>1. IsSigned(d, a, s)
      BY <2>2, <2>4
    <3>2. PICK i \in 1..Len(t.inputs) :
              /\ s = Own(t, k, i)
              /\ \E n \in DOMAIN KeysOf(t.inputs[i]) : KeysOf(t.inputs[i])[n] = k
      BY Zenon DEF OwnSignatures, Wants
    <3>3. s.inputIndex = i /\ s.key = k
      BY <3>2 DEF Own
    <3>4. KeysOf(a.inputs[i]) = KeysOf(t.inputs[i])
      BY SameSubscript DEF Signing, SameCover
    <3>5. \E n \in DOMAIN KeysOf(a.inputs[s.inputIndex]) :
              KeysOf(a.inputs[s.inputIndex])[n] = s.key
      BY <3>2, <3>3, <3>4, Zenon
    <3>6. Formed(s.signature)
      BY <3>2, OwnIsFormed
    <3>7. ValidSignatures(a) => ValidSignatures(d)
      BY <2>2, <3>1, <3>5, <3>6, SignedKeepsValid
    <3>8. SameCover(d, a) /\ SameSettings(d, a) /\ SameSums(d, a)
      BY <3>1 DEF IsSigned
    <3> QED
      BY <2>2, <3>7, <3>8, SameCoverOn DEF Signing, SameSettings, SameSums
  <2> QED
    BY <2>2, <2>3, <2>4 DEF TxOf
<1> QED
  BY <1>1, <1>2, <1>3

SignedBy(t, k) == FoldLeft(LAMBDA a, s : IF a.thrown THEN a ELSE AddSignature(a, s),
                           t, SignaturesBy(t, k))

LEMMA SignedByFacts ==
    ASSUME NEW R, NEW t \in TxOf(R), NEW k, \A s \in OwnSignatures(t, k) : s.signature \in R
    PROVE  SignedBy(t, k) \in TxOf(R) /\ Signing(SignedBy(t, k), t)
<1>1. PICK seq \in Seq(OwnSignatures(t, k)) : seq = SignaturesBy(t, k)
  BY SignaturesByFacts
<1>2. PICK n \in Nat : n = Len(seq) /\ DOMAIN seq = 1..n
  OBVIOUS
<1> DEFINE A == {a \in TxOf(R) : Signing(a, t)}
           Turn(a, s) == IF a.thrown THEN a ELSE AddSignature(a, s)
           F == [p \in A \X (1..n) |-> Turn(p[1], seq[p[2]])]
           Iter(g) == g = [s \in SUBSET (DOMAIN seq) |->
                              IF s = {} THEN t
                              ELSE Turn(g[s \ {Max(s)}], seq[Max(s)])]
<1>3. \A a \in A, i \in 1..n : F[<<a, i>>] = Turn(a, seq[i])
  <2> HIDE DEF Turn, A
  <2> QED
    OBVIOUS
<1>4. \A a \in A, i \in 1..n : Turn(a, seq[i]) \in A
  <2> SUFFICES ASSUME NEW a \in A, NEW i \in 1..n PROVE Turn(a, seq[i]) \in A
    OBVIOUS
  <2>1. PICK s \in OwnSignatures(t, k) : s = seq[i]
    BY <1>2
  <2>2. s.signature \in R
    OBVIOUS
  <2>3. PICK d : d = Turn(a, s)
    OBVIOUS
  <2>4. d = IF a.thrown THEN a ELSE AddSignature(a, s)
    BY <2>3, Zenon
  <2>5. a \in TxOf(R) /\ Signing(a, t)
    OBVIOUS
  <2>6. d \in TxOf(R) /\ Signing(d, t)
    BY <2>2, <2>4, <2>5, SigningStep
  <2> HIDE DEF Turn
  <2> QED
    BY <2>1, <2>3, <2>6
<1>5. t \in A
  BY SameCoverSame DEF Signing, SameSettings, SameSums
<1>6. SignedBy(t, k) = FoldLeft(Turn, t, seq)
  BY <1>1, Zenon DEF SignedBy
<1> HIDE DEF F, Turn, A
<1>7. \A s \in SUBSET (1..n) : s # {} => Max(s) \in s /\ s \ {Max(s)} \in SUBSET (1..n)
  BY GreatestOf
<1>8. \A a \in A, i \in 1..n : F[<<a, i>>] \in A
  BY <1>3, <1>4
<1>9. PICK g : IsFold(g, A, t, n, F)
  BY <1>5, <1>8, FoldExists
<1>10. Iter(g)
  <2>1. \A s \in SUBSET (1..n) : s # {} =>
            F[<<g[s \ {Max(s)}], Max(s)>>] = Turn(g[s \ {Max(s)}], seq[Max(s)])
    BY <1>3, <1>7, <1>9 DEF IsFold
  <2>2. \A s \in SUBSET (1..n) :
            g[s] = IF s = {} THEN t ELSE Turn(g[s \ {Max(s)}], seq[Max(s)])
    BY <1>9, <2>1 DEF IsFold
  <2>3. g = [s \in SUBSET (1..n) |-> g[s]]
    BY <1>9 DEF IsFold
  <2> QED
    BY <1>2, <2>2, <2>3
<1>11. PICK it : Iter(it) /\ SignedBy(t, k) = it[DOMAIN seq]
  <2> DEFINE it == CHOOSE h : Iter(h)
  <2>1. Iter(it)
    BY <1>10, Zenon
  <2>2. SignedBy(t, k) = it[DOMAIN seq]
    BY <1>6, Zenon DEF FoldLeft, MapThenFoldSet
  <2> QED
    BY <2>1, <2>2
<1>12. /\ it[{}] = t
       /\ \A s \in SUBSET (1..n) : s # {} => it[s] = Turn(it[s \ {Max(s)}], seq[Max(s)])
  BY <1>2, <1>7, <1>11
<1>13. IsIterated(it, A, t, n, F)
  BY <1>3, <1>7, <1>12 DEF IsIterated
<1>14. PICK v : v = it[1..n]
  OBVIOUS
<1>15. RunsTo(A, t, n, F, v)
  BY <1>5, <1>8, <1>13, <1>14, RunOfFold
<1>16. v \in A
  BY <1>15 DEF RunsTo, IsRun
<1> QED
  BY <1>2, <1>11, <1>14, <1>16 DEF A

\* What signatures do not change.
LEMMA SigningSums ==
    ASSUME NEW R, NEW t \in TxOf(R), NEW d \in TxOf(R), SameCover(d, t)
    PROVE  Len(d.inputs) = Len(t.inputs) /\ InputSum(d.inputs) = InputSum(t.inputs)
<1>1. PICK x \in Seq(InputsOf(R)), y \in Seq(InputsOf(R)) : x = d.inputs /\ y = t.inputs
  BY DEF TxOf
<1>2. Len(x) = Len(y) /\ \A i \in 1..Len(y) : x[i].utxo = y[i].utxo
  BY <1>1 DEF SameCover
<1>3. \A z \in InputsOf(R) : Utxos[z.utxo].satoshis \in Int
  BY InputFacts
<1>4. InputSum(x) = InputSum(y)
  BY <1>2, <1>3, InputSumSame
<1> QED
  BY <1>1, <1>2, <1>4

LEMMA SignWithKeeps ==
    ASSUME NEW S, BuildInv(S), NEW k, SignWith(k)
    PROVE  \E R : BuildInv(R)'
<1>1. PICK R : R = S \cup {s.signature : s \in OwnSignatures(tx, k)}
  OBVIOUS
<1>2. S \subseteq R /\ \A s \in OwnSignatures(tx, k) : s.signature \in R
  BY <1>1
<1>3. tx \in TxOf(R)
  BY <1>2, MoreSignaturesTx DEF BuildInv
<1>4. PICK d : d = SignedBy(tx, k)
  OBVIOUS
<1>5. d \in TxOf(R) /\ Signing(d, tx)
  BY <1>2, <1>3, <1>4, SignedByFacts
<1>6. PICK b \in BOOLEAN : b = FALSE
  OBVIOUS
<1>7. PICK t : t = [d EXCEPT !.thrown = b]
  OBVIOUS
<1>8. /\ t \in TxOf(R) /\ t.inputs = d.inputs /\ t.outputs = d.outputs
      /\ SameSettings(t, d) /\ SameSums(t, d) /\ t.thrown = FALSE
  BY <1>5, <1>6, <1>7 DEF TxOf, SameSettings, SameSums
<1>9. PICK clears : Call(t, clears)
  <2>1. Call([d EXCEPT !.thrown = FALSE], TRUE)
    BY <1>4, Zenon DEF SignWith, SignedBy
  <2>2. Call(t, TRUE)
    BY <1>6, <1>7, <2>1, Zenon
  <2> WITNESS TRUE
  <2> QED
    BY <2>2, Zenon
<1>10. asked' = asked /\ strayed' = strayed /\ lost' = lost
  BY DEF SignWith
<1>11. t.outputs = tx.outputs /\ SameSettings(t, tx) /\ SameSums(t, tx)
  BY <1>5, <1>8 DEF Signing, SameCover, SameSettings, SameSums
<1>12. Len(t.inputs) = Len(tx.inputs) /\ InputSum(t.inputs) = InputSum(tx.inputs)
  BY <1>3, <1>5, <1>8, SigningSums DEF Signing
<1>13. broken = FALSE /\ t.thrown = FALSE => SumsOK(t)
  BY <1>11, <1>12 DEF SumsOK, SameSums, BuildInv
<1>14. BuildInv(R)'
  BY <1>2, <1>3, <1>8, <1>9, <1>10, <1>11, <1>12, <1>13, QuietKeeps
<1> QED
  BY <1>14

LEMMA ApplySignatureKeeps ==
    ASSUME NEW S, BuildInv(S), NEW s, ApplySignature(s)
    PROVE  \E R : BuildInv(R)'
<1>1. PICK R : R = S \cup {s.signature}
  OBVIOUS
<1>2. S \subseteq R /\ s.signature \in R
  BY <1>1
<1>3. tx \in TxOf(R) /\ tx.thrown = FALSE
  BY <1>2, MoreSignaturesTx DEF BuildInv
<1>4. PICK d : d = AddSignature(tx, s)
  OBVIOUS
<1>5. /\ d \in TxOf(R)
      /\ d.thrown = FALSE => IsSigned(d, tx, s)
  BY <1>2, <1>3, <1>4, AddSignatureFacts
<1>6. d.thrown = FALSE
  <2>1. ~d.thrown
    BY <1>4, Zenon DEF ApplySignature
  <2> QED
    BY <1>5, <2>1 DEF TxOf
<1>7. PICK clears : Call(d, clears)
  <2> WITNESS TRUE
  <2> QED
    BY <1>4, Zenon DEF ApplySignature
<1>8. asked' = asked /\ strayed' = strayed /\ lost' = lost
  BY DEF ApplySignature
<1>9. d.outputs = tx.outputs /\ SameSettings(d, tx) /\ SameSums(d, tx) /\ SameCover(d, tx)
  BY <1>5, <1>6 DEF IsSigned, SameCover
<1>10. Len(d.inputs) = Len(tx.inputs) /\ InputSum(d.inputs) = InputSum(tx.inputs)
  BY <1>3, <1>5, <1>9, SigningSums
<1>11. broken = FALSE /\ d.thrown = FALSE => SumsOK(d)
  BY <1>9, <1>10 DEF SumsOK, SameSums, BuildInv
<1>12. BuildInv(R)'
  BY <1>2, <1>3, <1>5, <1>7, <1>8, <1>9, <1>10, <1>11, QuietKeeps
<1> QED
  BY <1>12

LEMMA GetSignaturesKeeps ==
    ASSUME NEW S, BuildInv(S), NEW k, GetSignatures(k)
    PROVE  BuildInv(S)'
BY DEF BuildInv, GetSignatures, NoIndexWithoutScript, SumsOK, IndexOK, CurrentChange, Counted,
       TrueFeeOf, KeptOutputs

LEMMA QueryKeeps ==
    ASSUME NEW S, BuildInv(S), Query
    PROVE  BuildInv(S)'
<1>1. PICK g : g = GetAmounts(tx)
  OBVIOUS
<1>2. /\ g \in TxOf(S) /\ SameLists(g, tx)
      /\ SumsOK(tx) /\ g.thrown = FALSE => SumsOK(g)
  BY <1>1, AmountsFacts DEF BuildInv
<1>3. PICK clears : Call(g, clears)
  <2> WITNESS TRUE
  <2> QED
    BY <1>1, Zenon DEF Query
<1>4. asked' = asked /\ strayed' = strayed /\ lost' = lost
  BY DEF Query
<1>5. /\ g.outputs = tx.outputs /\ SameSettings(g, tx)
      /\ Len(g.inputs) = Len(tx.inputs) /\ InputSum(g.inputs) = InputSum(tx.inputs)
  BY <1>2 DEF SameLists
<1>6. broken = FALSE /\ g.thrown = FALSE => SumsOK(g)
  BY <1>2 DEF BuildInv
<1>7. S \subseteq S /\ tx \in TxOf(S)
  BY DEF BuildInv
<1> QED
  BY <1>2, <1>3, <1>4, <1>5, <1>6, <1>7, QuietKeeps

LEMMA ReloadKeeps ==
    ASSUME NEW S, BuildInv(S), Reload
    PROVE  BuildInv(S)'
<1>1. PICK c : c = Copy(tx)
  OBVIOUS
<1>2. /\ c \in TxOf(S) /\ c.inputs = tx.inputs /\ c.outputs = tx.outputs
      /\ c.changeScript = tx.changeScript /\ c.thrown = FALSE
      /\ c.inputAmount = None /\ c.outputAmount = None /\ c.feePerKb = None
      /\ c.changeIndex = (IF tx.changeIndex = 1 THEN None ELSE tx.changeIndex)
  <2>1. PICK k \in Nat \cup {None} : k = IF tx.changeIndex = 1 THEN None ELSE tx.changeIndex
    BY DEF BuildInv, TxOf
  <2>2. PICK f \in Nat \cup {None} : f = IF tx.fee = 0 THEN None ELSE tx.fee
    BY DEF BuildInv, TxOf
  <2>3. c = [tx EXCEPT !.changeIndex = k, !.fee = f, !.feePerKb = None, !.inputAmount = None,
                       !.outputAmount = None]
    BY <1>1, <2>1, <2>2 DEF Copy, BuildInv, TxOf
  <2> QED
    BY <2>1, <2>3 DEF BuildInv, TxOf
<1>3. PICK clears : Call(c, clears)
  <2> WITNESS TRUE
  <2> QED
    BY <1>1, Zenon DEF Reload
<1>4. asked' = asked /\ strayed' = strayed
  BY DEF Reload
<1>5. lost' \in BOOLEAN
      /\ (lost' = FALSE => lost = FALSE /\ c.changeIndex = tx.changeIndex /\ c.fee = tx.fee
                           /\ tx.feePerKb = None)
  <2>1. lost' = (lost \/ c.changeIndex # tx.changeIndex \/ c.fee # tx.fee \/ tx.feePerKb # None)
    BY <1>1, Zenon DEF Reload
  <2>2. lost \in BOOLEAN
    BY DEF BuildInv
  <2> QED
    BY <2>1, <2>2, Zenon
<1>6. SumsOK(c)
  BY <1>2 DEF SumsOK
<1>7. broken = FALSE => IndexOK(c)
  BY <1>2 DEF IndexOK, BuildInv
<1>8. lost' = FALSE => SameSettings(c, tx)
  BY <1>2, <1>5 DEF SameSettings
<1>9. lost' = FALSE =>
          /\ CurrentChange(tx) => CurrentChange(c)
          /\ \A counts : Counted(tx, counts) => Counted(c, counts)
  <2> SUFFICES ASSUME lost' = FALSE
               PROVE  /\ CurrentChange(tx) => CurrentChange(c)
                      /\ \A counts : Counted(tx, counts) => Counted(c, counts)
    OBVIOUS
  <2>1. SameSettings(c, tx)
    BY <1>8
  <2>2. tx \in TxOf(S) /\ Len(c.inputs) = Len(tx.inputs) /\ InputSum(c.inputs) = InputSum(tx.inputs)
    BY <1>2 DEF BuildInv
  <2> QED
    BY <1>2, <2>1, <2>2, SameChange
<1>10. broken = FALSE /\ c.thrown = FALSE => Holds(c, asked', lost', strayed')
  BY <1>2, <1>4, <1>5, <1>6, <1>7, <1>9 DEF Holds, BuildInv
<1>11. None \in S /\ broken \in BOOLEAN /\ NoIndexWithoutScript(c)
  BY <1>2 DEF BuildInv, NoIndexWithoutScript
<1>12. asked' \in [Payments -> Nat] /\ strayed' \in BOOLEAN
  BY <1>4 DEF BuildInv
<1> QED
  BY <1>2, <1>3, <1>5, <1>10, <1>11, <1>12, CallKeeps

-----------------------------------------------------------------------------
(* The invariant holds, and what follows. *)

BuildSafe == \E S : BuildInv(S)

LEMMA NothingCounted == ASSUME NEW p PROVE HowOften(p, <<>>) = 0
<1>1. {i \in DOMAIN <<>> : <<>>[i] = p} = {}
  OBVIOUS
<1> QED
  BY <1>1, FS_EmptySet, Zenon DEF HowOften

LEMMA BuildStarts == BuildInit => BuildSafe
<1> SUFFICES ASSUME BuildInit PROVE BuildInv({None})
  BY DEF BuildSafe
<1>1. tx \in TxOf({None}) /\ tx.thrown = FALSE
  <2>1. <<>> \in Seq(InputsOf({None})) /\ <<>> \in Seq(OutputsOf)
    OBVIOUS
  <2>2. PICK ins \in Seq(InputsOf({None})), outs \in Seq(OutputsOf) : ins = <<>> /\ outs = <<>>
    BY <2>1, Zenon
  <2>3. tx = [inputs |-> ins, outputs |-> outs, inputAmount |-> None, outputAmount |-> None,
              changeScript |-> None, changeIndex |-> None, fee |-> None, feePerKb |-> None,
              nLockTime |-> 0, thrown |-> FALSE]
    BY <2>2, Zenon DEF BuildInit
  <2> QED
    BY <2>3 DEF TxOf
<1>2. /\ tx.changeScript = None /\ tx.changeIndex = None /\ tx.outputs = <<>>
      /\ tx.inputAmount = None /\ tx.outputAmount = None
  BY DEF BuildInit
<1>3. asked = [p \in Payments |-> 0] /\ broken = FALSE /\ strayed = FALSE /\ lost = FALSE
  BY DEF BuildInit
<1>4. Counted(tx, asked)
  <2> SUFFICES ASSUME NEW p \in Payments PROVE HowOften(p, KeptOutputs(tx)) = asked[p]
    BY DEF Counted
  <2>1. KeptOutputs(tx) = <<>>
    BY <1>2 DEF KeptOutputs
  <2> QED
    BY <1>3, <2>1, NothingCounted, Zenon
<1> QED
  BY <1>1, <1>2, <1>3, <1>4 DEF BuildInv, NoIndexWithoutScript, SumsOK, IndexOK

LEMMA BuildRests == BuildSafe /\ UNCHANGED buildVars => BuildSafe'
<1> SUFFICES ASSUME NEW S, BuildInv(S), UNCHANGED buildVars PROVE BuildInv(S)'
  BY DEF BuildSafe
<1> QED
  BY DEF BuildInv, buildVars, NoIndexWithoutScript, SumsOK, IndexOK, CurrentChange, Counted,
         TrueFeeOf, KeptOutputs

LEMMA BuildGoesOn == BuildSafe /\ BuildNext => BuildSafe'
<1> SUFFICES ASSUME NEW S, BuildInv(S), BuildNext PROVE BuildSafe'
  BY DEF BuildSafe
<1>1. CASE \E u \in DOMAIN Utxos, info \in BOOLEAN : From(u, info)
  BY <1>1, FromKeeps DEF BuildSafe
<1>2. CASE \E i \in DOMAIN tx.inputs : RemoveInput(i)
  BY <1>2, RemoveInputKeeps DEF BuildSafe
<1>3. CASE \E p \in Payments : AddOutput(p)
  BY <1>3, AddOutputKeeps DEF BuildSafe
<1>4. CASE \E i \in DOMAIN tx.outputs : RemoveOutput(i)
  BY <1>4, RemoveOutputKeeps DEF BuildSafe
<1>5. CASE ClearOutputs
  BY <1>5, ClearOutputsKeeps DEF BuildSafe
<1>6. CASE Change \/ (\E amount \in Fees : SetFee(amount)) \/ (\E rate \in Rates : FeePerKb(rate))
  BY <1>6, SettingsKeep DEF BuildSafe
<1>7. CASE \E p \in Orders(Len(tx.outputs)) :
               SortOutputs(p) \/ \E q \in Orders(Len(tx.inputs)) : Sort(p, q)
  BY <1>7, SortOutputsKeeps, SortKeeps DEF BuildSafe
<1>8. CASE (\E time \in LockTimes : LockUntil(time)) \/ EnableRBF
  BY <1>8, LockUntilKeeps DEF BuildSafe
<1>9. CASE \E k \in SignerKeys : SignWith(k) \/ GetSignatures(k)
  BY <1>9, SignWithKeeps, GetSignaturesKeeps DEF BuildSafe
<1>10. CASE \E s \in pending : ApplySignature(s)
  BY <1>10, ApplySignatureKeeps DEF BuildSafe
<1>11. CASE Query
  BY <1>11, QueryKeeps DEF BuildSafe
<1>12. CASE Reload
  BY <1>12, ReloadKeeps DEF BuildSafe
<1> QED
  BY <1>1, <1>2, <1>3, <1>4, <1>5, <1>6, <1>7, <1>8, <1>9, <1>10, <1>11, <1>12, Zenon
  DEF BuildNext

LEMMA BuildsSafely == BuildSpec => []BuildSafe
<1>1. BuildSafe /\ [BuildNext]_buildVars => BuildSafe'
  BY BuildRests, BuildGoesOn
<1> QED
  BY <1>1, BuildStarts, PTL DEF BuildSpec

\* With a change address the transaction pays exactly the fee in force, and the rest goes
\* to the change output, for any number of inputs, outputs and calls, and in any order of
\* them: _updateChangeOutput sees the right sums, and _newOutputOrder finds the output again.
THEOREM ChangeStaysCurrent == BuildSpec => []ChangeIsCurrent
<1>1. BuildSafe => ChangeIsCurrent
  <2> SUFFICES ASSUME NEW S, BuildInv(S), tx.changeScript # None, broken = FALSE, lost = FALSE
               PROVE  IF tx.changeIndex = None THEN TrueFee - FeeOf(tx, TrueFee) <= 0
                      ELSE /\ tx.changeIndex \in DOMAIN tx.outputs
                           /\ tx.outputs[tx.changeIndex].script = tx.changeScript
                           /\ tx.outputs[tx.changeIndex].satoshis =
                                  (InputSum(tx.inputs)
                                      - OutputSum(DropOutput(tx, tx.changeIndex).outputs))
                                  - FeeOf(DropOutput(tx, tx.changeIndex),
                                          InputSum(tx.inputs)
                                              - OutputSum(DropOutput(tx, tx.changeIndex).outputs))
    <3>1. \A S : BuildInv(S) => broken \in BOOLEAN /\ lost \in BOOLEAN
      BY DEF BuildInv
    <3> QED
      BY <3>1, Zenon DEF BuildSafe, ChangeIsCurrent
  <2>1. CurrentChange(tx)
    BY DEF BuildInv
  <2>2. CASE tx.changeIndex = None
    BY <2>1, <2>2, Zenon DEF CurrentChange, TrueFee, TrueFeeOf
  <2>3. CASE tx.changeIndex # None
    BY <2>1, <2>3, Zenon DEF CurrentChange, KeptOutputs
  <2> QED
    BY <2>2, <2>3
<1> QED
  BY <1>1, BuildsSafely, PTL

\* The outputs without the change are the payments that were asked for, each as often as it
\* was, for any payments and any number of calls: working the change out again takes away
\* the change output and nothing else.
THEOREM PaymentsStay == BuildSpec => []PaymentsKept
<1>1. BuildSafe => PaymentsKept
  <2> SUFFICES ASSUME NEW S, BuildInv(S), broken = FALSE, strayed = FALSE, lost = FALSE,
                      NEW p \in Payments
               PROVE  HowOften(p, IF tx.changeIndex = None THEN tx.outputs
                                  ELSE DropOutput(tx, tx.changeIndex).outputs) = asked[p]
    <3>1. \A S : BuildInv(S) => broken \in BOOLEAN /\ strayed \in BOOLEAN /\ lost \in BOOLEAN
      BY DEF BuildInv
    <3> QED
      BY <3>1, Zenon DEF BuildSafe, PaymentsKept
  <2>1. Counted(tx, asked)
    BY DEF BuildInv
  <2> QED
    BY <2>1, Zenon DEF Counted, KeptOutputs
<1> QED
  BY <1>1, BuildsSafely, PTL

-----------------------------------------------------------------------------
(* The signatures that a transaction has cover it as it stands, unless     *)
(* careless says that they may not.                                        *)

NoneGiven(t) ==
    \A i \in 1..Len(t.inputs) :
        \A j \in DOMAIN t.inputs[i].signatures : t.inputs[i].signatures[j] = None

\* The same inputs, but for their signatures and sequence numbers.
Shaped(d, t) ==
    /\ Len(d.inputs) = Len(t.inputs)
    /\ \A i \in 1..Len(t.inputs) :
          /\ d.inputs[i].utxo = t.inputs[i].utxo /\ d.inputs[i].kind = t.inputs[i].kind
          /\ DOMAIN d.inputs[i].signatures = DOMAIN t.inputs[i].signatures

\* No output is spent twice.
SpentOnce(t) ==
    \A i, j \in 1..Len(t.inputs) : t.inputs[i].utxo = t.inputs[j].utxo => i = j

\* A signature that getSignatures gave is for a key of the output it covers.
OfOwnKey(s) ==
    \E n \in DOMAIN Utxos[s.signature.over.inputs[s.inputIndex].utxo].keys :
        Utxos[s.signature.over.inputs[s.inputIndex].utxo].keys[n] = s.key

CoversAll(type) == type.base = "ALL" /\ type.anyoneCanPay = FALSE

Applicable(s) == Formed(s.signature) /\ CoversAll(s.signature.type) /\ OfOwnKey(s)

InputsInv ==
    /\ InputsFit(tx) /\ SpentOnce(tx)
    /\ \A s \in pending : Applicable(s)

SignaturesInv ==
    /\ InputsInv
    /\ careless \in BOOLEAN
    /\ careless = FALSE => ValidSignatures(tx)

LEMMA ShapedFits ==
    ASSUME NEW d, NEW t, Shaped(d, t), InputsFit(t), SpentOnce(t)
    PROVE  InputsFit(d) /\ SpentOnce(d)
BY DEF Shaped, InputsFit, SpentOnce, KeysOf

LEMMA SameCoverShaped == ASSUME NEW d, NEW t, SameCover(d, t) PROVE Shaped(d, t)
BY DEF SameCover, Shaped

LEMMA NoneIsValid == ASSUME NEW t, NoneGiven(t) PROVE ValidSignatures(t)
BY DEF NoneGiven, ValidSignatures, ValidAt

LEMMA UnsignedGivesNone == ASSUME NEW t, Unsigned(t) PROVE NoneGiven(t)
BY DEF Unsigned, NoneGiven

LEMMA NotHasSignatures ==
    ASSUME NEW S, NEW t \in TxOf(S), ~HasSignatures(t)
    PROVE  NoneGiven(t)
<1>1. DOMAIN t.inputs = 1..Len(t.inputs)
  BY DEF TxOf
<1> SUFFICES ASSUME NEW i \in 1..Len(t.inputs), NEW j \in DOMAIN t.inputs[i].signatures
             PROVE  t.inputs[i].signatures[j] = None
  BY DEF NoneGiven
<1>2. Given(t.inputs[i]) = {}
  BY <1>1, Zenon DEF HasSignatures
<1> QED
  BY <1>2 DEF Given

\* What SIGHASH_ALL covers is the same in two transactions.
LEMMA CoveredSame ==
    ASSUME NEW S, NEW d \in TxOf(S), NEW t \in TxOf(S)
    PROVE  /\ SameCover(d, t) => Covered(d) = Covered(t)
           /\ Covered(d) = Covered(t) =>
                  /\ Len(d.inputs) = Len(t.inputs)
                  /\ \A i \in 1..Len(t.inputs) : /\ d.inputs[i].utxo = t.inputs[i].utxo
                                                 /\ d.inputs[i].seq = t.inputs[i].seq
                  /\ d.outputs = t.outputs /\ d.nLockTime = t.nLockTime
<1>1. PICK n \in Nat : n = Len(t.inputs) /\ DOMAIN t.inputs = 1..n
  BY DEF TxOf
<1>2. PICK m \in Nat : m = Len(d.inputs) /\ DOMAIN d.inputs = 1..m
  BY DEF TxOf
<1>3. PICK f : f = [i \in 1..m |-> <<d.inputs[i].utxo, d.inputs[i].seq>>]
  OBVIOUS
<1>4. PICK g : g = [i \in 1..n |-> <<t.inputs[i].utxo, t.inputs[i].seq>>]
  OBVIOUS
<1>5. Covered(d) = <<f, d.outputs, d.nLockTime>>
  BY <1>2, <1>3, Zenon DEF Covered
<1>6. Covered(t) = <<g, t.outputs, t.nLockTime>>
  BY <1>1, <1>4, Zenon DEF Covered
<1>7. ASSUME SameCover(d, t) PROVE Covered(d) = Covered(t)
  <2>1. m = n /\ d.outputs = t.outputs /\ d.nLockTime = t.nLockTime
    BY <1>1, <1>2, <1>7 DEF SameCover
  <2>2. f = g
    BY <1>1, <1>3, <1>4, <1>7, <2>1 DEF SameCover
  <2> QED
    BY <1>5, <1>6, <2>1, <2>2
<1>8. ASSUME Covered(d) = Covered(t)
      PROVE  /\ m = n
             /\ \A i \in 1..n : d.inputs[i].utxo = t.inputs[i].utxo /\ d.inputs[i].seq = t.inputs[i].seq
             /\ d.outputs = t.outputs /\ d.nLockTime = t.nLockTime
  <2>1. f = g /\ d.outputs = t.outputs /\ d.nLockTime = t.nLockTime
    BY <1>5, <1>6, <1>8
  <2>2. DOMAIN f = 1..m /\ DOMAIN g = 1..n
    BY <1>3, <1>4
  <2>3. m = n
    BY <2>1, <2>2
  <2>4. \A i \in 1..n : f[i] = g[i]
    BY <2>1
  <2>5. \A i \in 1..n : <<d.inputs[i].utxo, d.inputs[i].seq>> = <<t.inputs[i].utxo, t.inputs[i].seq>>
    BY <1>3, <1>4, <2>3, <2>4
  <2> QED
    BY <2>1, <2>3, <2>5
<1> QED
  BY <1>1, <1>2, <1>7, <1>8

\* A call keeps signatures valid when the transaction it makes has none, or when it keeps
\* them valid as far as careless does not tell otherwise.
LEMMA CallSigns ==
    ASSUME NEW S, NEW t \in TxOf(S), tx' \in TxOf(S), SignaturesInv,
           NEW clears \in BOOLEAN, Call(t, clears),
           InputsFit(t), SpentOnce(t), \A s \in pending' : Applicable(s),
           \/ NoneGiven(t)
           \/ ValidSignatures(tx) /\ (clears = TRUE \/ Covered(t) = Covered(tx)) =>
                  ValidSignatures(t)
    PROVE  SignaturesInv'
<1>1. /\ tx' = [t EXCEPT !.thrown = FALSE]
      /\ careless' = (HasSignatures(t) /\ (careless \/ (~clears /\ Covered(t) # Covered(tx))))
  BY Zenon DEF Call
<1>2. /\ tx'.inputs = t.inputs /\ tx'.outputs = t.outputs /\ tx'.nLockTime = t.nLockTime
  BY <1>1 DEF TxOf
<1>3. InputsInv'
  <2>1. InputsFit(tx')
    BY <1>2, Zenon DEF InputsFit
  <2>2. SpentOnce(tx')
    BY <1>2, Zenon DEF SpentOnce
  <2> QED
    BY <2>1, <2>2 DEF InputsInv
<1>4. PICK has \in BOOLEAN : has = HasSignatures(t)
  <2>1. HasSignatures(t) \in BOOLEAN
    BY Zenon DEF HasSignatures
  <2> QED
    BY <2>1
<1>5. PICK other \in BOOLEAN : other = (Covered(t) # Covered(tx))
  OBVIOUS
<1>6. careless \in BOOLEAN
  BY DEF SignaturesInv
<1>7. careless' = (has /\ (careless \/ (~clears /\ other)))
  BY <1>1, <1>4, <1>5, Zenon
<1>8. careless' \in BOOLEAN
  BY <1>6, <1>7
<1>9. ASSUME careless' = FALSE PROVE ValidSignatures(tx')
  <2>1. ValidSignatures(t)
    <3>1. CASE NoneGiven(t)
      BY <3>1, NoneIsValid
    <3>2. CASE has = FALSE
      <4>1. ~HasSignatures(t)
        BY <1>4, <3>2
      <4> QED
        BY <4>1, NotHasSignatures, NoneIsValid
    <3>3. CASE has = TRUE /\ ~NoneGiven(t)
      <4>1. careless = FALSE /\ (clears = TRUE \/ other = FALSE)
        BY <1>6, <1>7, <1>9, <3>3
      <4>2. ValidSignatures(tx)
        BY <4>1 DEF SignaturesInv
      <4>3. clears = TRUE \/ Covered(t) = Covered(tx)
        BY <1>5, <4>1
      <4> QED
        BY <3>3, <4>2, <4>3, Zenon
    <3> QED
      BY <3>1, <3>2, <3>3
  <2>2. PICK x : x = tx'
    OBVIOUS
  <2>3. SameCover(x, t) /\ FewerSignatures(x, t)
    <3>1. SameCover(x, t)
      BY <1>2, <2>2 DEF SameCover
    <3> QED
      BY <1>2, <2>2, <3>1 DEF FewerSignatures
  <2>4. x \in TxOf(S)
    BY <2>2
  <2>5. ValidSignatures(x)
    BY <2>1, <2>3, <2>4, FewerStayValid
  <2> QED
    BY <2>2, <2>5
<1> QED
  BY <1>3, <1>8, <1>9 DEF SignaturesInv

LEMMA ClearSigns ==
    ASSUME NEW S, None \in S, NEW t \in TxOf(S), NEW c, c = ClearSignatures(t)
    PROVE  FewerSignatures(c, t)
<1>1. PICK n \in Nat : n = Len(t.inputs) /\ DOMAIN t.inputs = 1..n
  BY DEF TxOf
<1> DEFINE bases == {i \in DOMAIN t.inputs : t.inputs[i].kind = "base"}
           Cleared(input) == [input EXCEPT !.signatures = [i \in DOMAIN @ |-> None]]
           ins == [i \in DOMAIN t.inputs |-> IF \E j \in bases : j <= i THEN t.inputs[i]
                                             ELSE Cleared(t.inputs[i])]
<1>2. c.inputs = ins /\ c.outputs = t.outputs /\ c.nLockTime = t.nLockTime
  BY DEF ClearSignatures, TxOf
<1>3. \A x \in InputsOf(S) :
          /\ Cleared(x).utxo = x.utxo /\ Cleared(x).seq = x.seq
          /\ Cleared(x).kind = x.kind /\ Cleared(x).info = x.info
          /\ DOMAIN Cleared(x).signatures = DOMAIN x.signatures
          /\ \A j \in DOMAIN x.signatures : Cleared(x).signatures[j] = None
  BY DEF InputsOf
<1>4. \A i \in 1..n : t.inputs[i] \in InputsOf(S)
  BY <1>1 DEF TxOf
<1> HIDE DEF Cleared
<1>5. DOMAIN ins = 1..n /\ \A i \in 1..n : ins[i] = t.inputs[i] \/ ins[i] = Cleared(t.inputs[i])
  BY <1>1
<1>6. Len(c.inputs) = n
  <2>1. c.inputs \in Seq(InputsOf(S))
    <3>1. c \in TxOf(S)
      BY ClearedFacts
    <3> QED
      BY <3>1 DEF TxOf
  <2> QED
    BY <1>2, <1>5, <2>1
<1> HIDE DEF ins
<1>7. \A i \in 1..n :
          /\ ins[i].utxo = t.inputs[i].utxo /\ ins[i].seq = t.inputs[i].seq
          /\ ins[i].kind = t.inputs[i].kind /\ ins[i].info = t.inputs[i].info
          /\ DOMAIN ins[i].signatures = DOMAIN t.inputs[i].signatures
          /\ \A j \in DOMAIN t.inputs[i].signatures :
                ins[i].signatures[j] \in {None, t.inputs[i].signatures[j]}
  <2> SUFFICES ASSUME NEW i \in 1..n, NEW x \in InputsOf(S), x = t.inputs[i]
               PROVE  /\ ins[i].utxo = x.utxo /\ ins[i].seq = x.seq
                      /\ ins[i].kind = x.kind /\ ins[i].info = x.info
                      /\ DOMAIN ins[i].signatures = DOMAIN x.signatures
                      /\ \A j \in DOMAIN x.signatures :
                            ins[i].signatures[j] \in {None, x.signatures[j]}
    BY <1>4, Zenon
  <2>1. CASE ins[i] = x
    BY <2>1
  <2>2. CASE ins[i] = Cleared(x)
    BY <1>3, <2>2
  <2> QED
    BY <1>5, <2>1, <2>2
<1>8. SameCover(c, t)
  BY <1>1, <1>2, <1>6, <1>7 DEF SameCover
<1> QED
  BY <1>1, <1>2, <1>7, <1>8 DEF FewerSignatures

LEMMA NoneStaysNone ==
    ASSUME NEW d, NEW t, FewerSignatures(d, t), NoneGiven(t)
    PROVE  NoneGiven(d)
BY DEF FewerSignatures, SameCover, NoneGiven

\* _updateChangeOutput leaves no signature, or makes no other change to what they cover.
LEMMA UpdateSigns ==
    ASSUME NEW S, None \in S, NEW t \in TxOf(S), t.thrown = FALSE,
           NEW new, new = UpdateChangeOutput(t)
    PROVE  /\ new \in TxOf(S) /\ Shaped(new, t)
           /\ NoneGiven(new) \/ FewerSignatures(new, t)
           /\ t.changeScript # None /\ new.thrown = FALSE => NoneGiven(new)
<1>1. CASE t.changeScript = None
  <2>1. new = t
    BY <1>1, UpdateSame
  <2>2. SameCover(t, t)
    BY SameCoverSame
  <2>3. FewerSignatures(t, t) /\ Shaped(t, t)
    BY <2>2, SameCoverShaped DEF FewerSignatures
  <2> QED
    BY <1>1, <2>1, <2>3
<1>2. CASE t.changeScript # None
  <2>1. IsUpdated(new, t, S)
    BY <1>2, UpdateFacts
  <2>2. new \in TxOf(S) /\ (new.thrown = FALSE => NoneGiven(new))
    BY <2>1, UnsignedGivesNone DEF IsUpdated
  <2>3. PICK c : c = ClearSignatures(t)
    OBVIOUS
  <2>4. FewerSignatures(c, t) /\ Shaped(c, t)
    <3>1. FewerSignatures(c, t)
      BY <2>3, ClearSigns
    <3> QED
      BY <3>1, SameCoverShaped DEF FewerSignatures
  <2>5. c \in TxOf(S) /\ (c.thrown = FALSE => NoneGiven(c))
    BY <2>3, ClearedFacts, UnsignedGivesNone
  <2>6. PICK w : w = IF t.changeIndex = None THEN c ELSE DropOutput(c, t.changeIndex)
    OBVIOUS
  <2>7. PICK g : g = GetAmounts(w)
    OBVIOUS
  <2>8. PICK change : change = Unspent(g) - FeeOf(g, Unspent(g))
    OBVIOUS
  <2>9. new = IF c.thrown THEN c
              ELSE IF g.thrown THEN g
              ELSE IF change > 0
              THEN AppendOutput([g EXCEPT !.changeIndex = Len(g.outputs) + 1],
                                [script |-> t.changeScript, satoshis |-> change])
              ELSE [g EXCEPT !.changeIndex = None]
    BY <1>2, <2>3, <2>6, <2>7, <2>8, Zenon DEF UpdateChangeOutput
  <2>10. CASE c.thrown = TRUE
    <3>1. new = c
      BY <2>9, <2>10
    <3> QED
      BY <2>4, <2>5, <2>10, <3>1
  <2>11. CASE c.thrown = FALSE
    <3>1. w \in TxOf(S) /\ w.inputs = c.inputs /\ w.thrown = FALSE
      <4>1. CASE t.changeIndex = None
        BY <2>5, <2>6, <2>11, <4>1
      <4>2. CASE t.changeIndex # None
        <5>1. w = DropOutput(c, t.changeIndex)
          BY <2>6, <4>2
        <5> QED
          BY <2>5, <2>11, <5>1, DropFacts
      <4> QED
        BY <4>1, <4>2
    <3>2. g \in TxOf(S) /\ g.inputs = c.inputs
      BY <2>7, <3>1, AmountsFacts DEF SameLists
    <3>3. new.inputs = c.inputs
      <4>1. CASE g.thrown = TRUE
        BY <2>9, <2>11, <3>2, <4>1
      <4>2. CASE g.thrown = FALSE /\ ~(change > 0)
        <5>1. new = [g EXCEPT !.changeIndex = None]
          BY <2>9, <2>11, <4>2, Zenon
        <5> QED
          BY <3>2, <5>1 DEF TxOf
      <4>3. CASE g.thrown = FALSE /\ change > 0
        <5>1. new = AppendOutput([g EXCEPT !.changeIndex = Len(g.outputs) + 1],
                                 [script |-> t.changeScript, satoshis |-> change])
          BY <2>9, <2>11, <4>3, Zenon
        <5> QED
          BY <3>2, <5>1 DEF TxOf, AppendOutput
      <4>4. g.thrown \in BOOLEAN
        BY <3>2 DEF TxOf
      <4> QED
        BY <4>1, <4>2, <4>3, <4>4
    <3> QED
      BY <2>2, <2>4, <2>5, <2>11, <3>3 DEF Shaped, NoneGiven
  <2>12. c.thrown \in BOOLEAN
    BY <2>5 DEF TxOf
  <2> QED
    BY <2>10, <2>11, <2>12
<1> QED
  BY <1>1, <1>2

\* A call that ends in _updateChangeOutput, and has changed what signatures cover, or
\* has taken away signatures.
LEMMA UpdatedSigns ==
    ASSUME NEW S, BuildInv(S), tx' \in TxOf(S), SignaturesInv, pending' = pending,
           NEW t \in TxOf(S), t.thrown = FALSE, Updated(t), InputsFit(t), SpentOnce(t),
           FewerSignatures(t, tx) \/ Covered(t) # Covered(tx)
    PROVE  SignaturesInv'
<1>1. PICK new : new = UpdateChangeOutput(t)
  OBVIOUS
<1>2. /\ new \in TxOf(S) /\ Shaped(new, t)
      /\ NoneGiven(new) \/ FewerSignatures(new, t)
      /\ t.changeScript # None /\ new.thrown = FALSE => NoneGiven(new)
  BY <1>1, UpdateSigns DEF BuildInv
<1>3. PICK clears \in BOOLEAN : /\ clears = (t.changeScript # None /\ ~new.thrown)
                                /\ Call(new, clears)
  BY <1>1, Zenon DEF Updated
<1>4. clears = TRUE => NoneGiven(new)
  <2>1. new.thrown \in BOOLEAN
    BY <1>2 DEF TxOf
  <2> QED
    BY <1>2, <1>3, <2>1
<1>5. InputsFit(new) /\ SpentOnce(new)
  BY <1>2, ShapedFits
<1>6. tx \in TxOf(S)
  BY DEF BuildInv
<1>7. \/ NoneGiven(new)
      \/ ValidSignatures(tx) /\ (clears = TRUE \/ Covered(new) = Covered(tx)) =>
             ValidSignatures(new)
  <2> SUFFICES ASSUME ~NoneGiven(new), ValidSignatures(tx), Covered(new) = Covered(tx)
               PROVE  ValidSignatures(new)
    BY <1>4
  <2>1. FewerSignatures(new, t)
    BY <1>2
  <2>2. Covered(new) = Covered(t)
    BY <1>2, <2>1, CoveredSame DEF FewerSignatures
  <2>3. FewerSignatures(t, tx)
    BY <2>2
  <2>4. ValidSignatures(t)
    BY <1>6, <2>3, FewerStayValid
  <2> QED
    BY <1>2, <2>1, <2>4, FewerStayValid
<1>8. \A s \in pending' : Applicable(s)
  BY DEF SignaturesInv, InputsInv
<1> QED
  BY <1>2, <1>3, <1>5, <1>7, <1>8, CallSigns

LEMMA FromSigns ==
    ASSUME NEW S, BuildInv(S), tx' \in TxOf(S), SignaturesInv,
           NEW u \in DOMAIN Utxos, NEW info \in BOOLEAN, From(u, info)
    PROVE  SignaturesInv'
<1>1. PICK before \in Seq(InputsOf(S)) : before = tx.inputs
  BY DEF BuildInv, TxOf
<1>2. PICK new : new = NewInput(u, info)
  OBVIOUS
<1>3. /\ new \in InputsOf(S) /\ new.utxo = u
      /\ DOMAIN new.signatures = DOMAIN Utxos[u].keys
      /\ new.kind = "base" \/ new.kind = Utxos[u].kind
  <2>1. new \in InputsOf(S) /\ new.utxo = u
    BY <1>2, NewInputFacts DEF BuildInv
  <2>2. new = [utxo |-> u, info |-> info, seq |-> "final",
               kind |-> IF info THEN Utxos[u].kind ELSE "base",
               signatures |-> [i \in DOMAIN Utxos[u].keys |-> None]]
    BY <1>2 DEF NewInput
  <2> QED
    BY <2>1, <2>2
<1>4. PICK ins : ins = Append(before, new)
  OBVIOUS
<1>5. ins \in Seq(InputsOf(S)) /\ IsMore(ins, before, new)
  BY <1>3, <1>4, Appended
<1>6. PICK t : t = [tx EXCEPT !.inputs = ins, !.inputAmount = None]
  OBVIOUS
<1>7. t \in TxOf(S) /\ t.inputs = ins /\ t.thrown = FALSE
  BY <1>5, <1>6 DEF BuildInv, TxOf
<1>8. Updated(t) /\ pending' = pending
  <2>1. t = [tx EXCEPT !.inputs = Append(@, NewInput(u, info)), !.inputAmount = None]
    BY <1>1, <1>2, <1>4, <1>6 DEF BuildInv, TxOf
  <2> QED
    BY <2>1, Zenon DEF From
<1>9. PICK n \in Nat : n = Len(before) /\ Len(ins) = n + 1
  BY <1>5 DEF IsMore
<1>10. \A i \in 1..n : before[i].utxo # u
  <2>1. DOMAIN tx.inputs = 1..n
    BY <1>1, <1>9
  <2> QED
    BY <1>1, <2>1, Zenon DEF From
<1>11. ins[n + 1] = new /\ \A i \in 1..n : ins[i] = before[i]
  BY <1>5, <1>9 DEF IsMore
<1>12. InputsFit(t)
  <2> SUFFICES ASSUME NEW i \in 1..(n + 1), NEW x, x = ins[i]
               PROVE  /\ DOMAIN x.signatures = DOMAIN Utxos[x.utxo].keys
                      /\ x.kind = "base" \/ x.kind = Utxos[x.utxo].kind
    BY <1>7, <1>9, Zenon DEF InputsFit, KeysOf
  <2>1. CASE i \in 1..n
    <3>1. x = tx.inputs[i] /\ i \in 1..Len(tx.inputs)
      BY <1>1, <1>9, <1>11, <2>1
    <3> QED
      BY <3>1, Zenon DEF SignaturesInv, InputsInv, InputsFit, KeysOf
  <2>2. CASE i = n + 1
    BY <1>3, <1>11, <2>2
  <2> QED
    BY <2>1, <2>2
<1>13. SpentOnce(t)
  <2>1. \A i, j \in 1..n : before[i].utxo = before[j].utxo => i = j
    BY <1>1, <1>9 DEF SignaturesInv, InputsInv, SpentOnce
  <2>2. \A i, j \in 1..(n + 1) : ins[i].utxo = ins[j].utxo => i = j
    <3> SUFFICES ASSUME NEW i \in 1..(n + 1), NEW j \in 1..(n + 1), ins[i].utxo = ins[j].utxo
                 PROVE  i = j
      OBVIOUS
    <3>1. CASE i \in 1..n /\ j \in 1..n
      BY <1>11, <2>1, <3>1
    <3>2. CASE i \in 1..n /\ j = n + 1
      BY <1>3, <1>10, <1>11, <3>2
    <3>3. CASE i = n + 1 /\ j \in 1..n
      BY <1>3, <1>10, <1>11, <3>3
    <3> QED
      BY <3>1, <3>2, <3>3
  <2> QED
    BY <1>7, <1>9, <2>2 DEF SpentOnce
<1>14. Covered(t) # Covered(tx)
  <2>1. tx \in TxOf(S)
    BY DEF BuildInv
  <2>2. Len(t.inputs) # Len(tx.inputs)
    BY <1>1, <1>7, <1>9
  <2> QED
    BY <1>7, <2>1, <2>2, CoveredSame
<1> QED
  BY <1>7, <1>8, <1>12, <1>13, <1>14, UpdatedSigns

LEMMA RemoveInputSigns ==
    ASSUME NEW S, BuildInv(S), tx' \in TxOf(S), SignaturesInv,
           NEW i \in DOMAIN tx.inputs, RemoveInput(i)
    PROVE  SignaturesInv'
<1>1. PICK before \in Seq(InputsOf(S)) : before = tx.inputs
  BY DEF BuildInv, TxOf
<1>2. PICK n \in Nat : n = Len(before) /\ i \in 1..n
  BY <1>1
<1>3. PICK ins : ins = RemoveAt(before, i)
  OBVIOUS
<1>4. ins \in Seq(InputsOf(S)) /\ IsWithout(ins, before, i)
  BY <1>2, <1>3, Removed
<1>5. PICK t : t = [tx EXCEPT !.inputs = ins, !.inputAmount = None]
  OBVIOUS
<1>6. t \in TxOf(S) /\ t.inputs = ins /\ t.thrown = FALSE
  BY <1>4, <1>5 DEF BuildInv, TxOf
<1>7. Updated(t) /\ pending' = pending
  <2>1. t = [tx EXCEPT !.inputs = RemoveAt(@, i), !.inputAmount = None]
    BY <1>1, <1>3, <1>5 DEF BuildInv, TxOf
  <2> QED
    BY <2>1, Zenon DEF RemoveInput
<1>8. /\ n - 1 \in Nat /\ Len(ins) = n - 1
      /\ \A j \in 1..(n - 1) : ins[j] = IF j < i THEN before[j] ELSE before[j + 1]
  BY <1>2, <1>4 DEF IsWithout
<1>9. \A j \in 1..(n - 1) : \E k \in 1..n : ins[j] = before[k] /\ k = IF j < i THEN j ELSE j + 1
  <2> SUFFICES ASSUME NEW j \in 1..(n - 1)
               PROVE  \E k \in 1..n : ins[j] = before[k] /\ k = IF j < i THEN j ELSE j + 1
    OBVIOUS
  <2>1. CASE j < i
    BY <1>8, <2>1
  <2>2. CASE ~(j < i)
    <3>1. j + 1 \in 1..n
      OBVIOUS
    <3> QED
      BY <1>8, <2>2, <3>1
  <2> QED
    BY <2>1, <2>2
<1>10. InputsFit(t)
  <2> SUFFICES ASSUME NEW j \in 1..(n - 1), NEW x, x = ins[j]
               PROVE  /\ DOMAIN x.signatures = DOMAIN Utxos[x.utxo].keys
                      /\ x.kind = "base" \/ x.kind = Utxos[x.utxo].kind
    BY <1>6, <1>8, Zenon DEF InputsFit, KeysOf
  <2>1. PICK k \in 1..n : x = before[k]
    BY <1>9
  <2>2. x = tx.inputs[k] /\ k \in 1..Len(tx.inputs)
    BY <1>1, <1>2, <2>1
  <2> QED
    BY <2>2, Zenon DEF SignaturesInv, InputsInv, InputsFit, KeysOf
<1>11. SpentOnce(t)
  <2>1. \A k, l \in 1..n : before[k].utxo = before[l].utxo => k = l
    BY <1>1, <1>2 DEF SignaturesInv, InputsInv, SpentOnce
  <2>2. ASSUME NEW a \in 1..(n - 1), NEW b \in 1..(n - 1), ins[a].utxo = ins[b].utxo
        PROVE  a = b
    <3>1. PICK k \in 1..n : ins[a] = before[k] /\ k = IF a < i THEN a ELSE a + 1
      BY <1>9
    <3>2. PICK l \in 1..n : ins[b] = before[l] /\ l = IF b < i THEN b ELSE b + 1
      BY <1>9
    <3>3. k = l
      BY <2>1, <2>2, <3>1, <3>2
    <3> QED
      BY <1>2, <3>1, <3>2, <3>3
  <2> QED
    BY <1>6, <1>8, <2>2 DEF SpentOnce
<1>12. Covered(t) # Covered(tx)
  <2>1. tx \in TxOf(S)
    BY DEF BuildInv
  <2>2. Len(t.inputs) # Len(tx.inputs)
    BY <1>1, <1>2, <1>6, <1>8
  <2> QED
    BY <1>6, <2>1, <2>2, CoveredSame
<1> QED
  BY <1>6, <1>7, <1>10, <1>11, <1>12, UpdatedSigns

\* With the inputs as they are.
LEMMA SameInputsUpdated ==
    ASSUME NEW S, BuildInv(S), tx' \in TxOf(S), SignaturesInv, pending' = pending,
           NEW t \in TxOf(S), t.thrown = FALSE, Updated(t), t.inputs = tx.inputs,
           t.nLockTime = tx.nLockTime
    PROVE  SignaturesInv'
<1>1. InputsFit(t) /\ SpentOnce(t)
  BY Zenon DEF SignaturesInv, InputsInv, InputsFit, SpentOnce
<1>2. tx \in TxOf(S)
  BY DEF BuildInv
<1>3. CASE t.outputs = tx.outputs
  <2>1. SameCover(t, tx)
    BY <1>3 DEF SameCover
  <2>2. FewerSignatures(t, tx)
    BY <2>1 DEF FewerSignatures
  <2> QED
    BY <1>1, <2>2, UpdatedSigns
<1>4. CASE t.outputs # tx.outputs
  <2>1. Covered(t) # Covered(tx)
    BY <1>2, <1>4, CoveredSame
  <2> QED
    BY <1>1, <2>1, UpdatedSigns
<1> QED
  BY <1>3, <1>4

LEMMA OutputsSign ==
    ASSUME NEW S, BuildInv(S), tx' \in TxOf(S), SignaturesInv,
           \/ \E p \in Payments : AddOutput(p)
           \/ \E i \in DOMAIN tx.outputs : RemoveOutput(i)
    PROVE  SignaturesInv'
<1>1. CASE \E p \in Payments : AddOutput(p)
  <2>1. PICK p \in Payments : AddOutput(p)
    BY <1>1
  <2>2. PICK t : t = AppendOutput(tx, p)
    OBVIOUS
  <2>3. Updated(t) /\ pending' = pending
    BY <2>1, <2>2, Zenon DEF AddOutput
  <2>4. p \in OutputsOf
    BY DEF OutputsOf
  <2>5. t \in TxOf(S) /\ t.inputs = tx.inputs /\ t.nLockTime = tx.nLockTime /\ t.thrown = FALSE
    BY <2>2, <2>4, AppendFacts DEF BuildInv
  <2> QED
    BY <2>3, <2>5, SameInputsUpdated
<1>2. CASE \E i \in DOMAIN tx.outputs : RemoveOutput(i)
  <2>1. PICK i \in DOMAIN tx.outputs : RemoveOutput(i)
    BY <1>2
  <2>2. PICK t : t = DropOutput(tx, i)
    OBVIOUS
  <2>3. Updated(t) /\ pending' = pending
    BY <2>1, <2>2, Zenon DEF RemoveOutput
  <2>4. t \in TxOf(S) /\ t.inputs = tx.inputs /\ t.nLockTime = tx.nLockTime /\ t.thrown = FALSE
    BY <2>2, DropFacts DEF BuildInv
  <2> QED
    BY <2>3, <2>4, SameInputsUpdated
<1> QED
  BY <1>1, <1>2

LEMMA SettingsSign ==
    ASSUME NEW S, BuildInv(S), tx' \in TxOf(S), SignaturesInv,
           \/ Change
           \/ \E amount \in Fees : SetFee(amount)
           \/ \E rate \in Rates : FeePerKb(rate)
    PROVE  SignaturesInv'
<1>1. PICK t : /\ \/ t = [tx EXCEPT !.changeScript = ChangeScript]
                  \/ \E amount \in Fees : t = [tx EXCEPT !.fee = amount]
                  \/ \E rate \in Rates : t = [tx EXCEPT !.feePerKb = rate]
               /\ Updated(t) /\ pending' = pending
  BY Zenon DEF Change, SetFee, FeePerKb
<1>2. Fees \subseteq Nat /\ Rates \subseteq Nat
  BY BuildAssumption
<1>3. t \in TxOf(S) /\ t.inputs = tx.inputs /\ t.nLockTime = tx.nLockTime /\ t.thrown = FALSE
  <2>1. CASE t = [tx EXCEPT !.changeScript = ChangeScript]
    BY <2>1 DEF BuildInv, TxOf
  <2>2. CASE \E amount \in Fees : t = [tx EXCEPT !.fee = amount]
    BY <1>2, <2>2 DEF BuildInv, TxOf
  <2>3. CASE \E rate \in Rates : t = [tx EXCEPT !.feePerKb = rate]
    BY <1>2, <2>3 DEF BuildInv, TxOf
  <2> QED
    BY <1>1, <2>1, <2>2, <2>3
<1> QED
  BY <1>1, <1>3, SameInputsUpdated

\* A call that is not followed by _updateChangeOutput.
LEMMA QuietSigns ==
    ASSUME NEW S, BuildInv(S), tx' \in TxOf(S), SignaturesInv, \A s \in pending' : Applicable(s),
           NEW t \in TxOf(S), NEW clears \in BOOLEAN, Call(t, clears), Shaped(t, tx),
           \/ NoneGiven(t)
           \/ ValidSignatures(tx) /\ (clears = TRUE \/ Covered(t) = Covered(tx)) =>
                  ValidSignatures(t)
    PROVE  SignaturesInv'
<1>1. InputsFit(t) /\ SpentOnce(t)
  BY ShapedFits DEF SignaturesInv, InputsInv
<1> QED
  BY <1>1, CallSigns

LEMMA PendingStays ==
    ASSUME SignaturesInv, pending' = pending
    PROVE  \A s \in pending' : Applicable(s)
BY DEF SignaturesInv, InputsInv

LEMMA ShapedOn ==
    ASSUME NEW c, NEW d, NEW t, Shaped(c, d), Shaped(d, t)
    PROVE  Shaped(c, t)
BY DEF Shaped

LEMMA ClearOutputsSigns ==
    ASSUME NEW S, BuildInv(S), tx' \in TxOf(S), SignaturesInv, ClearOutputs
    PROVE  SignaturesInv'
<1>1. PICK none \in Seq(OutputsOf) : none = <<>>
  <2>1. <<>> \in Seq(OutputsOf)
    OBVIOUS
  <2> QED
    BY <2>1, Zenon
<1>2. PICK e : e = [tx EXCEPT !.outputs = none]
  OBVIOUS
<1>3. e \in TxOf(S) /\ e.inputs = tx.inputs /\ e.outputs = none /\ e.nLockTime = tx.nLockTime
  BY <1>2 DEF BuildInv, TxOf
<1>4. PICK c : c = ClearSignatures(e)
  OBVIOUS
<1>5. c \in TxOf(S) /\ c.outputs = none /\ c.nLockTime = tx.nLockTime
      /\ (c.thrown = FALSE => NoneGiven(c))
  BY <1>3, <1>4, ClearedFacts, UnsignedGivesNone DEF BuildInv
<1>6. FewerSignatures(c, e)
  BY <1>3, <1>4, ClearSigns DEF BuildInv
<1>7. Shaped(e, tx)
  BY <1>3 DEF Shaped
<1>8. Shaped(c, tx)
  BY <1>6, <1>7, SameCoverShaped, ShapedOn DEF FewerSignatures
<1>9. pending' = pending
  BY DEF ClearOutputs
<1>10. \A s \in pending' : Applicable(s)
  BY <1>9, PendingStays
<1>11. tx \in TxOf(S)
  BY DEF BuildInv
<1>12. CASE c.thrown = TRUE
  <2>1. PICK clears \in BOOLEAN : clears = FALSE /\ Call(c, clears)
    <3>1. Call(c, FALSE)
      BY <1>1, <1>2, <1>4, <1>12, Zenon DEF ClearOutputs
    <3> QED
      BY <3>1, Zenon
  <2>2. ASSUME ValidSignatures(tx), Covered(c) = Covered(tx)
        PROVE  ValidSignatures(c)
    <3>1. tx.outputs = none
      BY <1>5, <1>11, <2>2, CoveredSame
    <3>2. SameCover(e, tx)
      BY <1>3, <3>1 DEF SameCover
    <3>3. FewerSignatures(e, tx)
      BY <1>3, <3>2 DEF FewerSignatures
    <3>4. ValidSignatures(e)
      BY <1>3, <1>11, <2>2, <3>3, FewerStayValid
    <3> QED
      BY <1>3, <1>5, <1>6, <3>4, FewerStayValid
  <2>3. ValidSignatures(tx) /\ (clears = TRUE \/ Covered(c) = Covered(tx)) => ValidSignatures(c)
    BY <2>1, <2>2
  <2> QED
    BY <1>5, <1>8, <1>10, <2>1, <2>3, QuietSigns
<1>13. CASE c.thrown = FALSE
  <2>1. PICK t : t = [c EXCEPT !.outputAmount = None, !.changeIndex = None]
    OBVIOUS
  <2>2. PICK new : new = UpdateChangeOutput(t)
    OBVIOUS
  <2>3. PICK clears \in BOOLEAN : clears = TRUE /\ Call(new, clears)
    <3>1. Call(new, TRUE)
      BY <1>1, <1>2, <1>4, <1>13, <2>1, <2>2, Zenon DEF ClearOutputs
    <3> QED
      BY <3>1, Zenon
  <2>4. t \in TxOf(S) /\ t.inputs = c.inputs /\ t.thrown = FALSE
    BY <1>5, <1>13, <2>1 DEF TxOf
  <2>5. Shaped(t, c) /\ NoneGiven(t)
    BY <1>5, <1>13, <2>4 DEF Shaped, NoneGiven
  <2>6. new \in TxOf(S) /\ Shaped(new, t) /\ (NoneGiven(new) \/ FewerSignatures(new, t))
    BY <2>2, <2>4, UpdateSigns DEF BuildInv
  <2>7. NoneGiven(new)
    BY <2>5, <2>6, NoneStaysNone
  <2>8. Shaped(new, tx)
    BY <1>8, <2>5, <2>6, ShapedOn
  <2> QED
    BY <1>10, <2>3, <2>6, <2>7, <2>8, QuietSigns
<1>14. c.thrown \in BOOLEAN
  BY <1>5 DEF TxOf
<1> QED
  BY <1>12, <1>13, <1>14

\* Outputs in another order, with the inputs as they are.
LEMMA SortOutputsSigns ==
    ASSUME NEW S, BuildInv(S), tx' \in TxOf(S), SignaturesInv,
           NEW p \in Orders(Len(tx.outputs)), SortOutputs(p)
    PROVE  SignaturesInv'
<1>1. PICK outs : outs = [i \in DOMAIN p |-> tx.outputs[p[i]]]
  OBVIOUS
<1>2. PICK d : d = NewOutputOrder(tx, outs)
  OBVIOUS
<1>3. d \in TxOf(S) /\ IsReordered(d, tx, p)
  BY <1>1, <1>2, NewOutputOrderFacts DEF BuildInv
<1>4. PICK clears \in BOOLEAN : clears = FALSE /\ Call(d, clears)
  <2>1. Call(d, FALSE)
    BY <1>1, <1>2, Zenon DEF SortOutputs
  <2> QED
    BY <2>1, Zenon
<1>5. pending' = pending
  BY DEF SortOutputs
<1>6. \A s \in pending' : Applicable(s)
  BY <1>5, PendingStays
<1>7. tx \in TxOf(S) /\ d.inputs = tx.inputs /\ d.nLockTime = tx.nLockTime
  BY <1>3 DEF BuildInv, IsReordered
<1>8. Shaped(d, tx)
  BY <1>7 DEF Shaped
<1>9. ASSUME ValidSignatures(tx), Covered(d) = Covered(tx) PROVE ValidSignatures(d)
  <2>1. d.outputs = tx.outputs
    BY <1>3, <1>7, <1>9, CoveredSame
  <2>2. SameCover(d, tx)
    BY <1>7, <2>1 DEF SameCover
  <2>3. FewerSignatures(d, tx)
    BY <1>7, <2>2 DEF FewerSignatures
  <2> QED
    BY <1>3, <1>7, <1>9, <2>3, FewerStayValid
<1>10. ValidSignatures(tx) /\ (clears = TRUE \/ Covered(d) = Covered(tx)) => ValidSignatures(d)
  BY <1>4, <1>9
<1> QED
  BY <1>3, <1>4, <1>6, <1>8, <1>10, QuietSigns

LEMMA SortSigns ==
    ASSUME NEW S, BuildInv(S), tx' \in TxOf(S), SignaturesInv,
           NEW p \in Orders(Len(tx.outputs)), NEW q \in Orders(Len(tx.inputs)), Sort(p, q)
    PROVE  SignaturesInv'
<1>1. PICK before \in Seq(InputsOf(S)), n \in Nat :
          before = tx.inputs /\ n = Len(before) /\ DOMAIN before = 1..n
  BY DEF BuildInv, TxOf
<1>2. PICK ins : ins = [i \in DOMAIN q |-> before[q[i]]]
  OBVIOUS
<1>3. ins \in Seq(InputsOf(S)) /\ IsOrder(ins, before, q)
  <2>1. q \in Orders(Len(before))
    BY <1>1
  <2> QED
    BY <1>2, <2>1, Ordered
<1>4. Len(ins) = n /\ \A i \in 1..n : q[i] \in 1..n /\ ins[i] = before[q[i]]
  BY <1>1, <1>3 DEF IsOrder
<1>5. PICK e : e = [tx EXCEPT !.inputs = ins]
  OBVIOUS
<1>6. e \in TxOf(S) /\ e.inputs = ins /\ e.outputs = tx.outputs /\ e.nLockTime = tx.nLockTime
  BY <1>3, <1>5 DEF BuildInv, TxOf
<1>7. PICK c : c = ClearSignatures(e)
  OBVIOUS
<1>8. c \in TxOf(S) /\ c.outputs = tx.outputs /\ c.nLockTime = tx.nLockTime
      /\ (c.thrown = FALSE => NoneGiven(c))
  BY <1>6, <1>7, ClearedFacts, UnsignedGivesNone DEF BuildInv
<1>9. FewerSignatures(c, e)
  BY <1>6, <1>7, ClearSigns DEF BuildInv
<1>10. SpentOnce(tx) /\ InputsFit(tx) /\ pending' = pending /\ tx \in TxOf(S)
  BY DEF SignaturesInv, InputsInv, Sort, BuildInv
<1>11. \A s \in pending' : Applicable(s)
  BY <1>10, PendingStays
<1>12. SpentOnce(e)
  <2>1. \A k, l \in 1..n : before[k].utxo = before[l].utxo => k = l
    BY <1>1, <1>10 DEF SpentOnce
  <2>2. \A i, j \in 1..n : q[i] = q[j] => i = j
    BY <1>1 DEF Orders
  <2>3. ASSUME NEW i \in 1..n, NEW j \in 1..n, ins[i].utxo = ins[j].utxo PROVE i = j
    <3>1. q[i] = q[j]
      BY <1>4, <2>1, <2>3
    <3> QED
      BY <2>2, <3>1
  <2> QED
    BY <1>4, <1>6, <2>3 DEF SpentOnce
<1>13. InputsFit(e)
  <2> SUFFICES ASSUME NEW i \in 1..n, NEW x, x = ins[i]
               PROVE  /\ DOMAIN x.signatures = DOMAIN Utxos[x.utxo].keys
                      /\ x.kind = "base" \/ x.kind = Utxos[x.utxo].kind
    BY <1>4, <1>6, Zenon DEF InputsFit, KeysOf
  <2>1. x = tx.inputs[q[i]] /\ q[i] \in 1..Len(tx.inputs)
    BY <1>1, <1>4
  <2> QED
    BY <1>10, <2>1, Zenon DEF InputsFit, KeysOf
<1>14. InputsFit(c) /\ SpentOnce(c)
  BY <1>9, <1>12, <1>13, SameCoverShaped, ShapedFits DEF FewerSignatures
<1>15. PICK outs : outs = [i \in DOMAIN p |-> tx.outputs[p[i]]]
  OBVIOUS
<1>16. IF c.thrown THEN Call(c, FALSE) ELSE Call(NewOutputOrder(c, outs), TRUE)
  <2>1. c = ClearSignatures([tx EXCEPT !.inputs = [i \in DOMAIN q |-> tx.inputs[q[i]]]])
    BY <1>1, <1>2, <1>5, <1>7
  <2> QED
    BY <1>15, <2>1, Zenon DEF Sort
<1>17. CASE c.thrown = TRUE
  <2>1. PICK clears \in BOOLEAN : clears = FALSE /\ Call(c, clears)
    <3>1. Call(c, FALSE)
      BY <1>16, <1>17, Zenon
    <3> QED
      BY <3>1, Zenon
  <2>2. ASSUME ValidSignatures(tx), Covered(c) = Covered(tx)
        PROVE  ValidSignatures(c)
    <3>1. \A i \in 1..n : c.inputs[i].utxo = before[i].utxo
      BY <1>1, <1>8, <1>10, <2>2, CoveredSame
    <3>2. \A i \in 1..n : c.inputs[i].utxo = ins[i].utxo
      BY <1>4, <1>6, <1>9 DEF FewerSignatures, SameCover
    <3>3. \A i \in 1..n : ins[i] = before[i]
      <4> SUFFICES ASSUME NEW i \in 1..n PROVE ins[i] = before[i]
        OBVIOUS
      <4>1. before[q[i]].utxo = before[i].utxo /\ q[i] \in 1..n
        BY <1>4, <3>1, <3>2
      <4>2. q[i] = i
        BY <1>1, <1>10, <4>1 DEF SpentOnce
      <4> QED
        BY <1>4, <4>2
    <3>4. SameCover(e, tx)
      BY <1>1, <1>4, <1>6, <3>3 DEF SameCover
    <3>5. FewerSignatures(e, tx)
      BY <1>1, <1>6, <3>3, <3>4 DEF FewerSignatures
    <3>6. ValidSignatures(e)
      BY <1>6, <1>10, <2>2, <3>5, FewerStayValid
    <3> QED
      BY <1>6, <1>8, <1>9, <3>6, FewerStayValid
  <2>3. ValidSignatures(tx) /\ (clears = TRUE \/ Covered(c) = Covered(tx)) => ValidSignatures(c)
    BY <2>1, <2>2
  <2> QED
    BY <1>8, <1>11, <1>14, <2>1, <2>3, CallSigns
<1>18. CASE c.thrown = FALSE
  <2>1. PICK d : d = NewOutputOrder(c, outs)
    OBVIOUS
  <2>2. p \in Orders(Len(c.outputs)) /\ outs = [i \in DOMAIN p |-> c.outputs[p[i]]]
    BY <1>8, <1>15
  <2>3. d \in TxOf(S) /\ d.inputs = c.inputs
    BY <1>8, <2>1, <2>2, NewOutputOrderFacts DEF IsReordered
  <2>4. PICK clears \in BOOLEAN : clears = TRUE /\ Call(d, clears)
    <3>1. Call(d, TRUE)
      BY <1>16, <1>18, <2>1, Zenon
    <3> QED
      BY <3>1, Zenon
  <2>5. InputsFit(d) /\ SpentOnce(d) /\ NoneGiven(d)
    BY <1>8, <1>14, <1>18, <2>3 DEF InputsFit, SpentOnce, NoneGiven
  <2> QED
    BY <1>11, <2>3, <2>4, <2>5, CallSigns
<1>19. c.thrown \in BOOLEAN
  BY <1>8 DEF TxOf
<1> QED
  BY <1>17, <1>18, <1>19

LEMMA LockUntilSigns ==
    ASSUME NEW S, BuildInv(S), tx' \in TxOf(S), SignaturesInv,
           \/ \E time \in LockTimes : LockUntil(time)
           \/ EnableRBF
    PROVE  SignaturesInv'
<1>1. PICK before \in Seq(InputsOf(S)), n \in Nat :
          before = tx.inputs /\ n = Len(before) /\ DOMAIN before = 1..n
  BY DEF BuildInv, TxOf
<1>2. \A i \in 1..n : before[i] \in InputsOf(S)
  BY <1>1
<1> DEFINE Sets(t) ==
             /\ Call(t, FALSE) /\ pending' = pending
             /\ t \in TxOf(S) /\ t.outputs = tx.outputs
             /\ DOMAIN t.inputs = 1..n
             /\ \A i \in 1..n : \E seq : t.inputs[i] = [before[i] EXCEPT !.seq = seq]
<1>3. PICK t : Sets(t)
  <2>1. CASE \E time \in LockTimes : LockUntil(time)
    <3>1. PICK time \in LockTimes : LockUntil(time)
      BY <2>1
    <3>2. time \in Nat
      BY BuildAssumption
    <3>3. PICK t : t = [tx EXCEPT !.nLockTime = time,
                       !.inputs = [i \in DOMAIN @ |->
                                      IF @[i].seq = "final" THEN [@[i] EXCEPT !.seq = "locktime"]
                                      ELSE @[i]]]
      OBVIOUS
    <3>4. Call(t, FALSE) /\ pending' = pending
      BY <3>1, <3>3, Zenon DEF LockUntil
    <3>5. PICK ins : ins = [i \in 1..n |-> IF before[i].seq = "final"
                                           THEN [before[i] EXCEPT !.seq = "locktime"]
                                           ELSE before[i]]
      OBVIOUS
    <3>6. \A i \in 1..n : ins[i] \in InputsOf(S) /\ \E seq : ins[i] = [before[i] EXCEPT !.seq = seq]
      <4> SUFFICES ASSUME NEW i \in 1..n, NEW x \in InputsOf(S), x = before[i]
                   PROVE  ins[i] \in InputsOf(S) /\ \E seq : ins[i] = [x EXCEPT !.seq = seq]
        BY <1>2, Zenon
      <4>1. ins[i] = [x EXCEPT !.seq = IF x.seq = "final" THEN "locktime" ELSE x.seq]
        BY <3>5 DEF InputsOf
      <4>2. (IF x.seq = "final" THEN "locktime" ELSE x.seq) \in Seqs
        BY DEF InputsOf, Seqs
      <4> QED
        BY <4>1, <4>2 DEF InputsOf
    <3>7. ins \in Seq(InputsOf(S)) /\ DOMAIN ins = 1..n
      <4>1. \A i \in 1..n : ins[i] \in InputsOf(S)
        BY <3>6
      <4>2. ins = [i \in 1..n |-> ins[i]]
        BY <3>5
      <4> QED
        BY <4>1, <4>2
    <3>8. t = [tx EXCEPT !.nLockTime = time, !.inputs = ins]
      BY <1>1, <3>3, <3>5 DEF BuildInv, TxOf
    <3>9. t \in TxOf(S) /\ t.outputs = tx.outputs /\ t.inputs = ins
      BY <3>2, <3>7, <3>8 DEF BuildInv, TxOf
    <3>10. DOMAIN t.inputs = 1..n
           /\ \A i \in 1..n : \E seq : t.inputs[i] = [before[i] EXCEPT !.seq = seq]
      BY <3>6, <3>7, <3>9, Zenon
    <3>11. Sets(t)
      BY <3>4, <3>9, <3>10, Zenon
    <3> HIDE DEF Sets
    <3> QED
      BY <3>11, Zenon
  <2>2. CASE EnableRBF
    <3>1. PICK t : t = [tx EXCEPT !.inputs = [i \in DOMAIN @ |-> [@[i] EXCEPT !.seq = "rbf"]]]
      OBVIOUS
    <3>2. Call(t, FALSE) /\ pending' = pending
      BY <2>2, <3>1, Zenon DEF EnableRBF
    <3>3. PICK ins : ins = [i \in 1..n |-> [before[i] EXCEPT !.seq = "rbf"]]
      OBVIOUS
    <3>4. \A i \in 1..n : ins[i] \in InputsOf(S) /\ \E seq : ins[i] = [before[i] EXCEPT !.seq = seq]
      <4> SUFFICES ASSUME NEW i \in 1..n, NEW x \in InputsOf(S), x = before[i]
                   PROVE  ins[i] \in InputsOf(S) /\ \E seq : ins[i] = [x EXCEPT !.seq = seq]
        BY <1>2, Zenon
      <4>1. ins[i] = [x EXCEPT !.seq = "rbf"]
        BY <3>3
      <4> QED
        BY <4>1 DEF InputsOf, Seqs
    <3>5. ins \in Seq(InputsOf(S)) /\ DOMAIN ins = 1..n
      BY <3>3, <3>4
    <3>6. t = [tx EXCEPT !.inputs = ins]
      BY <1>1, <3>1, <3>3 DEF BuildInv, TxOf
    <3>7. t \in TxOf(S) /\ t.outputs = tx.outputs /\ t.inputs = ins
      BY <3>5, <3>6 DEF BuildInv, TxOf
    <3>8. DOMAIN t.inputs = 1..n
          /\ \A i \in 1..n : \E seq : t.inputs[i] = [before[i] EXCEPT !.seq = seq]
      BY <3>4, <3>5, <3>7, Zenon
    <3>9. Sets(t)
      BY <3>2, <3>7, <3>8, Zenon
    <3> HIDE DEF Sets
    <3> QED
      BY <3>9, Zenon
  <2> HIDE DEF Sets
  <2> QED
    BY <2>1, <2>2, Zenon
<1>4. \A i \in 1..n :
          /\ t.inputs[i].utxo = before[i].utxo /\ t.inputs[i].kind = before[i].kind
          /\ t.inputs[i].info = before[i].info /\ t.inputs[i].signatures = before[i].signatures
  <2> SUFFICES ASSUME NEW i \in 1..n, NEW x \in InputsOf(S), x = before[i]
               PROVE  /\ t.inputs[i].utxo = x.utxo /\ t.inputs[i].kind = x.kind
                      /\ t.inputs[i].info = x.info /\ t.inputs[i].signatures = x.signatures
    BY <1>2, Zenon
  <2>1. PICK seq : t.inputs[i] = [x EXCEPT !.seq = seq]
    BY <1>3
  <2> QED
    BY <2>1 DEF InputsOf
<1>5. Len(t.inputs) = n
  BY <1>3 DEF TxOf
<1>6. Shaped(t, tx)
  BY <1>1, <1>4, <1>5 DEF Shaped
<1>7. tx \in TxOf(S)
  BY DEF BuildInv
<1>8. \A s \in pending' : Applicable(s)
  BY <1>3, PendingStays
<1>9. ASSUME ValidSignatures(tx), Covered(t) = Covered(tx) PROVE ValidSignatures(t)
  <2>1. t.nLockTime = tx.nLockTime /\ \A i \in 1..n : t.inputs[i].seq = before[i].seq
    BY <1>1, <1>3, <1>7, <1>9, CoveredSame
  <2>2. SameCover(t, tx)
    BY <1>1, <1>3, <1>4, <1>5, <2>1 DEF SameCover
  <2>3. FewerSignatures(t, tx)
    BY <1>1, <1>4, <2>2 DEF FewerSignatures
  <2> QED
    BY <1>3, <1>7, <1>9, <2>3, FewerStayValid
<1>10. PICK clears \in BOOLEAN : clears = FALSE /\ Call(t, clears)
  BY <1>3, Zenon
<1>11. ValidSignatures(tx) /\ (clears = TRUE \/ Covered(t) = Covered(tx)) => ValidSignatures(t)
  BY <1>9, <1>10
<1> QED
  BY <1>3, <1>6, <1>8, <1>10, <1>11, QuietSigns

LEMMA MoreSignaturesInv ==
    ASSUME NEW S, BuildInv(S), NEW R, S \subseteq R
    PROVE  BuildInv(R)
<1>1. tx \in TxOf(R) /\ None \in R
  BY MoreSignaturesTx DEF BuildInv
<1> QED
  BY <1>1 DEF BuildInv

LEMMA SignWithSigns ==
    ASSUME NEW S, BuildInv(S), tx' \in TxOf(S), SignaturesInv, NEW k, SignWith(k)
    PROVE  SignaturesInv'
<1>1. PICK R : R = S \cup {s.signature : s \in OwnSignatures(tx, k)}
  OBVIOUS
<1>2. S \subseteq R /\ \A s \in OwnSignatures(tx, k) : s.signature \in R
  BY <1>1
<1>3. tx \in TxOf(R) /\ tx' \in TxOf(R) /\ BuildInv(R)
  <2>1. PICK after : after = tx'
    OBVIOUS
  <2>2. after \in TxOf(R)
    BY <1>2, <2>1, MoreSignaturesTx
  <2>3. BuildInv(R)
    BY <1>2, MoreSignaturesInv
  <2> QED
    BY <2>1, <2>2, <2>3 DEF BuildInv
<1>4. PICK d : d = SignedBy(tx, k)
  OBVIOUS
<1>5. d \in TxOf(R) /\ Signing(d, tx)
  BY <1>2, <1>3, <1>4, SignedByFacts
<1>6. PICK b \in BOOLEAN : b = FALSE
  OBVIOUS
<1>7. PICK t : t = [d EXCEPT !.thrown = b]
  OBVIOUS
<1>8. t \in TxOf(R) /\ t.inputs = d.inputs /\ t.outputs = d.outputs /\ t.nLockTime = d.nLockTime
  BY <1>5, <1>6, <1>7 DEF TxOf
<1>9. PICK clears \in BOOLEAN : clears = TRUE /\ Call(t, clears)
  <2>1. Call([d EXCEPT !.thrown = FALSE], TRUE)
    BY <1>4, Zenon DEF SignWith, SignedBy
  <2>2. Call(t, TRUE)
    BY <1>6, <1>7, <2>1, Zenon
  <2> QED
    BY <2>2, Zenon
<1>10. pending' = pending
  BY DEF SignWith
<1>11. \A s \in pending' : Applicable(s)
  BY <1>10, PendingStays
<1>12. SameCover(t, d) /\ FewerSignatures(t, d)
  <2>1. SameCover(t, d)
    BY <1>8 DEF SameCover
  <2> QED
    BY <1>8, <2>1 DEF FewerSignatures
<1>13. Shaped(t, tx)
  <2>1. SameCover(t, tx)
    BY <1>5, <1>12, SameCoverOn DEF Signing
  <2> QED
    BY <2>1, SameCoverShaped
<1>14. ValidSignatures(tx) => ValidSignatures(t)
  <2>1. ValidSignatures(tx) => ValidSignatures(d)
    BY <1>5 DEF Signing
  <2> QED
    BY <1>5, <1>8, <1>12, <2>1, FewerStayValid
<1> QED
  BY <1>3, <1>8, <1>9, <1>11, <1>13, <1>14, QuietSigns

LEMMA CoveredUtxo ==
    ASSUME NEW S, NEW t \in TxOf(S), NEW i \in 1..Len(t.inputs), NEW type, CoversAll(type), NEW script,
           NEW over, over = Digest(t, type, i, script)
    PROVE  over.inputs[i].utxo = t.inputs[i].utxo
<1>1. PICK n \in Nat : n = Len(t.inputs) /\ DOMAIN t.inputs = 1..n
  BY DEF TxOf
<1>2. type.base = "ALL" /\ type.anyoneCanPay = FALSE
  BY DEF CoversAll
<1>3. PICK covered : covered = CoveredInputs(t, type, i, script)
  OBVIOUS
<1>4. over.inputs = covered
  <2>1. ~SinglePastTheEnd(t, type, i)
    BY <1>2 DEF SinglePastTheEnd
  <2>2. over = [inputs   |-> covered, outputs  |-> CoveredOutputs(t, type, i),
                lockTime |-> t.nLockTime, type     |-> type]
    BY <1>3, <2>1, Zenon DEF Digest
  <2> QED
    BY <2>2
<1>5. covered = [j \in 1..n |-> [utxo   |-> t.inputs[j].utxo,
                                 seq    |-> IF type.base = "ALL" \/ j = i
                                            THEN t.inputs[j].seq ELSE "zero",
                                 script |-> IF j = i THEN RemoveCodeseparators(script) ELSE <<>>]]
  BY <1>1, <1>2, <1>3, Zenon DEF CoveredInputs
<1> QED
  BY <1>1, <1>4, <1>5

LEMMA OwnApplicable ==
    ASSUME NEW S, NEW t \in TxOf(S), NEW k, NEW s \in OwnSignatures(t, k)
    PROVE  Applicable(s)
<1>1. PICK i \in Wants(t, k) : s = Own(t, k, i)
  BY DEF OwnSignatures
<1>2. i \in 1..Len(t.inputs) /\ \E n \in DOMAIN KeysOf(t.inputs[i]) : KeysOf(t.inputs[i])[n] = k
  BY <1>1 DEF Wants
<1>3. PICK type : type = [base |-> "ALL", anyoneCanPay |-> FALSE]
  OBVIOUS
<1>4. CoversAll(type)
  BY <1>3 DEF CoversAll
<1>5. PICK over : over = Digest(t, type, i, SubscriptOf(t.inputs[i]))
  OBVIOUS
<1>6. s.inputIndex = i /\ s.key = k /\ s.signature.type = type /\ s.signature.over = over
  BY <1>1, <1>3, <1>5 DEF Own, Sign, Signed
<1>7. over.inputs[i].utxo = t.inputs[i].utxo
  BY <1>2, <1>4, <1>5, CoveredUtxo
<1>8. OfOwnKey(s)
  BY <1>2, <1>6, <1>7, Zenon DEF OfOwnKey, KeysOf
<1>9. Formed(s.signature)
  BY <1>1, OwnIsFormed
<1> QED
  BY <1>4, <1>6, <1>8, <1>9 DEF Applicable

LEMMA GetSignaturesSigns ==
    ASSUME NEW S, BuildInv(S), SignaturesInv, NEW k, GetSignatures(k)
    PROVE  SignaturesInv'
<1>1. PICK sigs : sigs = SignaturesBy(tx, k)
  OBVIOUS
<1>2. tx \in TxOf(S)
  BY DEF BuildInv
<1>3. sigs \in Seq(OwnSignatures(tx, k))
  BY <1>1, <1>2, SignaturesByFacts
<1>4. pending' = {sigs[i] : i \in DOMAIN sigs}
  BY <1>1, Zenon DEF GetSignatures, ToSet
<1>5. pending' \subseteq OwnSignatures(tx, k)
  BY <1>3, <1>4
<1>6. \A s \in pending' : Applicable(s)
  BY <1>2, <1>5, OwnApplicable
<1>7. tx' = tx /\ careless' = careless
  BY DEF GetSignatures
<1>8. InputsInv'
  BY <1>6, <1>7 DEF SignaturesInv, InputsInv, InputsFit, SpentOnce
<1>9. careless' = FALSE => ValidSignatures(tx')
  BY <1>7 DEF SignaturesInv
<1> QED
  BY <1>7, <1>8, <1>9 DEF SignaturesInv

LEMMA ApplySignatureSigns ==
    ASSUME NEW S, BuildInv(S), tx' \in TxOf(S), SignaturesInv, NEW s \in pending, ApplySignature(s)
    PROVE  SignaturesInv'
<1>1. PICK R : R = S \cup {s.signature}
  OBVIOUS
<1>2. S \subseteq R /\ s.signature \in R
  BY <1>1
<1>3. tx \in TxOf(R) /\ tx' \in TxOf(R) /\ BuildInv(R) /\ tx.thrown = FALSE
  <2>1. PICK after : after = tx'
    OBVIOUS
  <2>2. after \in TxOf(R)
    BY <1>2, <2>1, MoreSignaturesTx
  <2>3. BuildInv(R)
    BY <1>2, MoreSignaturesInv
  <2> QED
    BY <2>1, <2>2, <2>3 DEF BuildInv
<1>4. PICK d : d = AddSignature(tx, s)
  OBVIOUS
<1>5. /\ d \in TxOf(R)
      /\ d.thrown = FALSE => IsSigned(d, tx, s)
  BY <1>2, <1>3, <1>4, AddSignatureFacts
<1>6. IsSigned(d, tx, s)
  <2>1. ~d.thrown
    BY <1>4, Zenon DEF ApplySignature
  <2> QED
    BY <1>5, <2>1 DEF TxOf
<1>7. PICK clears \in BOOLEAN : clears = TRUE /\ Call(d, clears)
  BY <1>4, Zenon DEF ApplySignature
<1>8. \A r \in pending : Applicable(r)
  BY DEF SignaturesInv, InputsInv
<1>9. \A r \in pending' : Applicable(r)
  <2>1. pending' \subseteq pending
    BY DEF ApplySignature
  <2> QED
    BY <1>8, <2>1
<1>10. Shaped(d, tx)
  BY <1>6, SameCoverShaped DEF IsSigned
<1>11. ASSUME ValidSignatures(tx) PROVE ValidSignatures(d)
  <2>1. CASE \E n \in DOMAIN KeysOf(tx.inputs[s.inputIndex]) :
                 KeysOf(tx.inputs[s.inputIndex])[n] = s.key
    <3>1. Formed(s.signature)
      BY <1>8 DEF Applicable
    <3> QED
      BY <1>3, <1>5, <1>6, <1>11, <2>1, <3>1, SignedKeepsValid
  <2>2. CASE ~\E n \in DOMAIN KeysOf(tx.inputs[s.inputIndex]) :
                  KeysOf(tx.inputs[s.inputIndex])[n] = s.key
    <3>1. PICK k : k = s.inputIndex
      OBVIOUS
    <3>2. k \in 1..Len(tx.inputs)
      BY <1>6, <3>1 DEF IsSigned
    <3>3. ~VerifySignature(tx, s.signature, Key(s.key), k, SubscriptOf(tx.inputs[k]))
      <4> SUFFICES ASSUME VerifySignature(tx, s.signature, Key(s.key), k, SubscriptOf(tx.inputs[k]))
                   PROVE  FALSE
        OBVIOUS
      <4>1. PICK type, over : type = s.signature.type /\ over = s.signature.over
        OBVIOUS
      <4>2. over = Digest(tx, type, k, SubscriptOf(tx.inputs[k]))
        BY <4>1, Zenon DEF VerifySignature
      <4>3. CoversAll(type) /\ OfOwnKey(s)
        BY <1>8, <4>1 DEF Applicable
      <4>4. over.inputs[k].utxo = tx.inputs[k].utxo
        BY <1>3, <3>2, <4>2, <4>3, CoveredUtxo
      <4> QED
        BY <2>2, <3>1, <4>1, <4>3, <4>4, Zenon DEF OfOwnKey, KeysOf
    <3>4. \A i \in 1..Len(tx.inputs) : \A j \in DOMAIN tx.inputs[i].signatures :
              d.inputs[i].signatures[j] = tx.inputs[i].signatures[j]
      BY <1>6, <3>1, <3>3, Zenon DEF IsSigned
    <3>5. FewerSignatures(d, tx)
      BY <1>6, <3>4 DEF IsSigned, FewerSignatures
    <3> QED
      BY <1>3, <1>5, <1>11, <3>5, FewerStayValid
  <2> QED
    BY <2>1, <2>2
<1> QED
  BY <1>3, <1>5, <1>7, <1>9, <1>10, <1>11, QuietSigns

LEMMA SameInputsSign ==
    ASSUME NEW S, BuildInv(S), tx' \in TxOf(S), SignaturesInv, pending' = pending,
           NEW t \in TxOf(S), Call(t, TRUE), t.inputs = tx.inputs, t.outputs = tx.outputs,
           t.nLockTime = tx.nLockTime
    PROVE  SignaturesInv'
<1>1. PICK clears \in BOOLEAN : clears = TRUE /\ Call(t, clears)
  BY Zenon
<1>2. tx \in TxOf(S)
  BY DEF BuildInv
<1>3. SameCover(t, tx)
  BY DEF SameCover
<1>4. FewerSignatures(t, tx) /\ Shaped(t, tx)
  BY <1>3, SameCoverShaped DEF FewerSignatures
<1>5. ValidSignatures(tx) => ValidSignatures(t)
  BY <1>2, <1>4, FewerStayValid
<1>6. \A s \in pending' : Applicable(s)
  BY PendingStays
<1> QED
  BY <1>1, <1>4, <1>5, <1>6, QuietSigns

LEMMA QueryReloadSign ==
    ASSUME NEW S, BuildInv(S), tx' \in TxOf(S), SignaturesInv, Query \/ Reload
    PROVE  SignaturesInv'
<1>1. CASE Query
  <2>1. PICK g : g = GetAmounts(tx)
    OBVIOUS
  <2>2. g \in TxOf(S) /\ SameLists(g, tx)
    BY <2>1, AmountsFacts DEF BuildInv
  <2>3. Call(g, TRUE) /\ pending' = pending
    BY <1>1, <2>1, Zenon DEF Query
  <2> QED
    BY <2>2, <2>3, SameInputsSign DEF SameLists
<1>2. CASE Reload
  <2>1. PICK c : c = Copy(tx)
    OBVIOUS
  <2>2. c \in TxOf(S) /\ c.inputs = tx.inputs /\ c.outputs = tx.outputs
        /\ c.nLockTime = tx.nLockTime
    <3>1. PICK k \in Nat \cup {None} : k = IF tx.changeIndex = 1 THEN None ELSE tx.changeIndex
      BY DEF BuildInv, TxOf
    <3>2. PICK f \in Nat \cup {None} : f = IF tx.fee = 0 THEN None ELSE tx.fee
      BY DEF BuildInv, TxOf
    <3>3. c = [tx EXCEPT !.changeIndex = k, !.fee = f, !.feePerKb = None, !.inputAmount = None,
                         !.outputAmount = None]
      BY <2>1, <3>1, <3>2 DEF Copy, BuildInv, TxOf
    <3>4. /\ tx \in TxOf(S) /\ k \in Nat \cup {None} /\ f \in Nat \cup {None}
      BY <3>1, <3>2 DEF BuildInv
    <3>5. c \in TxOf(S)
      BY <3>3, <3>4 DEF TxOf
    <3>6. c.inputs = tx.inputs /\ c.outputs = tx.outputs /\ c.nLockTime = tx.nLockTime
      BY <3>3, <3>4 DEF TxOf
    <3> QED
      BY <3>5, <3>6
  <2>3. Call(c, TRUE) /\ pending' = pending
    BY <1>2, <2>1, Zenon DEF Reload
  <2> QED
    BY <2>2, <2>3, SameInputsSign
<1> QED
  BY <1>1, <1>2

LEMMA SignaturesStart == BuildInit => SignaturesInv
<1> SUFFICES ASSUME BuildInit PROVE SignaturesInv
  OBVIOUS
<1>1. PICK t : t = tx
  OBVIOUS
<1>2. t.inputs = <<>> /\ pending = {} /\ careless = FALSE
  BY <1>1 DEF BuildInit
<1>3. Len(t.inputs) = 0
  BY <1>2
<1>4. InputsFit(t) /\ SpentOnce(t) /\ ValidSignatures(t)
  BY <1>3 DEF InputsFit, SpentOnce, ValidSignatures
<1> QED
  BY <1>1, <1>2, <1>4 DEF SignaturesInv, InputsInv

LEMMA SignaturesRest == SignaturesInv /\ UNCHANGED buildVars => SignaturesInv'
BY DEF SignaturesInv, InputsInv, buildVars

LEMMA SignaturesGoOn ==
    ASSUME BuildSafe, BuildSafe', SignaturesInv, BuildNext
    PROVE  SignaturesInv'
<1>1. PICK S : BuildInv(S)
  BY DEF BuildSafe
<1>2. PICK R : tx' \in TxOf(R)
  BY DEF BuildSafe, BuildInv
<1>3. PICK Q : Q = S \cup R
  OBVIOUS
<1>4. BuildInv(Q) /\ tx' \in TxOf(Q)
  <2>1. PICK after : after = tx'
    OBVIOUS
  <2>2. after \in TxOf(Q)
    BY <1>2, <1>3, <2>1, MoreSignaturesTx
  <2> QED
    BY <1>1, <1>3, <2>1, <2>2, MoreSignaturesInv
<1>5. CASE \E u \in DOMAIN Utxos, info \in BOOLEAN : From(u, info)
  BY <1>4, <1>5, FromSigns
<1>6. CASE \E i \in DOMAIN tx.inputs : RemoveInput(i)
  BY <1>4, <1>6, RemoveInputSigns
<1>7. CASE (\E p \in Payments : AddOutput(p)) \/ (\E i \in DOMAIN tx.outputs : RemoveOutput(i))
  BY <1>4, <1>7, OutputsSign
<1>8. CASE ClearOutputs
  BY <1>4, <1>8, ClearOutputsSigns
<1>9. CASE Change \/ (\E amount \in Fees : SetFee(amount)) \/ (\E rate \in Rates : FeePerKb(rate))
  BY <1>4, <1>9, SettingsSign
<1>10. CASE \E p \in Orders(Len(tx.outputs)) :
                SortOutputs(p) \/ \E q \in Orders(Len(tx.inputs)) : Sort(p, q)
  BY <1>4, <1>10, SortOutputsSigns, SortSigns
<1>11. CASE (\E time \in LockTimes : LockUntil(time)) \/ EnableRBF
  BY <1>4, <1>11, LockUntilSigns
<1>12. CASE \E k \in SignerKeys : SignWith(k) \/ GetSignatures(k)
  BY <1>4, <1>12, SignWithSigns, GetSignaturesSigns
<1>13. CASE \E s \in pending : ApplySignature(s)
  BY <1>4, <1>13, ApplySignatureSigns
<1>14. CASE Query \/ Reload
  BY <1>4, <1>14, QueryReloadSign
<1> QED
  BY <1>5, <1>6, <1>7, <1>8, <1>9, <1>10, <1>11, <1>12, <1>13, <1>14, Zenon DEF BuildNext

\* The signatures in the inputs are of the keys in whose places they are, and cover the
\* transaction as it is now, as long as no call that clears none has changed what they
\* cover: whatever calls come between signing, getting and applying signatures.
THEOREM SignaturesStayValid == BuildSpec => [](careless = FALSE => ValidSignatures(tx))
<1>1. BuildSafe /\ BuildSafe' /\ SignaturesInv /\ [BuildNext]_buildVars => SignaturesInv'
  BY SignaturesRest, SignaturesGoOn
<1>2. SignaturesInv => (careless = FALSE => ValidSignatures(tx))
  BY DEF SignaturesInv
<1> QED
  BY <1>1, <1>2, SignaturesStart, BuildsSafely, PTL DEF BuildSpec
-----------------------------------------------------------------------------
(* What an input is given in all, and what it is worth. *)

\* The sequence of the signatures among the first k places, in the order of the places.
InPlaces(g, sigs, k) ==
    \E f \in [1..Len(g) -> 1..k] :
        /\ \A a, b \in 1..Len(g) : a < b => f[a] < f[b]
        /\ \A a \in 1..Len(g) : g[a] = sigs[f[a]] /\ sigs[f[a]] # None

Filled(sigs, k) == {i \in 1..k : sigs[i] # None}

Gathered(g, sigs, k) == InPlaces(g, sigs, k) /\ Len(g) = Cardinality(Filled(sigs, k))

\* One place more.
LEMMA FilledMore ==
    ASSUME NEW sigs, NEW k \in Nat
    PROVE  /\ IsFiniteSet(Filled(sigs, k))
           /\ sigs[k + 1] = None => Filled(sigs, k + 1) = Filled(sigs, k)
           /\ sigs[k + 1] # None =>
                  Cardinality(Filled(sigs, k + 1)) = Cardinality(Filled(sigs, k)) + 1
<1>1. IsFiniteSet(1..k) /\ Filled(sigs, k) \in SUBSET (1..k)
  <2>1. k \in Int /\ 1 \in Int
    OBVIOUS
  <2> QED
    BY <2>1, FS_Interval DEF Filled
<1>2. IsFiniteSet(Filled(sigs, k))
  BY <1>1, FS_Subset
<1>3. ASSUME sigs[k + 1] = None PROVE Filled(sigs, k + 1) = Filled(sigs, k)
  BY <1>3 DEF Filled
<1>4. ASSUME sigs[k + 1] # None
      PROVE  Cardinality(Filled(sigs, k + 1)) = Cardinality(Filled(sigs, k)) + 1
  <2>1. Filled(sigs, k + 1) = Filled(sigs, k) \cup {k + 1} /\ k + 1 \notin Filled(sigs, k)
    BY <1>4 DEF Filled
  <2> QED
    BY <1>2, <2>1, FS_AddElement
<1> QED
  BY <1>2, <1>3, <1>4

LEMMA GatheredMore ==
    ASSUME NEW Y, NEW sigs, NEW k \in Nat, NEW g \in Seq(Y), Gathered(g, sigs, k),
           NEW z, z = sigs[k + 1], z \in Y \cup {None},
           NEW h, h = IF z = None THEN g ELSE Append(g, z)
    PROVE  Gathered(h, sigs, k + 1)
<1>1. PICK l \in Nat : l = Len(g)
  OBVIOUS
<1>2. PICK f \in [1..l -> 1..k] :
        /\ \A a, b \in 1..l : a < b => f[a] < f[b]
        /\ \A a \in 1..l : g[a] = sigs[f[a]] /\ sigs[f[a]] # None
  BY <1>1 DEF Gathered, InPlaces
<1>3. CASE z = None
  <2>1. h = g /\ Filled(sigs, k + 1) = Filled(sigs, k)
    BY <1>3, FilledMore
  <2>2. f \in [1..l -> 1..(k + 1)]
    BY <1>2
  <2>3. InPlaces(g, sigs, k + 1)
    BY <1>1, <1>2, <2>2, Zenon DEF InPlaces
  <2> QED
    BY <2>1, <2>3 DEF Gathered
<1>4. CASE z # None
  <2>1. h = Append(g, z) /\ z \in Y
    BY <1>4
  <2>2. PICK m \in Nat : m = l + 1
    OBVIOUS
  <2>3. Len(h) = m /\ h[m] = z /\ \A a \in 1..l : h[a] = g[a]
    BY <1>1, <2>1, <2>2
  <2>4. PICK e : e = [a \in 1..m |-> IF a = m THEN k + 1 ELSE f[a]]
    OBVIOUS
  <2>5. e[m] = k + 1 /\ \A a \in 1..l : e[a] = f[a] /\ f[a] \in 1..k
    <3>1. m \in 1..m /\ \A a \in 1..l : a \in 1..m /\ a # m
      BY <2>2
    <3> QED
      BY <1>2, <2>4, <3>1
  <2>6. \A a \in 1..m : a \in 1..l \/ a = m
    BY <2>2
  <2>7. e \in [1..m -> 1..(k + 1)]
    <3>1. \A a \in 1..m : e[a] \in 1..(k + 1)
      <4>1. k + 1 \in 1..(k + 1) /\ \A b \in 1..k : b \in 1..(k + 1)
        OBVIOUS
      <4> SUFFICES ASSUME NEW a \in 1..m PROVE e[a] \in 1..(k + 1)
        OBVIOUS
      <4>2. CASE a \in 1..l
        BY <2>5, <4>1, <4>2, Zenon
      <4>3. CASE a = m
        BY <2>5, <4>1, <4>3, Zenon
      <4> QED
        BY <2>6, <4>2, <4>3, Zenon
    <3>2. e = [a \in 1..m |-> e[a]]
      BY <2>4
    <3> QED
      BY <3>1, <3>2
  <2>8. \A a, b \in 1..m : a < b => e[a] < e[b]
    <3> SUFFICES ASSUME NEW a \in 1..m, NEW b \in 1..m, a < b PROVE e[a] < e[b]
      OBVIOUS
    <3>1. a \in 1..l
      BY <2>2
    <3>2. CASE b = m
      BY <2>5, <3>1, <3>2
    <3>3. CASE b \in 1..l
      BY <1>2, <2>5, <3>1, <3>3
    <3> QED
      BY <2>6, <3>2, <3>3
  <2>9. \A a \in 1..m : h[a] = sigs[e[a]] /\ sigs[e[a]] # None
    <3> SUFFICES ASSUME NEW a \in 1..m PROVE h[a] = sigs[e[a]] /\ sigs[e[a]] # None
      OBVIOUS
    <3>1. CASE a = m
      BY <1>4, <2>3, <2>5, <3>1
    <3>2. CASE a \in 1..l
      BY <1>2, <2>3, <2>5, <3>2
    <3> QED
      BY <2>6, <3>1, <3>2
  <2>10. InPlaces(h, sigs, k + 1)
    <3>1. e \in [1..Len(h) -> 1..(k + 1)]
      BY <2>3, <2>7, Zenon
    <3>2. \A a, b \in 1..Len(h) : a < b => e[a] < e[b]
      BY <2>3, <2>8, Zenon
    <3>3. \A a \in 1..Len(h) : h[a] = sigs[e[a]] /\ sigs[e[a]] # None
      BY <2>3, <2>9, Zenon
    <3> QED
      BY <3>1, <3>2, <3>3, Zenon DEF InPlaces
  <2>11. Cardinality(Filled(sigs, k + 1)) = Cardinality(Filled(sigs, k)) + 1
    BY <1>4, FilledMore
  <2>12. Len(h) = Cardinality(Filled(sigs, k + 1))
    BY <1>1, <2>2, <2>3, <2>11 DEF Gathered
  <2> QED
    BY <2>10, <2>12 DEF Gathered
<1> QED
  BY <1>3, <1>4

\* _createSignatures gives the signatures in the places, in the order of the places.
LEMMA CreatedFacts ==
    ASSUME NEW Y, NEW input, input.signatures \in Seq(Y \cup {None}), NEW n \in Nat,
           n = Len(input.signatures)
    PROVE  /\ CreateSignatures(input) \in Seq(Y)
           /\ Gathered(CreateSignatures(input), input.signatures, n)
<1>1. PICK sigs : sigs = input.signatures
  OBVIOUS
<1>2. DOMAIN sigs = 1..n /\ \A i \in 1..n : sigs[i] \in Y \cup {None}
  BY <1>1
<1> DEFINE A == Seq(Y)
           Turn(a, x) == IF x = None THEN a ELSE Append(a, x)
           F == [p \in A \X (1..n) |-> Turn(p[1], sigs[p[2]])]
           Iter(g) == g = [s \in SUBSET (DOMAIN sigs) |->
                              IF s = {} THEN <<>>
                              ELSE Turn(g[s \ {Max(s)}], sigs[Max(s)])]
<1>3. \A a \in A, i \in 1..n : F[<<a, i>>] = Turn(a, sigs[i])
  <2> HIDE DEF Turn
  <2> QED
    OBVIOUS
<1>4. \A a \in A, i \in 1..n : Turn(a, sigs[i]) \in A
  <2> SUFFICES ASSUME NEW a \in A, NEW i \in 1..n PROVE Turn(a, sigs[i]) \in A
    OBVIOUS
  <2>1. CASE sigs[i] = None
    BY <2>1
  <2>2. CASE sigs[i] # None
    <3>1. sigs[i] \in Y
      BY <1>2, <2>2
    <3> QED
      BY <2>2, <3>1
  <2> QED
    BY <2>1, <2>2
<1>5. <<>> \in A
  OBVIOUS
<1>7. CreateSignatures(input) = FoldLeft(Turn, <<>>, sigs)
  BY <1>1, Zenon DEF CreateSignatures
<1> HIDE DEF F, Turn, A
<1>8. \A s \in SUBSET (1..n) : s # {} => Max(s) \in s /\ s \ {Max(s)} \in SUBSET (1..n)
  BY GreatestOf
<1>9. \A a \in A, i \in 1..n : F[<<a, i>>] \in A
  BY <1>3, <1>4
<1>10. PICK whole : IsFold(whole, A, <<>>, n, F)
  BY <1>5, <1>9, FoldExists
<1>11. Iter(whole)
  <2>1. \A s \in SUBSET (1..n) : s # {} =>
            F[<<whole[s \ {Max(s)}], Max(s)>>] = Turn(whole[s \ {Max(s)}], sigs[Max(s)])
    BY <1>3, <1>8, <1>10 DEF IsFold
  <2>2. \A s \in SUBSET (1..n) :
            whole[s] = IF s = {} THEN <<>> ELSE Turn(whole[s \ {Max(s)}], sigs[Max(s)])
    BY <1>10, <2>1 DEF IsFold
  <2>3. whole = [s \in SUBSET (1..n) |-> whole[s]]
    BY <1>10 DEF IsFold
  <2> QED
    BY <1>2, <2>2, <2>3
<1>12. PICK it : Iter(it) /\ CreateSignatures(input) = it[DOMAIN sigs]
  <2> DEFINE it == CHOOSE h : Iter(h)
  <2>1. Iter(it)
    BY <1>11, Zenon
  <2>2. CreateSignatures(input) = it[DOMAIN sigs]
    BY <1>7, Zenon DEF FoldLeft, MapThenFoldSet
  <2> QED
    BY <2>1, <2>2
<1>13. /\ it[{}] = <<>>
       /\ \A s \in SUBSET (1..n) : s # {} => it[s] = Turn(it[s \ {Max(s)}], sigs[Max(s)])
  BY <1>2, <1>8, <1>12
<1>14. IsIterated(it, A, <<>>, n, F)
  BY <1>3, <1>8, <1>13 DEF IsIterated
<1>15. PICK v, base : v = it[1..n] /\ base = <<>>
  OBVIOUS
<1>16. RunsTo(A, base, n, F, v)
  BY <1>5, <1>9, <1>14, <1>15, RunOfFold
<1>17. PICK st : IsRun(st, A, base, n, F) /\ st[n] = v
  BY <1>16 DEF RunsTo
<1>18. /\ st[0] = base /\ \A j \in 0..n : st[j] \in A
       /\ \A j \in 1..n : st[j] = F[<<st[j - 1], j>>]
  BY <1>17 DEF IsRun
<1> DEFINE T == {k \in 0..n : Gathered(st[k], sigs, k)}
<1>19. 0 \in T
  <2>1. PICK g : g = <<>> /\ Len(g) = 0
    OBVIOUS
  <2>2. InPlaces(g, sigs, 0)
    <3>0. PICK f : f = [x \in 1..0 |-> x]
      OBVIOUS
    <3>1. f \in [1..0 -> 1..0]
      <4> HIDE DEF T, Iter
      <4> QED
        BY <3>0
    <3>2. \A a, b \in 1..Len(g) : a < b => f[a] < f[b]
      BY <2>1
    <3>3. \A a \in 1..Len(g) : g[a] = sigs[f[a]] /\ sigs[f[a]] # None
      BY <2>1
    <3>4. f \in [1..Len(g) -> 1..0]
      BY <2>1, <3>1
    <3> QED
      BY <3>2, <3>3, <3>4, Zenon DEF InPlaces
  <2>3. Filled(sigs, 0) = {} /\ Cardinality({}) = 0
    BY FS_EmptySet DEF Filled
  <2>4. Gathered(g, sigs, 0)
    BY <2>1, <2>2, <2>3 DEF Gathered
  <2>5. st[0] = g /\ 0 \in 0..n
    BY <1>15, <1>18, <2>1
  <2> HIDE DEF Iter
  <2> QED
    BY <2>4, <2>5
<1>20. \A k \in 0..(n - 1) : k \in T => k + 1 \in T
  <2> SUFFICES ASSUME NEW k \in 0..(n - 1), k \in T PROVE k + 1 \in T
    OBVIOUS
  <2>1. k \in Nat /\ k + 1 \in 1..n /\ k + 1 \in 0..n /\ (k + 1) - 1 = k /\ k \in 0..n
    OBVIOUS
  <2>2. PICK g, h, z : g = st[k] /\ h = st[k + 1] /\ z = sigs[k + 1]
    OBVIOUS
  <2>3. g \in Seq(Y) /\ Gathered(g, sigs, k) /\ z \in Y \cup {None}
    <3>1. g \in A
      BY <1>18, <2>1, <2>2
    <3> QED
      BY <1>2, <2>1, <2>2, <3>1 DEF A
  <2>4. h = IF z = None THEN g ELSE Append(g, z)
    <3>1. h = F[<<g, k + 1>>]
      BY <1>18, <2>1, <2>2
    <3>2. g \in A
      BY <2>3 DEF A
    <3>3. h = Turn(g, z)
      BY <1>3, <2>1, <2>2, <3>1, <3>2
    <3> QED
      BY <3>3 DEF Turn
  <2>5. Gathered(h, sigs, k + 1)
    BY <2>1, <2>2, <2>3, <2>4, GatheredMore
  <2> QED
    BY <2>1, <2>2, <2>5
<1>21. n \in T
  <2> HIDE DEF T
  <2>1. 0..n \subseteq T
    BY <1>19, <1>20, AllNumbers
  <2> QED
    BY <2>1
<1>22. CreateSignatures(input) = st[n]
  BY <1>2, <1>12, <1>15, <1>17
<1>23. Gathered(CreateSignatures(input), sigs, n)
  BY <1>21, <1>22
<1>24. CreateSignatures(input) \in Seq(Y)
  <2>1. st[n] \in A
    BY <1>18
  <2> QED
    BY <1>22, <2>1 DEF A
<1> QED
  BY <1>1, <1>23, <1>24

\* What a spend of the input at i is.
InputSpend(t, i) ==
    [scriptSig    |-> ScriptOf(t.inputs[i]),
     scriptPubkey |-> Utxos[t.inputs[i].utxo].script,
     flags        |-> InputFlags]

LEMMA AcceptedIsVerified ==
    ASSUME NEW t, NEW i, Verify(InputSpend(t, i), t, i)
    PROVE  InputAccepted(t, i)
BY Zenon DEF InputSpend, InputAccepted, InputFlags

LEMMA SpendFacts ==
    ASSUME NEW t, NEW i, NEW s, s = InputSpend(t, i)
    PROVE  /\ s.scriptSig = ScriptOf(t.inputs[i]) /\ s.flags = InputFlags
           /\ s.scriptPubkey = Utxos[t.inputs[i].utxo].script
BY DEF InputSpend

\* The script of an input, by its class.
LEMMA ScriptsOf ==
    ASSUME NEW x, NEW c, c = CreateSignatures(x)
    PROVE  /\ x.kind = "pkh" => ScriptOf(x) = PublicKeyHashIn(KeysOf(x)[1], c[1])
           /\ x.kind = "pk" => ScriptOf(x) = PublicKeyIn(c[1])
           /\ x.kind = "multisig" => ScriptOf(x) = MultisigIn(c)
           /\ x.kind = "p2sh" => ScriptOf(x) = P2SHMultisigIn(c, SubscriptOf(x))
<1>1. ASSUME x.kind = "pkh" PROVE ScriptOf(x) = PublicKeyHashIn(KeysOf(x)[1], c[1])
  BY <1>1, Zenon DEF ScriptOf
<1>2. ASSUME x.kind = "pk" PROVE ScriptOf(x) = PublicKeyIn(c[1])
  <2>1. x.kind # "pkh"
    BY <1>2
  <2> QED
    BY <1>2, <2>1, Zenon DEF ScriptOf
<1>3. ASSUME x.kind = "multisig" PROVE ScriptOf(x) = MultisigIn(c)
  <2>1. x.kind # "pkh" /\ x.kind # "pk"
    BY <1>3
  <2> QED
    BY <1>3, <2>1, Zenon DEF ScriptOf
<1>4. ASSUME x.kind = "p2sh" PROVE ScriptOf(x) = P2SHMultisigIn(c, SubscriptOf(x))
  <2>1. x.kind # "pkh" /\ x.kind # "pk" /\ x.kind # "multisig"
    BY <1>4
  <2> QED
    BY <1>4, <2>1, Zenon DEF ScriptOf
<1> QED
  BY <1>1, <1>2, <1>3, <1>4

\* The signatures of an input, in the order of its keys: each is made, and verifies with
\* the key in whose place it is.
GivenInOrder(c, t, i, n, q) ==
    /\ DOMAIN c = 1..q
    /\ \A a \in 1..q : IsMade(c[a])
    /\ SignedInOrder(c, n, q, KeysOf(t.inputs[i]), t, i, SubscriptOf(t.inputs[i]))

LEMMA CreatedInOrder ==
    ASSUME NEW S, NEW t \in TxOf(S), InputsFit(t), ValidSignatures(t),
           NEW i \in 1..Len(t.inputs), NEW x, x = t.inputs[i], NEW n \in Nat, n = Len(KeysOf(x)),
           NEW c, c = CreateSignatures(x)
    PROVE  \E q \in Nat : q = Cardinality(Given(x)) /\ GivenInOrder(c, t, i, n, q)
<1>1. PICK sigs : sigs = x.signatures
  OBVIOUS
<1>2. x \in InputsOf(S) /\ sigs \in Seq(S) /\ x.utxo \in DOMAIN Utxos
  <2>1. t.inputs \in Seq(InputsOf(S))
    BY DEF TxOf
  <2>2. x \in InputsOf(S)
    BY <2>1
  <2> QED
    BY <1>1, <2>2 DEF InputsOf
<1>3. DOMAIN sigs = 1..n
  BY <1>1, <1>2, BuildAssumption DEF InputsFit, KeysOf
<1>4. n = Len(sigs)
  BY <1>2, <1>3
<1>5. PICK Y : Y = S \ {None}
  OBVIOUS
<1>6. sigs \in Seq(Y \cup {None})
  <2>1. \A j \in 1..n : sigs[j] \in Y \cup {None}
    BY <1>2, <1>4, <1>5
  <2>2. sigs = [j \in 1..n |-> sigs[j]]
    BY <1>2, <1>3
  <2> QED
    BY <2>1, <2>2
<1>7. c \in Seq(Y) /\ Gathered(c, sigs, n)
  BY <1>1, <1>4, <1>6, CreatedFacts
<1>8. PICK q \in Nat : q = Len(c) /\ DOMAIN c = 1..q
  BY <1>7
<1>9. q = Cardinality(Given(x))
  <2>1. Filled(sigs, n) = Given(x)
    BY <1>1, <1>3 DEF Filled, Given
  <2> QED
    BY <1>7, <1>8, <2>1 DEF Gathered
<1>10. PICK f \in [1..q -> 1..n] :
        /\ \A a, b \in 1..q : a < b => f[a] < f[b]
        /\ \A a \in 1..q : c[a] = sigs[f[a]] /\ sigs[f[a]] # None
  BY <1>7, <1>8 DEF Gathered, InPlaces
<1>11. ASSUME NEW a \in 1..q
       PROVE  /\ IsMade(c[a])
              /\ VerifySignature(t, c[a], Key(KeysOf(x)[f[a]]), i, SubscriptOf(x))
  <2>1. PICK j \in 1..n : j = f[a]
    BY <1>10
  <2>2. c[a] = sigs[j] /\ sigs[j] # None
    BY <1>10, <2>1
  <2>3. ValidAt(t, i, j)
    BY <1>1, <1>3 DEF ValidSignatures
  <2>4. Formed(c[a]) /\ VerifySignature(t, c[a], Key(KeysOf(x)[j]), i, SubscriptOf(x))
    BY <1>1, <2>2, <2>3 DEF ValidAt
  <2>5. IsMade(c[a])
    BY <2>4, Zenon DEF Formed, IsMade
  <2> QED
    BY <2>1, <2>4, <2>5
<1>12. SignedInOrder(c, n, q, KeysOf(x), t, i, SubscriptOf(x))
  BY <1>10, <1>11, Zenon DEF SignedInOrder
<1> QED
  BY <1>8, <1>9, <1>11, <1>12 DEF GivenInOrder

\* Signatures that verify with the keys of their places, as many as are asked for, make the
\* interpreter accept the input.
LEMMA SignedIsAccepted ==
    ASSUME NEW S, NEW t \in TxOf(S), InputsFit(t), ValidSignatures(t),
           NEW i \in 1..Len(t.inputs), t.inputs[i].kind # "base",
           InputIsFullySigned(t.inputs[i])
    PROVE  InputAccepted(t, i)
<1>1. PICK x : x = t.inputs[i]
  OBVIOUS
<1>2. /\ x \in InputsOf(S) /\ x.utxo \in DOMAIN Utxos
      /\ x.kind \in {"pkh", "pk", "multisig", "p2sh"} /\ x.kind = Utxos[x.utxo].kind
  <2>1. t.inputs \in Seq(InputsOf(S))
    BY DEF TxOf
  <2>2. x \in InputsOf(S)
    BY <1>1, <2>1
  <2> QED
    BY <1>1, <2>2 DEF InputsOf, InputsFit
<1>3. PICK u : u = Utxos[x.utxo]
  OBVIOUS
<1>4. PICK keys : keys = KeysOf(x) /\ keys = u.keys
  BY <1>3 DEF KeysOf
<1>5. PICK n \in Nat : n = Len(keys) /\ DOMAIN keys = 1..n
  BY <1>2, <1>3, <1>4, BuildAssumption
<1>6. /\ MaxElement >= 71 /\ Allowed(n) /\ 2 * n + 3 <= MaxOps /\ n + 2 <= MaxStack
      /\ u.kind \in {"pkh", "pk"} => n = 1
      /\ u.kind = "pkh" => u.script = PublicKeyHashOut(keys[1])
      /\ u.kind = "pk" => u.script = PublicKeyOut(keys[1])
      /\ u.kind \in {"multisig", "p2sh"} => u.threshold \in 1..n
      /\ u.kind = "multisig" => u.script = MultisigOut(keys, u.threshold)
      /\ u.kind = "p2sh" => u.script = ScriptHashOut(MultisigOut(keys, u.threshold))
  BY <1>2, <1>3, <1>4, <1>5, InputAssumption DEF FitsInput, Allowed
<1>7. PICK c : c = CreateSignatures(x)
  OBVIOUS
<1>8. PICK q \in Nat : q = Cardinality(Given(x)) /\ GivenInOrder(c, t, i, n, q)
  BY <1>1, <1>4, <1>5, <1>7, CreatedInOrder
<1>9. PICK sub : sub = SubscriptOf(x)
  OBVIOUS
<1>10. /\ DOMAIN c = 1..q /\ \A a \in 1..q : IsMade(c[a])
       /\ SignedInOrder(c, n, q, keys, t, i, sub)
  BY <1>1, <1>4, <1>8, <1>9 DEF GivenInOrder
<1>11. PICK s : s = InputSpend(t, i)
  OBVIOUS
<1>12. s.scriptSig = ScriptOf(x) /\ s.flags = InputFlags /\ s.scriptPubkey = u.script
  BY <1>1, <1>3, <1>11, SpendFacts
<1>13. MaxOps \in Nat /\ MaxStack \in Nat
  BY LimitsAreNumbers
<1>14. CASE x.kind \in {"pkh", "pk"}
  <2>1. n = 1 /\ MaxOps >= 5 /\ MaxStack >= 3
    BY <1>2, <1>3, <1>6, <1>13, <1>14
  <2>2. q >= 1
    <3>1. Given(x) # {}
      BY <1>1, <1>14 DEF InputIsFullySigned, IsMultisig
    <3>2. IsFiniteSet(Given(x))
      <4>1. Given(x) \in SUBSET (1..n)
        BY <1>1, <1>4, <1>5 DEF Given, InputsFit
      <4>2. IsFiniteSet(1..n)
        <5>1. 1 \in Int /\ n \in Int
          OBVIOUS
        <5> QED
          BY <5>1, FS_Interval
      <4> QED
        BY <4>1, <4>2, FS_Subset
    <3>3. q # 0
      BY <1>8, <3>1, <3>2, FS_EmptySet
    <3> QED
      BY <3>3
  <2>3. PICK sig, k : sig = c[1] /\ k = keys[1]
    OBVIOUS
  <2>4. IsMade(sig) /\ VerifySignature(t, sig, Key(k), i, sub)
    <3>1. PICK f \in [1..q -> 1..n] :
             \A a \in 1..q : VerifySignature(t, c[a], Key(keys[f[a]]), i, sub)
      BY <1>10 DEF SignedInOrder
    <3>2. 1 \in 1..q /\ f[1] = 1
      BY <2>1, <2>2, <3>1
    <3> QED
      BY <1>10, <2>3, <3>1, <3>2
  <2>5. PICK script : script = u.script /\ script = sub
    BY <1>3, <1>9, <1>14 DEF SubscriptOf
  <2>6. CASE x.kind = "pkh"
    <3>1. s.scriptSig = PublicKeyHashIn(k, sig) /\ script = PublicKeyHashOut(k)
      BY <1>2, <1>3, <1>4, <1>6, <1>7, <1>12, <2>3, <2>5, <2>6, ScriptsOf
    <3>2. Verify(s, t, i)
      BY <1>6, <1>12, <2>1, <2>4, <2>5, <3>1, KeyHashVerifies
    <3> QED
      BY <1>11, <3>2, AcceptedIsVerified
  <2>7. CASE x.kind = "pk"
    <3>1. s.scriptSig = PublicKeyIn(sig) /\ script = PublicKeyOut(k)
      BY <1>2, <1>3, <1>4, <1>6, <1>7, <1>12, <2>3, <2>5, <2>7, ScriptsOf
    <3>2. Verify(s, t, i)
      BY <1>6, <1>12, <2>1, <2>4, <2>5, <3>1, KeyVerifies
    <3> QED
      BY <1>11, <3>2, AcceptedIsVerified
  <2> QED
    BY <1>14, <2>6, <2>7
<1>15. CASE x.kind \in {"multisig", "p2sh"}
  <2>1. q = u.threshold /\ q \in 1..n
    BY <1>1, <1>2, <1>3, <1>6, <1>8, <1>15 DEF InputIsFullySigned, IsMultisig
  <2>2. CASE x.kind = "multisig"
    <3>1. s.scriptSig = MultisigIn(c) /\ s.scriptPubkey = MultisigOut(keys, q)
      BY <1>2, <1>3, <1>6, <1>7, <1>12, <2>1, <2>2, ScriptsOf
    <3>2. PICK script : script = s.scriptPubkey
      OBVIOUS
    <3>3. script = MultisigOut(keys, q) /\ sub = script
      BY <1>3, <1>9, <1>12, <2>2, <3>1, <3>2 DEF SubscriptOf
    <3>4. SignedInOrder(c, n, q, keys, t, i, script)
      BY <1>10, <3>3
    <3>5. Verify(s, t, i)
      BY <1>5, <1>6, <1>10, <1>12, <2>1, <3>1, <3>2, <3>3, <3>4, KeysVerify
    <3> QED
      BY <1>11, <3>5, AcceptedIsVerified
  <2>3. CASE x.kind = "p2sh"
    <3>1. sub = MultisigOut(keys, q)
      BY <1>3, <1>4, <1>9, <2>1, <2>3 DEF SubscriptOf
    <3>2. s.scriptSig = P2SHMultisigIn(c, sub) /\ s.scriptPubkey = ScriptHashOut(sub)
      BY <1>2, <1>3, <1>6, <1>7, <1>9, <1>12, <2>1, <2>3, <3>1, ScriptsOf
    <3>3. PICK script : script = s.scriptPubkey /\ script = ScriptHashOut(sub)
      BY <3>2
    <3>4. Verify(s, t, i)
      BY <1>5, <1>6, <1>10, <1>12, <2>1, <3>1, <3>2, <3>3, HashVerifies
    <3> QED
      BY <1>11, <3>4, AcceptedIsVerified
  <2> QED
    BY <1>15, <2>2, <2>3
<1> QED
  BY <1>2, <1>14, <1>15

\* An input with all its signatures is accepted by the interpreter, for any outputs, keys and
\* thresholds that inputs are made for, any number of signers in any order, and any calls in
\* between that do not leave signatures of what they have changed.
THEOREM SignedStaysValid == BuildSpec => []SignedIsValid
<1>1. BuildSafe /\ SignaturesInv => SignedIsValid
  <2> SUFFICES ASSUME NEW S, BuildInv(S), SignaturesInv, ~careless, NEW i \in DOMAIN tx.inputs,
                      tx.inputs[i].kind # "base", InputIsFullySigned(tx.inputs[i])
               PROVE  InputAccepted(tx, i)
    BY Zenon DEF BuildSafe, SignedIsValid
  <2>1. PICK t : t = tx
    OBVIOUS
  <2>2. t \in TxOf(S) /\ i \in 1..Len(t.inputs)
    <3>1. t \in TxOf(S)
      BY <2>1 DEF BuildInv
    <3> QED
      BY <2>1, <3>1 DEF TxOf
  <2>3. InputsFit(t) /\ ValidSignatures(t)
    BY <2>1 DEF SignaturesInv, InputsInv
  <2>4. t.inputs[i].kind # "base" /\ InputIsFullySigned(t.inputs[i])
    BY <2>1
  <2>5. InputAccepted(t, i)
    BY <2>2, <2>3, <2>4, SignedIsAccepted
  <2> QED
    BY <2>1, <2>5
<1>2. BuildSpec => []SignaturesInv
  <2>1. BuildSafe /\ BuildSafe' /\ SignaturesInv /\ [BuildNext]_buildVars => SignaturesInv'
    BY SignaturesRest, SignaturesGoOn
  <2> QED
    BY <2>1, SignaturesStart, BuildsSafely, PTL DEF BuildSpec
<1> QED
  BY <1>1, <1>2, BuildsSafely, PTL

\* What the cached sums of a transaction that serialize lets through are worth.
LEMMA SerializableFacts ==
    ASSUME NEW S, NEW t \in TxOf(S), t.thrown = FALSE, SumsOK(t), Serializable(t),
           NEW fee, fee = TrueFeeOf(t), NEW estimate, estimate = EstimateFee(t, fee)
    PROVE  /\ t.fee # None => fee = t.fee
           /\ fee \in CeilDiv(estimate, Margin)..(Margin * estimate)
<1>1. PICK g : g = GetAmounts(t)
  OBVIOUS
<1>2. PICK unspent : unspent = Unspent(g)
  OBVIOUS
<1>3. PICK guess : guess = EstimateFee(t, unspent)
  OBVIOUS
<1>4. /\ ~g.thrown /\ (t.fee # None => t.fee = unspent)
      /\ unspent <= Margin * guess /\ unspent >= CeilDiv(guess, Margin)
  BY <1>1, <1>2, <1>3, Zenon DEF Serializable
<1>5. /\ g \in TxOf(S)
      /\ g.thrown = FALSE => g.inputAmount \in Int /\ g.outputAmount \in Int
      /\ g.thrown = FALSE => /\ g.inputAmount = InputSum(t.inputs)
                             /\ g.outputAmount = OutputSum(t.outputs)
  BY <1>1, AmountsFacts
<1>6. g.thrown = FALSE
  <2>1. g.thrown \in BOOLEAN
    BY <1>5 DEF TxOf
  <2> QED
    BY <1>4, <2>1
<1>7. unspent = fee /\ fee \in Int
  BY <1>2, <1>5, <1>6 DEF Unspent, TrueFeeOf
<1>8. guess = estimate /\ estimate \in Int
  <2>1. guess = estimate
    BY <1>3, <1>7
  <2>2. EstimateFee(t, fee) \in Int
    BY <1>7, FeeFacts
  <2> QED
    BY <2>1, <2>2
<1>9. CeilDiv(estimate, Margin) \in Int /\ Margin * estimate \in Int
  <2>1. PICK m \in Int : m = Margin /\ m > 0
    BY BuildAssumption
  <2>2. CeilDiv(estimate, m) \in Int /\ m * estimate \in Int
    BY <1>8, <2>1 DEF CeilDiv
  <2> QED
    BY <2>1, <2>2
<1>10. PICK low \in Int, high \in Int : low = CeilDiv(estimate, Margin) /\ high = Margin * estimate
  BY <1>9
<1>11. fee >= low /\ fee <= high
  <2>1. unspent <= Margin * estimate /\ unspent >= CeilDiv(estimate, Margin)
    BY <1>4, <1>8
  <2> QED
    BY <1>7, <1>10, <2>1
<1> QED
  BY <1>4, <1>7, <1>10, <1>11

\* What serialize lets through pays the fee that was set and one between the bounds, has no
\* dust, and is accepted by the interpreter, input by input: the cached sums that it was
\* judged by are never those of an earlier state, and the signatures that it counted are
\* valid, for any calls before it.
THEOREM SerializedStaysSound == BuildSpec => []SerializedIsSound
<1>1. BuildSafe /\ SignedIsValid => SerializedIsSound
  <2> SUFFICES ASSUME NEW S, BuildInv(S), SignedIsValid, Serializable(tx), ~broken
               PROVE  /\ tx.fee # None => TrueFee = tx.fee
                      /\ TrueFee \in CeilDiv(EstimateFee(tx, TrueFee), Margin)
                                         ..(Margin * EstimateFee(tx, TrueFee))
                      /\ \A i \in DOMAIN tx.outputs :
                             tx.outputs[i].satoshis < Dust => IsDataOut(tx.outputs[i].script)
                      /\ ~careless => \A i \in DOMAIN tx.inputs : InputAccepted(tx, i)
    BY Zenon DEF BuildSafe, SerializedIsSound
  <2>1. PICK t : t = tx
    OBVIOUS
  <2>2. PICK fee : fee = TrueFee /\ fee = TrueFeeOf(t)
    BY <2>1 DEF TrueFee, TrueFeeOf
  <2>3. t \in TxOf(S) /\ t.thrown = FALSE /\ SumsOK(t)
    BY <2>1 DEF BuildInv
  <2>4. Serializable(t)
    BY <2>1
  <2>5. PICK estimate : estimate = EstimateFee(t, fee)
    OBVIOUS
  <2>6. /\ t.fee # None => fee = t.fee
        /\ fee \in CeilDiv(estimate, Margin)..(Margin * estimate)
    BY <2>2, <2>3, <2>4, <2>5, SerializableFacts
  <2>7. /\ \A i \in DOMAIN t.outputs :
               t.outputs[i].satoshis >= Dust \/ IsDataOut(t.outputs[i].script)
        /\ ~CannotSign(t) /\ \A i \in DOMAIN t.inputs : InputIsFullySigned(t.inputs[i])
    BY <2>4, Zenon DEF Serializable
  <2>8. ASSUME NEW i \in DOMAIN t.outputs, t.outputs[i].satoshis < Dust
        PROVE  IsDataOut(t.outputs[i].script)
    <3>1. t.outputs \in Seq(OutputsOf)
      BY <2>3 DEF TxOf
    <3>2. t.outputs[i].satoshis \in Int /\ Dust \in Int
      BY <3>1, OutputFacts, BuildAssumption
    <3>3. t.outputs[i].satoshis >= Dust \/ IsDataOut(t.outputs[i].script)
      BY <2>7
    <3> QED
      BY <2>8, <3>2, <3>3
  <2>9. ASSUME ~careless, NEW i \in DOMAIN t.inputs PROVE InputAccepted(t, i)
    <3>1. t.inputs[i].kind # "base" /\ InputIsFullySigned(t.inputs[i])
      BY <2>7 DEF CannotSign
    <3> QED
      BY <2>1, <2>9, <3>1, Zenon DEF SignedIsValid
  <2>10. ~careless => \A i \in DOMAIN t.inputs : InputAccepted(t, i)
    BY <2>9
  <2>11. /\ fee \in CeilDiv(EstimateFee(t, fee), Margin)..(Margin * EstimateFee(t, fee))
    BY <2>5, <2>6
  <2> QED
    BY <2>1, <2>2, <2>6, <2>8, <2>10, <2>11, Zenon
<1> QED
  BY <1>1, BuildsSafely, SignedStaysValid, PTL
=============================================================================
