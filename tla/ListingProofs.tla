--------------------------- MODULE ListingProofs ----------------------------
(***************************************************************************)
(* Lists in pages, for any number of files and any size of the page.         *)
(*                                                                         *)
(* The client's items, the items of the page in the making and the batch    *)
(* still to be decided are ascending, one after another; up to the cursor of *)
(* the page every file that was to be listed all the time is in one of the   *)
(* three.  What a walk up the folders comes to is what it would come to from *)
(* the folder reached, as long as one change at most falls into that walk.   *)
(***************************************************************************)
EXTENDS Listing, SequenceTheorems, FiniteSetTheorems, WellFoundedInduction, TLAPS

\* Public ids are numbers, a page holds a file, the folders are two and not the
\* root.
Bounds ==
  /\ Files \subseteq Nat \ {0} /\ IsFiniteSet(Files)
  /\ PageSize \in Nat \ {0} /\ MaxChanges \in Nat
  /\ Inner # Outer /\ Root \notin {Inner, Outer}

\* Being among the items, and being in order.
In(x, s) == \E i \in 1..Len(s) : s[i] = x

Ascending(s) == s \in Seq(Files) /\ \A i, j \in 1..Len(s) : i < j => s[i] < s[j]

----------------------------------------------------------------------------
(* Ascending sequences.                                                    *)

\* A set of numbers has a least one.
LEMMA Least ==
  ASSUME NEW T \in SUBSET Nat, T # {}
  PROVE  \E n \in T : \A m \in T : n <= m
<1> DEFINE R == OpToRel(<, Nat)
<1>1. \A m, n \in Nat : <<m, n>> \in R <=> m < n
  BY ZenonT(20) DEF OpToRel
<1>2. IsWellFoundedOn(R, Nat)
  BY NatLessThanWellFounded, Zenon
<1> HIDE DEF R
<1>3. PICK n \in T : \A m \in T : ~ <<m, n>> \in R
  BY <1>2, WFMin, Zenon
<1>4. \A m \in T : ~ (m < n)
  BY <1>1, <1>3
<1>5. QED
  BY <1>4

\* A finite set of numbers can be put in order: the least one goes first.
LEMMA OrderExists ==
  ASSUME NEW S \in SUBSET Nat, IsFiniteSet(S)
  PROVE  \E s \in [1..Cardinality(S) -> S] : \A i, j \in DOMAIN s : i < j => s[i] < s[j]
<1> DEFINE Ordered(A) == \E s \in [1..Cardinality(A) -> A] : \A i, j \in DOMAIN s : i < j => s[i] < s[j]
           T == {n \in Nat : \E A \in SUBSET Nat : IsFiniteSet(A) /\ Cardinality(A) = n /\ ~ Ordered(A)}
<1> HIDE DEF Ordered
<1>1. ASSUME T # {} PROVE FALSE
  <2>1. PICK n \in T : \A m \in T : n <= m
    <3>1. T \in SUBSET Nat
      OBVIOUS
    <3> HIDE DEF T
    <3>2. QED
      BY <1>1, <3>1, Least
  <2>2. PICK A \in SUBSET Nat : IsFiniteSet(A) /\ Cardinality(A) = n /\ ~ Ordered(A)
    OBVIOUS
  <2>3. n \in Nat /\ \A m \in 0..(n - 1) : m \notin T
    <3>1. n \in Nat
      OBVIOUS
    <3> HIDE DEF T
    <3>2. QED
      BY <2>1, <3>1
  <2>4. CASE A = {}
    <3>1. n = 0
      BY <2>2, <2>4, FS_EmptySet
    <3> DEFINE s == [i \in 1..0 |-> 0]
    <3>2. s \in [1..0 -> A] /\ DOMAIN s = {}
      OBVIOUS
    <3> HIDE DEF s
    <3>3. Ordered(A)
      BY <2>2, <3>1, <3>2 DEF Ordered
    <3>4. QED
      BY <2>2, <3>3
  <2>5. CASE A # {}
    <3>1. PICK x \in A : \A y \in A : x <= y
      BY <2>5, Least
    <3> DEFINE B == A \ {x}
    <3>2. IsFiniteSet(B) /\ Cardinality(B) = n - 1 /\ n # 0
      BY <2>2, <2>5, <3>1, FS_RemoveElement, FS_EmptySet
    <3>3. Ordered(B)
      <4>1. n - 1 \notin T /\ n - 1 \in Nat
        <5> HIDE DEF T
        <5>1. QED
          BY <2>3, <3>2
      <4>2. B \in SUBSET Nat
        BY <2>2
      <4> HIDE DEF B
      <4>3. QED
        BY <3>2, <4>1, <4>2
    <3>4. PICK s \in [1..(n - 1) -> B] : \A i, j \in 1..(n - 1) : i < j => s[i] < s[j]
      BY <3>2, <3>3 DEF Ordered
    <3> DEFINE t == [i \in 1..n |-> IF i = 1 THEN x ELSE s[i - 1]]
    <3>5. \A i \in 1..n : i # 1 => i - 1 \in 1..(n - 1)
      BY <2>3
    <3>6. \A i \in 1..n : i # 1 => s[i - 1] \in B /\ s[i - 1] > x
      <4>1. \A b \in B : b > x
        BY <2>2, <3>1
      <4>2. \A k \in 1..(n - 1) : s[k] \in B
        BY <3>4
      <4> HIDE DEF B
      <4>3. QED
        BY <3>5, <4>1, <4>2
    <3>7. t \in [1..n -> A]
      BY <3>1, <3>6
    <3>8. \A i, j \in 1..n : i < j => t[i] < t[j]
      <4> SUFFICES ASSUME NEW i \in 1..n, NEW j \in 1..n, i < j PROVE t[i] < t[j]
        OBVIOUS
      <4>1. j # 1 /\ t[j] = s[j - 1]
        BY <2>3
      <4>2. CASE i = 1
        BY <3>6, <4>1, <4>2
      <4>3. CASE i # 1
        <5>1. t[i] = s[i - 1] /\ i - 1 < j - 1
          BY <2>3, <4>3
        <5>2. QED
          BY <3>4, <3>5, <4>1, <4>3, <5>1
      <4>4. QED
        BY <4>2, <4>3
    <3> HIDE DEF t
    <3>9. Ordered(A)
      <4>1. DOMAIN t = 1..n
        BY <3>7
      <4>2. QED
        BY <2>2, <3>7, <3>8, <4>1 DEF Ordered
    <3>10. QED
      BY <2>2, <3>9
  <2>6. QED
    BY <2>4, <2>5
<1>2. Ordered(S)
  <2>1. Cardinality(S) \in Nat
    BY FS_CardinalityType
  <2>2. QED
    BY <1>1, <2>1
<1>3. QED
  BY <1>2 DEF Ordered

\* InOrder has the members of the set, each once.
LEMMA InOrderFacts ==
  ASSUME Bounds, NEW S \in SUBSET Files
  PROVE  /\ Ascending(InOrder(S)) /\ Len(InOrder(S)) = Cardinality(S) /\ Cardinality(S) \in Nat
         /\ \A x : In(x, InOrder(S)) <=> x \in S
<1>1. IsFiniteSet(S) /\ Cardinality(S) \in Nat /\ S \in SUBSET Nat
  BY FS_Subset, FS_CardinalityType DEF Bounds
<1> DEFINE s == InOrder(S)
           n == Cardinality(S)
<1>2. s \in [1..n -> S] /\ \A i, j \in DOMAIN s : i < j => s[i] < s[j]
  BY <1>1, OrderExists DEF InOrder
<1> HIDE DEF s, n
<1>3. n \in Nat /\ n = Cardinality(S) /\ DOMAIN s = 1..n
  BY <1>1, <1>2 DEF n
<1>4. s \in Seq(Files) /\ Len(s) = n /\ \A i \in 1..n : s[i] \in S
  BY <1>2, <1>3
<1>5. s \in Injection(1..n, S)
  <2>1. ASSUME NEW i \in 1..n, NEW j \in 1..n, s[i] = s[j]
        PROVE  i = j
    <3>1. s[i] \in S /\ s[j] \in S
      BY <1>4, Zenon
    <3>2. (i < j => s[i] < s[j]) /\ (j < i => s[j] < s[i])
      BY <1>2, <1>3, Zenon
    <3> DEFINE a == s[i]
               b == s[j]
    <3>3. a \in Nat /\ b \in Nat /\ a = b /\ (i < j => a < b) /\ (j < i => b < a)
      BY <1>1, <2>1, <3>1, <3>2, Zenon
    <3> HIDE DEF a, b
    <3>4. i \in Nat /\ j \in Nat
      BY <1>3
    <3>5. QED
      BY <3>3, <3>4
  <2>2. QED
    BY <1>2, <2>1 DEF Injection, IsInjective
<1>6. Cardinality(1..n) = n
  BY <1>3, FS_Interval
<1>7. s \in Surjection(1..n, S)
  BY <1>1, <1>3, <1>5, <1>6, FS_Injection
<1>8. \A x \in S : \E i \in 1..n : s[i] = x
  BY <1>7 DEF Surjection
<1>9. Ascending(s)
  BY <1>2, <1>4 DEF Ascending
<1>10. QED
  BY <1>3, <1>4, <1>8, <1>9 DEF In, s, n

\* A batch is ascending, is of active files behind the cursor, and leaves out
\* only files behind it, and only when it is full.
LEMMA BatchFacts ==
  ASSUME Bounds, NEW cursor \in Nat, NEW n \in Nat \ {0}
  PROVE  /\ Ascending(Batch(cursor, n)) /\ Len(Batch(cursor, n)) <= n
         /\ \A x \in Files : In(x, Batch(cursor, n)) => x > cursor /\ file[x].state = "active"
         /\ \A x \in Files : x > cursor /\ file[x].state = "active" =>
              \/ In(x, Batch(cursor, n))
              \/ Len(Batch(cursor, n)) = n /\ \A y \in Files : In(y, Batch(cursor, n)) => y < x
<1> DEFINE behind == {x \in Files : x > cursor /\ file[x].state = "active"}
           upto(x) == {y \in behind : y <= x}
           first == {x \in behind : Cardinality(upto(x)) <= n}
           b == InOrder(first)
<1>b. b = Batch(cursor, n)
  BY DEF Batch
<1>d. /\ \A x : x \in behind <=> x \in Files /\ x > cursor /\ file[x].state = "active"
      /\ \A x, y : y \in upto(x) <=> y \in behind /\ y <= x
      /\ \A x : x \in first <=> x \in behind /\ Cardinality(upto(x)) <= n
  OBVIOUS
<1>f. /\ Ascending(InOrder(first)) /\ Len(InOrder(first)) = Cardinality(first) /\ Cardinality(first) \in Nat
      /\ \A x : In(x, InOrder(first)) <=> x \in first
  <2>1. first \in SUBSET Files
    BY <1>d
  <2> HIDE DEF first
  <2>2. QED
    BY <2>1, InOrderFacts
<1>4. /\ Ascending(b) /\ Len(b) = Cardinality(first) /\ Cardinality(first) \in Nat
      /\ \A x : In(x, b) <=> x \in first
  BY <1>f
<1> HIDE DEF behind, upto, first, b
<1>1. /\ behind \in SUBSET Files /\ first \in SUBSET behind /\ Files \subseteq Nat /\ IsFiniteSet(behind)
      /\ IsFiniteSet(first)
  <2>1. behind \in SUBSET Files /\ first \in SUBSET behind
    BY <1>d
  <2>2. QED
    BY <2>1, FS_Subset DEF Bounds
<1>n. \A x \in behind : x \in Nat /\ x \in Files
  BY <1>1
<1>2. ASSUME NEW x \in behind
      PROVE  IsFiniteSet(upto(x)) /\ Cardinality(upto(x)) \in Nat
  <2>1. upto(x) \in SUBSET behind
    BY <1>d
  <2>2. QED
    BY <1>1, <2>1, FS_Subset, FS_CardinalityType
<1>3. ASSUME NEW x \in first, NEW y \in behind, y <= x
      PROVE  y \in first
  <2>1. upto(y) \in SUBSET upto(x)
    BY <1>d, <1>n, <1>3
  <2>2. x \in behind /\ Cardinality(upto(x)) <= n
    BY <1>d
  <2>3. Cardinality(upto(y)) <= Cardinality(upto(x))
    BY <1>2, <2>1, <2>2, FS_Subset
  <2>4. Cardinality(upto(y)) <= n
    BY <1>2, <2>2, <2>3
  <2>5. QED
    BY <1>d, <2>4
<1>5. Len(b) <= n
  <2>1. CASE Len(b) = 0
    BY <2>1
  <2>2. CASE Len(b) # 0
    <3> DEFINE l == Len(b)
               last == b[l]
    <3>1. l \in 1..l /\ l \in Nat
      BY <1>4, <2>2
    <3>2. In(last, b)
      BY <3>1 DEF In
    <3>3. last \in first /\ last \in behind
      BY <1>4, <1>1, <3>2
    <3>4. ASSUME NEW i \in 1..l PROVE b[i] <= last
      <4>1. i < l => b[i] < last
        BY <1>4, <3>1 DEF Ascending
      <4>2. In(b[i], b)
        BY <3>4 DEF In
      <4>3. b[i] \in Nat /\ last \in Nat
        BY <1>4, <1>1, <1>n, <4>2, <3>3
      <4>4. i < l \/ i = l
        BY <3>1
      <4> DEFINE a == b[i]
      <4> HIDE DEF a, last
      <4>5. QED
        BY <4>1, <4>3, <4>4 DEF a, last
    <3>5. \A x \in first : x <= last
      BY <1>4, <3>4 DEF In
    <3> HIDE DEF last
    <3>6. first \in SUBSET upto(last)
      BY <1>d, <1>1, <3>5
    <3>7. Cardinality(first) <= Cardinality(upto(last)) /\ Cardinality(upto(last)) <= n
      BY <1>2, <1>d, <3>3, <3>6, FS_Subset
    <3>8. QED
      BY <1>2, <1>4, <3>3, <3>7
  <2>3. QED
    BY <2>1, <2>2
<1>6. ASSUME NEW x \in behind, x \notin first
      PROVE  Len(b) = n /\ \A y \in first : y < x
  <2> DEFINE rest == behind \ first
  <2>1. PICK z \in rest : \A y \in rest : z <= y
    <3>1. rest \in SUBSET Nat /\ rest # {}
      BY <1>n, <1>6
    <3> HIDE DEF rest
    <3>2. QED
      BY <3>1, Least
  <2>2. z \in behind /\ z \notin first /\ z \in Nat
    BY <1>n
  <2>3. \A y \in first : y < z /\ y < x
    BY <1>1, <1>n, <1>3, <1>6, <2>2
  <2>4. upto(z) = first \cup {z}
    <3>1. ASSUME NEW y \in upto(z) PROVE y \in first \cup {z}
      <4>1. y \in behind /\ y <= z /\ y \in Nat
        BY <1>d, <1>n, <3>1
      <4>2. y \notin first => z <= y
        BY <2>1, <4>1
      <4>3. QED
        BY <2>2, <4>1, <4>2
    <3>2. ASSUME NEW y \in first \cup {z} PROVE y \in upto(z)
      BY <1>d, <1>1, <1>n, <2>2, <2>3, <3>2
    <3>3. QED
      BY <3>1, <3>2
  <2>5. Cardinality(upto(z)) = Cardinality(first) + 1
    BY <1>1, <2>2, <2>4, FS_AddElement
  <2>6. ~ (Cardinality(upto(z)) <= n)
    BY <1>d, <2>2
  <2>7. Len(b) = n
    BY <1>4, <1>5, <2>5, <2>6
  <2>8. QED
    BY <2>3, <2>7
<1>8. \A x \in Files : In(x, b) => x > cursor /\ file[x].state = "active"
  BY <1>4, <1>d
<1>9. ASSUME NEW x \in Files, x > cursor, file[x].state = "active", ~ In(x, b)
      PROVE  Len(b) = n /\ \A y \in Files : In(y, b) => y < x
  <2>1. x \in behind /\ x \notin first
    BY <1>4, <1>9, <1>d, Zenon
  <2>2. QED
    BY <1>4, <1>6, <2>1, Zenon
<1>10. \A x \in Files : x > cursor /\ file[x].state = "active" =>
        In(x, b) \/ (Len(b) = n /\ \A y \in Files : In(y, b) => y < x)
  BY <1>9, Zenon
<1>11. Ascending(b)
  BY <1>4
<1>12. QED
  BY <1>11, <1>5, <1>b, <1>8, <1>10, Zenon

\* The members of an ascending sequence are numbers, and its items stand in
\* the order of their places.
LEMMA Places ==
  ASSUME Bounds, NEW s, Ascending(s)
  PROVE  /\ Len(s) \in Nat
         /\ \A i \in 1..Len(s) : s[i] \in Files /\ s[i] \in Nat /\ In(s[i], s)
         /\ \A i, j \in 1..Len(s) : i <= j <=> s[i] <= s[j]
<1>1. Len(s) \in Nat /\ \A i \in 1..Len(s) : s[i] \in Files /\ s[i] \in Nat
  <2>1. s \in Seq(Files)
    BY DEF Ascending
  <2>2. Len(s) \in Nat /\ \A i \in 1..Len(s) : s[i] \in Files
    BY <2>1
  <2>3. \A x \in Files : x \in Nat
    BY DEF Bounds
  <2>4. QED
    BY <2>2, <2>3
<1>2. ASSUME NEW i \in 1..Len(s), NEW j \in 1..Len(s)
      PROVE  i <= j <=> s[i] <= s[j]
  <2> DEFINE a == s[i]
             b == s[j]
  <2>1. (i < j => a < b) /\ (j < i => b < a) /\ (i = j => a = b) /\ a \in Nat /\ b \in Nat
    BY <1>1 DEF Ascending
  <2> HIDE DEF a, b
  <2>2. i \in Nat /\ j \in Nat
    BY <1>1
  <2>3. i <= j <=> a <= b
    BY <2>1, <2>2
  <2>4. QED
    BY <2>3 DEF a, b
<1>3. \A i \in 1..Len(s) : In(s[i], s)
  BY DEF In
<1>4. QED
  BY <1>1, <1>2, <1>3

\* An item behind all the others goes last.
LEMMA Add ==
  ASSUME Bounds, NEW s, Ascending(s), NEW x \in Files, \A y \in Files : In(y, s) => y < x
  PROVE  /\ Ascending(Append(s, x))
         /\ \A y : In(y, Append(s, x)) <=> In(y, s) \/ y = x
<1> DEFINE t == Append(s, x)
           n == Len(s)
<1>1. n \in Nat /\ s \in Seq(Files) /\ \A i \in 1..n : s[i] \in Files /\ s[i] < x
  BY Places DEF Ascending
<1>2. t \in Seq(Files) /\ Len(t) = n + 1 /\ t[n + 1] = x /\ \A i \in 1..n : t[i] = s[i]
  BY <1>1
<1> HIDE DEF t
<1>3. \A i \in 1..(n + 1) : i \in 1..n \/ i = n + 1
  BY <1>1
<1>4. ASSUME NEW i \in 1..(n + 1), NEW j \in 1..(n + 1), i < j
      PROVE  t[i] < t[j]
  <2>1. i \in 1..n
    BY <1>1, <1>4
  <2>2. CASE j = n + 1
    BY <1>1, <1>2, <2>1, <2>2
  <2>3. CASE j \in 1..n
    <3>1. s[i] < s[j]
      BY <1>4, <2>1, <2>3 DEF Ascending
    <3>2. QED
      BY <1>2, <2>1, <2>3, <3>1
  <2>4. QED
    BY <1>3, <2>2, <2>3
<1>5. Ascending(t)
  BY <1>2, <1>4 DEF Ascending
<1>6. ASSUME NEW y PROVE In(y, t) <=> In(y, s) \/ y = x
  <2>1. ASSUME NEW i \in 1..n, s[i] = y PROVE In(y, t)
    <3>1. i \in 1..Len(t) /\ t[i] = y
      BY <1>1, <1>2, <2>1
    <3>2. QED
      BY <3>1, Zenon DEF In
  <2>2. y = x => In(y, t)
    BY <1>1, <1>2 DEF In
  <2>3. ASSUME NEW i \in 1..Len(t), t[i] = y PROVE In(y, s) \/ y = x
    <3>1. i \in 1..n \/ i = n + 1
      BY <1>2, <1>3
    <3>2. QED
      BY <1>2, <2>3, <3>1 DEF In
  <2>4. QED
    BY <2>1, <2>2, <2>3 DEF In
<1>7. QED
  BY <1>5, <1>6 DEF t

\* One sequence after another that lies before it.
LEMMA Join ==
  ASSUME Bounds, NEW s, NEW t, Ascending(s), Ascending(t),
         \A x, y \in Files : In(x, s) /\ In(y, t) => x < y
  PROVE  /\ Ascending(s \o t)
         /\ \A x : In(x, s \o t) <=> In(x, s) \/ In(x, t)
<1> DEFINE u == s \o t
           n == Len(s)
           m == Len(t)
<1>1. /\ n \in Nat /\ s \in Seq(Files) /\ \A i \in 1..n : s[i] \in Files /\ In(s[i], s)
      /\ m \in Nat /\ t \in Seq(Files) /\ \A i \in 1..m : t[i] \in Files /\ In(t[i], t)
  BY Places DEF Ascending
<1>2. /\ u \in Seq(Files) /\ Len(u) = n + m /\ \A i \in 1..n : u[i] = s[i]
      /\ \A i \in 1..m : u[n + i] = t[i]
  BY <1>1
<1> HIDE DEF u
<1>3. \A i \in 1..(n + m) : i \in 1..n \/ (i - n \in 1..m /\ i = n + (i - n))
  BY <1>1
<1>4. ASSUME NEW i \in 1..(n + m), NEW j \in 1..(n + m), i < j
      PROVE  u[i] < u[j]
  <2>1. CASE j \in 1..n
    <3>1. i \in 1..n
      BY <1>1, <1>4, <2>1
    <3>2. s[i] < s[j]
      BY <1>4, <2>1, <3>1 DEF Ascending
    <3>3. QED
      BY <1>2, <2>1, <3>1, <3>2
  <2>2. CASE i \in 1..n /\ j \notin 1..n
    <3>1. j - n \in 1..m /\ u[j] = t[j - n]
      BY <1>2, <1>3, <2>2
    <3>2. s[i] < t[j - n]
      BY <1>1, <2>2, <3>1
    <3>3. QED
      BY <1>2, <2>2, <3>1, <3>2
  <2>3. CASE i \notin 1..n /\ j \notin 1..n
    <3>1. j - n \in 1..m /\ u[j] = t[j - n] /\ i - n \in 1..m /\ u[i] = t[i - n]
      BY <1>2, <1>3, <2>3
    <3>2. i - n < j - n
      BY <1>1, <1>4
    <3>3. t[i - n] < t[j - n]
      BY <3>1, <3>2 DEF Ascending
    <3>4. QED
      BY <3>1, <3>3
  <2>4. QED
    BY <1>1, <1>4, <2>1, <2>2, <2>3
<1>5. Ascending(u)
  BY <1>2, <1>4 DEF Ascending
<1>6. ASSUME NEW x PROVE In(x, u) <=> In(x, s) \/ In(x, t)
  <2>1. ASSUME NEW i \in 1..n, s[i] = x PROVE In(x, u)
    <3>1. i \in 1..Len(u) /\ u[i] = x
      BY <1>1, <1>2, <2>1
    <3>2. QED
      BY <3>1, Zenon DEF In
  <2>2. ASSUME NEW i \in 1..m, t[i] = x PROVE In(x, u)
    <3>1. n + i \in 1..Len(u) /\ u[n + i] = x
      BY <1>1, <1>2, <2>2
    <3>2. QED
      BY <3>1, Zenon DEF In
  <2>3. ASSUME NEW i \in 1..Len(u), u[i] = x PROVE In(x, s) \/ In(x, t)
    <3>1. CASE i \in 1..n
      BY <1>2, <2>3, <3>1 DEF In
    <3>2. CASE i - n \in 1..m /\ i = n + (i - n)
      <4>1. t[i - n] = x
        BY <1>2, <2>3, <3>2
      <4>2. QED
        BY <3>2, <4>1, Zenon DEF In
    <3>3. QED
      BY <1>2, <1>3, <3>1, <3>2
  <2>4. QED
    BY <2>1, <2>2, <2>3 DEF In
<1>7. QED
  BY <1>5, <1>6 DEF u

\* The first n of a sequence are those up to the nth.
LEMMA FirstOnes ==
  ASSUME Bounds, NEW s, Ascending(s), NEW n, n \in 1..Len(s)
  PROVE  /\ Ascending(SubSeq(s, 1, n)) /\ Len(SubSeq(s, 1, n)) = n /\ s[n] \in Files /\ In(s[n], s)
         /\ \A x \in Files : In(x, SubSeq(s, 1, n)) <=> In(x, s) /\ x <= s[n]
<1> DEFINE t == SubSeq(s, 1, n)
<1>1. Len(s) \in Nat /\ s \in Seq(Files) /\ n \in Nat /\ \A i \in 1..n : i \in 1..Len(s)
  BY DEF Ascending
<1>2. Len(t) = n /\ \A i \in 1..n : t[i] = s[i]
  BY <1>1
<1>3. t \in Seq(Files)
  BY <1>1
<1> HIDE DEF t
<1>4. Ascending(t)
  BY <1>1, <1>2, <1>3 DEF Ascending
<1>5. ASSUME NEW x \in Files PROVE In(x, t) <=> In(x, s) /\ x <= s[n]
  <2>1. \A i \in 1..Len(s) : i \in 1..n <=> s[i] <= s[n]
    <3>1. ASSUME NEW i \in 1..Len(s) PROVE i <= n <=> s[i] <= s[n]
      BY Places
    <3>2. QED
      BY <1>1, <3>1
  <2>2. QED
    BY <1>1, <1>2, <2>1 DEF In
<1>6. s[n] \in Files /\ In(s[n], s)
  BY Places
<1>7. Len(t) = n
  BY <1>2
<1>8. QED
  BY <1>4, <1>5, <1>6, <1>7, Zenon DEF t

\* The first item and the others.
LEMMA HeadAndTail ==
  ASSUME Bounds, NEW s, Ascending(s), s # <<>>
  PROVE  /\ Head(s) \in Files /\ In(Head(s), s) /\ Ascending(Tail(s))
         /\ \A x \in Files : In(x, s) <=> x = Head(s) \/ In(x, Tail(s))
         /\ \A x \in Files : In(x, Tail(s)) => Head(s) < x
<1> DEFINE t == Tail(s)
           h == Head(s)
           n == Len(s)
<1>1. s \in Seq(Files) /\ n \in Nat \ {0} /\ 1 \in 1..n
  BY EmptySeq DEF Ascending
<1>2. t \in Seq(Files) /\ Len(t) = n - 1 /\ \A i \in 1..(n - 1) : t[i] = s[i + 1]
  BY <1>1
<1>3. h = s[1]
  BY <1>1
<1> HIDE DEF t, h
<1>4. h \in Files /\ In(h, s)
  BY <1>1, <1>3, Places
<1>5. \A i \in 1..(n - 1) : i + 1 \in 1..n /\ 1 < i + 1
  BY <1>1
<1>6. \A i \in 1..n : i = 1 \/ (i - 1 \in 1..(n - 1) /\ i = (i - 1) + 1)
  BY <1>1
<1>7. Ascending(t)
  <2> SUFFICES ASSUME NEW i \in 1..(n - 1), NEW j \in 1..(n - 1), i < j
               PROVE  t[i] < t[j]
    BY <1>2 DEF Ascending
  <2>1. i + 1 < j + 1
    BY <1>1
  <2>2. s[i + 1] < s[j + 1]
    BY <1>5, <2>1 DEF Ascending
  <2>3. QED
    BY <1>2, <2>2
<1>8. ASSUME NEW x \in Files, In(x, t) PROVE h < x /\ In(x, s)
  <2>1. PICK i \in 1..(n - 1) : t[i] = x
    BY <1>2, <1>8 DEF In
  <2>2. s[1] < s[i + 1]
    BY <1>1, <1>5 DEF Ascending
  <2>3. s[i + 1] = x /\ i + 1 \in 1..n
    BY <1>2, <1>5, <2>1
  <2>4. QED
    BY <1>3, <2>2, <2>3 DEF In
<1>9. ASSUME NEW x \in Files, In(x, s) PROVE x = h \/ In(x, t)
  <2>1. PICK i \in 1..n : s[i] = x
    BY <1>9 DEF In
  <2>2. CASE i = 1
    BY <1>3, <2>1, <2>2
  <2>3. CASE i - 1 \in 1..(n - 1) /\ i = (i - 1) + 1
    <3>1. t[i - 1] = x
      BY <1>2, <2>1, <2>3
    <3>2. QED
      BY <1>2, <2>3, <3>1, Zenon DEF In
  <2>4. QED
    BY <1>6, <2>2, <2>3
<1>10. QED
  BY <1>4, <1>7, <1>8, <1>9 DEF t, h

\* The last item is behind all the others.
LEMMA LastOne ==
  ASSUME Bounds, NEW s, Ascending(s), s # <<>>
  PROVE  /\ Last(s) \in Files /\ In(Last(s), s)
         /\ \A x \in Files : In(x, s) => x <= Last(s)
<1>1. s \in Seq(Files) /\ Len(s) \in Nat \ {0} /\ Len(s) \in 1..Len(s)
  BY EmptySeq DEF Ascending
<1>2. Last(s) = s[Len(s)]
  BY DEF Last
<1>3. \A i \in 1..Len(s) : s[i] <= s[Len(s)]
  <2> TAKE i \in 1..Len(s)
  <2>1. i <= Len(s)
    BY <1>1
  <2>2. QED
    BY <1>1, <2>1, Places
<1>4. QED
  BY <1>1, <1>2, <1>3, Places DEF In

\* The empty sequence.
LEMMA NoItems ==
  /\ Ascending(<<>>) /\ \A x : ~ In(x, <<>>)
  BY DEF Ascending, In

----------------------------------------------------------------------------
(* The invariant.                                                          *)

Making == page.pc \in {"listing", "resolving", "walking"}

Typed ==
  /\ TypeOK /\ amid \in BOOLEAN
  /\ client \in [kind : {"none", "files", "gallery"}, cursor : Files \cup {0}, items : Seq(Files)]
  /\ page \in [pc : {"none", "asked", "listing", "resolving", "walking", "next", "done", "refused"},
               cursor : Files \cup {0}, batch : Seq(Files), full : BOOLEAN, items : Seq(Files),
               above : {Root, Inner, Outer}]

\* What a page in the making holds, stage by stage.
Shape ==
  /\ client.kind = "none" <=> page.pc = "none"
  /\ page.pc = "none" => client.cursor = 0 /\ client.items = <<>>
  /\ page.pc = "asked" => page.cursor = client.cursor
  /\ Making => client.kind = "gallery" /\ client.cursor <= page.cursor
  /\ ~ Making => page.items = <<>>
  /\ page.pc \notin {"resolving", "walking"} => page.batch = <<>>
  /\ page.pc = "walking" => page.batch # <<>> /\ page.above \in {Inner, Outer}

\* The client's items, then the page's, then the batch.
Order ==
  /\ Ascending(client.items) /\ Ascending(page.items) /\ Ascending(page.batch)
  /\ page.pc # "done" => \A x \in Files : In(x, client.items) => x <= client.cursor
  /\ \A x \in Files : In(x, page.items) \/ In(x, page.batch) => client.cursor < x /\ x <= page.cursor
  /\ \A x, y \in Files : In(x, page.items) /\ In(y, page.batch) => x < y

\* The files that were there all the time are in one of the three, up to the
\* cursor, but for those whose walk was torn.
Whole ==
  /\ page.pc # "none" => steady \subseteq Listed(client.kind, file, folder)
  /\ page.pc = "done" => \A x \in steady \ torn : In(x, client.items)
  /\ page.pc # "done" => \A x \in steady \ torn : x <= client.cursor => In(x, client.items)
  /\ Making => \A x \in steady \ torn :
       client.cursor < x /\ x <= page.cursor => In(x, page.items) \/ In(x, page.batch)
  /\ page.pc \in {"resolving", "walking"} /\ ~ page.full => \A x \in steady : x <= page.cursor

\* What is on the page was visible in its walk, unless that was torn.
Visible == \A x \in Files \ torn : In(x, page.items) => x \in seen

\* Half-way up the folders the answer is the one of the folder reached; until a
\* change falls into the walk, the way there is as it was found.
Walk ==
  page.pc = "walking" /\ Head(page.batch) \notin torn =>
    /\ Shown(folder, page.above) => Head(page.batch) \in seen
    /\ Head(page.batch) \in steady => Shown(folder, page.above)
    /\ ~ amid =>
         /\ file[Head(page.batch)].visibility = "inherit" /\ file[Head(page.batch)].folder = Inner
         /\ page.above = Outer => folder[Inner].visibility = "inherit" /\ folder[Inner].parent = Outer

ListInv == Typed /\ Shape /\ Order /\ Whole /\ Visible /\ Walk

\* The histories of the other files stay as they are.
Apart(x) ==
  /\ seen' \subseteq Files /\ torn' \subseteq Files /\ amid' \in BOOLEAN /\ steady' = steady
  /\ \A y : y # x => (y \in seen' <=> y \in seen) /\ (y \in torn' <=> y \in torn)

\* The members of the lists are files, which are numbers.
LEMMA Numbers ==
  ASSUME Bounds, Typed
  PROVE  /\ \A x \in Files : x \in Nat /\ x # 0
         /\ client.cursor \in Nat /\ page.cursor \in Nat /\ changes \in Nat
         /\ seen \subseteq Files /\ torn \subseteq Files /\ steady \subseteq Files
<1>1. \A x \in Files : x \in Nat /\ x # 0
  BY DEF Bounds
<1>2. client.cursor \in Files \cup {0} /\ page.cursor \in Files \cup {0}
  BY DEF Typed
<1>3. /\ MaxChanges \in Nat /\ changes \in 0..MaxChanges
      /\ seen \subseteq Files /\ torn \subseteq Files /\ steady \subseteq Files
  BY DEF Typed, TypeOK, Bounds
<1>4. QED
  BY <1>1, <1>2, <1>3

\* What Shown comes to, folder by folder.
LEMMA ShownFacts ==
  ASSUME Bounds, NEW d \in [{Inner, Outer} -> [parent : {Root, Outer}, visibility : Visibility]]
  PROVE  /\ Shown(d, Root)
         /\ \A dir \in {Inner, Outer} :
              /\ d[dir].visibility # "inherit" => (Shown(d, dir) <=> d[dir].visibility # "hidden")
              /\ d[dir].visibility = "inherit" /\ d[dir].parent = Root => Shown(d, dir)
              /\ d[dir].visibility = "inherit" /\ d[dir].parent = Outer => (Shown(d, dir) <=> Shown(d, Outer))
<1>1. /\ Inner # Outer /\ Root # Inner /\ Root # Outer
      /\ \A dir \in {Inner, Outer} : d[dir].visibility \in {"inherit", "visible", "hidden"}
  BY DEF Bounds, Visibility
<1>2. QED
  BY <1>1 DEF Shown

\* Nobody has asked for anything.
LEMMA ListStarts ==
  ASSUME Bounds, Init
  PROVE  ListInv
<1>1. Typed
  <2>1. file \in [Files -> [state : {"active", "trashed", "purged"}, folder : {Root, Inner},
                            visibility : Visibility]]
        /\ folder \in [{Inner, Outer} -> [parent : {Root, Outer}, visibility : Visibility]]
    BY DEF Init, Visibility
  <2>2. /\ enabled = TRUE /\ client = [kind |-> "none", cursor |-> 0, items |-> <<>>]
        /\ page = [pc |-> "none", cursor |-> 0, batch |-> <<>>, full |-> FALSE,
                   items |-> <<>>, above |-> Root]
        /\ changes = 0 /\ seen = {} /\ amid = FALSE /\ torn = {} /\ steady = {} /\ MaxChanges \in Nat
    BY DEF Init, NoPage, Bounds
  <2>3. TypeOK
    BY <2>1, <2>2 DEF TypeOK
  <2>4. amid \in BOOLEAN
    BY <2>2
  <2>5. client \in [kind : {"none", "files", "gallery"}, cursor : Files \cup {0}, items : Seq(Files)]
    BY <2>2
  <2>6. page \in [pc : {"none", "asked", "listing", "resolving", "walking", "next", "done", "refused"},
               cursor : Files \cup {0}, batch : Seq(Files), full : BOOLEAN, items : Seq(Files),
               above : {Root, Inner, Outer}]
    BY <2>2
  <2>7. QED
    BY <2>3, <2>4, <2>5, <2>6, Zenon DEF Typed
<1>2. Shape
  BY DEF Init, Shape, Making, NoPage
<1>3. Order
  BY NoItems DEF Init, Order, NoPage
<1>4. Whole /\ Visible /\ Walk
  BY NoItems DEF Init, Whole, Visible, Walk, NoPage, Making
<1>5. QED
  BY <1>1, <1>2, <1>3, <1>4 DEF ListInv

\* The page goes to the client: items, and the cursor of the next page if
\* there is one.
LEMMA AnswerKeeps ==
  ASSUME Bounds, ListInv, page.pc \in {"asked", "resolving"}, NEW items, NEW cursor \in Files \cup {0},
         Answer(items, cursor), UNCHANGED <<file, folder, enabled, changes, seen, amid, torn, steady>>,
         Ascending(items),
         \A x \in Files : In(x, items) => client.cursor < x /\ (cursor = 0 \/ x <= cursor),
         \A x \in steady \ torn : client.cursor < x /\ (cursor = 0 \/ x <= cursor) => In(x, items),
         client.cursor <= cursor \/ cursor = 0
  PROVE  ListInv'
<1> DEFINE both == client.items \o items
           pc == IF cursor = 0 THEN "done" ELSE "next"
<1>1. /\ client' = [kind |-> client.kind, cursor |-> cursor, items |-> both]
      /\ page' = [pc |-> pc, cursor |-> 0, batch |-> <<>>, full |-> FALSE, items |-> <<>>, above |-> Root]
  BY DEF Answer, NoPage, ListInv, Typed
<1>2. /\ client.kind \in {"files", "gallery"} /\ Ascending(client.items)
      /\ \A x \in Files : In(x, client.items) => x <= client.cursor
      /\ steady \subseteq Files /\ client.cursor \in Nat
      /\ \A x \in Files : x \in Nat /\ x # 0
  BY Numbers DEF ListInv, Typed, Shape, Order
<1>3. \A x, y \in Files : In(x, client.items) /\ In(y, items) => x < y
  BY <1>2
<1>4. /\ Ascending(both)
      /\ \A x : In(x, both) <=> In(x, client.items) \/ In(x, items)
  BY <1>2, <1>3, Join
<1> HIDE DEF both
<1>5. /\ client'.kind = client.kind /\ client'.cursor = cursor /\ client'.items = both
      /\ page'.pc = pc /\ page'.cursor = 0 /\ page'.batch = <<>> /\ page'.items = <<>>
      /\ pc \in {"next", "done"} /\ (pc = "done" <=> cursor = 0)
      /\ ~ amid /\ UNCHANGED <<file, folder, enabled, changes, seen, amid, torn, steady>>
  BY <1>1 DEF ListInv, Typed, TypeOK
<1>6. Typed'
  <2>1. both \in Seq(Files)
    BY <1>4 DEF Ascending
  <2>2. QED
    BY <1>1, <1>5, <2>1 DEF ListInv, Typed, TypeOK
<1>7. Shape'
  BY <1>2, <1>5 DEF ListInv, Shape, Making
<1>8. Order'
  <2>1. \A x \in Files : cursor # 0 /\ In(x, both) => x <= cursor
    BY <1>2, <1>4
  <2>2. QED
    BY <1>4, <1>5, <2>1, NoItems DEF Order
<1>9. Whole'
  <2>1. steady' \subseteq Listed(client.kind, file, folder)'
    BY <1>2, <1>5 DEF ListInv, Whole, Listed, Shape
  <2>2. ASSUME NEW x \in steady \ torn, cursor = 0 \/ x <= cursor
        PROVE  In(x, both)
    <3>1. x <= client.cursor => In(x, client.items)
      BY <2>2 DEF ListInv, Whole
    <3>2. client.cursor < x => In(x, items)
      BY <2>2
    <3>3. QED
      BY <1>2, <1>4, <3>1, <3>2
  <2>3. QED
    BY <1>5, <2>1, <2>2 DEF Whole, Making
<1>10. Visible'
  BY <1>5, NoItems DEF Visible
<1>11. Walk'
  BY <1>5 DEF Walk
<1>12. QED
  BY <1>6, <1>7, <1>8, <1>9, <1>10, <1>11 DEF ListInv

\* The first of the batch goes on the page or does not.
LEMMA DecidedKeeps ==
  ASSUME Bounds, ListInv, page.pc \in {"resolving", "walking"}, page.batch # <<>>,
         NEW visible \in BOOLEAN, Decided(visible),
         UNCHANGED <<file, folder, enabled, client, changes>>, Apart(Head(page.batch)), ~ amid',
         Head(page.batch) \notin torn' =>
           /\ visible => Head(page.batch) \in seen'
           /\ Head(page.batch) \in steady => visible
  PROVE  ListInv'
<1> DEFINE x == Head(page.batch)
           rest == Tail(page.batch)
           items == IF visible THEN Append(page.items, x) ELSE page.items
<1>1. page' = [pc |-> "resolving", cursor |-> page.cursor, batch |-> rest, full |-> page.full,
               items |-> items, above |-> page.above]
  BY DEF Decided, ListInv, Typed
<1>2. /\ Ascending(page.items) /\ Ascending(page.batch)
      /\ steady \subseteq Files /\ client.cursor \in Nat /\ page.cursor \in Nat
      /\ \A y \in Files : y \in Nat /\ y # 0
      /\ \A y \in Files : In(y, page.items) \/ In(y, page.batch) => client.cursor < y /\ y <= page.cursor
      /\ \A y, z \in Files : In(y, page.items) /\ In(z, page.batch) => y < z
  BY Numbers DEF ListInv, Order
<1>3. /\ x \in Files /\ In(x, page.batch) /\ Ascending(rest)
      /\ \A y \in Files : In(y, page.batch) <=> y = x \/ In(y, rest)
      /\ \A y \in Files : In(y, rest) => x < y
  BY <1>2, HeadAndTail
<1> HIDE DEF x, rest
<1>4. /\ Ascending(Append(page.items, x))
      /\ \A y : In(y, Append(page.items, x)) <=> In(y, page.items) \/ y = x
  <2>1. \A y \in Files : In(y, page.items) => y < x
    BY <1>2, <1>3
  <2>2. QED
    BY <1>2, <1>3, <2>1, Add
<1>5. /\ Ascending(items)
      /\ \A y : In(y, items) <=> In(y, page.items) \/ (visible /\ y = x)
  BY <1>2, <1>4
<1> HIDE DEF items
<1>6. /\ client' = client /\ page'.pc = "resolving" /\ page'.cursor = page.cursor
      /\ page'.batch = rest /\ page'.items = items /\ page'.full = page.full
      /\ Making /\ Making' /\ changes' = changes /\ file' = file /\ folder' = folder
      /\ Apart(x) /\ ~ amid'
  BY <1>1 DEF Making, x
<1>x. x \notin torn' =>
        /\ visible => x \in seen'
        /\ x \in steady => visible
  BY DEF x
<1>7. Typed'
  <2>1. items \in Seq(Files) /\ rest \in Seq(Files)
    BY <1>3, <1>5 DEF Ascending
  <2>2. QED
    BY <1>1, <1>6, <2>1 DEF ListInv, Typed, TypeOK, Apart
<1>8. Shape'
  BY <1>6 DEF ListInv, Shape
<1>9. Order'
  <2>1. \A y \in Files : In(y, items) \/ In(y, rest) => client.cursor < y /\ y <= page.cursor
    BY <1>2, <1>3, <1>5
  <2>2. \A y, z \in Files : In(y, items) /\ In(z, rest) => y < z
    BY <1>2, <1>3, <1>5
  <2>3. QED
    BY <1>3, <1>5, <1>6, <2>1, <2>2 DEF ListInv, Order
<1>10. Whole'
  <2>1. (steady \subseteq Listed(client.kind, file, folder))'
    BY <1>6 DEF ListInv, Whole, Listed, VisibleIn, Shown, Making, Apart
  <2>2. ASSUME NEW y \in steady \ torn', client.cursor < y, y <= page.cursor
        PROVE  In(y, items) \/ In(y, rest)
    <3>1. y # x => In(y, page.items) \/ In(y, page.batch)
      BY <1>6, <2>2 DEF ListInv, Whole, Apart
    <3>2. x \in steady /\ x \notin torn' => visible
      BY <1>x
    <3>3. y \in Files
      BY <1>2, <2>2
    <3>4. QED
      BY <1>3, <1>5, <2>2, <3>1, <3>2, <3>3
  <2>3. ASSUME NEW y \in steady \ torn', y <= client.cursor
        PROVE  In(y, client.items)
    <3>1. y # x
      BY <1>2, <1>3, <2>3
    <3>2. QED
      BY <1>6, <2>3, <3>1 DEF ListInv, Whole, Apart, Making
  <2>4. steady' = steady /\ (~ page.full => \A y \in steady : y <= page.cursor)
    BY <1>6 DEF ListInv, Whole, Apart
  <2>5. QED
    BY <1>6, <2>1, <2>2, <2>3, <2>4 DEF Whole
<1>11. Visible'
  <2>1. ASSUME NEW y \in Files \ torn', In(y, items)
        PROVE  y \in seen'
    <3>1. CASE y = x
      <4>1. ~ In(x, page.items)
        <5>1. x \in Nat /\ (In(x, page.items) => x < x)
          BY <1>2, <1>3
        <5>2. QED
          BY <5>1
      <4>2. QED
        BY <1>5, <1>x, <2>1, <3>1, <4>1
    <3>2. CASE y # x
      BY <1>5, <1>6, <2>1, <3>2 DEF ListInv, Visible, Apart
    <3>3. QED
      BY <3>1, <3>2
  <2>2. QED
    BY <1>6, <2>1 DEF Visible
<1>12. Walk'
  BY <1>6 DEF Walk
<1>13. QED
  BY <1>7, <1>8, <1>9, <1>10, <1>11, <1>12 DEF ListInv

\* A change of a file or a folder, of which the histories take note.
LEMMA ChangeKeeps ==
  ASSUME Bounds, ListInv, Changed, Observe \/ (Unobserved /\ UNCHANGED <<file, folder>>),
         file' \in [Files -> [state : {"active", "trashed", "purged"}, folder : {Root, Inner},
                             visibility : Visibility]],
         folder' \in [{Inner, Outer} -> [parent : {Root, Outer}, visibility : Visibility]],
         enabled' \in BOOLEAN,
         \/ folder' = folder
         \/ file' = file /\ \E dir \in {Inner, Outer} : folder'[dir] = folder[dir]
  PROVE  ListInv'
<1> DEFINE now == Listed(client.kind, file', folder')
<1>1. /\ client' = client /\ page' = page /\ changes' = changes + 1 /\ changes < MaxChanges
      /\ client.kind # "none" /\ page.pc # "none" /\ changes \in Nat
      /\ (Making' <=> Making) /\ client.kind \in {"files", "gallery"}
  BY Numbers DEF Changed, ListInv, Shape, Making, Typed
<1> DEFINE x == Head(page.batch)
           Would == VisibleIn(file', folder', x)
<1>w. page.pc = "walking" => x \in Files /\ client.kind = "gallery"
  BY HeadAndTail DEF ListInv, Shape, Making, Order
<1>2. /\ now \subseteq Files /\ seen \subseteq seen' /\ torn \subseteq torn'
      /\ steady' \subseteq steady /\ steady' \subseteq now
      /\ seen' \subseteq Files /\ torn' \subseteq Files /\ amid' \in BOOLEAN
      /\ amid' => page.pc = "walking"
  <2>1. now \subseteq Files
    BY DEF Listed
  <2>2. seen \subseteq Files /\ torn \subseteq Files /\ amid \in BOOLEAN /\ (amid => page.pc = "walking")
    BY Numbers DEF ListInv, Typed, TypeOK
  <2>3. CASE Observe
    <3>1. steady' = steady \cap now
      BY <1>1, <2>3 DEF Observe
    <3>2. CASE page.pc = "walking"
      <4>1. /\ seen' = IF Would THEN seen \cup {x} ELSE seen
            /\ torn' = IF amid THEN torn \cup {x} ELSE torn
            /\ amid' = TRUE
        BY <2>3, <3>2 DEF Observe
      <4> HIDE DEF now, Would, x
      <4>2. QED
        BY <1>w, <2>1, <2>2, <3>1, <3>2, <4>1
    <3>3. CASE page.pc # "walking"
      <4>1. UNCHANGED <<seen, amid, torn>>
        BY <2>3, <3>3 DEF Observe
      <4> HIDE DEF now
      <4>2. QED
        BY <2>1, <2>2, <3>1, <3>3, <4>1
    <3>4. QED
      BY <3>2, <3>3
  <2>4. CASE Unobserved /\ UNCHANGED <<file, folder>>
    <3>1. steady \subseteq now
      BY <1>1, <2>4 DEF ListInv, Whole
    <3> HIDE DEF now
    <3>2. QED
      BY <2>1, <2>2, <2>4, <3>1 DEF Unobserved
  <2>5. QED
    BY <2>3, <2>4
<1>3. (Listed(client.kind, file, folder))' = now
  BY <1>1
<1>4. page.pc = "walking" => (x \in now => Would)
  BY <1>w DEF Listed
<1> HIDE DEF now, x, Would
<1>6. Typed'
  <2>1. changes' \in 0..MaxChanges
    BY <1>1 DEF Bounds
  <2>2. seen' \subseteq Files /\ torn' \subseteq Files /\ steady' \subseteq Files
    BY <1>2
  <2>3. QED
    BY <1>1, <1>2, <2>1, <2>2 DEF ListInv, Typed, TypeOK
<1>7. Shape'
  BY <1>1 DEF ListInv, Shape
<1>8. Order'
  BY <1>1 DEF ListInv, Order
<1>9. Whole'
  <2>1. \A y \in steady' \ torn' : y \in steady \ torn
    BY <1>2
  <2>2. QED
    BY <1>1, <1>2, <1>3, <2>1 DEF ListInv, Whole
<1>10. Visible'
  BY <1>1, <1>2 DEF ListInv, Visible
<1>11. CASE Unobserved /\ UNCHANGED <<file, folder>>
  <2>1. Walk'
    BY <1>1, <1>11 DEF ListInv, Walk, Unobserved
  <2>2. QED
    BY <1>6, <1>7, <1>8, <1>9, <1>10, <2>1 DEF ListInv
<1>12. CASE Observe
  <2> SUFFICES ASSUME page.pc = "walking", x \notin torn' PROVE Walk'
    BY <1>1, <1>6, <1>7, <1>8, <1>9, <1>10 DEF ListInv, Walk, x
  <2> DEFINE dir == page.above
  <2>1. /\ dir \in {Inner, Outer} /\ x \in Files /\ x \notin torn /\ ~ amid /\ amid' = TRUE
        /\ (Would => x \in seen') /\ (x \in steady' => Would)
    <3>1. /\ seen' = IF Would THEN seen \cup {x} ELSE seen
          /\ torn' = IF amid THEN torn \cup {x} ELSE torn
          /\ amid' = TRUE
      BY <1>12 DEF Observe, Would, x
    <3>2. dir \in {Inner, Outer}
      BY DEF ListInv, Shape
    <3>3. x \in steady' => Would
      BY <1>2, <1>4
    <3>4. QED
      BY <1>w, <3>1, <3>2, <3>3
  <2>2. /\ Shown(folder, dir) => x \in seen
        /\ x \in steady => Shown(folder, dir)
        /\ file[x].visibility = "inherit" /\ file[x].folder = Inner
        /\ dir = Outer => folder[Inner].visibility = "inherit" /\ folder[Inner].parent = Outer
    BY <2>1 DEF ListInv, Walk, x
  <2> HIDE DEF dir
  <2>3. CASE Shown(folder', dir) = Shown(folder, dir)
    BY <1>1, <1>2, <2>1, <2>2, <2>3 DEF Walk, x, dir
  <2>4. CASE file' = file /\ Shown(folder', dir) = Shown(folder', Inner)
    <3>1. Would <=> Shown(folder', Inner)
      BY <2>1, <2>2, <2>4 DEF Would, VisibleIn
    <3>2. QED
      BY <1>1, <1>2, <2>1, <2>4, <3>1 DEF Walk, x, dir
  <2>5. CASE folder' = folder
    BY <2>3, <2>5
  <2>6. CASE file' = file /\ folder'[Inner] = folder[Inner]
    <3>1. CASE dir = Inner
      BY <2>4, <2>6, <3>1
    <3>2. CASE dir = Outer
      <4>1. Shown(folder', Outer) = Shown(folder', Inner)
        <5>1. /\ Inner # Root /\ Outer # Root /\ Inner # Outer
              /\ folder'[Inner].visibility = "inherit" /\ folder'[Inner].parent = Outer
              /\ folder'[Outer].visibility \in {"inherit", "visible", "hidden"}
          BY <2>2, <2>6, <3>2 DEF Bounds, Visibility
        <5>2. QED
          BY <5>1 DEF Shown
      <4>2. QED
        BY <2>4, <2>6, <3>2, <4>1
    <3>3. QED
      BY <2>1, <3>1, <3>2
  <2>7. CASE file' = file /\ folder'[Outer] = folder[Outer]
    <3>1. CASE dir = Inner
      BY <2>4, <2>7, <3>1
    <3>2. CASE dir = Outer
      <4>1. Shown(folder', Outer) = Shown(folder, Outer)
        BY <2>7 DEF Shown, Bounds
      <4>2. QED
        BY <2>3, <3>2, <4>1
    <3>3. QED
      BY <2>1, <3>1, <3>2
  <2>8. QED
    BY <2>5, <2>6, <2>7
<1>13. QED
  BY <1>11, <1>12

----------------------------------------------------------------------------
(* The steps of a page.                                                    *)

\* The client asks for the first page: the histories begin.
LEMMA StartKeeps ==
  ASSUME Bounds, ListInv, NEW kind \in {"files", "gallery"}, Start(kind)
  PROVE  ListInv'
<1> DEFINE now == Listed(kind, file, folder)
<1>1. /\ client' = [kind |-> kind, cursor |-> 0, items |-> <<>>]
      /\ page' = [pc |-> "asked", cursor |-> 0, batch |-> <<>>, full |-> FALSE, items |-> <<>>,
                 above |-> Root]
      /\ steady' = now /\ ~ amid /\ UNCHANGED <<file, folder, enabled, changes, seen, amid, torn>>
  BY DEF Start, NoPage, ListInv, Shape, Typed, TypeOK
<1>2. now \subseteq Files /\ (Listed(client.kind, file, folder))' = now
  BY <1>1 DEF Listed
<1> HIDE DEF now
<1>3. Typed'
  BY <1>1, <1>2 DEF ListInv, Typed, TypeOK
<1>4. Shape' /\ Walk'
  BY <1>1 DEF ListInv, Shape, Making, Walk
<1>5. Order'
  BY <1>1, NoItems DEF Order
<1>6. Whole'
  <2>1. \A x \in steady' : ~ (x <= 0)
    BY <1>1, <1>2, Numbers DEF ListInv
  <2>2. QED
    BY <1>1, <1>2, <2>1 DEF Whole, Making
<1>7. Visible'
  BY <1>1, NoItems DEF Visible
<1>8. QED
  BY <1>3, <1>4, <1>5, <1>6, <1>7 DEF ListInv

\* The client asks for another page, from its cursor.
LEMMA NextPageKeeps ==
  ASSUME Bounds, ListInv, NextPage
  PROVE  ListInv'
<1> DEFINE now == Listed(client.kind, file, folder)
<1>1. /\ page' = [pc |-> "asked", cursor |-> client.cursor, batch |-> <<>>, full |-> FALSE, items |-> <<>>,
                 above |-> Root]
      /\ page.pc = "next" /\ ~ amid
      /\ UNCHANGED <<file, folder, enabled, client, changes, seen, amid, torn, steady>>
  BY DEF NextPage, NoPage, Unobserved, ListInv, Typed, TypeOK
<1>2. now \subseteq Files /\ (Listed(client.kind, file, folder))' = now
  BY <1>1 DEF Listed
<1> HIDE DEF now
<1>3. Typed'
  BY <1>1, <1>2 DEF ListInv, Typed, TypeOK
<1>4. Shape' /\ Walk'
  BY <1>1 DEF ListInv, Shape, Making, Walk
<1>5. Order'
  BY <1>1, NoItems DEF ListInv, Order
<1>6. Whole'
  <2>1. steady \subseteq now
    BY <1>1 DEF ListInv, Whole, now
  <2>2. QED
    BY <1>1, <1>2, <2>1 DEF ListInv, Whole, Making
<1>7. Visible'
  BY <1>1, NoItems DEF Visible
<1>8. QED
  BY <1>3, <1>4, <1>5, <1>6, <1>7 DEF ListInv

\* The gallery is off, or on, or the page is not full yet: another stage, with
\* the lists as they are.
LEMMA StageKeeps ==
  ASSUME Bounds, ListInv, NEW pc \in {"refused", "listing"},
         UNCHANGED <<file, folder, enabled, client, changes, seen, amid, torn, steady>>,
         \/ /\ pc = "refused" /\ page.pc = "asked"
            /\ page' = [NoPage EXCEPT !.pc = "refused"]
         \/ /\ pc = "listing" /\ client.kind = "gallery"
            /\ page.pc = "asked" \/ (page.pc = "resolving" /\ page.batch = <<>>)
            /\ page' = [page EXCEPT !.pc = "listing"]
  PROVE  ListInv'
<1>1. /\ page' \in [pc : {"none", "asked", "listing", "resolving", "walking", "next", "done", "refused"},
               cursor : Files \cup {0}, batch : Seq(Files), full : BOOLEAN, items : Seq(Files),
               above : {Root, Inner, Outer}]
      /\ page'.pc = pc /\ page'.items = page.items /\ page.batch = <<>> /\ page'.batch = <<>>
      /\ pc = "listing" => page'.cursor = page.cursor
      /\ client' = client /\ changes' = changes /\ file' = file /\ folder' = folder
      /\ page.pc \in {"asked", "resolving"} /\ ~ amid
      /\ UNCHANGED <<seen, amid, torn, steady>>
  BY DEF ListInv, Typed, TypeOK, Shape, Making, NoPage
<1>2. Typed'
  BY <1>1 DEF ListInv, Typed, TypeOK
<1>3. client.cursor \in Nat /\ page.cursor \in Nat
  BY Numbers DEF ListInv
<1>4. pc = "refused" => page.items = <<>>
  BY DEF ListInv, Shape, Making
<1>5. Shape'
  BY <1>1, <1>3, <1>4 DEF ListInv, Shape, Making
<1>6. Order'
  BY <1>1, <1>4, NoItems DEF ListInv, Order
<1>7. (Listed(client.kind, file, folder))' = Listed(client.kind, file, folder)
  BY <1>1
<1>8. Whole'
  <2>1. ASSUME pc = "listing", NEW x \in steady \ torn, client.cursor < x, x <= page.cursor
        PROVE  In(x, page.items)
    <3>1. x \in Nat
      BY <2>1, Numbers DEF ListInv
    <3>2. page.pc = "asked" => page.cursor = client.cursor
      BY DEF ListInv, Shape
    <3>3. page.pc = "resolving"
      BY <1>1, <1>3, <2>1, <3>1, <3>2
    <3>4. QED
      BY <1>1, <2>1, <3>3, NoItems DEF ListInv, Whole, Making
  <2>2. QED
    BY <1>1, <1>7, <2>1 DEF ListInv, Whole, Making
<1>9. Visible'
  BY <1>1, <1>7, NoItems DEF ListInv, Visible
<1>10. Walk'
  BY <1>1 DEF Walk
<1>11. QED
  BY <1>2, <1>5, <1>6, <1>8, <1>9, <1>10 DEF ListInv

\* One statement: the page is the batch but for its last file, which shows that
\* there is another page.
LEMMA FilesPageKeeps ==
  ASSUME Bounds, ListInv, FilesPage
  PROVE  ListInv'
<1> DEFINE b == Batch(page.cursor, PageSize + 1)
<1>1. /\ page.pc = "asked" /\ client.kind = "files" /\ page.cursor = client.cursor
      /\ UNCHANGED <<file, folder, enabled, changes, seen, amid, torn, steady>>
      /\ \/ Len(b) > PageSize /\ Answer(SubSeq(b, 1, PageSize), b[PageSize])
         \/ ~ (Len(b) > PageSize) /\ Answer(b, 0)
  BY DEF FilesPage, Unobserved, ListInv, Shape
<1>2. client.cursor \in Nat /\ page.cursor \in Nat /\ steady \subseteq Files /\ PageSize \in Nat \ {0}
      /\ \A x \in Files : x \in Nat /\ x # 0
  BY Numbers DEF ListInv, Bounds
<1>3. /\ Ascending(b) /\ Len(b) <= PageSize + 1
      /\ \A x \in Files : In(x, b) => x > client.cursor
      /\ \A x \in Files : x > client.cursor /\ file[x].state = "active" =>
            In(x, b) \/ (Len(b) = PageSize + 1 /\ \A y \in Files : In(y, b) => y < x)
  <2>1. client.cursor \in Nat /\ PageSize + 1 \in Nat \ {0} /\ b = Batch(client.cursor, PageSize + 1)
    BY <1>1, <1>2
  <2> HIDE DEF b
  <2>2. QED
    BY <2>1, BatchFacts
<1> HIDE DEF b
<1>4. \A x \in steady : x \in Files /\ file[x].state = "active"
  BY <1>1 DEF ListInv, Whole, Listed
<1>5. Len(b) \in Nat
  BY <1>3, Places
<1>6. CASE Len(b) > PageSize /\ Answer(SubSeq(b, 1, PageSize), b[PageSize])
  <2> DEFINE items == SubSeq(b, 1, PageSize)
             cursor == b[PageSize]
  <2>1. PageSize \in 1..Len(b)
    BY <1>2, <1>5, <1>6
  <2>2. /\ Ascending(items) /\ cursor \in Files /\ In(cursor, b)
        /\ \A x \in Files : In(x, items) <=> In(x, b) /\ x <= cursor
    BY <1>3, <2>1, FirstOnes
  <2>3. Answer(items, cursor)
    BY <1>6
  <2> HIDE DEF items, cursor
  <2>4. client.cursor <= cursor
    BY <1>2, <1>3, <2>2
  <2>5. \A x \in Files : In(x, items) => client.cursor < x /\ x <= cursor
    BY <1>2, <1>3, <2>2
  <2>6. ASSUME NEW x \in steady, client.cursor < x, cursor = 0 \/ x <= cursor
        PROVE  In(x, items)
    <3>1. x \in Files /\ x <= cursor /\ x \in Nat /\ cursor \in Nat
      BY <1>2, <1>4, <2>2, <2>6
    <3>2. In(x, b)
      BY <1>2, <1>3, <1>4, <2>2, <2>6, <3>1
    <3>3. QED
      BY <2>2, <3>1, <3>2
  <2>7. QED
    BY <1>1, <2>2, <2>3, <2>4, <2>5, <2>6, AnswerKeeps
<1>7. CASE ~ (Len(b) > PageSize) /\ Answer(b, 0)
  <2>1. \A x \in steady : client.cursor < x => In(x, b)
    BY <1>2, <1>3, <1>4, <1>5, <1>7
  <2>2. \A x \in Files : In(x, b) => client.cursor < x
    BY <1>2, <1>3
  <2>3. QED
    BY <1>1, <1>3, <1>7, <2>1, <2>2, AnswerKeeps
<1>8. QED
  BY <1>1, <1>6, <1>7

\* The page is full, the files end, or another batch is needed.
LEMMA GalleryPageKeeps ==
  ASSUME Bounds, ListInv, GalleryPage
  PROVE  ListInv'
<1> DEFINE its == page.items
<1>1. /\ page.pc = "resolving" /\ page.batch = <<>> /\ client.kind = "gallery"
      /\ UNCHANGED <<file, folder, enabled, changes, seen, amid, torn, steady>>
      /\ client.cursor \in Nat /\ page.cursor \in Nat /\ steady \subseteq Files /\ PageSize \in Nat \ {0}
      /\ \A x \in Files : x \in Nat /\ x # 0
  BY Numbers DEF GalleryPage, Unobserved, ListInv, Shape, Making, Bounds
<1>2. /\ Ascending(its) /\ Len(its) \in Nat
      /\ \A x \in Files : In(x, its) => client.cursor < x /\ x <= page.cursor
  BY Places DEF ListInv, Order
<1>3. /\ \A x \in steady \ torn : client.cursor < x /\ x <= page.cursor => In(x, its)
      /\ ~ page.full => \A x \in steady : x <= page.cursor
  BY <1>1, NoItems DEF ListInv, Whole, Making
<1>4. CASE page.full /\ Len(its) <= PageSize
  BY <1>1, <1>4, StageKeeps DEF GalleryPage
<1>5. CASE Len(its) > PageSize
  <2> DEFINE items == SubSeq(its, 1, PageSize)
             cursor == its[PageSize]
  <2>1. PageSize \in 1..Len(its)
    BY <1>1, <1>2, <1>5
  <2>2. /\ Ascending(items) /\ cursor \in Files /\ In(cursor, its)
        /\ \A x \in Files : In(x, items) <=> In(x, its) /\ x <= cursor
    BY <1>2, <2>1, FirstOnes
  <2>3. Answer(items, cursor)
    BY <1>1, <1>2, <1>5 DEF GalleryPage
  <2> HIDE DEF items, cursor, its
  <2>4. client.cursor <= cursor /\ cursor <= page.cursor
    BY <1>1, <1>2, <2>2
  <2>5. \A x \in Files : In(x, items) => client.cursor < x /\ x <= cursor
    BY <1>1, <1>2, <2>2
  <2>6. ASSUME NEW x \in steady \ torn, client.cursor < x, cursor = 0 \/ x <= cursor
        PROVE  In(x, items)
    <3>1. x \in Files /\ x <= cursor /\ x <= page.cursor
      BY <1>1, <2>2, <2>4, <2>6
    <3>2. In(x, its)
      BY <1>3, <2>6, <3>1
    <3>3. QED
      BY <2>2, <3>1, <3>2
  <2>7. QED
    BY <1>1, <2>2, <2>3, <2>4, <2>5, <2>6, AnswerKeeps
<1>6. CASE ~ page.full /\ ~ (Len(its) > PageSize)
  <2>1. Answer(its, 0)
    BY <1>6 DEF GalleryPage
  <2> HIDE DEF its
  <2>2. \A x \in steady \ torn : client.cursor < x => In(x, its)
    BY <1>3, <1>6
  <2>3. QED
    BY <1>1, <1>2, <2>1, <2>2, AnswerKeeps
<1>7. QED
  BY <1>1, <1>2, <1>4, <1>5, <1>6

\* Another batch, behind the one before.
LEMMA ListBatchKeeps ==
  ASSUME Bounds, ListInv, ListBatch
  PROVE  ListInv'
<1> DEFINE b == Batch(page.cursor, PageSize + 1)
           cursor == IF b = <<>> THEN page.cursor ELSE Last(b)
           full == Len(b) = PageSize + 1
<1>1. /\ page.pc = "listing" /\ page.batch = <<>> /\ client.kind = "gallery" /\ page.pc # "none"
      /\ page' = [pc |-> "resolving", cursor |-> cursor, batch |-> b, full |-> full,
                 items |-> page.items, above |-> page.above]
      /\ UNCHANGED <<file, folder, enabled, client, changes, seen, amid, torn, steady>>
  BY DEF ListBatch, Unobserved, ListInv, Typed, Shape, Making
<1>2. client.cursor \in Nat /\ page.cursor \in Nat /\ steady \subseteq Files /\ PageSize \in Nat \ {0}
      /\ client.cursor <= page.cursor /\ (\A x \in Files : x \in Nat /\ x # 0)
      /\ PageSize + 1 \in Nat \ {0}
  BY <1>1, Numbers DEF ListInv, Bounds, Shape, Making
<1>3. /\ Ascending(b)
      /\ \A x \in Files : In(x, b) => x > page.cursor /\ file[x].state = "active"
      /\ \A x \in Files : x > page.cursor /\ file[x].state = "active" =>
            In(x, b) \/ (full /\ \A y \in Files : In(y, b) => y < x)
  BY <1>2, BatchFacts
<1> HIDE DEF b, full
<1>4. /\ cursor \in Files \cup {0} /\ cursor \in Nat /\ page.cursor <= cursor
      /\ \A x \in Files : In(x, b) => x <= cursor
      /\ b # <<>> => cursor \in Files /\ In(cursor, b)
  <2>1. CASE b = <<>>
    BY <1>2, <2>1, NoItems DEF ListInv, Typed
  <2>2. CASE b # <<>>
    <3>1. /\ Last(b) \in Files /\ In(Last(b), b)
          /\ \A x \in Files : In(x, b) => x <= Last(b)
      BY <1>3, <2>2, LastOne
    <3>2. page.cursor < Last(b) /\ Last(b) \in Nat
      BY <1>2, <1>3, <3>1
    <3>3. QED
      BY <1>2, <2>2, <3>1, <3>2
  <2>3. QED
    BY <2>1, <2>2
<1> HIDE DEF cursor
<1>5. /\ Ascending(page.items)
      /\ \A x \in Files : In(x, page.items) => client.cursor < x /\ x <= page.cursor
  BY DEF ListInv, Order
<1>6. /\ client' = client /\ page'.pc = "resolving" /\ page'.cursor = cursor
      /\ page'.batch = b /\ page'.items = page.items /\ page'.full = full
      /\ Making /\ Making' /\ changes' = changes /\ file' = file /\ folder' = folder
      /\ ~ amid /\ UNCHANGED <<seen, amid, torn, steady>>
  BY <1>1 DEF Making, ListInv, Typed, TypeOK
<1>7. Typed'
  <2>1. b \in Seq(Files) /\ full \in BOOLEAN
    BY <1>3 DEF Ascending, full
  <2>2. QED
    BY <1>1, <1>4, <2>1 DEF ListInv, Typed, TypeOK
<1>8. Shape'
  BY <1>1, <1>2, <1>4, <1>6 DEF ListInv, Shape
<1>9. Order'
  <2>1. \A x \in Files : In(x, page.items) \/ In(x, b) => client.cursor < x /\ x <= cursor
    <3>1. ASSUME NEW x \in Files, In(x, page.items) PROVE client.cursor < x /\ x <= cursor
      <4>1. client.cursor < x /\ x <= page.cursor /\ x \in Nat
        BY <1>2, <1>5, <3>1
      <4>2. QED
        BY <1>2, <1>4, <4>1
    <3>2. ASSUME NEW x \in Files, In(x, b) PROVE client.cursor < x /\ x <= cursor
      <4>1. x > page.cursor /\ x <= cursor /\ x \in Nat
        BY <1>2, <1>3, <1>4, <3>2
      <4>2. QED
        BY <1>2, <4>1
    <3>3. QED
      BY <3>1, <3>2
  <2>2. \A x, y \in Files : In(x, page.items) /\ In(y, b) => x < y
    BY <1>2, <1>3, <1>5
  <2>3. QED
    BY <1>1, <1>3, <1>6, <2>1, <2>2 DEF ListInv, Order
<1>10. (Listed(client.kind, file, folder))' = Listed(client.kind, file, folder)
  BY <1>6
<1>11. Whole'
  <2>1. \A x \in steady : x \in Files /\ file[x].state = "active"
    BY <1>1 DEF ListInv, Whole, Listed
  <2>2. ASSUME NEW x \in steady \ torn, client.cursor < x, x <= cursor
        PROVE  In(x, page.items) \/ In(x, b)
    <3>1. x <= page.cursor => In(x, page.items)
      BY <1>1, <1>6, <2>2, NoItems DEF ListInv, Whole
    <3>2. CASE x > page.cursor
      <4>1. b # <<>>
        BY <1>2, <2>1, <2>2, <3>2 DEF cursor
      <4>2. ~ (cursor < x) /\ In(cursor, b) /\ cursor \in Files
        <5>1. x \in Nat /\ x <= cursor /\ cursor \in Nat
          BY <1>2, <1>4, <2>2
        <5>2. In(cursor, b) /\ cursor \in Files
          BY <1>4, <4>1
        <5>3. QED
          BY <5>1, <5>2
      <4>3. QED
        BY <1>3, <2>1, <3>2, <4>2
    <3>3. QED
      BY <1>2, <2>1, <3>1, <3>2
  <2>3. ASSUME ~ full, NEW x \in steady PROVE x <= cursor
    <3>1. x \in Files /\ x \in Nat /\ file[x].state = "active"
      BY <1>2, <2>1
    <3>2. x > page.cursor => In(x, b)
      BY <1>3, <2>3, <3>1
    <3>3. In(x, b) => x <= cursor
      BY <1>4, <3>1
    <3>4. QED
      BY <1>2, <1>4, <3>1, <3>2, <3>3
  <2>4. QED
    BY <1>1, <1>6, <1>10, <2>2, <2>3 DEF ListInv, Whole
<1>12. Visible'
  BY <1>6 DEF ListInv, Visible
<1>13. Walk'
  BY <1>6 DEF Walk
<1>14. QED
  BY <1>7, <1>8, <1>9, <1>11, <1>12, <1>13 DEF ListInv

\* One folder further up, with the same answer.
LEMMA ClimbKeeps ==
  ASSUME Bounds, ListInv, page.pc \in {"resolving", "walking"}, page.batch # <<>>,
         NEW dir \in {Inner, Outer},
         page' = [page EXCEPT !.pc = "walking", !.above = dir],
         UNCHANGED <<file, folder, enabled, client, changes>>, Apart(Head(page.batch)),
         Head(page.batch) \notin torn' =>
           /\ Shown(folder, dir) => Head(page.batch) \in seen'
           /\ Head(page.batch) \in steady => Shown(folder, dir)
           /\ ~ amid' =>
                /\ file[Head(page.batch)].visibility = "inherit" /\ file[Head(page.batch)].folder = Inner
                /\ dir = Outer => folder[Inner].visibility = "inherit" /\ folder[Inner].parent = Outer
  PROVE  ListInv'
<1>1. /\ page' \in [pc : {"none", "asked", "listing", "resolving", "walking", "next", "done", "refused"},
               cursor : Files \cup {0}, batch : Seq(Files), full : BOOLEAN, items : Seq(Files),
               above : {Root, Inner, Outer}]
      /\ page'.pc = "walking" /\ page'.items = page.items /\ page'.batch = page.batch
      /\ page'.cursor = page.cursor /\ page'.full = page.full /\ page'.above = dir
      /\ client' = client /\ changes' = changes /\ file' = file /\ folder' = folder
      /\ Making /\ Making' /\ steady' = steady
  BY DEF ListInv, Typed, Making, Apart
<1>2. Typed'
  BY <1>1 DEF ListInv, Typed, TypeOK, Apart
<1>x. /\ Head(page.batch) \in Files /\ In(Head(page.batch), page.batch)
      /\ client.cursor \in Nat /\ \A x \in Files : x \in Nat
      /\ client.cursor < Head(page.batch) /\ ~ In(Head(page.batch), page.items)
  <2>1. /\ Head(page.batch) \in Files /\ In(Head(page.batch), page.batch)
        /\ client.cursor \in Nat /\ \A x \in Files : x \in Nat
    BY HeadAndTail, Numbers DEF ListInv, Order
  <2> DEFINE x == Head(page.batch)
  <2>2. /\ client.cursor < x /\ (In(x, page.items) => x < x) /\ x \in Nat
    BY <2>1 DEF ListInv, Order
  <2>3. ~ (x < x)
    BY <2>2
  <2>4. QED
    BY <2>1, <2>2, <2>3
<1>3. Shape'
  BY <1>1 DEF ListInv, Shape
<1>4. Order'
  BY <1>1 DEF ListInv, Order
<1>5. (Listed(client.kind, file, folder))' = Listed(client.kind, file, folder)
  BY <1>1
<1> DEFINE x == Head(page.batch)
<1>6. Whole'
  <2>1. (steady \subseteq Listed(client.kind, file, folder))'
    BY <1>1, <1>5 DEF ListInv, Whole, Making
  <2>2. ASSUME NEW y \in steady \ torn', client.cursor < y, y <= page.cursor
        PROVE  In(y, page.items) \/ In(y, page.batch)
    BY <1>1, <1>x, <2>2 DEF ListInv, Whole, Apart
  <2>3. ASSUME NEW y \in steady \ torn', y <= client.cursor
        PROVE  In(y, client.items)
    <3>1. y # x
      BY <1>x, <2>3
    <3>2. QED
      BY <2>3, <3>1 DEF ListInv, Whole, Apart
  <2>4. ~ page.full => \A y \in steady : y <= page.cursor
    BY DEF ListInv, Whole
  <2>5. QED
    BY <1>1, <2>1, <2>2, <2>3, <2>4 DEF Whole
<1>8. Visible'
  <2>1. ASSUME NEW y \in Files \ torn', In(y, page.items)
        PROVE  y \in seen'
    BY <1>x, <2>1 DEF ListInv, Visible, Apart
  <2>2. QED
    BY <1>1, <2>1 DEF Visible
<1>9. Walk'
  BY <1>1 DEF Walk
<1>10. QED
  BY <1>2, <1>3, <1>4, <1>6, <1>8, <1>9 DEF ListInv

\* The row of the file decides, or sends the walk to its folder.
LEMMA ResolveKeeps ==
  ASSUME Bounds, ListInv, ResolveVisibility
  PROVE  ListInv'
<1> DEFINE x == Head(page.batch)
<1>1. /\ page.pc = "resolving" /\ page.batch # <<>> /\ client.kind = "gallery"
      /\ UNCHANGED <<file, folder, enabled, client, changes>>
      /\ x \in Files /\ In(x, page.batch)
      /\ file[x].visibility \in {"inherit", "visible", "hidden"} /\ file[x].folder \in {Root, Inner}
      /\ Looked /\ ~ amid
  BY HeadAndTail DEF ResolveVisibility, ListInv, Shape, Making, Order, Typed, TypeOK, Visibility
<1> DEFINE Would == VisibleIn(file, folder, x)
<1>2. /\ Would => x \in seen'
      /\ x \in steady => Would
      /\ Apart(x) /\ amid' = FALSE
  <2>1. /\ seen' = IF Would THEN seen \cup {x} ELSE seen \ {x}
        /\ torn' = torn \ {x} /\ amid' = FALSE /\ steady' = steady
    BY <1>1 DEF Looked
  <2>2. seen \subseteq Files /\ torn \subseteq Files
    BY Numbers DEF ListInv
  <2>3. x \in steady => Would
    BY <1>1 DEF ListInv, Whole, Listed
  <2> HIDE DEF Would, x
  <2>4. QED
    BY <1>1, <2>1, <2>2, <2>3 DEF Apart
<1>3. CASE file[x].visibility # "inherit" \/ file[x].folder = Root
  <2> DEFINE v == file[x].visibility # "hidden"
  <2>1. Decided(v) /\ v \in BOOLEAN
    BY <1>1, <1>3 DEF ResolveVisibility
  <2>2. v <=> Would
    <3>1. Shown(folder, Root)
      BY ShownFacts DEF ListInv, Typed, TypeOK
    <3>2. QED
      BY <1>1, <1>3, <3>1 DEF VisibleIn
  <2> HIDE DEF v, Would
  <2>3. QED
    BY <1>1, <1>2, <2>1, <2>2, DecidedKeeps
<1>4. CASE ~ (file[x].visibility # "inherit" \/ file[x].folder = Root)
  <2>1. page' = [page EXCEPT !.pc = "walking", !.above = Inner] /\ file[x].folder = Inner
        /\ file[x].visibility = "inherit"
    BY <1>1, <1>4 DEF ResolveVisibility
  <2>2. Would <=> Shown(folder, Inner)
    BY <2>1 DEF VisibleIn
  <2>3. Inner # Outer
    BY DEF Bounds
  <2> HIDE DEF x, Would
  <2>4. QED
    BY <1>1, <1>2, <2>1, <2>2, <2>3, ClimbKeeps DEF x
<1>5. QED
  BY <1>3, <1>4

\* A folder decides, or sends the walk to the folder above it.
LEMMA WalkUpKeeps ==
  ASSUME Bounds, ListInv, WalkUp
  PROVE  ListInv'
<1> DEFINE dir == page.above
           row == folder[dir]
<1>1. /\ page.pc = "walking" /\ page.batch # <<>> /\ dir \in {Inner, Outer}
      /\ UNCHANGED <<file, folder, enabled, client, changes, seen, torn, steady>>
      /\ row.visibility \in {"inherit", "visible", "hidden"} /\ row.parent \in {Root, Outer}
      /\ folder[Outer].visibility \in {"inherit", "visible", "hidden"}
      /\ Inner # Outer /\ Root # Inner /\ Root # Outer
      /\ amid' \in BOOLEAN => Apart(Head(page.batch))
  BY Numbers DEF WalkUp, ListInv, Shape, Typed, TypeOK, Visibility, Bounds, Apart
<1>2. CASE row.visibility # "inherit" \/ row.parent = Root
  <2> DEFINE v == row.visibility # "hidden"
  <2>1. Decided(v) /\ v \in BOOLEAN /\ amid' = FALSE
    BY <1>2 DEF WalkUp
  <2>2. v <=> Shown(folder, dir)
    <3>1. folder \in [{Inner, Outer} -> [parent : {Root, Outer}, visibility : Visibility]]
      BY DEF ListInv, Typed, TypeOK
    <3>2. row.visibility # "inherit" => (Shown(folder, dir) <=> row.visibility # "hidden")
      BY <1>1, <3>1, ShownFacts
    <3>3. row.visibility = "inherit" /\ row.parent = Root => Shown(folder, dir)
      BY <1>1, <3>1, ShownFacts
    <3>4. QED
      BY <1>2, <3>2, <3>3
  <2> HIDE DEF v, dir
  <2>3. QED
    BY <1>1, <2>1, <2>2, DecidedKeeps DEF ListInv, Walk, dir
<1>3. CASE ~ (row.visibility # "inherit" \/ row.parent = Root)
  <2>1. page' = [page EXCEPT !.above = Outer] /\ row.parent = Outer /\ row.visibility = "inherit"
        /\ amid' = amid /\ amid \in BOOLEAN
    BY <1>1, <1>3 DEF WalkUp, ListInv, Typed
  <2>2. page' = [page EXCEPT !.pc = "walking", !.above = Outer]
    BY <1>1, <2>1 DEF ListInv, Typed
  <2>3. Shown(folder, dir) <=> Shown(folder, Outer)
    BY <1>1, <2>1 DEF Shown
  <2>4. Head(page.batch) \notin torn /\ ~ amid =>
          folder[Inner].visibility = "inherit" /\ folder[Inner].parent = Outer
    BY <1>1, <2>1 DEF ListInv, Walk
  <2>5. QED
    <3>1. page.pc \in {"resolving", "walking"} /\ Apart(Head(page.batch)) /\ torn' = torn /\ seen' = seen
          /\ Outer \in {Inner, Outer}
          /\ UNCHANGED <<file, folder, enabled, client, changes>>
      BY <1>1, <2>1
    <3>2. Head(page.batch) \notin torn =>
            /\ Shown(folder, dir) => Head(page.batch) \in seen
            /\ Head(page.batch) \in steady => Shown(folder, dir)
            /\ ~ amid =>
                 /\ file[Head(page.batch)].visibility = "inherit"
                 /\ file[Head(page.batch)].folder = Inner
      BY <1>1 DEF ListInv, Walk
    <3> HIDE DEF dir, row
    <3>3. QED
      BY <1>1, <2>1, <2>2, <2>3, <2>4, <3>1, <3>2, ClimbKeeps
<1>4. QED
  BY <1>2, <1>3

----------------------------------------------------------------------------
(* Meanwhile.                                                              *)

\* A change of one file: SetState, Purge, MoveFile, SetFileVisibility.
LEMMA FileChangeKeeps ==
  ASSUME Bounds, ListInv, NEW x \in Files,
         \/ SetState(x, "active", "trashed") \/ SetState(x, "trashed", "active")
         \/ Purge(x)
         \/ \E dir \in {Root, Inner} : MoveFile(x, dir)
         \/ \E v \in Visibility : SetFileVisibility(x, v)
  PROVE  ListInv'
<1>1. PICK row \in [state : {"active", "trashed", "purged"}, folder : {Root, Inner}, visibility : Visibility] :
        file' = [file EXCEPT ![x] = row]
  <2>1. file[x] \in [state : {"active", "trashed", "purged"}, folder : {Root, Inner}, visibility : Visibility]
    BY DEF ListInv, Typed, TypeOK
  <2>2. ASSUME NEW to \in {"active", "trashed"}, file' = [file EXCEPT ![x].state = to]
        PROVE  file' = [file EXCEPT ![x] = [file[x] EXCEPT !.state = to]]
    BY <2>2
  <2>3. CASE SetState(x, "active", "trashed") \/ SetState(x, "trashed", "active")
    <3>1. PICK to \in {"active", "trashed"} : file' = [file EXCEPT ![x].state = to]
      BY <2>3 DEF SetState
    <3> DEFINE row == [file[x] EXCEPT !.state = to]
    <3>2. row \in [state : {"active", "trashed", "purged"}, folder : {Root, Inner}, visibility : Visibility]
      BY <2>1
    <3>3. file' = [file EXCEPT ![x] = row]
      BY <2>2, <3>1
    <3> HIDE DEF row
    <3>4. QED
      BY <3>2, <3>3
  <2>4. CASE Purge(x)
    BY <2>1, <2>4 DEF Purge
  <2>5. CASE \E dir \in {Root, Inner} : MoveFile(x, dir)
    BY <2>1, <2>5 DEF MoveFile
  <2>6. CASE \E v \in Visibility : SetFileVisibility(x, v)
    BY <2>1, <2>6 DEF SetFileVisibility
  <2>7. QED
    BY <2>3, <2>4, <2>5, <2>6
<1>2. Changed /\ Observe /\ folder' = folder /\ enabled' = enabled
  BY DEF SetState, Purge, MoveFile, SetFileVisibility
<1>3. file' \in [Files -> [state : {"active", "trashed", "purged"}, folder : {Root, Inner},
                          visibility : Visibility]]
      /\ folder' \in [{Inner, Outer} -> [parent : {Root, Outer}, visibility : Visibility]]
      /\ enabled' \in BOOLEAN
  BY <1>1, <1>2 DEF ListInv, Typed, TypeOK
<1>4. QED
  BY <1>2, <1>3, ChangeKeeps

\* A change of one folder: MoveFolder, SetFolderVisibility.
LEMMA FolderChangeKeeps ==
  ASSUME Bounds, ListInv,
         \/ \E parent \in {Root, Outer} : MoveFolder(parent)
         \/ \E dir \in {Inner, Outer}, v \in Visibility : SetFolderVisibility(dir, v)
  PROVE  ListInv'
<1>1. PICK dir \in {Inner, Outer}, row \in [parent : {Root, Outer}, visibility : Visibility] :
        folder' = [folder EXCEPT ![dir] = row]
  <2>1. \A d \in {Inner, Outer} : folder[d] \in [parent : {Root, Outer}, visibility : Visibility]
    BY DEF ListInv, Typed, TypeOK
  <2>2. CASE \E parent \in {Root, Outer} : MoveFolder(parent)
    BY <2>1, <2>2 DEF MoveFolder
  <2>3. CASE \E dir \in {Inner, Outer}, v \in Visibility : SetFolderVisibility(dir, v)
    BY <2>1, <2>3 DEF SetFolderVisibility
  <2>4. QED
    BY <2>2, <2>3
<1>2. Changed /\ Observe /\ file' = file /\ enabled' = enabled
  BY DEF MoveFolder, SetFolderVisibility
<1>3. file' \in [Files -> [state : {"active", "trashed", "purged"}, folder : {Root, Inner},
                          visibility : Visibility]]
      /\ folder' \in [{Inner, Outer} -> [parent : {Root, Outer}, visibility : Visibility]]
      /\ enabled' \in BOOLEAN
  BY <1>1, <1>2 DEF ListInv, Typed, TypeOK
<1>4. \E d \in {Inner, Outer} : folder'[d] = folder[d]
  BY <1>1 DEF Bounds, ListInv, Typed, TypeOK
<1>5. QED
  BY <1>2, <1>3, <1>4, ChangeKeeps

\* Every step keeps the invariant.
LEMMA ListStep ==
  ASSUME Bounds, ListInv, [Next]_vars
  PROVE  ListInv'
<1>1. ASSUME NEW kind \in {"files", "gallery"}, Start(kind) PROVE ListInv'
  BY <1>1, StartKeeps
<1>2. CASE NextPage
  BY <1>2, NextPageKeeps
<1>3. CASE Refuse
  BY <1>3, StageKeeps DEF Refuse, Unobserved
<1>4. CASE FilesPage
  BY <1>4, FilesPageKeeps
<1>5. CASE Enable
  BY <1>5, StageKeeps DEF Enable, Unobserved
<1>6. CASE ListBatch
  BY <1>6, ListBatchKeeps
<1>7. CASE ResolveVisibility
  BY <1>7, ResolveKeeps
<1>8. CASE WalkUp
  BY <1>8, WalkUpKeeps
<1>9. CASE GalleryPage
  BY <1>9, GalleryPageKeeps
<1>10. ASSUME NEW x \in Files,
              \/ SetState(x, "active", "trashed") \/ SetState(x, "trashed", "active")
              \/ Purge(x)
              \/ \E dir \in {Root, Inner} : MoveFile(x, dir)
              \/ \E v \in Visibility : SetFileVisibility(x, v)
       PROVE  ListInv'
  BY <1>10, FileChangeKeeps
<1>11. CASE \/ \E parent \in {Root, Outer} : MoveFolder(parent)
            \/ \E dir \in {Inner, Outer}, v \in Visibility : SetFolderVisibility(dir, v)
  BY <1>11, FolderChangeKeeps
<1>12. CASE SetEnabled
  <2>1. Changed /\ Unobserved /\ file' = file /\ folder' = folder /\ enabled' \in BOOLEAN
    BY <1>12 DEF SetEnabled
  <2>2. /\ file' \in [Files -> [state : {"active", "trashed", "purged"}, folder : {Root, Inner},
                          visibility : Visibility]]
        /\ folder' \in [{Inner, Outer} -> [parent : {Root, Outer}, visibility : Visibility]]
    BY <2>1 DEF ListInv, Typed, TypeOK
  <2>3. QED
    BY <2>1, <2>2, ChangeKeeps
<1>13. CASE UNCHANGED vars
  BY <1>13 DEF vars, ListInv, Typed, TypeOK, Shape, Order, Whole, Visible, Walk, Making, Listed, VisibleIn, Shown
<1>14. QED
  BY <1>1, <1>2, <1>3, <1>4, <1>5, <1>6, <1>7, <1>8, <1>9, <1>10, <1>11, <1>12, <1>13 DEF Next

\* What the invariant says of the pages.
LEMMA ListSafe ==
  ASSUME Bounds, ListInv
  PROVE  TypeOK /\ PagesAreWhole /\ ListedWasVisible
<1>s. Ascending(client.items) /\ Ascending(page.items)
  BY DEF ListInv, Order
<1>d. \A s : Ascending(s) => DOMAIN s = 1..Len(s)
  BY DEF Ascending
<1>1. \A i, j \in DOMAIN client.items : client.items[i] = client.items[j] => i = j
  <2>1. Ascending(client.items) /\ DOMAIN client.items = 1..Len(client.items)
    BY <1>s, <1>d
  <2>2. ASSUME NEW i \in 1..Len(client.items), NEW j \in 1..Len(client.items),
               client.items[i] = client.items[j]
        PROVE  i = j
    <3>1. /\ i \in Nat /\ j \in Nat /\ client.items[i] \in Nat /\ client.items[j] \in Nat
          /\ i <= j <=> client.items[i] <= client.items[j]
          /\ j <= i <=> client.items[j] <= client.items[i]
      BY <2>1, Places
    <3>2. QED
      BY <2>2, <3>1
  <2>3. QED
    BY <2>1, <2>2
<1>2. ASSUME page.pc = "done", NEW x \in steady \ torn PROVE Occurs(x, client.items)
  <2>1. In(x, client.items)
    BY <1>2 DEF ListInv, Whole
  <2>2. DOMAIN client.items = 1..Len(client.items)
    BY <1>s, <1>d
  <2>3. QED
    BY <2>1, <2>2 DEF In, Occurs
<1>3. ASSUME NEW i \in DOMAIN page.items PROVE page.items[i] \in seen \cup torn
  <2>1. Ascending(page.items) /\ DOMAIN page.items = 1..Len(page.items)
    BY <1>s, <1>d
  <2>2. page.items[i] \in Files /\ In(page.items[i], page.items)
    BY <1>3, <2>1, Places
  <2>3. QED
    BY <1>3, <2>2 DEF ListInv, Visible
<1>4. QED
  BY <1>1, <1>2, <1>3 DEF ListInv, Typed, PagesAreWhole, ListedWasVisible
=============================================================================
