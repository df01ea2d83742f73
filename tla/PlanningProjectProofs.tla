------------------------ MODULE PlanningProjectProofs -----------------------
EXTENDS PlanningQueries, FiniteSetTheorems, FunctionTheorems, SequenceTheorems,
        WellFoundedInduction, TLAPS

(* A set of natural numbers that is not empty has a least one.             *)
LEMMA LeastNumber ==
  ASSUME NEW T \in SUBSET Nat, T # {}
  PROVE  \E n \in T : \A m \in T : n <= m
<1> DEFINE R == OpToRel(<, Nat)
<1>1. IsWellFoundedOn(R, Nat)
  BY NatLessThanWellFounded
<1>2. \A a, b \in Nat : a < b => <<a, b>> \in R
  BY DEF OpToRel
<1> HIDE DEF R
<1>3. PICK n \in T : \A m \in T : ~ (<<m, n>> \in R)
  BY <1>1, WFMin, Zenon
<1>4. n \in Nat /\ \A m \in T : m \in Nat /\ ~(m < n)
  BY <1>2, <1>3
<1>5. \A m \in T : n <= m
  BY <1>4
<1>6. QED
  BY <1>5

(* Induction: the numbers for which something holds are a set.             *)
LEMMA NumbersFromZero ==
  ASSUME NEW S, 0 \in S, \A n \in Nat : n \in S => n + 1 \in S
  PROVE  \A n \in Nat : n \in S
<1> DEFINE T == Nat \ S
<1> SUFFICES ASSUME T # {} PROVE FALSE
  OBVIOUS
<1>1. PICK n \in T : \A m \in T : n <= m
  BY LeastNumber
<1>2. n \in Nat /\ n # 0 /\ n - 1 \in Nat /\ n - 1 \notin T
  BY <1>1
<1>3. QED
  BY <1>1, <1>2

(* What is got by repeating a step, which may count, any number of times.  *)
Repeats(f, step, base, n, V) ==
    /\ f \in [0 .. n -> V] /\ f[0] = base
    /\ \A m \in 0 .. n - 1 : f[m + 1] = step[<<m, f[m]>>]

LEMMA RepeatedStep ==
  ASSUME NEW V, NEW base \in V, NEW step \in [Nat \X V -> V], NEW N \in Nat
  PROVE  \E f : Repeats(f, step, base, N, V)
<1> DEFINE S == {n \in Nat : \E g : Repeats(g, step, base, n, V)}
<1>1. 0 \in S
  <2>1. Repeats([i \in 0 .. 0 |-> base], step, base, 0, V)
    BY DEF Repeats
  <2>2. QED
    BY <2>1
<1>2. ASSUME NEW n \in Nat, n \in S PROVE n + 1 \in S
  <2>1. PICK g : Repeats(g, step, base, n, V)
    BY <1>2
  <2> DEFINE h == [i \in 0 .. n + 1 |-> IF i = n + 1 THEN step[<<n, g[n]>>] ELSE g[i]]
  <2>2. g[n] \in V /\ \A i \in 0 .. n : g[i] \in V
    BY <2>1 DEF Repeats
  <2>3. h \in [0 .. n + 1 -> V]
    BY <2>2
  <2>4. h[0] = base /\ h[n + 1] = step[<<n, g[n]>>] /\ \A i \in 0 .. n : h[i] = g[i]
    BY <2>1 DEF Repeats
  <2> HIDE DEF h
  <2>5. \A m \in 0 .. n : h[m + 1] = step[<<m, h[m]>>]
    <3>1. SUFFICES ASSUME NEW m \in 0 .. n PROVE h[m + 1] = step[<<m, h[m]>>]
      OBVIOUS
    <3>2. CASE m = n
      BY <2>4, <3>2
    <3>3. CASE m # n
      BY <2>1, <2>4, <3>3 DEF Repeats
    <3>4. QED
      BY <3>2, <3>3
  <2>6. Repeats(h, step, base, n + 1, V)
    BY <2>3, <2>4, <2>5 DEF Repeats
  <2>7. QED
    BY <2>6
<1> HIDE DEF S
<1>3. N \in S
  BY <1>1, <1>2, NumbersFromZero
<1>4. QED
  BY <1>3 DEF S

(* A finite set of natural numbers has a greatest one.                     *)
LEMMA GreatestNumber ==
  ASSUME NEW T \in SUBSET Nat, IsFiniteSet(T), T # {}
  PROVE  Top(T) \in T /\ \A n \in T : n <= Top(T)
<1>1. PICK f \in Surjection(1 .. Cardinality(T), T) : TRUE
  BY FS_CardinalityType DEF ExistsBijection, Bijection
<1> DEFINE N == Cardinality(T)
           Bounded == {k \in Nat : k <= N => \E b \in Nat : \A i \in 1 .. k : f[i] <= b}
<1>2. N \in Nat /\ \A i \in 1 .. N : f[i] \in Nat
  BY <1>1, FS_CardinalityType DEF Surjection
<1>3. 0 \in Bounded
  OBVIOUS
<1>4. ASSUME NEW k \in Nat, k \in Bounded PROVE k + 1 \in Bounded
  <2>1. SUFFICES ASSUME k + 1 <= N
                 PROVE  \E b \in Nat : \A i \in 1 .. k + 1 : f[i] <= b
    OBVIOUS
  <2>2. PICK b \in Nat : \A i \in 1 .. k : f[i] <= b
    BY <1>2, <1>4, <2>1
  <2>3. f[k + 1] \in Nat
    BY <1>2, <2>1
  <2>4. CASE f[k + 1] <= b
    <3>1. \A i \in 1 .. k + 1 : f[i] <= b
      BY <2>2, <2>4
    <3>2. QED
      BY <3>1
  <2>5. CASE ~(f[k + 1] <= b)
    <3>1. \A i \in 1 .. k + 1 : f[i] <= f[k + 1]
      BY <1>2, <2>1, <2>2, <2>3, <2>5
    <3>2. QED
      BY <2>3, <3>1
  <2>6. QED
    BY <2>4, <2>5
<1> HIDE DEF Bounded
<1>5. N \in Bounded
  BY <1>2, <1>3, <1>4, NumbersFromZero
<1>6. PICK b \in Nat : \A i \in 1 .. N : f[i] <= b
  BY <1>2, <1>5 DEF Bounded
<1>7. \A n \in T : n <= b
  BY <1>1, <1>6 DEF Surjection
<1> DEFINE U == {c \in Nat : \A n \in T : n <= c}
<1>8. PICK c \in U : \A d \in U : c <= d
  BY <1>7, LeastNumber
<1>9. c \in T
  <2>1. SUFFICES ASSUME c \notin T PROVE FALSE
    OBVIOUS
  <2>2. PICK n \in T : TRUE
    OBVIOUS
  <2>3. \A m \in T : m <= c - 1
    BY <1>8, <2>1
  <2>4. c - 1 \in Nat
    BY <1>8, <2>2, <2>3
  <2>5. QED
    BY <1>8, <2>3, <2>4
<1>10. QED
  BY <1>8, <1>9 DEF Top

(* ------------------------------- sequences ----------------------------- *)

NumsDiffer(s) == \A i, j \in DOMAIN s : s[i].num = s[j].num => i = j

LEMMA Inserted ==
  ASSUME NEW T, NEW s \in Seq(T), NEW k \in 1 .. Len(s) + 1, NEW e \in T
  PROVE  /\ InsertAt(s, k, e) \in Seq(T)
         /\ Range(InsertAt(s, k, e)) = Range(s) \cup {e}
         /\ NumsDiffer(s) /\ (\A x \in Range(s) : x.num # e.num)
              => NumsDiffer(InsertAt(s, k, e))
<1> DEFINE r == InsertAt(s, k, e)
<1> DEFINE a == SubSeq(s, 1, k - 1)
           b == SubSeq(s, k, Len(s))
<1>a. Len(s) \in Nat /\ k \in Nat
  OBVIOUS
<1>b. a \in Seq(T) /\ Len(a) = k - 1 /\ \A i \in 1 .. k - 1 : a[i] = s[i]
  BY <1>a
<1>c. /\ b \in Seq(T) /\ Len(b) = Len(s) - k + 1
      /\ \A i \in 1 .. Len(s) - k + 1 : b[i] = s[k + i - 1]
  BY <1>a
<1>d. r = a \o <<e>> \o b
  BY DEF InsertAt
<1> HIDE DEF a, b, r
<1>1. /\ r \in Seq(T) /\ Len(r) = Len(s) + 1 /\ r[k] = e
      /\ \A i \in 1 .. Len(s) : IF i < k THEN r[i] = s[i] ELSE r[i + 1] = s[i]
  <2> DEFINE c == a \o <<e>>
  <2>1. /\ c \in Seq(T) /\ Len(c) = k /\ c[k] = e
        /\ \A i \in 1 .. k - 1 : c[i] = s[i]
    BY <1>a, <1>b
  <2>2. r = c \o b
    BY <1>d
  <2> HIDE DEF c
  <2>3. /\ r \in Seq(T) /\ Len(r) = Len(s) + 1
        /\ \A i \in 1 .. Len(s) + 1 : r[i] = IF i <= k THEN c[i] ELSE b[i - k]
    <3>1. /\ r \in Seq(T) /\ Len(r) = Len(c) + Len(b)
          /\ \A i \in 1 .. Len(c) + Len(b) : r[i] = IF i <= Len(c) THEN c[i] ELSE b[i - Len(c)]
      BY <1>c, <2>1, <2>2, ConcatProperties
    <3>2. Len(c) + Len(b) = Len(s) + 1 /\ Len(c) = k
      BY <1>a, <1>c, <2>1
    <3>3. QED
      BY <3>1, <3>2, Zenon
  <2>4. ASSUME NEW i \in 1 .. Len(s), i < k PROVE r[i] = s[i]
    BY <1>a, <2>1, <2>3, <2>4
  <2>5. ASSUME NEW i \in 1 .. Len(s), ~(i < k) PROVE r[i + 1] = s[i]
    <3> DEFINE j == i + 1 - k
    <3>1. /\ j \in 1 .. Len(s) - k + 1 /\ k + j - 1 = i /\ i + 1 - k = j
          /\ i + 1 \in 1 .. Len(s) + 1 /\ ~(i + 1 <= k)
      BY <1>a, <2>5
    <3>2. r[i + 1] = b[j]
      BY <2>3, <3>1
    <3> HIDE DEF j
    <3>3. b[j] = s[i]
      BY <1>c, <3>1
    <3>4. QED
      BY <3>2, <3>3
  <2>6. r[k] = e
    BY <1>a, <2>1, <2>3
  <2>7. QED
    BY <2>3, <2>4, <2>5, <2>6
<1>2. /\ DOMAIN r = 1 .. Len(s) + 1 /\ DOMAIN s = 1 .. Len(s)
      /\ \A i \in 1 .. Len(s) + 1 : IF i < k THEN i \in DOMAIN s /\ r[i] = s[i]
                                   ELSE IF i = k THEN r[i] = e
                                   ELSE i - 1 \in DOMAIN s /\ r[i] = s[i - 1]
  <2>1. DOMAIN r = 1 .. Len(s) + 1 /\ DOMAIN s = 1 .. Len(s)
    BY <1>1, <1>a
  <2>2. ASSUME NEW i \in 1 .. Len(s) + 1, k < i PROVE i - 1 \in 1 .. Len(s) /\ r[i] = s[i - 1]
    <3>1. i - 1 \in 1 .. Len(s) /\ ~(i - 1 < k) /\ (i - 1) + 1 = i
      BY <1>a, <2>2
    <3>2. QED
      BY <1>1, <3>1
  <2>3. QED
    BY <1>1, <1>a, <2>1, <2>2
<1>3. Range(r) \subseteq Range(s) \cup {e}
  BY <1>2 DEF Range
<1>4. Range(s) \cup {e} \subseteq Range(r)
  <2>1. e \in Range(r)
    BY <1>1, <1>2 DEF Range
  <2>2. ASSUME NEW i \in 1 .. Len(s) PROVE s[i] \in Range(r)
    <3>1. CASE i < k
      BY <1>1, <1>2, <3>1 DEF Range
    <3>2. CASE ~(i < k)
      <4>1. r[i + 1] = s[i] /\ i + 1 \in DOMAIN r
        BY <1>1, <1>2, <3>2
      <4>2. QED
        BY <4>1 DEF Range
    <3>3. QED
      BY <3>1, <3>2
  <2>3. QED
    BY <1>2, <2>1, <2>2 DEF Range
<1>5. ASSUME NumsDiffer(s), \A x \in Range(s) : x.num # e.num PROVE NumsDiffer(r)
  <2>1. \A i \in DOMAIN s : s[i].num # e.num
    BY <1>5 DEF Range
  <2>2. SUFFICES ASSUME NEW i \in DOMAIN r, NEW j \in DOMAIN r, r[i].num = r[j].num, i < j
                 PROVE  FALSE
    BY <1>2 DEF NumsDiffer
  <2> DEFINE from(x) == IF x < k THEN x ELSE x - 1
  <2>3. \A x \in DOMAIN r : x # k => from(x) \in DOMAIN s /\ r[x] = s[from(x)]
    BY <1>a, <1>2
  <2>4. i \in Nat /\ j \in Nat /\ (i # k /\ j # k => from(i) # from(j))
    BY <1>a, <1>2, <2>2
  <2> HIDE DEF from
  <2>5. CASE i = k
    BY <1>1, <2>1, <2>2, <2>3, <2>4, <2>5
  <2>6. CASE j = k
    BY <1>1, <2>1, <2>2, <2>3, <2>4, <2>6
  <2>7. CASE i # k /\ j # k
    BY <1>5, <2>2, <2>3, <2>4, <2>7 DEF NumsDiffer
  <2>8. QED
    BY <2>5, <2>6, <2>7
<1>6. QED
  BY <1>1, <1>3, <1>4, <1>5 DEF r

LEMMA Removed ==
  ASSUME NEW T, NEW s \in Seq(T), NEW k \in DOMAIN s
  PROVE  /\ RemoveAt(s, k) \in Seq(T)
         /\ Range(RemoveAt(s, k)) \subseteq Range(s)
         /\ \A i \in DOMAIN s : i # k => s[i] \in Range(RemoveAt(s, k))
         /\ NumsDiffer(s) => /\ NumsDiffer(RemoveAt(s, k))
                             /\ \A x \in Range(RemoveAt(s, k)) : x.num # s[k].num
<1> DEFINE r == RemoveAt(s, k)
<1> DEFINE a == SubSeq(s, 1, k - 1)
           b == SubSeq(s, k + 1, Len(s))
<1>a. Len(s) \in Nat /\ k \in Nat /\ 1 <= k /\ k <= Len(s)
  OBVIOUS
<1>b. a \in Seq(T) /\ Len(a) = k - 1 /\ \A i \in 1 .. k - 1 : a[i] = s[i]
  BY <1>a
<1>c. /\ b \in Seq(T) /\ Len(b) = Len(s) - k
      /\ \A i \in 1 .. Len(s) - k : b[i] = s[k + i]
  <2>1. k + 1 \in 1 .. Len(s) + 1
    BY <1>a
  <2>2. QED
    BY <1>a, <2>1
<1>d. r = a \o b
  BY DEF RemoveAt
<1> HIDE DEF a, b, r
<1>1. /\ r \in Seq(T) /\ Len(r) = Len(s) - 1
      /\ \A i \in 1 .. Len(s) - 1 : r[i] = IF i < k THEN s[i] ELSE s[i + 1]
  <2>1. /\ r \in Seq(T) /\ Len(r) = Len(s) - 1
        /\ \A i \in 1 .. Len(s) - 1 : r[i] = IF i <= k - 1 THEN a[i] ELSE b[i - (k - 1)]
    <3>1. /\ r \in Seq(T) /\ Len(r) = Len(a) + Len(b)
          /\ \A i \in 1 .. Len(a) + Len(b) : r[i] = IF i <= Len(a) THEN a[i] ELSE b[i - Len(a)]
      BY <1>b, <1>c, <1>d, ConcatProperties
    <3>2. Len(a) + Len(b) = Len(s) - 1 /\ Len(a) = k - 1
      BY <1>a, <1>b, <1>c
    <3>3. QED
      BY <3>1, <3>2, Zenon
  <2>2. ASSUME NEW i \in 1 .. Len(s) - 1, i < k PROVE r[i] = s[i]
    BY <1>a, <1>b, <2>1, <2>2
  <2>3. ASSUME NEW i \in 1 .. Len(s) - 1, ~(i < k) PROVE r[i] = s[i + 1]
    <3> DEFINE j == i - (k - 1)
    <3>1. /\ j \in 1 .. Len(s) - k /\ k + j = i + 1 /\ ~(i <= k - 1)
      BY <1>a, <2>3
    <3>2. r[i] = b[j]
      BY <2>1, <3>1
    <3> HIDE DEF j
    <3>3. b[j] = s[i + 1]
      BY <1>c, <3>1
    <3>4. QED
      BY <3>2, <3>3
  <2>4. QED
    BY <1>a, <2>1, <2>2, <2>3
<1>2. DOMAIN r = 1 .. Len(s) - 1 /\ DOMAIN s = 1 .. Len(s) /\ Len(s) \in Nat
  BY <1>1, <1>a
<1> DEFINE from(i) == IF i < k THEN i ELSE i + 1
<1>3. \A i \in DOMAIN r : from(i) \in DOMAIN s /\ from(i) # k /\ r[i] = s[from(i)]
  BY <1>1, <1>2
<1>4. \A i, j \in DOMAIN r : from(i) = from(j) => i = j
  BY <1>2
<1>5. \A i \in DOMAIN s : i # k => \E j \in DOMAIN r : from(j) = i
  <2>1. SUFFICES ASSUME NEW i \in DOMAIN s, i # k PROVE \E j \in DOMAIN r : from(j) = i
    OBVIOUS
  <2>2. CASE i < k
    BY <1>2, <2>2
  <2>3. CASE ~(i < k)
    <3>1. i - 1 \in DOMAIN r /\ from(i - 1) = i
      BY <1>2, <2>1, <2>3
    <3>2. QED
      BY <3>1
  <2>4. QED
    BY <2>2, <2>3
<1> HIDE DEF from
<1>6. QED
  BY <1>1, <1>3, <1>4, <1>5 DEF NumsDiffer, Range, r

(* ------------------------- plans and summaries ------------------------- *)

(* So many things of each element of a finite set are finitely many.       *)
LEMMA CountedFinite ==
  ASSUME NEW S, IsFiniteSet(S), NEW f, \A d \in S : f[d] \in Nat
  PROVE  IsFiniteSet(UNION {{d} \X (1 .. f[d]) : d \in S})
<1> DEFINE M == {{d} \X (1 .. f[d]) : d \in S}
           g == [d \in S |-> {d} \X (1 .. f[d])]
<1>1. g \in Surjection(S, M)
  BY DEF Surjection
<1>2. IsFiniteSet(M)
  BY <1>1, FS_Surjection
<1>3. ASSUME NEW d \in S PROVE IsFiniteSet({d} \X (1 .. f[d]))
  <2>1. IsFiniteSet({d})
    BY FS_Singleton
  <2>2. 1 \in Int /\ f[d] \in Int
    OBVIOUS
  <2>3. IsFiniteSet(1 .. f[d])
    BY <2>2, FS_Interval
  <2>4. QED
    BY <2>1, <2>3, FS_Product
<1>4. QED
  BY <1>2, <1>3, FS_UNION

LEMMA PlansCounted ==
  ASSUME NEW S, IsFiniteSet(S), \A d \in S : d.plans \in Nat
  PROVE  PlansIn(S) \in Nat
<1> DEFINE f == [d \in S |-> d.plans]
<1>0. \A d \in S : f[d] = d.plans /\ f[d] \in Nat
  OBVIOUS
<1>2. {{d} \X (1 .. f[d]) : d \in S} = {{d} \X (1 .. d.plans) : d \in S}
  BY <1>0
<1> HIDE DEF f
<1>1. IsFiniteSet(UNION {{d} \X (1 .. f[d]) : d \in S})
  BY <1>0, CountedFinite
<1>3. QED
  BY <1>1, <1>2, FS_CardinalityType DEF PlansIn

LEMMA SummariesCounted ==
  ASSUME NEW S, IsFiniteSet(S), \A d \in S : d.summaries \in Nat
  PROVE  /\ IsFiniteSet(UNION {{d} \X (1 .. d.summaries) : d \in S})
         /\ SummariesIn(S) \in Nat
<1> DEFINE f == [d \in S |-> d.summaries]
<1>0. \A d \in S : f[d] = d.summaries /\ f[d] \in Nat
  OBVIOUS
<1>2. {{d} \X (1 .. f[d]) : d \in S} = {{d} \X (1 .. d.summaries) : d \in S}
  BY <1>0
<1> HIDE DEF f
<1>1. IsFiniteSet(UNION {{d} \X (1 .. f[d]) : d \in S})
  BY <1>0, CountedFinite
<1>3. QED
  BY <1>1, <1>2, FS_CardinalityType DEF SummariesIn

(* The summaries of two sets without a common directory add up.            *)
LEMMA SummariesAddUp ==
  ASSUME NEW S, IsFiniteSet(S), NEW T, IsFiniteSet(T), S \cap T = {},
         \A d \in S \cup T : d.summaries \in Nat
  PROVE  SummariesIn(S \cup T) = SummariesIn(S) + SummariesIn(T)
<1> DEFINE U(R) == UNION {{d} \X (1 .. d.summaries) : d \in R}
<1>1. U(S \cup T) = U(S) \cup U(T)
  OBVIOUS
<1>2. U(S) \cap U(T) = {}
  OBVIOUS
<1>3. IsFiniteSet(U(S)) /\ IsFiniteSet(U(T))
  BY SummariesCounted
<1>4. Cardinality(U(S) \cap U(T)) = 0
  BY <1>2, FS_EmptySet
<1>5. Cardinality(U(S)) \in Nat /\ Cardinality(U(T)) \in Nat
  BY <1>3, FS_CardinalityType
<1> HIDE DEF U
<1>6. Cardinality(U(S) \cup U(T)) = Cardinality(U(S)) + Cardinality(U(T))
  <2>1. Cardinality(U(S) \cup U(T))
           = Cardinality(U(S)) + Cardinality(U(T)) - Cardinality(U(S) \cap U(T))
    BY <1>3, FS_Union
  <2>2. QED
    BY <1>4, <1>5, <2>1
<1>7. QED
  BY <1>1, <1>6 DEF SummariesIn, U

LEMMA NoSummaries ==
  ASSUME NEW S, \A d \in S : d.summaries = 0
  PROVE  SummariesIn(S) = 0
<1>1. UNION {{d} \X (1 .. d.summaries) : d \in S} = {}
  OBVIOUS
<1>2. QED
  BY <1>1, FS_EmptySet DEF SummariesIn

LEMMA SummariesOfOne ==
  ASSUME NEW d, d.summaries \in Nat
  PROVE  SummariesIn({d}) = d.summaries
<1>1. UNION {{e} \X (1 .. e.summaries) : e \in {d}} = {d} \X (1 .. d.summaries)
  OBVIOUS
<1>2. IsFiniteSet({d}) /\ Cardinality({d}) = 1
  BY FS_Singleton
<1>3. IsFiniteSet(1 .. d.summaries) /\ Cardinality(1 .. d.summaries) = d.summaries
  <2>1. 1 \in Int /\ d.summaries \in Int
    OBVIOUS
  <2>2. /\ IsFiniteSet(1 .. d.summaries)
        /\ Cardinality(1 .. d.summaries)
             = IF 1 > d.summaries THEN 0 ELSE d.summaries - 1 + 1
    BY <2>1, FS_Interval
  <2>3. QED
    BY <2>2
<1>4. Cardinality({d} \X (1 .. d.summaries)) = 1 * d.summaries
  <2>1. Cardinality({d} \X (1 .. d.summaries))
          = Cardinality({d}) * Cardinality(1 .. d.summaries)
    BY <1>2, <1>3, FS_Product
  <2>2. QED
    BY <1>2, <1>3, <2>1
<1>5. SummariesIn({d}) = Cardinality({d} \X (1 .. d.summaries))
  BY <1>1 DEF SummariesIn
<1>6. QED
  BY <1>4, <1>5

(* A directory is replaced by one which may have other summaries.          *)
LEMMA OneReplaced ==
  ASSUME NEW S, IsFiniteSet(S), NEW d \in S, NEW e, e \notin S \ {d},
         \A c \in S \cup {e} : c.summaries \in Nat
  PROVE  SummariesIn((S \ {d}) \cup {e}) = SummariesIn(S) - d.summaries + e.summaries
<1> DEFINE R == S \ {d}
<1>1. IsFiniteSet(R) /\ IsFiniteSet({d}) /\ IsFiniteSet({e})
  BY FS_Difference, FS_Singleton
<1>2. S = R \cup {d} /\ R \cap {d} = {} /\ R \cap {e} = {}
  OBVIOUS
<1>3. \A c \in R \cup {d, e} : c.summaries \in Nat
  OBVIOUS
<1> HIDE DEF R
<1>4. SummariesIn(S) = SummariesIn(R) + d.summaries
  BY <1>1, <1>2, <1>3, SummariesAddUp, SummariesOfOne
<1>5. SummariesIn(R \cup {e}) = SummariesIn(R) + e.summaries
  BY <1>1, <1>2, <1>3, SummariesAddUp, SummariesOfOne
<1>6. SummariesIn(R) \in Nat /\ d.summaries \in Nat /\ e.summaries \in Nat
  BY <1>1, <1>3, SummariesCounted
<1>7. QED
  BY <1>4, <1>5, <1>6 DEF R

(* ----------------------------- the invariant --------------------------- *)

PathsDiffer(S) == \A d, e \in S : d.num = e.num /\ d.name = e.name => d = e

(* Directories have different paths; one without any file has no plans.    *)
FilesInv ==
    /\ IsFiniteSet(dirs) /\ IsFiniteSet(vault)
    /\ PathsDiffer(dirs)
    /\ \A d \in dirs \cup vault : d.files = "none" => d.plans = 0 /\ d.summaries = 0

(* The commands that are left do not reach the numbers of the backlog.     *)
NumbersInv ==
    \A m \in PhaseNums : ~InBacklog(m) => m[1] + 2 * (MaxCommands - count) < Backlog

(* While nothing has set the sides against each other, both have every     *)
(* number once, and the ROADMAP lists each directory under its name.       *)
ListedInv ==
    torn \cap Splitting = {} =>
        /\ \A i, j \in DOMAIN roadmap : roadmap[i].num = roadmap[j].num => i = j
        /\ \A d, e \in dirs : d.num = e.num => d = e
        /\ \A d \in dirs : \E s \in Sections : s.num = d.num /\ s.name = d.name

CountOK == count \in 0 .. MaxCommands

RegistryInv == RegistryTypeOK /\ FilesInv /\ NumbersInv /\ ListedInv /\ CountOK

ProjectInv == RegistryInv /\ DocTypeOK /\ NothingForgotten

(* ------------------------------- numbers ------------------------------- *)

LEMMA FiniteImage ==
  ASSUME NEW S, IsFiniteSet(S), NEW f
  PROVE  IsFiniteSet({f[x] : x \in S})
<1> DEFINE g == [x \in S |-> f[x]]
<1>1. g \in Surjection(S, {f[x] : x \in S})
  BY DEF Surjection
<1>2. QED
  BY <1>1, FS_Surjection

LEMMA FiniteParts ==
  ASSUME NEW S, IsFiniteSet(S)
  PROVE  /\ IsFiniteSet({n[1] : n \in S}) /\ IsFiniteSet({n[2] : n \in S})
         /\ IsFiniteSet({d.num[1] : d \in S}) /\ IsFiniteSet({d.num[2] : d \in S})
<1>1. IsFiniteSet({n[1] : n \in S})
  <2> DEFINE f == [n \in S |-> n[1]]
  <2>1. {n[1] : n \in S} = {f[n] : n \in S}
    OBVIOUS
  <2> HIDE DEF f
  <2>2. IsFiniteSet({f[n] : n \in S})
    BY FiniteImage
  <2>3. QED
    BY <2>1, <2>2
<1>2. IsFiniteSet({n[2] : n \in S})
  <2> DEFINE f == [n \in S |-> n[2]]
  <2>1. {n[2] : n \in S} = {f[n] : n \in S}
    OBVIOUS
  <2> HIDE DEF f
  <2>2. IsFiniteSet({f[n] : n \in S})
    BY FiniteImage
  <2>3. QED
    BY <2>1, <2>2
<1>3. IsFiniteSet({d.num[1] : d \in S})
  <2> DEFINE f == [d \in S |-> d.num[1]]
  <2>1. {d.num[1] : d \in S} = {f[d] : d \in S}
    OBVIOUS
  <2> HIDE DEF f
  <2>2. IsFiniteSet({f[d] : d \in S})
    BY FiniteImage
  <2>3. QED
    BY <2>1, <2>2
<1>4. IsFiniteSet({d.num[2] : d \in S})
  <2> DEFINE f == [d \in S |-> d.num[2]]
  <2>1. {d.num[2] : d \in S} = {f[d] : d \in S}
    OBVIOUS
  <2> HIDE DEF f
  <2>2. IsFiniteSet({f[d] : d \in S})
    BY FiniteImage
  <2>3. QED
    BY <2>1, <2>2
<1>5. QED
  BY <1>1, <1>2, <1>3, <1>4

LEMMA SectionsListed ==
  ASSUME RegistryTypeOK
  PROVE  /\ Sections = Range(roadmap) /\ Sections \subseteq SectionType
         /\ SectionNums \subseteq Nums /\ PhaseNums \subseteq Nums
         /\ IsFiniteSet(SectionNums)
<1>1. Sections = Range(roadmap) /\ Sections \subseteq SectionType
  BY DEF RegistryTypeOK, Sections, Range
<1>2. SectionNums \subseteq Nums
  BY <1>1 DEF SectionNums, SectionType
<1>3. PhaseNums \subseteq Nums
  BY <1>2 DEF PhaseNums, RegistryTypeOK, DirType
<1>4. IsFiniteSet(DOMAIN roadmap)
  <2>1. DOMAIN roadmap = 1 .. Len(roadmap) /\ Len(roadmap) \in Int /\ 1 \in Int
    BY DEF RegistryTypeOK
  <2>2. QED
    BY <2>1, FS_Interval
<1> DEFINE f == [i \in DOMAIN roadmap |-> roadmap[i].num]
<1>5. SectionNums = {f[i] : i \in DOMAIN roadmap}
  BY DEF SectionNums, Sections
<1>6. IsFiniteSet(SectionNums)
  BY <1>4, <1>5, FiniteImage
<1>7. QED
  BY <1>1, <1>2, <1>3, <1>6

(* The integer of a new phase is not in use, and below the backlog's.      *)
LEMMA NextIntegerIsNew ==
  ASSUME RegistryTypeOK, IsFiniteSet(dirs), NumbersInv, count \in 0 .. MaxCommands
  PROVE  /\ NextInteger \in Nat /\ 1 <= NextInteger
         /\ NextInteger + 2 * (MaxCommands - count) <= Backlog
         /\ \A k \in Nat : NextInteger <= k /\ k < Backlog => <<k, 0>> \notin PhaseNums
<1> DEFINE P == {m \in SectionNums : ~InBacklog(m)}
           E == {e \in dirs : e.num[2] = 0 /\ ~InBacklog(e.num)}
           A == {n[1] : n \in P}
           B == {d.num[1] : d \in E}
           C == {0} \cup A \cup B
<1>1. SectionNums \subseteq Nums /\ IsFiniteSet(SectionNums) /\ \A d \in dirs : d.num \in Nums
  BY SectionsListed DEF RegistryTypeOK, DirType
<1>2. IsFiniteSet(P) /\ IsFiniteSet(E)
  BY <1>1, FS_Subset
<1>3. IsFiniteSet(A)
  BY <1>2, FiniteParts
<1>4. IsFiniteSet(B)
  BY <1>2, FiniteParts
<1>5. C \subseteq Nat /\ C # {} /\ 0 \in C
  BY <1>1 DEF Nums
<1>6. IsFiniteSet(C)
  BY <1>3, <1>4, FS_Union, FS_Singleton
<1>7. NextInteger = 1 + Top(C)
  BY DEF NextInteger
<1>8. \A c \in C : c = 0 \/ \E m \in PhaseNums : ~InBacklog(m) /\ c = m[1]
  BY DEF PhaseNums
<1>9. \A m \in PhaseNums : ~InBacklog(m) /\ m[2] = 0 => m[1] \in C
  BY DEF PhaseNums
<1> HIDE DEF P, E, A, B, C
<1>10. Top(C) \in C /\ \A c \in C : c <= Top(C)
  BY <1>5, <1>6, GreatestNumber
<1>11. Top(C) \in Nat /\ Top(C) + 2 * (MaxCommands - count) < Backlog
  <2>1. CASE Top(C) = 0
    BY <2>1, ProjectAssumption DEF Backlog
  <2>2. CASE Top(C) # 0
    BY <1>5, <1>8, <1>10, <2>2 DEF NumbersInv
  <2>3. QED
    BY <2>1, <2>2, <1>5, <1>10
<1>12. ASSUME NEW k \in Nat, NextInteger <= k, k < Backlog, <<k, 0>> \in PhaseNums
       PROVE  FALSE
  <2>1. k \in C
    BY <1>9, <1>12 DEF InBacklog, Backlog
  <2>2. k <= Top(C) /\ Top(C) \in Nat /\ 1 + Top(C) <= k
    BY <1>7, <1>10, <1>11, <1>12, <2>1
  <2>3. QED
    BY <2>2
<1>13. MaxCommands - count \in Int
  BY ProjectAssumption
<1>14. QED
  BY <1>7, <1>11, <1>12, <1>13 DEF Backlog

(* And the decimal of a phase that is inserted is not in use.              *)
LEMMA NextDecimalIsNew ==
  ASSUME RegistryTypeOK, IsFiniteSet(dirs), NEW int \in Nat
  PROVE  /\ NextDecimal(int) \in Nat /\ 1 <= NextDecimal(int)
         /\ <<int, NextDecimal(int)>> \notin PhaseNums
<1> DEFINE P == {m \in SectionNums : m[1] = int}
           E == {e \in dirs : e.num[1] = int}
           A == {n[2] : n \in P}
           B == {d.num[2] : d \in E}
           C == {0} \cup A \cup B
<1>1. SectionNums \subseteq Nums /\ IsFiniteSet(SectionNums) /\ \A d \in dirs : d.num \in Nums
  BY SectionsListed DEF RegistryTypeOK, DirType
<1>2. IsFiniteSet(P) /\ IsFiniteSet(E)
  BY <1>1, FS_Subset
<1>3. IsFiniteSet(A)
  BY <1>2, FiniteParts
<1>4. IsFiniteSet(B)
  BY <1>2, FiniteParts
<1>5. C \subseteq Nat /\ C # {}
  BY <1>1 DEF Nums
<1>6. IsFiniteSet(C)
  BY <1>3, <1>4, FS_Union, FS_Singleton
<1>7. NextDecimal(int) = 1 + Top(C)
  BY DEF NextDecimal
<1>8. \A m \in PhaseNums : m[1] = int => m[2] \in C
  BY DEF PhaseNums
<1> HIDE DEF P, E, A, B, C
<1>9. Top(C) \in C /\ \A c \in C : c <= Top(C)
  BY <1>5, <1>6, GreatestNumber
<1>10. Top(C) \in Nat
  BY <1>5, <1>9
<1>11. ASSUME <<int, NextDecimal(int)>> \in PhaseNums PROVE FALSE
  <2>1. NextDecimal(int) \in C
    BY <1>8, <1>11
  <2>2. NextDecimal(int) <= Top(C)
    BY <1>9, <2>1
  <2>3. QED
    BY <1>7, <1>10, <2>2
<1>12. QED
  BY <1>7, <1>10, <1>11

(* --------------------- new directories and sections -------------------- *)

WorkCount == SummariesIn(dirs) + SummariesIn(vault)

LEMMA DirAdded ==
  ASSUME NEW D \in SUBSET DirType, IsFiniteSet(D), PathsDiffer(D),
         NEW e \in DirType, e.summaries = 0,
         \A d \in D : ~(d.num = e.num /\ d.name = e.name)
  PROVE  /\ D \cup {e} \subseteq DirType /\ IsFiniteSet(D \cup {e})
         /\ PathsDiffer(D \cup {e})
         /\ SummariesIn(D \cup {e}) = SummariesIn(D)
<1>1. IsFiniteSet(D \cup {e}) /\ IsFiniteSet({e})
  BY FS_AddElement, FS_Singleton
<1>2. PathsDiffer(D \cup {e})
  BY DEF PathsDiffer
<1>3. \A d \in D \cup {e} : d.summaries \in Nat
  BY DEF DirType
<1>4. D \cap {e} = {}
  OBVIOUS
<1>5. SummariesIn(D \cup {e}) = SummariesIn(D) + SummariesIn({e})
  BY <1>1, <1>3, <1>4, SummariesAddUp
<1>6. SummariesIn({e}) = 0 /\ SummariesIn(D) \in Nat
  BY <1>3, NoSummaries, SummariesCounted
<1>7. QED
  BY <1>1, <1>2, <1>5, <1>6

LEMMA SectionAdded ==
  ASSUME NEW s \in Seq(SectionType), NEW e \in SectionType
  PROVE  /\ Added(s, e) \in Seq(SectionType)
         /\ Range(Added(s, e)) = Range(s) \cup {e}
         /\ NumsDiffer(s) /\ (\A x \in Range(s) : x.num # e.num)
              => NumsDiffer(Added(s, e))
<1> DEFINE F == {i \in DOMAIN s : ~InBacklog(s[i].num)}
<1>1. Len(s) \in Nat /\ DOMAIN s = 1 .. Len(s)
  OBVIOUS
<1>2. IsFiniteSet(DOMAIN s) /\ Cardinality(DOMAIN s) = Len(s)
  <2>1. 1 \in Int /\ Len(s) \in Int
    BY <1>1
  <2>2. /\ IsFiniteSet(1 .. Len(s))
        /\ Cardinality(1 .. Len(s)) = IF 1 > Len(s) THEN 0 ELSE Len(s) - 1 + 1
    BY <2>1, FS_Interval
  <2>3. QED
    BY <1>1, <2>2
<1>3. F \in SUBSET DOMAIN s
  OBVIOUS
<1> HIDE DEF F
<1>4. Cardinality(F) \in Nat /\ Cardinality(F) <= Len(s)
  BY <1>2, <1>3, FS_Subset, FS_CardinalityType
<1> DEFINE k == Cardinality(F) + 1
<1>5. k \in 1 .. Len(s) + 1
  BY <1>1, <1>4
<1>6. Added(s, e) = InsertAt(s, k, e)
  BY DEF Added, F
<1> HIDE DEF k
<1>7. QED
  BY <1>5, <1>6, Inserted

LEMMA NumbersKept ==
  ASSUME NumbersInv, count \in 0 .. MaxCommands, count' = count + 1,
         PhaseNums \subseteq Nums, PhaseNums' \subseteq Nums,
         \A m \in PhaseNums' :
            \/ m[1] + 2 * (MaxCommands - (count + 1)) < Backlog
            \/ InBacklog(m)
            \/ \E n \in PhaseNums : m[1] <= n[1] /\ (InBacklog(n) => InBacklog(m))
  PROVE  NumbersInv'
<1>1. SUFFICES ASSUME NEW m \in PhaseNums', ~InBacklog(m)
               PROVE  m[1] + 2 * (MaxCommands - (count + 1)) < Backlog
  BY DEF NumbersInv, InBacklog
<1>2. SUFFICES ASSUME NEW n \in PhaseNums, m[1] <= n[1], ~InBacklog(n)
               PROVE  m[1] + 2 * (MaxCommands - (count + 1)) < Backlog
  BY <1>1
<1>3. n[1] + 2 * (MaxCommands - count) < Backlog
  BY <1>2 DEF NumbersInv
<1>4. m[1] \in Nat /\ n[1] \in Nat /\ MaxCommands \in Nat /\ count \in Nat
  BY <1>1, <1>2, ProjectAssumption DEF Nums
<1>5. QED
  BY <1>2, <1>3, <1>4 DEF Backlog

(* ------------------- what the commands do to the registry -------------- *)

LEMMA PhaseAddKeeps ==
  ASSUME RegistryInv, Command, NEW name \in Names, NEW whole \in BOOLEAN,
         PhaseAdd(name, whole)
  PROVE  RegistryInv' /\ WorkCount' = WorkCount
<1> DEFINE new == NextInteger
           e == Dir(<<new, 0>>, name)
           s == AddedPhase(new, name)
<1>1. /\ RegistryTypeOK /\ IsFiniteSet(dirs) /\ IsFiniteSet(vault) /\ NumbersInv
      /\ CountOK /\ ListedInv /\ PathsDiffer(dirs)
      /\ count < MaxCommands /\ count' = count + 1 /\ CountOK'
      /\ MaxCommands \in Nat
  BY ProjectAssumption DEF RegistryInv, FilesInv, CountOK, Command
<1>2. /\ new \in Nat /\ 1 <= new /\ new + 2 * (MaxCommands - count) <= Backlog
      /\ \A k \in Nat : new <= k /\ k < Backlog => <<k, 0>> \notin PhaseNums
  BY <1>1, NextIntegerIsNew DEF CountOK
<1>3. <<new, 0>> \in Nums /\ <<new, 0>> \notin PhaseNums
      /\ new + 2 * (MaxCommands - (count + 1)) < Backlog
  BY <1>1, <1>2 DEF Nums, CountOK, Backlog
<1>4. e \in DirType /\ e.summaries = 0 /\ e.plans = 0 /\ e.num = <<new, 0>> /\ e.name = name
  BY <1>3, RegistryAssumption DEF Dir, DirType
<1>5. s \in SectionType /\ s.num = <<new, 0>> /\ s.name = name
  <2>1. <<new - 1, 0>> \in Nums
    BY <1>2 DEF Nums
  <2>2. QED
    BY <1>3, <2>1 DEF AddedPhase, Section, SectionType, Ref
<1>6. /\ dirs' = dirs \cup {e} /\ vault' = vault
      /\ whole => /\ roadmap' = Added(roadmap, s)
                  /\ torn' = torn \cup NothingBefore(new)
      /\ ~whole => roadmap' = roadmap /\ torn' = torn \cup {"crash"}
  BY DEF PhaseAdd
<1> HIDE DEF new, e, s
<1>7. \A d \in dirs : d.num # <<new, 0>>
  BY <1>3 DEF PhaseNums
<1>8. \A x \in Range(roadmap) : x.num # <<new, 0>>
  BY <1>1, <1>3, SectionsListed DEF PhaseNums, SectionNums
<1>9. /\ dirs' \subseteq DirType /\ IsFiniteSet(dirs') /\ PathsDiffer(dirs')
      /\ SummariesIn(dirs') = SummariesIn(dirs)
  BY <1>1, <1>4, <1>6, <1>7, DirAdded DEF RegistryTypeOK
<1>10. /\ Added(roadmap, s) \in Seq(SectionType)
       /\ Range(Added(roadmap, s)) = Range(roadmap) \cup {s}
       /\ NumsDiffer(roadmap) => NumsDiffer(Added(roadmap, s))
  BY <1>1, <1>5, <1>8, SectionAdded DEF RegistryTypeOK
<1>11. torn' \subseteq Reasons /\ (torn' \cap Splitting = {} => whole /\ torn \cap Splitting = {})
  <2>1. NothingBefore(new) \subseteq {"first"}
    BY DEF NothingBefore
  <2>2. QED
    BY <1>1, <1>6, <2>1 DEF RegistryTypeOK, Reasons, Splitting, Blocking
<1>12. RegistryTypeOK'
  BY <1>1, <1>6, <1>9, <1>10, <1>11 DEF RegistryTypeOK
<1>13. FilesInv'
  BY <1>1, <1>4, <1>6, <1>9 DEF RegistryInv, FilesInv
<1>14. Sections' = Range(roadmap') /\ Range(roadmap') \subseteq Range(roadmap) \cup {s}
  BY <1>6, <1>10 DEF Sections, Range
<1>15. NumbersInv'
  <2>1. PhaseNums' \subseteq PhaseNums \cup {<<new, 0>>}
    BY <1>1, <1>4, <1>5, <1>6, <1>14, SectionsListed DEF PhaseNums, SectionNums
  <2>2. PhaseNums \subseteq Nums
    BY <1>1, SectionsListed
  <2>3. PhaseNums' \subseteq Nums
    BY <1>3, <2>1, <2>2
  <2>4. \A m \in PhaseNums' :
           \/ m[1] + 2 * (MaxCommands - (count + 1)) < Backlog
           \/ \E n \in PhaseNums : m[1] <= n[1] /\ (InBacklog(n) => InBacklog(m))
    BY <1>3, <2>1, <2>2 DEF Nums
  <2>5. QED
    BY <1>1, <2>2, <2>3, <2>4, NumbersKept DEF CountOK
<1>16. ListedInv'
  <2>1. SUFFICES ASSUME torn' \cap Splitting = {}
                 PROVE  /\ NumsDiffer(roadmap')
                        /\ \A c, d \in dirs' : c.num = d.num => c = d
                        /\ \A d \in dirs' : \E x \in Range(roadmap') :
                              x.num = d.num /\ x.name = d.name
    BY <1>14 DEF ListedInv, NumsDiffer
  <2>2. whole /\ torn \cap Splitting = {}
    BY <1>11, <2>1
  <2>3. /\ NumsDiffer(roadmap)
        /\ \A c, d \in dirs : c.num = d.num => c = d
        /\ \A d \in dirs : \E x \in Range(roadmap) : x.num = d.num /\ x.name = d.name
    BY <1>1, <2>2, SectionsListed DEF ListedInv, NumsDiffer
  <2>4. /\ dirs' = dirs \cup {e} /\ roadmap' = Added(roadmap, s)
    BY <1>6, <2>2
  <2>5. QED
    BY <1>4, <1>5, <1>7, <1>10, <2>3, <2>4
<1>17. WorkCount' = WorkCount
  BY <1>6, <1>9 DEF WorkCount
<1>18. QED
  BY <1>1, <1>12, <1>13, <1>15, <1>16, <1>17 DEF RegistryInv

LEMMA PhaseAddBatchKeeps ==
  ASSUME RegistryInv, Command, NEW name1 \in Names, NEW name2 \in Names,
         PhaseAddBatch(name1, name2)
  PROVE  RegistryInv' /\ WorkCount' = WorkCount
<1> DEFINE one == NextInteger
           two == one + 1
           d1 == Dir(<<one, 0>>, name1)
           d2 == Dir(<<two, 0>>, name2)
           s1 == AddedPhase(one, name1)
           s2 == AddedPhase(two, name2)
           middle == Added(roadmap, s1)
<1>1. /\ RegistryTypeOK /\ IsFiniteSet(dirs) /\ IsFiniteSet(vault) /\ NumbersInv
      /\ CountOK /\ ListedInv /\ PathsDiffer(dirs)
      /\ count < MaxCommands /\ count' = count + 1 /\ CountOK'
      /\ MaxCommands \in Nat
  BY ProjectAssumption DEF RegistryInv, FilesInv, CountOK, Command
<1>2. /\ one \in Nat /\ 1 <= one /\ one + 2 * (MaxCommands - count) <= Backlog
      /\ \A k \in Nat : one <= k /\ k < Backlog => <<k, 0>> \notin PhaseNums
  BY <1>1, NextIntegerIsNew DEF CountOK
<1>3. /\ <<one, 0>> \in Nums /\ <<one, 0>> \notin PhaseNums
      /\ <<two, 0>> \in Nums /\ <<two, 0>> \notin PhaseNums
      /\ one + 2 * (MaxCommands - (count + 1)) < Backlog
      /\ two + 2 * (MaxCommands - (count + 1)) < Backlog
      /\ <<one, 0>> # <<two, 0>>
  BY <1>1, <1>2 DEF Nums, CountOK, Backlog
<1>4. /\ d1 \in DirType /\ d1.summaries = 0 /\ d1.plans = 0
      /\ d1.num = <<one, 0>> /\ d1.name = name1
      /\ d2 \in DirType /\ d2.summaries = 0 /\ d2.plans = 0
      /\ d2.num = <<two, 0>> /\ d2.name = name2
  BY <1>3, RegistryAssumption DEF Dir, DirType
<1>5. /\ s1 \in SectionType /\ s1.num = <<one, 0>> /\ s1.name = name1
      /\ s2 \in SectionType /\ s2.num = <<two, 0>> /\ s2.name = name2
  <2>1. <<one - 1, 0>> \in Nums /\ <<two - 1, 0>> \in Nums
    BY <1>2 DEF Nums
  <2>2. QED
    BY <1>3, <2>1 DEF AddedPhase, Section, SectionType, Ref
<1>6. /\ dirs' = (dirs \cup {d1}) \cup {d2} /\ vault' = vault
      /\ roadmap' = Added(middle, s2)
      /\ torn' = torn \cup NothingBefore(one)
  BY DEF PhaseAddBatch
<1> HIDE DEF one, two, d1, d2, s1, s2, middle
<1>7. \A d \in dirs : d.num # <<one, 0>> /\ d.num # <<two, 0>>
  BY <1>3 DEF PhaseNums
<1>8. \A x \in Range(roadmap) : x.num # <<one, 0>> /\ x.num # <<two, 0>>
  BY <1>1, <1>3, SectionsListed DEF PhaseNums, SectionNums
<1>9. /\ dirs' \subseteq DirType /\ IsFiniteSet(dirs') /\ PathsDiffer(dirs')
      /\ SummariesIn(dirs') = SummariesIn(dirs)
  <2> DEFINE D == dirs \cup {d1}
  <2>1. /\ D \in SUBSET DirType /\ IsFiniteSet(D) /\ PathsDiffer(D)
        /\ SummariesIn(D) = SummariesIn(dirs)
    BY <1>1, <1>4, <1>7, DirAdded DEF RegistryTypeOK
  <2>2. \A d \in D : d.num # d2.num
    BY <1>3, <1>4, <1>7
  <2>3. dirs' = D \cup {d2}
    BY <1>6
  <2> HIDE DEF D
  <2>4. QED
    BY <1>4, <2>1, <2>2, <2>3, DirAdded
<1>10. /\ roadmap' \in Seq(SectionType)
       /\ Range(roadmap') = Range(roadmap) \cup {s1, s2}
       /\ NumsDiffer(roadmap) => NumsDiffer(roadmap')
  <2>1. /\ middle \in Seq(SectionType)
        /\ Range(middle) = Range(roadmap) \cup {s1}
        /\ NumsDiffer(roadmap) => NumsDiffer(middle)
    BY <1>1, <1>5, <1>8, SectionAdded DEF RegistryTypeOK, middle
  <2>2. \A x \in Range(middle) : x.num # s2.num
    BY <1>3, <1>5, <1>8, <2>1
  <2>3. /\ Added(middle, s2) \in Seq(SectionType)
        /\ Range(Added(middle, s2)) = Range(middle) \cup {s2}
        /\ NumsDiffer(middle) => NumsDiffer(Added(middle, s2))
    BY <1>5, <2>1, <2>2, SectionAdded
  <2>4. Range(middle) \cup {s2} = Range(roadmap) \cup {s1, s2}
    BY <2>1
  <2>5. QED
    BY <1>6, <2>1, <2>3, <2>4
<1>11. torn' \subseteq Reasons /\ (torn' \cap Splitting = {} => torn \cap Splitting = {})
  <2>1. NothingBefore(one) \subseteq {"first"}
    BY DEF NothingBefore
  <2>2. QED
    BY <1>1, <1>6, <2>1 DEF RegistryTypeOK, Reasons, Splitting, Blocking
<1>12. RegistryTypeOK'
  BY <1>1, <1>6, <1>9, <1>10, <1>11 DEF RegistryTypeOK
<1>13. FilesInv'
  BY <1>1, <1>4, <1>6, <1>9 DEF RegistryInv, FilesInv
<1>14. Sections' = Range(roadmap')
  BY DEF Sections, Range
<1>15. NumbersInv'
  <2>1. PhaseNums' \subseteq PhaseNums \cup {<<one, 0>>, <<two, 0>>}
    BY <1>1, <1>4, <1>5, <1>6, <1>10, <1>14, SectionsListed DEF PhaseNums, SectionNums
  <2>2. PhaseNums \subseteq Nums
    BY <1>1, SectionsListed
  <2>3. PhaseNums' \subseteq Nums
    BY <1>3, <2>1, <2>2
  <2>4. \A m \in PhaseNums' :
           \/ m[1] + 2 * (MaxCommands - (count + 1)) < Backlog
           \/ \E n \in PhaseNums : m[1] <= n[1] /\ (InBacklog(n) => InBacklog(m))
    BY <1>3, <2>1, <2>2 DEF Nums
  <2>5. QED
    BY <1>1, <2>2, <2>3, <2>4, NumbersKept DEF CountOK
<1>16. ListedInv'
  <2>1. SUFFICES ASSUME torn' \cap Splitting = {}
                 PROVE  /\ NumsDiffer(roadmap')
                        /\ \A c, d \in dirs' : c.num = d.num => c = d
                        /\ \A d \in dirs' : \E x \in Range(roadmap') :
                              x.num = d.num /\ x.name = d.name
    BY <1>14 DEF ListedInv, NumsDiffer
  <2>2. /\ NumsDiffer(roadmap)
        /\ \A c, d \in dirs : c.num = d.num => c = d
        /\ \A d \in dirs : \E x \in Range(roadmap) : x.num = d.num /\ x.name = d.name
    BY <1>1, <1>11, <2>1, SectionsListed DEF ListedInv, NumsDiffer
  <2>3. \A c, d \in dirs' : c.num = d.num => c = d
    BY <1>3, <1>4, <1>6, <1>7, <2>2
  <2>4. \A d \in dirs' : \E x \in Range(roadmap') : x.num = d.num /\ x.name = d.name
    BY <1>4, <1>5, <1>6, <1>10, <2>2
  <2>5. QED
    BY <1>10, <2>2, <2>3, <2>4
<1>17. WorkCount' = WorkCount
  BY <1>6, <1>9 DEF WorkCount
<1>18. QED
  BY <1>1, <1>12, <1>13, <1>15, <1>16, <1>17 DEF RegistryInv

LEMMA FirstPlace ==
  ASSUME NEW P \in SUBSET Nat, P # {}
  PROVE  First(P) \in P /\ \A i \in P : First(P) <= i
BY LeastNumber DEF First

LEMMA PhaseInsertKeeps ==
  ASSUME RegistryInv, Command, NEW after \in SectionNums, NEW padded \in BOOLEAN,
         NEW name \in Names, NEW whole \in BOOLEAN,
         PhaseInsert(after, padded, name, whole)
  PROVE  RegistryInv' /\ WorkCount' = WorkCount
<1> DEFINE new == <<after[1], NextDecimal(after[1])>>
           at == First(Places(after))
           e == Dir(new, name)
           s == Section(new, after[1] < 10, name, "none", {Ref(after, padded)})
<1>1. /\ RegistryTypeOK /\ IsFiniteSet(dirs) /\ IsFiniteSet(vault) /\ NumbersInv
      /\ CountOK /\ ListedInv /\ PathsDiffer(dirs)
      /\ count < MaxCommands /\ count' = count + 1 /\ CountOK'
      /\ MaxCommands \in Nat
  BY ProjectAssumption DEF RegistryInv, FilesInv, CountOK, Command
<1>2. after \in Nums /\ after \in PhaseNums /\ PhaseNums \subseteq Nums
  BY <1>1, SectionsListed DEF PhaseNums
<1>3. new \in Nums /\ new \notin PhaseNums /\ new[1] = after[1]
  BY <1>1, <1>2, NextDecimalIsNew DEF Nums
<1>4. e \in DirType /\ e.summaries = 0 /\ e.plans = 0 /\ e.num = new /\ e.name = name
  BY <1>3, RegistryAssumption DEF Dir, DirType
<1>5. s \in SectionType /\ s.num = new /\ s.name = name
  <2>1. (after[1] < 10) \in BOOLEAN /\ {Ref(after, padded)} \subseteq [num : Nums, padded : BOOLEAN]
    BY <1>2 DEF Ref
  <2>2. QED
    BY <1>3, <2>1 DEF Section, SectionType
<1>6. /\ dirs' = dirs \cup {e} /\ vault' = vault
      /\ whole => /\ roadmap' = InsertAt(roadmap, at + 1, s)
                  /\ torn' = torn \cup (IF roadmap[at].padded = padded THEN {} ELSE {"spelling"})
      /\ ~whole => roadmap' = roadmap /\ torn' = torn \cup {"crash"}
      /\ Places(after) # {}
  BY DEF PhaseInsert
<1>7. at + 1 \in 1 .. Len(roadmap) + 1
  <2>1. roadmap \in Seq(SectionType) /\ Places(after) \subseteq 1 .. Len(roadmap)
    BY <1>1 DEF Places, RegistryTypeOK
  <2>2. at \in Places(after)
    BY <1>6, <2>1, FirstPlace
  <2>3. QED
    BY <2>1, <2>2
<1> HIDE DEF new, at, e, s
<1>8. \A d \in dirs : d.num # new
  BY <1>3 DEF PhaseNums
<1>9. \A x \in Range(roadmap) : x.num # new
  BY <1>1, <1>3, SectionsListed DEF PhaseNums, SectionNums
<1>10. /\ dirs' \subseteq DirType /\ IsFiniteSet(dirs') /\ PathsDiffer(dirs')
       /\ SummariesIn(dirs') = SummariesIn(dirs)
  BY <1>1, <1>4, <1>6, <1>8, DirAdded DEF RegistryTypeOK
<1> DEFINE r == InsertAt(roadmap, at + 1, s)
<1>11. /\ r \in Seq(SectionType) /\ Range(r) = Range(roadmap) \cup {s}
       /\ NumsDiffer(roadmap) => NumsDiffer(r)
  <2>1. roadmap \in Seq(SectionType) /\ s \in SectionType /\ at + 1 \in 1 .. Len(roadmap) + 1
    BY <1>1, <1>5, <1>7 DEF RegistryTypeOK
  <2>2. \A x \in Range(roadmap) : x.num # s.num
    BY <1>5, <1>9
  <2>3. QED
    BY <2>1, <2>2, Inserted
<1>12. torn' \subseteq Reasons /\ (torn' \cap Splitting = {} => whole /\ torn \cap Splitting = {})
  BY <1>1, <1>6 DEF RegistryTypeOK, Reasons, Splitting, Blocking
<1>13. whole => roadmap' = r
  BY <1>6
<1> HIDE DEF r
<1>14. RegistryTypeOK'
  BY <1>1, <1>6, <1>10, <1>11, <1>12, <1>13 DEF RegistryTypeOK
<1>15. FilesInv'
  BY <1>1, <1>4, <1>6, <1>10 DEF RegistryInv, FilesInv
<1>16. Sections' = Range(roadmap') /\ Range(roadmap') \subseteq Range(roadmap) \cup {s}
  BY <1>6, <1>11, <1>13 DEF Sections, Range
<1>17. NumbersInv'
  <2>1. PhaseNums' \subseteq PhaseNums \cup {new}
    BY <1>1, <1>4, <1>5, <1>6, <1>16, SectionsListed DEF PhaseNums, SectionNums
  <2>2. PhaseNums' \subseteq Nums
    BY <1>2, <1>3, <2>1
  <2>3. \A m \in PhaseNums' :
           \E n \in PhaseNums : m[1] <= n[1] /\ (InBacklog(n) => InBacklog(m))
    BY <1>2, <1>3, <2>1 DEF Nums, InBacklog
  <2>4. QED
    BY <1>1, <1>2, <2>2, <2>3, NumbersKept DEF CountOK
<1>18. ListedInv'
  <2>1. SUFFICES ASSUME torn' \cap Splitting = {}
                 PROVE  /\ NumsDiffer(roadmap')
                        /\ \A c, d \in dirs' : c.num = d.num => c = d
                        /\ \A d \in dirs' : \E x \in Range(roadmap') :
                              x.num = d.num /\ x.name = d.name
    BY <1>16 DEF ListedInv, NumsDiffer
  <2>2. /\ NumsDiffer(roadmap)
        /\ \A c, d \in dirs : c.num = d.num => c = d
        /\ \A d \in dirs : \E x \in Range(roadmap) : x.num = d.num /\ x.name = d.name
    BY <1>1, <1>12, <2>1, SectionsListed DEF ListedInv, NumsDiffer
  <2>3. dirs' = dirs \cup {e} /\ roadmap' = r
    BY <1>6, <1>12, <1>13, <2>1
  <2>4. QED
    BY <1>4, <1>5, <1>8, <1>11, <2>2, <2>3
<1>19. WorkCount' = WorkCount
  BY <1>6, <1>10 DEF WorkCount
<1>20. QED
  BY <1>1, <1>14, <1>15, <1>17, <1>18, <1>19 DEF RegistryInv

(* ------------------------ renaming directories ------------------------- *)

LEMMA ShiftedNumber ==
  ASSUME NEW m \in Nums, NEW n \in Nums
  PROVE  /\ Shifted(m, n) \in Nums
         /\ Shifted(m, n)[1] <= m[1]
         /\ InBacklog(m) => InBacklog(Shifted(m, n))
         /\ Shifted(m, n) # m => Less(Shifted(m, n), m)
<1>1. m = <<m[1], m[2]>> /\ m[1] \in Nat /\ m[2] \in Nat /\ n[1] \in Nat /\ n[2] \in Nat
  BY DEF Nums
<1>2. CASE n[2] > 0 /\ m[1] = n[1] /\ m[2] > n[2]
  <2>1. Shifted(m, n) = <<m[1], m[2] - 1>>
    BY <1>2 DEF Shifted
  <2>2. QED
    BY <1>1, <1>2, <2>1 DEF Nums, InBacklog, Less
<1>3. CASE n[2] = 0 /\ m[1] > n[1] /\ ~InBacklog(m)
  <2>1. Shifted(m, n) = <<m[1] - 1, m[2]>>
    BY <1>3 DEF Shifted
  <2>2. QED
    BY <1>1, <1>3, <2>1 DEF Nums, InBacklog, Less
<1>4. CASE Shifted(m, n) = m
  BY <1>1, <1>4
<1>5. QED
  BY <1>1, <1>2, <1>3, <1>4 DEF Shifted

(* Once n is gone, no two phases that are left get the same number, unless *)
(* a decimal phase of the integer phase n stays behind.                    *)
LEMMA ShiftedApart ==
  ASSUME NEW n \in Nums, NEW k \in Nums, NEW m \in Nums, k # n, m # n,
         ~(k[1] = n[1] /\ k[2] > n[2]), ~(m[1] = n[1] /\ m[2] > n[2]),
         Shifted(k, n) = Shifted(m, n)
  PROVE  k = m
<1>1. /\ m = <<m[1], m[2]>> /\ m[1] \in Nat /\ m[2] \in Nat /\ n[1] \in Nat /\ n[2] \in Nat
      /\ k = <<k[1], k[2]>> /\ k[1] \in Nat /\ k[2] \in Nat /\ n = <<n[1], n[2]>>
  BY DEF Nums
<1>2. CASE n[2] > 0
  BY <1>1, <1>2 DEF Shifted
<1>3. CASE n[2] = 0
  <2>1. k[1] # n[1] /\ m[1] # n[1]
    BY <1>1, <1>3
  <2>2. QED
    BY <1>1, <1>3, <2>1 DEF Shifted, InBacklog, Backlog
<1>4. QED
  BY <1>1, <1>2, <1>3

States == [dirs : SUBSET DirType, ok : BOOLEAN]

(* Of the directories left, the first i in the order have been renamed.    *)
RenamedTo(state, left, n, order, i) ==
    /\ state \in States /\ IsFiniteSet(state.dirs) /\ PathsDiffer(state.dirs)
    /\ \A e \in state.dirs : e.files = "none" => e.plans = 0 /\ e.summaries = 0
    /\ SummariesIn(state.dirs) = SummariesIn(left)
    /\ \A e \in state.dirs : \E d \in left :
          e.name = d.name /\ (e.num = d.num \/ e.num = Shifted(d.num, n))
    /\ state.ok => \A k \in 1 .. i : \A e \in state.dirs :
          ~(e.num = order[k].num /\ e.name = order[k].name)

LEMMA RenamedOnce ==
  ASSUME NEW n \in Nums, NEW left \in SUBSET DirType, NEW K \in Nat,
         NEW order \in [1 .. K -> Later(left, n)],
         \A i, j \in 1 .. K : i < j => ~Less(order[i].num, order[j].num),
         NEW i \in Nat, i < K, NEW state, RenamedTo(state, left, n, order, i)
  PROVE  RenamedTo(RenameOne(state, order[i + 1], n), left, n, order, i + 1)
<1> DEFINE d == order[i + 1]
           new == Shifted(d.num, n)
           moved == AtPath(state.dirs, d.num, d.name)
           there == AtPath(state.dirs, new, d.name)
           A == state.dirs \ (moved \cup there)
           renumbered == {[e EXCEPT !.num = new] : e \in moved}
           R == RenameOne(state, d, n)
<1>1. i + 1 \in 1 .. K /\ d \in left /\ d \in DirType /\ d.num \in Nums
      /\ new # d.num
  BY DEF Later, DirType
<1>2. new \in Nums /\ Less(new, d.num)
  BY <1>1, ShiftedNumber
<1>3. /\ state.dirs \in SUBSET DirType /\ state.ok \in BOOLEAN
      /\ state = [dirs |-> state.dirs, ok |-> state.ok]
      /\ IsFiniteSet(state.dirs) /\ PathsDiffer(state.dirs)
      /\ \A e \in state.dirs : e.files = "none" => e.plans = 0 /\ e.summaries = 0
      /\ SummariesIn(state.dirs) = SummariesIn(left)
  BY DEF RenamedTo, States
<1>r. order[i + 1] = d /\ new = Shifted(d.num, n)
  OBVIOUS
<1> HIDE DEF d, new
<1>4. CASE ~state.ok \/ \E e \in there : e.files # "none"
  <2>1. R = [state EXCEPT !.ok = FALSE]
    BY <1>4 DEF RenameOne, d, new
  <2>2. R.dirs = state.dirs /\ R.ok = FALSE /\ R \in States
    BY <1>3, <2>1 DEF States
  <2>3. RenamedTo(R, left, n, order, i + 1)
    BY <2>2 DEF RenamedTo
  <2>4. QED
    BY <1>r, <2>3
<1>5. CASE state.ok /\ \A e \in there : e.files = "none"
  <2>1. R = [state EXCEPT !.dirs = A \cup renumbered]
    BY <1>5 DEF RenameOne, d, new
  <2>2. R.dirs = A \cup renumbered /\ R.ok = state.ok /\ R = [dirs |-> R.dirs, ok |-> R.ok]
    BY <1>3, <2>1
  <2>3. renumbered \subseteq DirType
    BY <1>2, <1>3 DEF AtPath, DirType
  <2>4. R \in States /\ R.dirs \in SUBSET DirType
    BY <1>3, <2>2, <2>3 DEF States
  <2>5. moved = {} \/ \E e \in state.dirs : moved = {e}
    BY <1>3 DEF AtPath, PathsDiffer
  <2>6. /\ moved \subseteq state.dirs /\ there \subseteq state.dirs /\ moved \cap there = {}
        /\ \A e \in moved : e.num = d.num /\ e.name = d.name
        /\ \A e \in A : ~(e.num = new /\ e.name = d.name)
        /\ \A e \in A : ~(e.num = d.num /\ e.name = d.name)
    BY <1>1 DEF AtPath
  <2>7. \A e \in moved : LET f == [e EXCEPT !.num = new]
                        IN f.num = new /\ f.name = d.name /\ f.plans = e.plans
                           /\ f.summaries = e.summaries /\ f.files = e.files
    BY <1>3, <2>6 DEF DirType
  <2>8. /\ \A f \in renumbered : f.num = new /\ f.name = d.name
        /\ \A f \in renumbered : f.files = "none" => f.plans = 0 /\ f.summaries = 0
    <3> DEFINE to(e) == [e EXCEPT !.num = new]
    <3>1. \A f \in renumbered : \E e \in moved : f = to(e)
      OBVIOUS
    <3>2. \A e \in moved : /\ to(e).num = new /\ to(e).name = d.name /\ to(e).plans = e.plans
                           /\ to(e).summaries = e.summaries /\ to(e).files = e.files
                           /\ e \in state.dirs
      BY <2>6, <2>7
    <3> HIDE DEF to, renumbered, moved
    <3>3. QED
      BY <1>3, <3>1, <3>2
  <2>9. renumbered = {} \/ \E f : renumbered = {f}
    <3> DEFINE to(e) == [e EXCEPT !.num = new]
    <3>1. renumbered = {to(e) : e \in moved}
      OBVIOUS
    <3> HIDE DEF to, renumbered, moved
    <3>2. CASE moved = {}
      BY <3>1, <3>2
    <3>3. ASSUME NEW e, moved = {e} PROVE renumbered = {to(e)}
      BY <3>1, <3>3
    <3>4. QED
      BY <2>5, <3>2, <3>3
  <2>10. IsFiniteSet(A) /\ IsFiniteSet(renumbered) /\ IsFiniteSet(R.dirs)
    <3>1. IsFiniteSet(A)
      BY <1>3, FS_Difference
    <3> HIDE DEF renumbered, A
    <3>2. IsFiniteSet(renumbered)
      <4>1. CASE renumbered = {}
        BY <4>1, FS_EmptySet
      <4>2. ASSUME NEW f, renumbered = {f} PROVE IsFiniteSet(renumbered)
        BY <4>2, FS_Singleton
      <4>3. QED
        BY <2>9, <4>1, <4>2
    <3>3. QED
      BY <2>2, <3>1, <3>2, FS_Union
  <2>11. \A e \in there : e.summaries = 0
    BY <1>3, <1>5, <2>6
  <2> HIDE DEF A, renumbered, moved, there, R
  <2>12. PathsDiffer(R.dirs)
    <3>1. A \subseteq state.dirs
      BY DEF A
    <3>2. QED
      BY <1>3, <2>2, <2>6, <2>8, <2>9, <3>1 DEF PathsDiffer
  <2>13. \A e \in R.dirs : e.files = "none" => e.plans = 0 /\ e.summaries = 0
    BY <1>3, <2>2, <2>8 DEF A
  <2>14. SummariesIn(R.dirs) = SummariesIn(left)
    <3>1. /\ IsFiniteSet(moved) /\ IsFiniteSet(there)
          /\ state.dirs = (A \cup moved) \cup there
          /\ (A \cup moved) \cap there = {} /\ A \cap moved = {}
      BY <1>3, <2>6, FS_Subset DEF A
    <3>2. IsFiniteSet(A \cup moved)
      BY <2>10, <3>1, FS_Union
    <3>3. A \cap renumbered = {}
      BY <2>6, <2>8
    <3>4. /\ \A e \in state.dirs : e.summaries \in Nat
          /\ \A e \in R.dirs : e.summaries \in Nat
      BY <1>3, <2>4 DEF DirType
    <3>5. SummariesIn(there) = 0
      BY <2>11, NoSummaries
    <3>6. SummariesIn(state.dirs) = SummariesIn(A \cup moved) + SummariesIn(there)
      BY <3>1, <3>2, <3>4, SummariesAddUp
    <3>7. SummariesIn(A \cup moved) = SummariesIn(A) + SummariesIn(moved)
      BY <2>10, <3>1, <3>4, SummariesAddUp
    <3>8. SummariesIn(R.dirs) = SummariesIn(A) + SummariesIn(renumbered)
      BY <2>2, <2>10, <3>3, <3>4, SummariesAddUp
    <3>9. SummariesIn(renumbered) = SummariesIn(moved)
      <4>1. CASE moved = {}
        BY <4>1 DEF renumbered
      <4>2. CASE moved # {}
        <5>1. PICK e \in state.dirs : moved = {e}
          BY <2>5, <4>2
        <5>2. renumbered = {[e EXCEPT !.num = new]} /\ [e EXCEPT !.num = new].summaries = e.summaries
          BY <2>7, <5>1 DEF renumbered
        <5>3. e.summaries \in Nat
          BY <3>4
        <5> DEFINE f == [e EXCEPT !.num = new]
        <5> HIDE DEF f
        <5>4. SummariesIn({e}) = e.summaries /\ SummariesIn({f}) = f.summaries
          BY <5>2, <5>3, SummariesOfOne DEF f
        <5>5. QED
          BY <5>1, <5>2, <5>4 DEF f
      <4>3. QED
        BY <4>1, <4>2
    <3>10. SummariesIn(A) \in Nat /\ SummariesIn(moved) \in Nat
      BY <2>10, <3>1, <3>4, SummariesCounted
    <3>11. QED
      BY <1>3, <3>5, <3>6, <3>7, <3>8, <3>9, <3>10
  <2>15. \A e \in R.dirs : \E c \in left :
            e.name = c.name /\ (e.num = c.num \/ e.num = Shifted(c.num, n))
    <3>1. \A e \in A : \E c \in left :
            e.name = c.name /\ (e.num = c.num \/ e.num = Shifted(c.num, n))
      BY DEF RenamedTo, A
    <3>2. QED
      BY <1>1, <1>r, <2>2, <2>8, <3>1
  <2>16. \A k \in 1 .. i + 1 : \A e \in R.dirs :
            ~(e.num = order[k].num /\ e.name = order[k].name)
    <3>1. SUFFICES ASSUME NEW k \in 1 .. i + 1, NEW e \in R.dirs,
                          e.num = order[k].num, e.name = order[k].name
                   PROVE  FALSE
      OBVIOUS
    <3>2. k \in 1 .. K /\ order[k].num \in Nums /\ (k # i + 1 => k \in 1 .. i /\ k < i + 1)
      BY DEF Later, DirType
    <3>3. CASE e \in A
      <4>1. k # i + 1
        BY <1>r, <2>6, <3>1, <3>3
      <4>2. QED
        BY <1>5, <3>1, <3>2, <3>3, <4>1 DEF RenamedTo, A
    <3>4. CASE e \in renumbered
      <4>1. order[k].num = new
        BY <2>8, <3>1, <3>4
      <4>2. k # i + 1
        BY <1>1, <1>r, <4>1
      <4>3. ~Less(order[k].num, d.num)
        BY <1>1, <3>2, <4>2 DEF d
      <4>4. QED
        BY <1>2, <4>1, <4>3
    <3>5. QED
      BY <2>2, <3>3, <3>4
  <2>17. RenamedTo(R, left, n, order, i + 1)
    BY <2>4, <2>10, <2>12, <2>13, <2>14, <2>15, <2>16 DEF RenamedTo
  <2>18. QED
    BY <1>r, <2>17 DEF R
<1>6. QED
  BY <1>3, <1>4, <1>5

LEMMA RenamedAll ==
  ASSUME NEW n \in Nums, NEW left \in SUBSET DirType, IsFiniteSet(left), PathsDiffer(left),
         \A e \in left : e.files = "none" => e.plans = 0 /\ e.summaries = 0,
         NEW order \in Orders(Later(left, n))
  PROVE  /\ RenameDirs(left, n, order) \in States
         /\ LET D == RenameDirs(left, n, order).dirs
            IN /\ IsFiniteSet(D) /\ PathsDiffer(D)
               /\ \A e \in D : e.files = "none" => e.plans = 0 /\ e.summaries = 0
               /\ SummariesIn(D) = SummariesIn(left)
               /\ \A e \in D : \E d \in left :
                     e.name = d.name /\ (e.num = d.num \/ e.num = Shifted(d.num, n))
               /\ RenameDirs(left, n, order).ok =>
                     \A e \in D : \E d \in left : e.name = d.name /\ e.num = Shifted(d.num, n)
<1> DEFINE later == Later(left, n)
           K == Cardinality(later)
           base == [dirs |-> left, ok |-> TRUE]
           next(i, state) == RenameOne(state, order[i], n)
           Loop(f) == [i \in 0 .. Len(order) |-> IF i = 0 THEN base ELSE next(i, f[i - 1])]
           after == CHOOSE f : f = Loop(f)
           Good(i) == {state \in States : RenamedTo(state, left, n, order, i)}
           step == [x \in Nat \X States |->
                      IF x[1] + 1 \in 1 .. K THEN next(x[1] + 1, x[2]) ELSE x[2]]
<1>1. RenameDirs(left, n, order) = after[Len(order)]
  BY DEF RenameDirs
<1>2. later \subseteq left /\ IsFiniteSet(later) /\ K \in Nat
  BY FS_Subset, FS_CardinalityType DEF Later
<1>3. /\ order \in [1 .. K -> later] /\ DOMAIN order = 1 .. K
      /\ Range(order) = later
      /\ \A i, j \in 1 .. K : i < j => ~Less(order[i].num, order[j].num)
  BY DEF Orders
<1> HIDE DEF later, K
<1>4. Len(order) = K
  BY <1>2, <1>3
<1>5. base \in States
  BY DEF States
<1>6. \A i \in 1 .. K, state \in States : next(i, state) \in States
  <2>1. SUFFICES ASSUME NEW i \in 1 .. K, NEW state \in States PROVE next(i, state) \in States
    OBVIOUS
  <2>2. order[i] \in DirType /\ Shifted(order[i].num, n) \in Nums
    BY <1>2, <1>3, ShiftedNumber DEF DirType
  <2>3. state = [dirs |-> state.dirs, ok |-> state.ok] /\ state.dirs \subseteq DirType
    BY DEF States
  <2>4. \A e \in DirType : [e EXCEPT !.num = Shifted(order[i].num, n)] \in DirType
    BY <2>2 DEF DirType
  <2>5. QED
    BY <2>3, <2>4 DEF RenameOne, AtPath, States
<1> HIDE DEF base, next
<1>7. /\ step \in [Nat \X States -> States]
      /\ \A i \in Nat, state \in States :
            step[<<i, state>>] = IF i + 1 \in 1 .. K THEN next(i + 1, state) ELSE state
  BY <1>6
<1> HIDE DEF step
<1>8. PICK f : Repeats(f, step, base, K, States)
  BY <1>2, <1>5, <1>7, RepeatedStep
<1>9. f = Loop(f)
  <2>1. \A i \in 0 .. K : f[i] = IF i = 0 THEN base ELSE next(i, f[i - 1])
    <3>1. SUFFICES ASSUME NEW i \in 0 .. K, i # 0 PROVE f[i] = next(i, f[i - 1])
      BY <1>8 DEF Repeats
    <3>2. i - 1 \in 0 .. K - 1 /\ i - 1 \in 0 .. K /\ i - 1 \in Nat /\ (i - 1) + 1 = i
          /\ i \in 1 .. K
      BY <1>2, <3>1
    <3>3. f[i - 1] \in States /\ f[i] = step[<<i - 1, f[i - 1]>>]
      BY <1>8, <3>2 DEF Repeats
    <3>4. QED
      BY <1>7, <3>2, <3>3
  <2>2. f = [i \in 0 .. K |-> f[i]]
    BY <1>8 DEF Repeats
  <2>3. QED
    BY <1>4, <2>1, <2>2
<1>10. after = Loop(after)
  BY <1>9
<1> HIDE DEF after
<1> DEFINE S == {i \in Nat : i \in 0 .. K => RenamedTo(after[i], left, n, order, i)}
<1>11. 0 \in S
  <2>1. 0 \in 0 .. K
    BY <1>2
  <2>2. after[0] = base
    BY <1>4, <1>10, <2>1
  <2>3. RenamedTo(base, left, n, order, 0)
    BY DEF RenamedTo, base, States
  <2>4. QED
    BY <2>2, <2>3
<1>12. ASSUME NEW i \in Nat, i \in S PROVE i + 1 \in S
  <2>1. SUFFICES ASSUME i + 1 \in 0 .. K PROVE RenamedTo(after[i + 1], left, n, order, i + 1)
    OBVIOUS
  <2>2. i \in 0 .. K /\ i < K /\ i + 1 # 0 /\ (i + 1) - 1 = i
    BY <1>2, <1>12, <2>1
  <2>3. after[i + 1] = next(i + 1, after[i])
    BY <1>4, <1>10, <2>1, <2>2
  <2>4. RenamedTo(after[i], left, n, order, i)
    BY <1>12, <2>2
  <2>5. order \in [1 .. K -> Later(left, n)]
    BY <1>3 DEF later
  <2>6. RenamedTo(RenameOne(after[i], order[i + 1], n), left, n, order, i + 1)
    BY <1>2, <1>3, <2>2, <2>4, <2>5, RenamedOnce
  <2>7. QED
    BY <2>3, <2>6 DEF next
<1> HIDE DEF S
<1>13. K \in S
  BY <1>2, <1>11, <1>12, NumbersFromZero
<1> DEFINE R == RenameDirs(left, n, order)
<1>14. RenamedTo(R, left, n, order, K)
  BY <1>1, <1>2, <1>4, <1>13 DEF S
<1> HIDE DEF R
<1>15. ASSUME R.ok, NEW e \in R.dirs
       PROVE  \E d \in left : e.name = d.name /\ e.num = Shifted(d.num, n)
  <2>1. PICK d \in left : e.name = d.name /\ (e.num = d.num \/ e.num = Shifted(d.num, n))
    BY <1>14 DEF RenamedTo
  <2>2. SUFFICES ASSUME Shifted(d.num, n) # d.num, e.num = d.num PROVE FALSE
    BY <2>1
  <2>3. d \in later
    BY <2>2 DEF later, Later
  <2>4. PICK k \in 1 .. K : order[k] = d
    BY <1>3, <2>3 DEF Range
  <2>5. QED
    BY <1>14, <1>15, <2>1, <2>2, <2>4 DEF RenamedTo
<1>16. QED
  BY <1>14, <1>15 DEF RenamedTo, R

LEMMA RenumberedSection ==
  ASSUME NEW s \in SectionType, NEW n \in Nums
  PROVE  /\ Renumbered(s, n) \in SectionType
         /\ Renumbered(s, n).num = Shifted(s.num, n) /\ Renumbered(s, n).name = s.name
<1> DEFINE RefType == [num : Nums, padded : BOOLEAN]
           own == Respelled(Ref(s.num, s.padded), n)
           on == {Respelled(ref, n) : ref \in s.on}
<1>1. ASSUME NEW ref \in RefType
      PROVE  Respelled(ref, n) \in RefType /\ Respelled(ref, n).num = Shifted(ref.num, n)
  BY ShiftedNumber DEF Respelled, Ref
<1>2. own \in RefType /\ own.num = Shifted(s.num, n)
  <2>1. Ref(s.num, s.padded) \in RefType /\ Ref(s.num, s.padded).num = s.num
    BY DEF Ref, SectionType
  <2>2. QED
    BY <1>1, <2>1
<1>3. on \subseteq RefType
  BY <1>1 DEF SectionType
<1>4. Renumbered(s, n) = [s EXCEPT !.num = own.num, !.padded = own.padded, !.on = on]
  BY DEF Renumbered
<1> HIDE DEF own, on
<1>5. QED
  BY <1>2, <1>3, <1>4 DEF SectionType

LEMMA PhaseRemoveKeeps ==
  ASSUME RegistryInv, Command, NEW n \in PhaseNums, NEW padded \in BOOLEAN,
         NEW force \in BOOLEAN, PhaseRemove(n, padded, force)
  PROVE  RegistryInv' /\ (~force => WorkCount' = WorkCount)
<1>1. /\ RegistryTypeOK /\ IsFiniteSet(dirs) /\ IsFiniteSet(vault) /\ NumbersInv
      /\ CountOK /\ ListedInv /\ PathsDiffer(dirs)
      /\ count < MaxCommands /\ count' = count + 1 /\ CountOK'
      /\ \A d \in dirs \cup vault : d.files = "none" => d.plans = 0 /\ d.summaries = 0
  BY ProjectAssumption DEF RegistryInv, FilesInv, CountOK, Command
<1>2. n \in Nums /\ PhaseNums \subseteq Nums
  BY <1>1, SectionsListed
<1>3. PICK found \in (IF DirsOf(n) = {} THEN {{}} ELSE {{d} : d \in DirsOf(n)}) :
         /\ \A d \in found : d.summaries > 0 => force
         /\ \E order \in Orders(Later(dirs \ found, n)) :
              LET renamed == RenameDirs(dirs \ found, n, order)
              IN /\ dirs' = renamed.dirs
                 /\ torn' = torn
                      \cup (IF renamed.ok THEN {} ELSE {"rename"})
                      \cup (IF Matched(n, padded) = {} THEN {"spelling"} ELSE {})
                      \cup (IF StaysBehind(n) THEN {"orphans"} ELSE {})
                      \cup (IF Dependents(n) = {} THEN {} ELSE {"dependents"})
         /\ roadmap' = RemoveSection(n, padded)
         /\ vault' = vault
  BY DEF PhaseRemove
<1>4. PICK order \in Orders(Later(dirs \ found, n)) :
              LET renamed == RenameDirs(dirs \ found, n, order)
              IN /\ dirs' = renamed.dirs
                 /\ torn' = torn
                      \cup (IF renamed.ok THEN {} ELSE {"rename"})
                      \cup (IF Matched(n, padded) = {} THEN {"spelling"} ELSE {})
                      \cup (IF StaysBehind(n) THEN {"orphans"} ELSE {})
                      \cup (IF Dependents(n) = {} THEN {} ELSE {"dependents"})
  BY <1>3
<1> DEFINE left == dirs \ found
           renamed == RenameDirs(left, n, order)
<1>5. (found = {} /\ DirsOf(n) = {}) \/ \E d \in dirs : d.num = n /\ found = {d}
  BY DEF DirsOf
<1>6. /\ dirs' = renamed.dirs /\ torn' \subseteq Reasons
      /\ torn' \cap Splitting = {} =>
           /\ torn \cap Splitting = {} /\ renamed.ok
           /\ Matched(n, padded) # {} /\ ~StaysBehind(n)
  BY <1>1, <1>4 DEF RegistryTypeOK, Reasons, Splitting, Blocking
<1>7. /\ left \in SUBSET DirType /\ IsFiniteSet(left) /\ PathsDiffer(left)
      /\ \A e \in left : e.files = "none" => e.plans = 0 /\ e.summaries = 0
  BY <1>1, FS_Difference DEF PathsDiffer, RegistryTypeOK
<1>8. /\ renamed \in States
      /\ IsFiniteSet(renamed.dirs) /\ PathsDiffer(renamed.dirs)
      /\ \A e \in renamed.dirs : e.files = "none" => e.plans = 0 /\ e.summaries = 0
      /\ SummariesIn(renamed.dirs) = SummariesIn(left)
      /\ \A e \in renamed.dirs : \E d \in left :
            e.name = d.name /\ (e.num = d.num \/ e.num = Shifted(d.num, n))
      /\ renamed.ok => \A e \in renamed.dirs : \E d \in left :
            e.name = d.name /\ e.num = Shifted(d.num, n)
  <2>1. order \in Orders(Later(left, n))
    OBVIOUS
  <2> HIDE DEF left
  <2>2. QED
    BY <1>2, <1>7, <2>1, RenamedAll
<1> HIDE DEF renamed
<1>9. dirs' \subseteq DirType
  BY <1>6, <1>8 DEF States
<1> DEFINE k == First(Matched(n, padded))
           L == IF Matched(n, padded) = {} THEN roadmap ELSE RemoveAt(roadmap, k)
<1>10. roadmap \in Seq(SectionType) /\ Sections = Range(roadmap)
  BY <1>1, SectionsListed DEF RegistryTypeOK
<1>11. Matched(n, padded) # {} => k \in DOMAIN roadmap /\ roadmap[k].num = n
  <2>1. Matched(n, padded) \subseteq Nat
    BY <1>10 DEF Matched, Places
  <2>2. Matched(n, padded) # {} => k \in Matched(n, padded)
    BY <2>1, FirstPlace
  <2>3. QED
    BY <2>2 DEF Matched, Places
<1> HIDE DEF k
<1>12. /\ L \in Seq(SectionType) /\ Range(L) \subseteq Range(roadmap)
       /\ Matched(n, padded) # {} /\ NumsDiffer(roadmap) =>
            /\ NumsDiffer(L) /\ \A x \in Range(L) : x.num # n
            /\ \A x \in Range(roadmap) : x.num # n => x \in Range(L)
  <2>1. CASE Matched(n, padded) = {}
    BY <1>10, <2>1
  <2>2. CASE Matched(n, padded) # {}
    <3>1. L = RemoveAt(roadmap, k) /\ k \in DOMAIN roadmap /\ roadmap[k].num = n
      BY <1>11, <2>2
    <3> HIDE DEF L
    <3>2. /\ RemoveAt(roadmap, k) \in Seq(SectionType)
          /\ Range(RemoveAt(roadmap, k)) \subseteq Range(roadmap)
          /\ \A i \in DOMAIN roadmap : i # k => roadmap[i] \in Range(RemoveAt(roadmap, k))
          /\ NumsDiffer(roadmap) =>
               /\ NumsDiffer(RemoveAt(roadmap, k))
               /\ \A x \in Range(RemoveAt(roadmap, k)) : x.num # roadmap[k].num
      BY <1>10, <3>1, Removed
    <3>3. \A x \in Range(roadmap) : x.num # n => x \in Range(L)
      BY <3>1, <3>2 DEF Range
    <3>4. QED
      BY <3>1, <3>2, <3>3
  <2>3. QED
    BY <2>1, <2>2
<1>13. roadmap' = IF n[2] > 0 THEN L ELSE [i \in DOMAIN L |-> Renumbered(L[i], n)]
  BY <1>3 DEF RemoveSection, k
<1> HIDE DEF L
<1>14. /\ roadmap' \in Seq(SectionType) /\ DOMAIN roadmap' = DOMAIN L
       /\ \A i \in DOMAIN L :
            /\ L[i] \in SectionType /\ roadmap'[i].name = L[i].name
            /\ IF n[2] > 0 THEN roadmap'[i].num = L[i].num
                           ELSE roadmap'[i].num = Shifted(L[i].num, n)
  <2>1. \A i \in DOMAIN L : L[i] \in SectionType
    BY <1>12
  <2>2. CASE n[2] > 0
    BY <1>12, <1>13, <2>1, <2>2
  <2>3. CASE ~(n[2] > 0)
    <3> DEFINE r == [i \in DOMAIN L |-> Renumbered(L[i], n)]
    <3>1. \A i \in DOMAIN L : /\ Renumbered(L[i], n) \in SectionType
                              /\ Renumbered(L[i], n).num = Shifted(L[i].num, n)
                              /\ Renumbered(L[i], n).name = L[i].name
      BY <1>2, <2>1, RenumberedSection
    <3>2. DOMAIN L = 1 .. Len(L) /\ Len(L) \in Nat
      BY <1>12
    <3>3. r \in [1 .. Len(L) -> SectionType]
      BY <3>1, <3>2
    <3>4. r \in Seq(SectionType)
      BY <3>2, <3>3
    <3>5. roadmap' = r
      BY <1>13, <2>3
    <3>6. QED
      BY <2>1, <2>3, <3>1, <3>4, <3>5
  <2>4. QED
    BY <2>2, <2>3
<1>15. RegistryTypeOK'
  BY <1>1, <1>3, <1>6, <1>9, <1>14 DEF RegistryTypeOK
<1>16. FilesInv'
  BY <1>1, <1>3, <1>6, <1>8 DEF FilesInv
<1>17. Sections' = {roadmap'[i] : i \in DOMAIN L}
  BY <1>14 DEF Sections
<1>18. Range(L) = {L[i] : i \in DOMAIN L}
  BY DEF Range
<1>19. NumbersInv'
  <2>1. ASSUME NEW m \in PhaseNums'
        PROVE  \E o \in PhaseNums : m = o \/ m = Shifted(o, n)
    <3>1. CASE \E i \in DOMAIN L : m = roadmap'[i].num
      <4>1. PICK i \in DOMAIN L : m = roadmap'[i].num
        BY <3>1
      <4>2. L[i].num \in PhaseNums
        BY <1>10, <1>12, <1>18 DEF PhaseNums, SectionNums
      <4>3. QED
        BY <1>14, <4>1, <4>2
    <3>2. CASE \E e \in dirs' : m = e.num
      <4>1. PICK e \in dirs' : m = e.num
        BY <3>2
      <4>2. PICK d \in left : e.num = d.num \/ e.num = Shifted(d.num, n)
        BY <1>6, <1>8, <4>1
      <4>3. d.num \in PhaseNums
        BY DEF PhaseNums
      <4>4. QED
        BY <4>1, <4>2, <4>3
    <3>3. QED
      BY <1>17, <2>1, <3>1, <3>2 DEF PhaseNums, SectionNums
  <2>2. \A m \in PhaseNums' :
           \E o \in PhaseNums : m \in Nums /\ m[1] <= o[1] /\ (InBacklog(o) => InBacklog(m))
    <3>1. \A o \in PhaseNums : o \in Nums /\ o[1] \in Nat
      BY <1>2 DEF Nums
    <3>2. QED
      BY <1>2, <2>1, <3>1, ShiftedNumber
  <2>3. QED
    BY <1>1, <1>2, <2>2, NumbersKept DEF CountOK
<1>20. ListedInv'
  <2>1. SUFFICES ASSUME torn' \cap Splitting = {}
                 PROVE  /\ NumsDiffer(roadmap')
                        /\ \A c, d \in dirs' : c.num = d.num => c = d
                        /\ \A d \in dirs' : \E x \in Sections' :
                              x.num = d.num /\ x.name = d.name
    BY DEF ListedInv, NumsDiffer
  <2>2. torn \cap Splitting = {} /\ renamed.ok /\ Matched(n, padded) # {} /\ ~StaysBehind(n)
    BY <1>6, <2>1
  <2>3. /\ NumsDiffer(roadmap)
        /\ \A c, d \in dirs : c.num = d.num => c = d
        /\ \A d \in dirs : \E x \in Range(roadmap) : x.num = d.num /\ x.name = d.name
    BY <1>1, <1>10, <2>2 DEF ListedInv, NumsDiffer
  <2>4. /\ NumsDiffer(L) /\ \A x \in Range(L) : x.num # n
        /\ \A x \in Range(roadmap) : x.num # n => x \in Range(L)
    BY <1>12, <2>2, <2>3
  <2>5. \A x \in Range(L) : /\ x.num \in Nums /\ x.num # n
                            /\ ~(x.num[1] = n[1] /\ x.num[2] > n[2])
    BY <1>10, <1>12, <2>2, <2>4, SectionsListed, <1>1 DEF StaysBehind, SectionNums
  <2>6. \A i \in DOMAIN L : roadmap'[i].num = Shifted(L[i].num, n)
    <3>1. SUFFICES ASSUME NEW i \in DOMAIN L, n[2] > 0 PROVE Shifted(L[i].num, n) = L[i].num
      BY <1>14
    <3>2. QED
      BY <1>18, <2>5, <3>1 DEF Shifted
  <2>7. NumsDiffer(roadmap')
    <3>1. SUFFICES ASSUME NEW i \in DOMAIN L, NEW j \in DOMAIN L,
                          Shifted(L[i].num, n) = Shifted(L[j].num, n)
                   PROVE  i = j
      BY <1>14, <2>6 DEF NumsDiffer
    <3>2. L[i] \in Range(L) /\ L[j] \in Range(L)
      BY <1>18
    <3>3. L[i].num = L[j].num
      BY <1>2, <2>5, <3>1, <3>2, ShiftedApart
    <3>4. QED
      BY <2>4, <3>3 DEF NumsDiffer
  <2>8. ASSUME NEW d \in left
        PROVE  \E i \in DOMAIN L : L[i].num = d.num /\ L[i].name = d.name
    <3>1. d.num # n
      <4>1. CASE DirsOf(n) = {}
        BY <4>1 DEF DirsOf
      <4>2. CASE DirsOf(n) # {}
        BY <1>5, <2>3, <4>2
      <4>3. QED
        BY <4>1, <4>2
    <3>2. PICK x \in Range(roadmap) : x.num = d.num /\ x.name = d.name
      BY <2>3
    <3>3. QED
      BY <1>18, <2>4, <3>1, <3>2
  <2>9. ASSUME NEW c \in dirs', NEW d \in dirs', c.num = d.num PROVE c = d
    <3>1. PICK c0 \in left : c.name = c0.name /\ c.num = Shifted(c0.num, n)
      BY <1>6, <1>8, <2>2
    <3>2. PICK d0 \in left : d.name = d0.name /\ d.num = Shifted(d0.num, n)
      BY <1>6, <1>8, <2>2
    <3>3. PICK x \in Range(L) : x.num = c0.num
      BY <1>18, <2>8
    <3>4. PICK y \in Range(L) : y.num = d0.num
      BY <1>18, <2>8
    <3>5. c0.num = d0.num
      BY <1>2, <2>5, <2>9, <3>1, <3>2, <3>3, <3>4, ShiftedApart
    <3>6. c0 = d0
      BY <2>3, <3>5
    <3>7. QED
      BY <1>6, <1>8, <2>9, <3>1, <3>2, <3>6 DEF PathsDiffer
  <2>10. ASSUME NEW d \in dirs' PROVE \E x \in Sections' : x.num = d.num /\ x.name = d.name
    <3>1. PICK c \in left : d.name = c.name /\ d.num = Shifted(c.num, n)
      BY <1>6, <1>8, <2>2
    <3>2. PICK i \in DOMAIN L : L[i].num = c.num /\ L[i].name = c.name
      BY <2>8
    <3>3. QED
      BY <1>14, <1>17, <2>6, <3>1, <3>2
  <2>11. QED
    BY <2>7, <2>9, <2>10
<1>21. ~force => WorkCount' = WorkCount
  <2>1. SUFFICES ASSUME ~force PROVE SummariesIn(left) = SummariesIn(dirs)
    BY <1>3, <1>6, <1>8 DEF WorkCount
  <2>2. \A d \in dirs : d.summaries \in Nat
    BY <1>1 DEF RegistryTypeOK, DirType
  <2>3. found \subseteq dirs /\ \A d \in found : d.summaries = 0
    BY <1>3, <1>5, <2>1, <2>2
  <2>4. dirs = left \cup found /\ left \cap found = {} /\ IsFiniteSet(found)
    BY <1>1, <2>3, FS_Subset
  <2>5. SummariesIn(dirs) = SummariesIn(left) + SummariesIn(found)
    BY <1>7, <2>2, <2>4, SummariesAddUp
  <2>6. SummariesIn(found) = 0 /\ SummariesIn(left) \in Nat
    BY <1>7, <2>2, <2>3, NoSummaries, SummariesCounted
  <2>7. QED
    BY <2>5, <2>6
<1>22. QED
  BY <1>1, <1>15, <1>16, <1>19, <1>20, <1>21 DEF RegistryInv

LEMMA TickedKeeps ==
  ASSUME RegistryInv, Command, NEW n, roadmap' = Ticked(n) \/ roadmap' = roadmap,
         UNCHANGED <<dirs, vault, torn>>
  PROVE  RegistryInv' /\ WorkCount' = WorkCount
<1>1. /\ RegistryTypeOK /\ NumbersInv /\ CountOK /\ ListedInv /\ FilesInv
      /\ count' = count + 1 /\ CountOK' /\ roadmap \in Seq(SectionType)
  BY ProjectAssumption DEF RegistryInv, CountOK, Command, RegistryTypeOK
<1>2. /\ roadmap' \in Seq(SectionType) /\ DOMAIN roadmap' = DOMAIN roadmap
      /\ \A i \in DOMAIN roadmap : /\ roadmap'[i].num = roadmap[i].num
                                   /\ roadmap'[i].name = roadmap[i].name
  <2> DEFINE open == {i \in Places(n) : roadmap[i].box = "open"}
             k == First(open)
  <2>1. SUFFICES ASSUME open # {}, roadmap' = [roadmap EXCEPT ![k].box = "checked"]
                 PROVE  /\ roadmap' \in Seq(SectionType) /\ DOMAIN roadmap' = DOMAIN roadmap
                        /\ \A i \in DOMAIN roadmap : /\ roadmap'[i].num = roadmap[i].num
                                                     /\ roadmap'[i].name = roadmap[i].name
    BY <1>1 DEF Ticked
  <2>2. open \subseteq Nat /\ open \subseteq DOMAIN roadmap
    BY <1>1 DEF Places
  <2>3. k \in open
    BY <2>1, <2>2, FirstPlace
  <2>4. k \in 1 .. Len(roadmap) /\ roadmap[k] \in SectionType
    BY <1>1, <2>2, <2>3
  <2> DEFINE s == [roadmap[k] EXCEPT !.box = "checked"]
  <2>5. s \in SectionType /\ s.num = roadmap[k].num /\ s.name = roadmap[k].name
    BY <2>4 DEF SectionType
  <2>6. roadmap' = [roadmap EXCEPT ![k] = s]
    BY <2>1
  <2> HIDE DEF s, k
  <2>7. QED
    BY <1>1, <2>4, <2>5, <2>6
<1>3. Sections' = {roadmap'[i] : i \in DOMAIN roadmap}
  BY <1>2 DEF Sections
<1>4. SectionNums' = SectionNums
  BY <1>2, <1>3 DEF SectionNums, Sections
<1>5. RegistryTypeOK' /\ FilesInv'
  BY <1>1, <1>2 DEF RegistryTypeOK, FilesInv
<1>6. NumbersInv'
  <2>1. PhaseNums' = PhaseNums /\ PhaseNums \subseteq Nums
    BY <1>1, <1>4, SectionsListed DEF PhaseNums
  <2>2. \A m \in PhaseNums' : m[1] <= m[1]
    BY <2>1 DEF Nums
  <2>3. QED
    BY <1>1, <2>1, <2>2, NumbersKept DEF CountOK
<1>7. ListedInv'
  <2>1. SUFFICES ASSUME torn \cap Splitting = {}
                 PROVE  /\ \A i, j \in DOMAIN roadmap' : roadmap'[i].num = roadmap'[j].num => i = j
                        /\ \A c, d \in dirs : c.num = d.num => c = d
                        /\ \A d \in dirs : \E x \in Sections' : x.num = d.num /\ x.name = d.name
    BY DEF ListedInv
  <2>2. \A x \in Sections : \E y \in Sections' : y.num = x.num /\ y.name = x.name
    BY <1>2, <1>3 DEF Sections
  <2>3. QED
    BY <1>1, <1>2, <2>1, <2>2 DEF ListedInv
<1>8. QED
  BY <1>1, <1>5, <1>6, <1>7 DEF RegistryInv, WorkCount

LEMMA DirsKeep ==
  ASSUME RegistryInv, Command, UNCHANGED <<roadmap, torn>>,
         dirs' \subseteq DirType, vault' \subseteq DirType,
         IsFiniteSet(dirs'), IsFiniteSet(vault'), PathsDiffer(dirs'),
         \A e \in dirs' \cup vault' : e.files = "none" => e.plans = 0 /\ e.summaries = 0,
         \A e \in dirs' : \/ \E d \in dirs : d.num = e.num /\ d.name = e.name
                         \/ \E s \in Sections : s.num = e.num /\ s.name = e.name
  PROVE  RegistryInv'
<1>1. /\ RegistryTypeOK /\ NumbersInv /\ CountOK /\ ListedInv
      /\ count' = count + 1 /\ CountOK' /\ Sections' = Sections
  BY ProjectAssumption DEF RegistryInv, CountOK, Command, Sections
<1>2. RegistryTypeOK' /\ FilesInv'
  BY <1>1 DEF RegistryTypeOK, FilesInv
<1>3. NumbersInv'
  <2>1. PhaseNums' \subseteq PhaseNums /\ PhaseNums \subseteq Nums
    BY <1>1, SectionsListed DEF PhaseNums, SectionNums
  <2>2. \A m \in PhaseNums' : m[1] <= m[1]
    BY <2>1 DEF Nums
  <2>3. QED
    BY <1>1, <2>1, <2>2, NumbersKept DEF CountOK
<1>4. ListedInv'
  <2>1. SUFFICES ASSUME torn \cap Splitting = {}
                 PROVE  /\ NumsDiffer(roadmap)
                        /\ \A c, d \in dirs' : c.num = d.num => c = d
                        /\ \A d \in dirs' : \E x \in Sections : x.num = d.num /\ x.name = d.name
    BY <1>1 DEF ListedInv, NumsDiffer
  <2>2. /\ NumsDiffer(roadmap)
        /\ \A d \in dirs : \E x \in Sections : x.num = d.num /\ x.name = d.name
    BY <1>1, <2>1 DEF ListedInv, NumsDiffer
  <2>3. \A d \in dirs' : \E x \in Sections : x.num = d.num /\ x.name = d.name
    BY <2>2
  <2>4. \A x, y \in Sections : x.num = y.num => x = y
    BY <2>2 DEF NumsDiffer, Sections
  <2>5. ASSUME NEW c \in dirs', NEW d \in dirs', c.num = d.num PROVE c = d
    <3>1. PICK x \in Sections : x.num = c.num /\ x.name = c.name
      BY <2>3
    <3>2. PICK y \in Sections : y.num = d.num /\ y.name = d.name
      BY <2>3
    <3>3. x = y
      BY <2>4, <2>5, <3>1, <3>2
    <3>4. QED
      BY <2>5, <3>1, <3>2, <3>3 DEF PathsDiffer
  <2>6. QED
    BY <2>2, <2>3, <2>5
<1>5. QED
  BY <1>1, <1>2, <1>3, <1>4 DEF RegistryInv

(* One directory is written to; it keeps its path and its summaries.       *)
LEMMA DirWritten ==
  ASSUME RegistryInv, Command, UNCHANGED <<roadmap, vault, torn>>,
         NEW d \in dirs, NEW e \in DirType, e.num = d.num, e.name = d.name,
         d.summaries <= e.summaries,
         e.files = "none" => e.plans = 0 /\ e.summaries = 0,
         dirs' = (dirs \ {d}) \cup {e}
  PROVE  RegistryInv' /\ WorkCount <= WorkCount'
<1>1. /\ dirs \subseteq DirType /\ vault \subseteq DirType
      /\ IsFiniteSet(dirs) /\ IsFiniteSet(vault) /\ PathsDiffer(dirs)
      /\ \A c \in dirs \cup vault : c.files = "none" => c.plans = 0 /\ c.summaries = 0
  BY DEF RegistryInv, FilesInv, RegistryTypeOK
<1>2. IsFiniteSet(dirs')
  BY <1>1, FS_Difference, FS_AddElement
<1>3. PathsDiffer(dirs')
  BY <1>1 DEF PathsDiffer
<1>4. e \notin dirs \ {d}
  BY <1>1 DEF PathsDiffer
<1>5. RegistryInv'
  BY <1>1, <1>2, <1>3, DirsKeep
<1>6. /\ SummariesIn(dirs') = SummariesIn(dirs) - d.summaries + e.summaries
      /\ \A c \in dirs \cup {e} \cup vault : c.summaries \in Nat
  <2>1. \A c \in dirs \cup {e} \cup vault : c.summaries \in Nat
    BY <1>1 DEF DirType
  <2>2. QED
    BY <1>1, <1>4, <2>1, OneReplaced
<1>7. SummariesIn(dirs) \in Nat /\ SummariesIn(vault) \in Nat
  BY <1>1, <1>6, SummariesCounted
<1>8. d.summaries \in Nat /\ e.summaries \in Nat
  BY <1>6
<1>9. QED
  BY <1>5, <1>6, <1>7, <1>8 DEF WorkCount

LEMMA AgentKeeps ==
  ASSUME RegistryInv, Command,
         \/ \E s \in Sections : Scaffold(s)
         \/ \E d \in dirs : WriteContext(d) \/ WritePlan(d) \/ WriteSummary(d)
  PROVE  RegistryInv' /\ WorkCount <= WorkCount'
<1>1. /\ RegistryTypeOK /\ dirs \subseteq DirType /\ vault \subseteq DirType
      /\ IsFiniteSet(dirs) /\ IsFiniteSet(vault) /\ PathsDiffer(dirs)
      /\ \A c \in dirs \cup vault : c.files = "none" => c.plans = 0 /\ c.summaries = 0
      /\ MaxPlans \in Nat
  BY RegistryAssumption DEF RegistryInv, FilesInv, RegistryTypeOK
<1>2. ASSUME NEW s \in Sections, Scaffold(s) PROVE RegistryInv' /\ WorkCount <= WorkCount'
  <2> DEFINE e == [Dir(s.num, s.name) EXCEPT !.files = "none"]
  <2>1. s \in SectionType
    BY <1>1, SectionsListed
  <2>2. e \in DirType /\ e.num = s.num /\ e.name = s.name /\ e.plans = 0 /\ e.summaries = 0
    BY <1>1, <2>1 DEF Dir, DirType, SectionType
  <2>3. dirs' = dirs \cup {e} /\ UNCHANGED <<roadmap, vault, torn>>
    BY <1>2 DEF Scaffold
  <2> HIDE DEF e
  <2>4. \A d \in dirs : ~(d.num = e.num /\ d.name = e.name)
    BY <1>2, <2>2 DEF Scaffold, DirsOf
  <2>5. /\ dirs' \subseteq DirType /\ IsFiniteSet(dirs') /\ PathsDiffer(dirs')
        /\ SummariesIn(dirs') = SummariesIn(dirs)
    BY <1>1, <2>2, <2>3, <2>4, DirAdded
  <2>6. RegistryInv'
    BY <1>1, <2>2, <2>3, <2>5, DirsKeep
  <2>7. \A c \in dirs \cup vault : c.summaries \in Nat
    BY <1>1 DEF DirType
  <2>8. SummariesIn(dirs) \in Nat /\ SummariesIn(vault) \in Nat
    BY <1>1, <2>7, SummariesCounted
  <2>9. QED
    BY <2>3, <2>5, <2>6, <2>8 DEF WorkCount
<1>3. ASSUME NEW d \in dirs, WriteContext(d) PROVE RegistryInv' /\ WorkCount <= WorkCount'
  <2> DEFINE e == [d EXCEPT !.files = "context"]
  <2>1. /\ e \in DirType /\ e.num = d.num /\ e.name = d.name /\ d.summaries <= e.summaries
        /\ e.files # "none"
    BY <1>1 DEF DirType
  <2>2. dirs' = (dirs \ {d}) \cup {e} /\ UNCHANGED <<roadmap, vault, torn>>
    BY <1>3 DEF WriteContext
  <2> HIDE DEF e
  <2>3. QED
    BY <2>1, <2>2, DirWritten
<1>4. ASSUME NEW d \in dirs, WritePlan(d) PROVE RegistryInv' /\ WorkCount <= WorkCount'
  <2> DEFINE e == [d EXCEPT !.plans = @ + 1,
                            !.files = IF @ = "none" THEN "gitkeep" ELSE @]
  <2>1. d \in DirType /\ d.plans < MaxPlans
    BY <1>1, <1>4 DEF WritePlan
  <2> DEFINE p == d.plans + 1
             f == IF d.files = "none" THEN "gitkeep" ELSE d.files
  <2>a. /\ p \in 0 .. MaxPlans /\ f \in {"none", "gitkeep", "context"} /\ f # "none"
        /\ e = [d EXCEPT !.plans = p, !.files = f]
    BY <1>1, <2>1 DEF DirType
  <2> HIDE DEF p, f, e
  <2>b. d = [num |-> d.num, name |-> d.name, plans |-> d.plans,
             summaries |-> d.summaries, files |-> d.files]
    BY <2>1 DEF DirType
  <2>c. e = [num |-> d.num, name |-> d.name, plans |-> p,
             summaries |-> d.summaries, files |-> f]
    BY <2>a, <2>b
  <2>d. d.num \in Nums /\ d.name \in Names /\ d.summaries \in 0 .. MaxPlans
    BY <2>1 DEF DirType
  <2>2. /\ e \in DirType /\ e.num = d.num /\ e.name = d.name /\ d.summaries <= e.summaries
        /\ e.files # "none"
    BY <1>1, <2>a, <2>c, <2>d DEF DirType
  <2>3. dirs' = (dirs \ {d}) \cup {e} /\ UNCHANGED <<roadmap, vault, torn>>
    BY <1>4 DEF WritePlan, e
  <2> HIDE DEF e
  <2>4. QED
    BY <2>2, <2>3, DirWritten
<1>5. ASSUME NEW d \in dirs, WriteSummary(d) PROVE RegistryInv' /\ WorkCount <= WorkCount'
  <2> DEFINE e == [d EXCEPT !.summaries = @ + 1]
  <2>1. d \in DirType /\ d.summaries < d.plans
    BY <1>1, <1>5 DEF WriteSummary
  <2>2. d.summaries \in Nat /\ d.plans \in 0 .. MaxPlans
    BY <2>1 DEF DirType
  <2>3. /\ e \in DirType /\ e.num = d.num /\ e.name = d.name /\ d.summaries <= e.summaries
        /\ e.files = d.files /\ d.files # "none"
    BY <1>1, <2>1, <2>2 DEF DirType
  <2>4. dirs' = (dirs \ {d}) \cup {e} /\ UNCHANGED <<roadmap, vault, torn>>
    BY <1>5 DEF WriteSummary
  <2> HIDE DEF e
  <2>5. QED
    BY <2>3, <2>4, DirWritten
<1>6. QED
  BY <1>2, <1>3, <1>4, <1>5

LEMMA PhasesClearKeeps ==
  ASSUME RegistryInv, Command, PhasesClear
  PROVE  RegistryInv'
<1>1. /\ dirs \subseteq DirType /\ vault \subseteq DirType
      /\ IsFiniteSet(dirs) /\ IsFiniteSet(vault) /\ PathsDiffer(dirs)
      /\ \A c \in dirs \cup vault : c.files = "none" => c.plans = 0 /\ c.summaries = 0
  BY DEF RegistryInv, FilesInv, RegistryTypeOK
<1>2. dirs' \in SUBSET dirs /\ UNCHANGED <<roadmap, vault, torn>>
  BY DEF PhasesClear
<1>3. IsFiniteSet(dirs') /\ PathsDiffer(dirs')
  BY <1>1, <1>2, FS_Subset DEF PathsDiffer
<1>4. QED
  BY <1>1, <1>2, <1>3, DirsKeep

LEMMA ArchiveKeeps ==
  ASSUME RegistryInv, Command, ArchivePhases
  PROVE  RegistryInv' /\ WorkCount' = WorkCount
<1>1. /\ dirs \subseteq DirType /\ vault \subseteq DirType
      /\ IsFiniteSet(dirs) /\ IsFiniteSet(vault) /\ PathsDiffer(dirs)
      /\ \A c \in dirs \cup vault : c.files = "none" => c.plans = 0 /\ c.summaries = 0
  BY DEF RegistryInv, FilesInv, RegistryTypeOK
<1> DEFINE taken == {d \in MilestoneDirs :
                     \E e \in vault : e.num = d.num /\ e.name = d.name /\ e.files # "none"}
           stays(M) == {e \in vault : \A d \in M : e.num # d.num \/ e.name # d.name}
<1>2. PICK moved \in SUBSET (MilestoneDirs \ taken) :
         /\ dirs' = dirs \ moved /\ vault' = stays(moved) \cup moved
         /\ UNCHANGED <<roadmap, torn>>
  BY DEF ArchivePhases
<1> DEFINE kept == stays(moved)
           lost == vault \ kept
<1>3. moved \subseteq dirs
  BY <1>2 DEF MilestoneDirs
<1>4. \A e \in lost : e.files = "none"
  BY <1>2
<1>5. kept \cap moved = {} /\ kept \subseteq vault /\ vault = kept \cup lost /\ kept \cap lost = {}
  OBVIOUS
<1>6. vault' = kept \cup moved /\ dirs' = dirs \ moved
  BY <1>2
<1> HIDE DEF kept, taken
<1>7. /\ IsFiniteSet(kept) /\ IsFiniteSet(lost) /\ IsFiniteSet(moved) /\ IsFiniteSet(dirs')
      /\ IsFiniteSet(vault')
  <2>1. IsFiniteSet(kept) /\ IsFiniteSet(moved)
    BY <1>1, <1>3, <1>5, FS_Subset
  <2>2. QED
    BY <1>1, <1>6, <2>1, FS_Difference, FS_Union
<1>8. PathsDiffer(dirs')
  BY <1>1, <1>6 DEF PathsDiffer
<1>9. RegistryInv'
  BY <1>1, <1>2, <1>3, <1>5, <1>6, <1>7, <1>8, DirsKeep
<1>10. \A c \in dirs \cup vault : c.summaries \in Nat
  BY <1>1 DEF DirType
<1>11. SummariesIn(vault) = SummariesIn(kept) + SummariesIn(lost)
  BY <1>5, <1>7, <1>10, SummariesAddUp
<1>12. SummariesIn(lost) = 0
  BY <1>1, <1>4, NoSummaries
<1>13. SummariesIn(vault') = SummariesIn(kept) + SummariesIn(moved)
  BY <1>3, <1>5, <1>6, <1>7, <1>10, SummariesAddUp
<1>14. SummariesIn(dirs) = SummariesIn(dirs') + SummariesIn(moved)
  <2>1. dirs = dirs' \cup moved /\ dirs' \cap moved = {}
    BY <1>3, <1>6
  <2>2. SummariesIn(dirs' \cup moved) = SummariesIn(dirs') + SummariesIn(moved)
    BY <1>7, <1>10, <2>1, SummariesAddUp
  <2>3. QED
    BY <2>1, <2>2
<1>15. /\ SummariesIn(kept) \in Nat /\ SummariesIn(moved) \in Nat /\ SummariesIn(dirs') \in Nat
  BY <1>3, <1>5, <1>6, <1>7, <1>10, SummariesCounted
<1>16. QED
  BY <1>9, <1>11, <1>12, <1>13, <1>14, <1>15 DEF WorkCount

(* ------------------------------- STATE.md ------------------------------ *)

FmType == [status : FmStatuses, phase : Nums, phases : Nat, done : Nat, percent : Nat]

LEMMA Rounded ==
  ASSUME NEW a \in Nat, NEW b \in Nat, b > 0
  PROVE  Round(a, b) \in Nat
<1> DEFINE c == 200 * a + b
           d == 2 * b
<1>1. c \in Nat /\ d \in Nat /\ d > 0
  OBVIOUS
<1>2. Round(a, b) = c \div d
  BY DEF Round
<1> HIDE DEF c, d
<1>3. c \div d \in Nat
  BY <1>1
<1>4. QED
  BY <1>2, <1>3

LEMMA PercentType ==
  ASSUME NEW a \in Nat, NEW b \in Nat, NEW c \in Nat, NEW d \in Nat
  PROVE  ComputeProgressPercent(a, b, c, d) \in Nat \cup {NoPercent}
<1> DEFINE plan == Round(a, b)
           phase == Round(c, d)
<1>1. b > 0 => plan \in Nat
  BY Rounded
<1>2. d > 0 => phase \in Nat
  BY Rounded
<1> HIDE DEF plan, phase
<1>3. ComputeProgressPercent(a, b, c, d) =
        CASE b = 0 /\ d = 0 -> NoPercent
          [] b = 0 /\ d > 0 -> AtMost(100, phase)
          [] b > 0 /\ d = 0 -> AtMost(100, plan)
          [] OTHER -> AtMost(100, AtMost(phase, plan))
  BY DEF ComputeProgressPercent, plan, phase
<1>4. CASE b = 0 /\ d = 0
  BY <1>3, <1>4
<1>5. CASE b = 0 /\ d > 0
  BY <1>2, <1>3, <1>5 DEF AtMost
<1>6. CASE b > 0 /\ d = 0
  BY <1>1, <1>3, <1>6 DEF AtMost
<1>7. CASE b > 0 /\ d > 0
  BY <1>1, <1>2, <1>3, <1>7 DEF AtMost
<1>8. QED
  BY <1>4, <1>5, <1>6, <1>7

LEMMA CountsOf ==
  ASSUME NEW K, IsFiniteSet(K), K \subseteq DirType
  PROVE  /\ SummariesIn(K) \in Nat /\ PlansIn(K) \in Nat
         /\ CompleteIn(K) \in Nat /\ Cardinality(K) \in Nat
<1>1. \A d \in K : d.plans \in Nat /\ d.summaries \in Nat
  BY DEF DirType
<1>2. {d \in K : Complete(d)} \in SUBSET K
  OBVIOUS
<1>3. CompleteIn(K) \in Nat /\ Cardinality(K) \in Nat
  BY <1>2, FS_Subset, FS_CardinalityType DEF CompleteIn
<1>4. QED
  BY <1>1, <1>3, PlansCounted, SummariesCounted

LEMMA NormalizedStatus ==
  ASSUME NEW status \in Statuses
  PROVE  NormalizeStatus(status) \in FmStatuses
BY DEF NormalizeStatus, Statuses, FmStatuses

LEMMA FrontmatterOf ==
  ASSUME NEW K, IsFiniteSet(K), K \subseteq DirType, NEW body \in BodyType, NEW total \in Nat,
         NEW percent, percent = ComputeProgressPercent(SummariesIn(K), PlansIn(K),
                                                       CompleteIn(K), total)
  PROVE  [status |-> NormalizeStatus(body.status),
          phase |-> IF body.compound THEN Unknown ELSE body.phase,
          phases |-> total, done |-> CompleteIn(K),
          percent |-> IF percent = NoPercent THEN body.progress ELSE percent] \in FmType
<1>1. CompleteIn(K) \in Nat /\ percent \in Nat \cup {NoPercent}
  BY CountsOf, PercentType
<1>2. body.status \in Statuses /\ body.phase \in Nums /\ body.progress \in Nat
  BY DEF BodyType
<1>3. Unknown \in Nums
  BY DEF Unknown, Nums
<1>4. NormalizeStatus(body.status) \in FmStatuses
  BY <1>2, NormalizedStatus
<1>5. QED
  BY <1>1, <1>2, <1>3, <1>4 DEF FmType

LEMMA FiniteNumbers ==
  ASSUME NEW r \in Seq(SectionType)
  PROVE  IsFiniteSet({s.num : s \in {r[i] : i \in DOMAIN r}})
<1>1. IsFiniteSet(DOMAIN r)
  <2>1. DOMAIN r = 1 .. Len(r) /\ Len(r) \in Int /\ 1 \in Int
    OBVIOUS
  <2>2. QED
    BY <2>1, FS_Interval
<1> DEFINE f == [i \in DOMAIN r |-> r[i].num]
<1>2. {s.num : s \in {r[i] : i \in DOMAIN r}} = {f[i] : i \in DOMAIN r}
  OBVIOUS
<1> HIDE DEF f
<1>3. IsFiniteSet({f[i] : i \in DOMAIN r})
  BY <1>1, FiniteImage
<1>4. QED
  BY <1>2, <1>3

LEMMA FrontmatterType ==
  ASSUME RegistryTypeOK, IsFiniteSet(dirs), NEW K \in SUBSET dirs, NEW body \in BodyType
  PROVE  Frontmatter(body, K) \in FmType
<1> DEFINE total == IF SectionNums = {} \/ Cardinality(K) > Cardinality(SectionNums)
                      THEN Cardinality(K) ELSE Cardinality(SectionNums)
           percent == ComputeProgressPercent(SummariesIn(K), PlansIn(K), CompleteIn(K), total)
<1>1. IsFiniteSet(K) /\ K \subseteq DirType
  BY FS_Subset DEF RegistryTypeOK
<1>2. total \in Nat
  BY <1>1, SectionsListed, CountsOf, FS_CardinalityType
<1>3. Frontmatter(body, K) =
        [status |-> NormalizeStatus(body.status),
          phase |-> IF body.compound THEN Unknown ELSE body.phase,
          phases |-> total, done |-> CompleteIn(K),
          percent |-> IF percent = NoPercent THEN body.progress ELSE percent]
  BY DEF Frontmatter
<1> HIDE DEF total, percent
<1>4. QED
  BY <1>1, <1>2, <1>3, FrontmatterOf DEF percent

LEMMA StateWritten ==
  ASSUME RegistryTypeOK', IsFiniteSet(dirs'), NEW body, body \in BodyType, WriteState(body)
  PROVE  doc' \in BodyType /\ fm' \in FmType
<1>1. PICK K \in Kept(MilestoneDirs') : fm' = Frontmatter(doc, K)' /\ doc' = body
  BY DEF WriteState
<1> DEFINE total == IF SectionNums' = {} \/ Cardinality(K) > Cardinality(SectionNums')
                      THEN Cardinality(K) ELSE Cardinality(SectionNums')
           percent == ComputeProgressPercent(SummariesIn(K), PlansIn(K), CompleteIn(K), total)
<1>2. K \in SUBSET dirs'
  BY <1>1 DEF Kept, MilestoneDirs
<1>3. IsFiniteSet(K) /\ K \subseteq DirType
  BY <1>2, FS_Subset DEF RegistryTypeOK
<1>4. IsFiniteSet(SectionNums')
  BY FiniteNumbers DEF SectionNums, Sections, RegistryTypeOK
<1>5. total \in Nat
  BY <1>3, <1>4, CountsOf, FS_CardinalityType
<1>6. fm' = [status |-> NormalizeStatus(doc'.status),
             phase |-> IF doc'.compound THEN Unknown ELSE doc'.phase,
             phases |-> total, done |-> CompleteIn(K),
             percent |-> IF percent = NoPercent THEN doc'.progress ELSE percent]
  BY <1>1 DEF Frontmatter
<1> HIDE DEF total, percent
<1>7. doc' \in BodyType
  BY <1>1
<1>8. QED
  BY <1>3, <1>5, <1>6, <1>7, FrontmatterOf DEF percent

LEMMA LeastPhase ==
  ASSUME NEW S \in SUBSET Nums, S # {}
  PROVE  \E m \in S : \A k \in S : ~Less(k, m)
<1> DEFINE I == {k[1] : k \in S}
<1>1. I \subseteq Nat /\ I # {}
  BY DEF Nums
<1>2. PICK i \in I : \A j \in I : i <= j
  BY <1>1, LeastNumber
<1> DEFINE D == {k[2] : k \in {k \in S : k[1] = i}}
<1>3. D \subseteq Nat /\ D # {}
  BY <1>2 DEF Nums
<1>4. PICK j \in D : \A l \in D : j <= l
  BY <1>3, LeastNumber
<1>5. PICK m \in S : m[1] = i /\ m[2] = j
  BY <1>4
<1>6. ASSUME NEW k \in S PROVE ~Less(k, m)
  <2>1. i <= k[1] /\ (k[1] = i => j <= k[2]) /\ k[1] \in Nat /\ k[2] \in Nat /\ i \in Nat /\ j \in Nat
    BY <1>1, <1>2, <1>3, <1>4 DEF Nums
  <2>2. QED
    BY <1>5, <2>1 DEF Less
<1>7. QED
  BY <1>6

LEMMA NextPhaseType ==
  ASSUME RegistryTypeOK, NEW n \in Nums
  PROVE  NextPhase(n).num \in Nums /\ NextPhase(n).padded \in BOOLEAN
<1>1. CASE LaterDirs(n) # {}
  <2> DEFINE S == {d.num : d \in LaterDirs(n)}
             m == CHOOSE m \in S : \A d \in LaterDirs(n) : ~Less(d.num, m)
  <2>1. S \in SUBSET Nums /\ S # {}
    BY <1>1 DEF LaterDirs, MilestoneDirs, RegistryTypeOK, DirType
  <2>2. PICK l \in S : \A k \in S : ~Less(k, l)
    BY <2>1, LeastPhase
  <2>3. \A d \in LaterDirs(n) : ~Less(d.num, l)
    BY <2>2
  <2>4. m \in S
    BY <2>3
  <2>5. NextPhase(n) = [num |-> m, padded |-> TRUE]
    BY <1>1 DEF NextPhase
  <2> HIDE DEF m, S
  <2>6. QED
    BY <2>1, <2>4, <2>5
<1>2. CASE LaterDirs(n) = {} /\ LaterPlaces(n) # {}
  <2>1. roadmap \in Seq(SectionType) /\ LaterPlaces(n) \subseteq Nat
    BY DEF LaterPlaces, RegistryTypeOK
  <2>2. First(LaterPlaces(n)) \in DOMAIN roadmap
    BY <1>2, <2>1, FirstPlace DEF LaterPlaces
  <2> DEFINE s == roadmap[First(LaterPlaces(n))]
  <2>3. s \in SectionType
    BY <2>1, <2>2
  <2>4. NextPhase(n) = [num |-> s.num, padded |-> s.padded]
    BY <1>2 DEF NextPhase
  <2>5. QED
    BY <2>3, <2>4 DEF SectionType
<1>3. CASE LaterDirs(n) = {} /\ LaterPlaces(n) = {}
  <2>1. NextPhase(n) = NoNext
    BY <1>3 DEF NextPhase
  <2>2. QED
    BY <2>1 DEF NoNext, Nums
<1>4. QED
  BY <1>1, <1>2, <1>3

(* -------------------- what the commands do to STATE.md ----------------- *)

DocInv == DocTypeOK /\ NothingForgotten

LEMMA DocWritten ==
  ASSUME DocInv, RegistryTypeOK', IsFiniteSet(dirs'), NEW body, body \in BodyType,
         WriteState(body), UNCHANGED listVars
  PROVE  DocInv'
<1>1. doc' \in BodyType /\ fm' \in FmType
  BY StateWritten
<1>2. QED
  BY <1>1 DEF DocInv, DocTypeOK, NothingForgotten, FmType, listVars

LEMMA DocFields ==
  ASSUME DocInv
  PROVE  /\ doc \in BodyType /\ doc.compound \in BOOLEAN /\ doc.phase \in Nums
         /\ doc.padded \in BOOLEAN /\ doc.plan \in Nat /\ doc.total \in Nat
         /\ doc.status \in Statuses /\ doc.of \in Nums /\ doc.completed \in Nat
         /\ doc.phases \in Nat /\ doc.progress \in Nat
BY DEF DocInv, DocTypeOK, BodyType

LEMMA FoundType ==
  ASSUME RegistryTypeOK, NEW n, NEW d \in FindPhase(n)
  PROVE  d.plans \in Nat
<1>1. d \in DirType
  BY DEF FindPhase, DirsOf, RegistryTypeOK
<1>2. QED
  BY <1>1 DEF DirType

LEMMA BeginPhaseWrites ==
  ASSUME DocInv, RegistryTypeOK, RegistryTypeOK', IsFiniteSet(dirs'),
         NEW n \in Nums, BeginPhase(n)
  PROVE  DocInv'
<1>1. PICK d \in FindPhase(n) :
         /\ WriteState(
             IF AlreadyExecuting(n) THEN [doc EXCEPT !.of = n]
             ELSE [doc EXCEPT !.status = "Executing Phase", !.of = n,
                              !.phase = n, !.padded = TRUE,
                              !.phases = IF doc.compound THEN 0 ELSE @,
                              !.plan = 1,
                              !.total = IF d.plans > 0 \/ doc.compound
                                          THEN d.plans ELSE @])
         /\ UNCHANGED listVars
  BY DEF BeginPhase
<1>2. d.plans \in Nat
  BY FoundType
<1> DEFINE phases == IF doc.compound THEN 0 ELSE doc.phases
           total == IF d.plans > 0 \/ doc.compound THEN d.plans ELSE doc.total
           same == [doc EXCEPT !.of = n]
           begun == [doc EXCEPT !.status = "Executing Phase", !.of = n,
                                !.phase = n, !.padded = TRUE, !.phases = phases,
                                !.plan = 1, !.total = total]
<1>3. phases \in Nat /\ total \in Nat
  BY <1>2, DocFields
<1>4. same \in BodyType
  BY DocFields DEF BodyType
<1>5. "Executing Phase" \in Statuses
  BY DEF Statuses
<1>6. WriteState(IF AlreadyExecuting(n) THEN same ELSE begun)
  BY <1>1
<1> HIDE DEF phases, total
<1>7. begun \in BodyType
  BY <1>3, <1>5, DocFields DEF BodyType
<1> HIDE DEF same, begun
<1>8. QED
  BY <1>1, <1>4, <1>6, <1>7, DocWritten

LEMMA AdvancePlanWrites ==
  ASSUME DocInv, RegistryTypeOK', IsFiniteSet(dirs'), AdvancePlan
  PROVE  DocInv'
<1> DEFINE body ==
         CASE doc.plan = NotStarted \/ doc.total = 0 -> doc
           [] doc.plan # NotStarted /\ doc.total > 0 /\ doc.plan >= doc.total ->
                [doc EXCEPT !.status = "Phase complete - ready for verification"]
           [] OTHER ->
                [doc EXCEPT !.plan = @ + 1, !.status = "Ready to execute"]
<1>1. WriteState(body) /\ UNCHANGED listVars
  BY DEF AdvancePlan
<1>2. /\ "Phase complete - ready for verification" \in Statuses
      /\ "Ready to execute" \in Statuses
  BY DEF Statuses
<1>3. [doc EXCEPT !.status = "Phase complete - ready for verification"] \in BodyType
  BY <1>2, DocFields DEF BodyType
<1>4. [doc EXCEPT !.plan = @ + 1, !.status = "Ready to execute"] \in BodyType
  <2> DEFINE plan == doc.plan + 1
  <2>1. plan \in Nat
    BY DocFields
  <2> HIDE DEF plan
  <2>2. [doc EXCEPT !.plan = plan, !.status = "Ready to execute"] \in BodyType
    BY <1>2, <2>1, DocFields DEF BodyType
  <2>3. QED
    BY <2>2 DEF plan
<1>5. body \in BodyType
  <2>1. CASE doc.plan = NotStarted \/ doc.total = 0
    <3>1. ~(doc.plan # NotStarted /\ doc.total > 0 /\ doc.plan >= doc.total)
      BY <2>1, DocFields
    <3>2. body = doc
      BY <2>1, <3>1
    <3>3. QED
      BY <3>2, DocFields
  <2>2. CASE doc.plan # NotStarted /\ doc.total > 0 /\ doc.plan >= doc.total
    <3>1. ~(doc.plan = NotStarted \/ doc.total = 0)
      BY <2>2, DocFields
    <3>2. body = [doc EXCEPT !.status = "Phase complete - ready for verification"]
      BY <2>2, <3>1
    <3>3. QED
      BY <1>3, <3>2
  <2>3. CASE /\ ~(doc.plan = NotStarted \/ doc.total = 0)
             /\ ~(doc.plan # NotStarted /\ doc.total > 0 /\ doc.plan >= doc.total)
    BY <1>4, <2>3
  <2>4. QED
    BY <2>1, <2>2, <2>3
<1> HIDE DEF body
<1>6. QED
  BY <1>1, <1>5, DocWritten

LEMMA PlannedPhaseWrites ==
  ASSUME DocInv, RegistryTypeOK, RegistryTypeOK', IsFiniteSet(dirs'), NEW n, PlannedPhase(n)
  PROVE  DocInv'
<1>1. PICK d \in FindPhase(n) :
        /\ WriteState([doc EXCEPT !.status = "Ready to execute",
                                  !.total = IF doc.compound THEN @ ELSE d.plans])
        /\ UNCHANGED listVars
  BY DEF PlannedPhase
<1> DEFINE total == IF doc.compound THEN doc.total ELSE d.plans
           body == [doc EXCEPT !.status = "Ready to execute", !.total = total]
<1>2. total \in Nat /\ "Ready to execute" \in Statuses
  BY FoundType, DocFields DEF Statuses
<1>3. WriteState(body)
  BY <1>1
<1> HIDE DEF total
<1>4. body \in BodyType
  BY <1>2, DocFields DEF BodyType
<1> HIDE DEF body
<1>5. QED
  BY <1>1, <1>3, <1>4, DocWritten

LEMMA CompletePhaseWrites ==
  ASSUME DocInv, RegistryTypeOK', IsFiniteSet(dirs'), NEW n \in Nums, CompletePhase(n)
  PROVE  DocInv'
<1> DEFINE phase == IF doc.compound THEN n ELSE doc.phase
           phases == IF doc.compound THEN 0 ELSE doc.phases
           body == [doc EXCEPT !.status = "Phase complete", !.of = n,
                               !.phase = phase, !.phases = phases]
<1>1. WriteState(body) /\ UNCHANGED listVars
  BY DEF CompletePhase
<1>2. phase \in Nums /\ phases \in Nat /\ "Phase complete" \in Statuses
  BY DocFields DEF Statuses
<1> HIDE DEF phase, phases
<1>3. body \in BodyType
  BY <1>2, DocFields DEF BodyType
<1> HIDE DEF body
<1>4. QED
  BY <1>1, <1>3, DocWritten

LEMMA SyncWrites ==
  ASSUME DocInv, RegistryTypeOK, IsFiniteSet(dirs), RegistryTypeOK', IsFiniteSet(dirs'), Sync
  PROVE  DocInv'
<1> DEFINE all == IF Cardinality(dirs) > Cardinality(SectionNums)
                    THEN Cardinality(dirs) ELSE Cardinality(SectionNums)
           percent == ComputeProgressPercent(SummariesIn(dirs), PlansIn(dirs),
                                             CompleteIn(dirs), all)
           progress == IF percent = NoPercent THEN 0 ELSE percent
           synced == [doc EXCEPT !.progress = progress]
           totaled(d) == [synced EXCEPT !.total = d.plans]
<1>1. /\ WriteState(synced) \/ \E d \in SyncPhase : WriteState(totaled(d))
      /\ UNCHANGED listVars
  BY DEF Sync
<1>2. dirs \subseteq DirType
  BY DEF RegistryTypeOK
<1>3. all \in Nat
  BY <1>2, CountsOf, SectionsListed, FS_CardinalityType
<1> HIDE DEF all
<1>4. progress \in Nat
  BY <1>2, <1>3, CountsOf, PercentType
<1> HIDE DEF progress
<1>5. synced \in BodyType
  BY <1>4, DocFields DEF BodyType
<1>6. ASSUME NEW d \in SyncPhase PROVE totaled(d) \in BodyType
  <2>1. d.plans \in Nat
    BY <1>2 DEF SyncPhase, DirType
  <2> HIDE DEF synced
  <2>2. QED
    BY <1>5, <2>1 DEF BodyType
<1> HIDE DEF synced, totaled
<1>7. QED
  BY <1>1, <1>5, <1>6, DocWritten

LEMMA UpdateProgressWrites ==
  ASSUME DocInv, RegistryTypeOK, IsFiniteSet(dirs), RegistryTypeOK', IsFiniteSet(dirs'),
         UpdateProgress
  PROVE  DocInv'
<1> DEFINE plans == PlansIn(MilestoneDirs)
           summaries == SummariesIn(MilestoneDirs)
           progress == IF plans = 0 THEN 0 ELSE AtMost(100, Round(summaries, plans))
           body == [doc EXCEPT !.progress = progress]
<1>1. WriteState(body) /\ UNCHANGED listVars
  BY DEF UpdateProgress
<1>2. MilestoneDirs \in SUBSET dirs /\ MilestoneDirs \subseteq DirType
  BY DEF MilestoneDirs, RegistryTypeOK
<1>3. plans \in Nat /\ summaries \in Nat
  BY <1>2, CountsOf, FS_Subset
<1> HIDE DEF plans, summaries
<1>4. progress \in Nat
  <2>1. plans > 0 => Round(summaries, plans) \in Nat
    BY <1>3, Rounded
  <2>2. QED
    BY <1>3, <2>1 DEF AtMost
<1> HIDE DEF progress
<1>5. body \in BodyType
  BY <1>4, DocFields DEF BodyType
<1> HIDE DEF body
<1>6. QED
  BY <1>1, <1>5, DocWritten

LEMMA MilestoneSwitchWrites ==
  ASSUME DocInv, MilestoneSwitch
  PROVE  DocInv'
<1> DEFINE body == [doc EXCEPT !.phase = Unknown, !.plan = NotStarted,
                               !.total = 0, !.phases = 0,
                               !.status = "Defining requirements"]
<1>1. /\ doc' = (IF doc.compound THEN body ELSE doc)
      /\ fm' = [status |-> "planning", phase |-> Unknown, phases |-> 0,
                done |-> 0, percent |-> 0]
      /\ UNCHANGED listVars
  BY DEF MilestoneSwitch
<1>2. Unknown \in Nums /\ NotStarted \in Nat /\ "Defining requirements" \in Statuses
  BY DEF Unknown, Nums, NotStarted, Statuses
<1>3. body \in BodyType
  BY <1>2, DocFields DEF BodyType
<1> HIDE DEF body
<1>4. doc' \in BodyType
  BY <1>1, <1>3, DocFields
<1>5. fm' \in FmType
  BY <1>1, <1>2 DEF FmType, FmStatuses
<1>6. QED
  BY <1>1, <1>4, <1>5 DEF DocInv, DocTypeOK, NothingForgotten, FmType, listVars

LEMMA UpdateStatusWrites ==
  ASSUME DocInv, RegistryTypeOK, IsFiniteSet(dirs), NEW status \in Statuses,
         UpdateStatus(status)
  PROVE  DocInv'
<1> DEFINE body == [doc EXCEPT !.status = status]
<1>1. PICK K \in Kept(MilestoneDirs) :
        fm' = [Frontmatter(body, K) EXCEPT !.phases = fm.phases, !.done = fm.done,
                                           !.percent = fm.percent]
  BY DEF UpdateStatus
<1>2. doc' = body /\ UNCHANGED listVars
  BY DEF UpdateStatus
<1>3. body \in BodyType
  BY DocFields DEF BodyType
<1>4. K \in SUBSET dirs
  BY <1>1 DEF Kept, MilestoneDirs
<1> HIDE DEF body
<1>5. Frontmatter(body, K) \in FmType
  BY <1>3, <1>4, FrontmatterType
<1>6. fm.phases \in Nat /\ fm.done \in Nat /\ fm.percent \in Nat
  BY DEF DocInv, DocTypeOK
<1>7. fm' \in FmType
  BY <1>1, <1>5, <1>6 DEF FmType
<1>8. QED
  BY <1>2, <1>3, <1>7 DEF DocInv, DocTypeOK, NothingForgotten, FmType, listVars

LEMMA AddDecisionWrites ==
  ASSUME DocInv, RegistryTypeOK', IsFiniteSet(dirs'), NEW int \in Nat, AddDecision(int)
  PROVE  DocInv'
<1>1. /\ notes' = notes \cup {int} /\ said' = said \cup {int}
      /\ WriteState(doc) /\ attic' = attic /\ cut' = cut
  BY DEF AddDecision
<1>2. doc' \in BodyType /\ fm' \in FmType
  BY <1>1, DocFields, StateWritten
<1>3. QED
  BY <1>1, <1>2 DEF DocInv, DocTypeOK, NothingForgotten, FmType

LEMMA PruneWrites ==
  ASSUME DocInv, RegistryTypeOK', IsFiniteSet(dirs'), NEW keep, NEW whole \in BOOLEAN,
         Prune(keep, whole)
  PROVE  DocInv'
<1>1. /\ notes' = notes \ Old(doc, keep) /\ said' = said
      /\ attic' = (IF whole THEN attic \cup Old(doc, keep) ELSE attic)
      /\ cut' = (IF whole THEN cut ELSE cut \cup Old(doc, keep))
      /\ WriteState(doc)
  BY DEF Prune
<1>2. doc' \in BodyType /\ fm' \in FmType
  BY <1>1, DocFields, StateWritten
<1>3. Old(doc, keep) \subseteq notes
  BY DEF Old
<1>4. QED
  BY <1>1, <1>2, <1>3 DEF DocInv, DocTypeOK, NothingForgotten, FmType

LEMMA PhaseLessWrites ==
  ASSUME DocInv, RegistryTypeOK', IsFiniteSet(dirs'), WriteState(OnePhaseLess),
         UNCHANGED listVars
  PROVE  DocInv'
<1> DEFINE phases == IF doc.phases = 0 THEN 0 ELSE doc.phases - 1
<1>1. OnePhaseLess = [doc EXCEPT !.phases = phases]
  BY DEF OnePhaseLess
<1>2. phases \in Nat
  BY DocFields
<1> HIDE DEF phases
<1>3. OnePhaseLess \in BodyType
  BY <1>1, <1>2, DocFields DEF BodyType
<1>4. QED
  BY <1>3, DocWritten

LEMMA TransitionType ==
  ASSUME DocInv, RegistryTypeOK, NEW n \in Nums
  PROVE  Transition(n, NextPhase(n)) \in BodyType
<1> DEFINE next == NextPhase(n)
           counted == ~doc.compound /\ doc.completed >= 0
           phase == IF next = NoNext THEN n ELSE next.num
           padded == IF next = NoNext THEN TRUE ELSE next.padded
           status == IF next = NoNext THEN "Milestone complete" ELSE "Ready to plan"
           total == IF doc.compound THEN 0 ELSE doc.total
           completed == IF counted THEN doc.completed + 1 ELSE doc.completed
           moved == [doc EXCEPT !.phase = phase, !.padded = padded, !.status = status,
                                !.of = Unknown, !.plan = NotStarted, !.total = total,
                                !.completed = completed]
           progress == Round(moved.completed, doc.phases)
<1>1. Transition(n, next) = IF counted /\ doc.phases > 0
                              THEN [moved EXCEPT !.progress = progress] ELSE moved
  BY DEF Transition
<1>2. /\ phase \in Nums /\ padded \in BOOLEAN /\ status \in Statuses
      /\ Unknown \in Nums /\ NotStarted \in Nat /\ total \in Nat /\ completed \in Nat
  <2>1. next.num \in Nums /\ next.padded \in BOOLEAN
    BY NextPhaseType
  <2> HIDE DEF next
  <2>2. phase \in Nums /\ padded \in BOOLEAN
    BY <2>1
  <2>3. status \in Statuses
    BY DEF Statuses
  <2>4. Unknown \in Nums /\ NotStarted \in Nat
    BY DEF Unknown, Nums, NotStarted
  <2>5. total \in Nat /\ completed \in Nat
    BY DocFields
  <2>6. QED
    BY <2>2, <2>3, <2>4, <2>5
<1> HIDE DEF phase, padded, status, total, completed
<1>3. moved \in BodyType
  BY <1>2, DocFields DEF BodyType
<1> HIDE DEF moved
<1>4. doc.phases > 0 => progress \in Nat
  <2>1. moved.completed \in Nat
    BY <1>3 DEF BodyType
  <2>2. QED
    BY <2>1, DocFields, Rounded
<1> HIDE DEF progress
<1>5. doc.phases > 0 => [moved EXCEPT !.progress = progress] \in BodyType
  BY <1>3, <1>4 DEF BodyType
<1>6. QED
  BY <1>1, <1>3, <1>5

LEMMA CloseMilestoneWrites ==
  ASSUME DocInv, RegistryTypeOK, IsFiniteSet(dirs), CloseMilestone
  PROVE  DocInv'
<1> DEFINE phase == IF doc.compound THEN Unknown ELSE doc.phase
           plan == IF doc.compound THEN NotStarted ELSE doc.plan
           total == IF doc.compound THEN 0 ELSE doc.total
           phases == IF doc.compound THEN 0 ELSE doc.phases
           closed == [doc EXCEPT !.status = "v1.0 milestone complete", !.of = Unknown,
                                 !.phase = phase, !.plan = plan, !.total = total,
                                 !.phases = phases]
<1>1. /\ doc' = closed /\ UNCHANGED listVars
      /\ \E K \in Kept(MilestoneDirs) : fm' = Frontmatter(closed, K)
  BY DEF CloseMilestone
<1>2. /\ phase \in Nums /\ plan \in Nat /\ total \in Nat /\ phases \in Nat
      /\ Unknown \in Nums /\ "v1.0 milestone complete" \in Statuses
  BY DocFields DEF Unknown, Nums, NotStarted, Statuses
<1> HIDE DEF phase, plan, total, phases
<1>3. closed \in BodyType
  BY <1>2, DocFields DEF BodyType
<1> HIDE DEF closed
<1>4. \A K \in Kept(MilestoneDirs) : K \in SUBSET dirs
  BY DEF Kept, MilestoneDirs
<1>5. fm' \in FmType
  BY <1>1, <1>3, <1>4, FrontmatterType
<1>6. QED
  BY <1>1, <1>3, <1>5 DEF DocInv, DocTypeOK, NothingForgotten, FmType, listVars

(* phase complete: what a prune takes out of STATE.md goes to the archive. *)
LEMMA CompletionWrites ==
  ASSUME DocInv, RegistryTypeOK, RegistryTypeOK', IsFiniteSet(dirs'), NEW n \in Nums,
         NEW old \in SUBSET notes, WriteState(Transition(n, NextPhase(n))),
         notes' = notes \ old, attic' = attic \cup old, said' = said, cut' = cut
  PROVE  DocInv'
<1>1. Transition(n, NextPhase(n)) \in BodyType
  BY TransitionType
<1>2. doc' \in BodyType /\ fm' \in FmType
  BY <1>1, StateWritten
<1>3. QED
  BY <1>2 DEF DocInv, DocTypeOK, NothingForgotten, FmType

(* ------------------------------ every step ----------------------------- *)

LEMMA InitInv == Init => ProjectInv
<1> SUFFICES ASSUME Init PROVE ProjectInv
  OBVIOUS
<1>1. PICK p \in Projects :
        /\ roadmap = p.roadmap /\ dirs = p.dirs /\ doc = p.doc
        /\ notes = p.notes /\ said = p.notes /\ count = p.spent
  BY DEF Init
<1>2. /\ vault = {} /\ torn = {} /\ attic = {} /\ cut = {}
      /\ \E K \in Kept(MilestoneDirs) : fm = Frontmatter(doc, K)
  BY DEF Init
<1>3. /\ roadmap \in Seq(SectionType) /\ dirs \subseteq DirType
      /\ doc \in BodyType /\ notes \subseteq Nat /\ count \in 0 .. MaxCommands
      /\ IsFiniteSet(dirs)
      /\ \A i, j \in DOMAIN roadmap : roadmap[i].num = roadmap[j].num => i = j
      /\ \A i \in DOMAIN roadmap :
            ~InBacklog(roadmap[i].num) => roadmap[i].num[1] + 2 * MaxCommands < Backlog
      /\ \A d, e \in dirs : d.num = e.num => d = e
      /\ \A d \in dirs :
            /\ \E i \in DOMAIN roadmap : roadmap[i].num = d.num /\ roadmap[i].name = d.name
            /\ d.files = "none" => d.plans = 0 /\ d.summaries = 0
  BY <1>1, ProjectsAssumption
<1>4. RegistryTypeOK /\ CountOK
  BY <1>2, <1>3 DEF RegistryTypeOK, CountOK
<1>5. FilesInv
  BY <1>2, <1>3, FS_EmptySet DEF FilesInv, PathsDiffer
<1>6. NumbersInv
  <2>1. SUFFICES ASSUME NEW m \in PhaseNums, ~InBacklog(m)
                 PROVE  m[1] + 2 * (MaxCommands - count) < Backlog
    BY DEF NumbersInv
  <2>2. PICK i \in DOMAIN roadmap : roadmap[i].num = m
    BY <1>3 DEF PhaseNums, SectionNums, Sections
  <2>3. m[1] + 2 * MaxCommands < Backlog
    BY <1>3, <2>1, <2>2
  <2>4. m[1] \in Nat
    BY <1>4, SectionsListed DEF Nums
  <2>5. QED
    BY <1>3, <2>3, <2>4, ProjectAssumption DEF Backlog
<1>7. ListedInv
  BY <1>3 DEF ListedInv, Sections
<1>8. PICK K \in Kept(MilestoneDirs) : fm = Frontmatter(doc, K)
  BY <1>2
<1>9. K \in SUBSET dirs
  BY <1>8 DEF Kept, MilestoneDirs
<1>10. fm \in FmType
  BY <1>3, <1>4, <1>8, <1>9, FrontmatterType
<1>11. DocTypeOK /\ NothingForgotten
  BY <1>1, <1>2, <1>3, <1>10 DEF DocTypeOK, NothingForgotten, FmType
<1>12. QED
  BY <1>4, <1>5, <1>6, <1>7, <1>11 DEF ProjectInv, RegistryInv

(* What every command keeps: the invariant, and the executed work.         *)
Halves == ProjectInv' /\ NoWorkLost

LEMMA Joined ==
  ASSUME ProjectInv, RegistryInv', DocInv', WorkCount <= WorkCount'
  PROVE  Halves
<1>1. /\ IsFiniteSet(dirs) /\ IsFiniteSet(vault) /\ IsFiniteSet(dirs') /\ IsFiniteSet(vault')
      /\ \A d \in dirs \cup vault \cup dirs' \cup vault' : d.summaries \in Nat
  BY DEF ProjectInv, RegistryInv, FilesInv, RegistryTypeOK, DirType
<1>2. /\ SummariesIn(dirs) \in Nat /\ SummariesIn(vault) \in Nat
      /\ SummariesIn(dirs') \in Nat /\ SummariesIn(vault') \in Nat
  BY <1>1, SummariesCounted
<1>3. SummariesIn(dirs) + SummariesIn(vault) <= SummariesIn(dirs') + SummariesIn(vault')
  BY DEF WorkCount
<1>4. NoWorkLost
  BY <1>2, <1>3 DEF NoWorkLost
<1>5. QED
  BY <1>4 DEF Halves, ProjectInv, DocInv

LEMMA WorkCountType ==
  ASSUME RegistryInv
  PROVE  WorkCount \in Nat
<1>1. /\ IsFiniteSet(dirs) /\ IsFiniteSet(vault)
      /\ \A d \in dirs \cup vault : d.summaries \in Nat
  BY DEF RegistryInv, FilesInv, RegistryTypeOK, DirType
<1>2. SummariesIn(dirs) \in Nat /\ SummariesIn(vault) \in Nat
  BY <1>1, SummariesCounted
<1>3. QED
  BY <1>2 DEF WorkCount

LEMMA StateKept ==
  ASSUME DocInv, UNCHANGED docVars
  PROVE  DocInv'
BY DEF DocInv, DocTypeOK, NothingForgotten, docVars

LEMMA StateCommandKeeps ==
  ASSUME ProjectInv, StateCommand
  PROVE  Halves
<1>1. /\ Command /\ UNCHANGED registryVars /\ RegistryInv /\ DocInv
  BY DEF StateCommand, ProjectInv, DocInv
<1>2. roadmap' = roadmap /\ dirs' = dirs /\ vault' = vault /\ torn' = torn
  BY <1>1 DEF registryVars
<1>3. RegistryInv' /\ WorkCount' = WorkCount
  BY <1>1, <1>2, TickedKeeps
<1>4. /\ RegistryTypeOK /\ RegistryTypeOK' /\ IsFiniteSet(dirs) /\ IsFiniteSet(dirs')
      /\ PhaseNums \subseteq Nums
  BY <1>1, <1>3, SectionsListed DEF RegistryInv, FilesInv
<1>5. DocInv'
  <2>1. CASE \E n \in PhaseNums : BeginPhase(n) \/ PlannedPhase(n) \/ CompletePhase(n)
    BY <1>1, <1>4, <2>1, BeginPhaseWrites, PlannedPhaseWrites, CompletePhaseWrites
  <2>2. CASE AdvancePlan
    BY <1>1, <1>4, <2>2, AdvancePlanWrites
  <2>3. CASE Sync
    BY <1>1, <1>4, <2>3, SyncWrites
  <2>4. CASE UpdateProgress
    BY <1>1, <1>4, <2>4, UpdateProgressWrites
  <2>5. CASE MilestoneSwitch
    BY <1>1, <2>5, MilestoneSwitchWrites
  <2>6. CASE UpdateStatus("Paused")
    <3>1. "Paused" \in Statuses
      BY DEF Statuses
    <3>2. QED
      BY <1>1, <1>4, <2>6, <3>1, UpdateStatusWrites
  <2>7. CASE AddDecision(doc.phase[1])
    <3>1. doc.phase[1] \in Nat
      BY <1>1, DocFields DEF Nums
    <3>2. QED
      BY <1>1, <1>4, <2>7, <3>1, AddDecisionWrites
  <2>8. CASE \E whole \in BOOLEAN : Prune(KeepRecent, whole)
    BY <1>1, <1>4, <2>8, PruneWrites
  <2>9. QED
    BY <2>1, <2>2, <2>3, <2>4, <2>5, <2>6, <2>7, <2>8 DEF StateCommand
<1>6. QED
  BY <1>1, <1>3, <1>5, Joined, WorkCountType

LEMMA PhaseCompleteKeeps ==
  ASSUME ProjectInv, PhaseComplete
  PROVE  Halves
<1>1. PICK n \in PhaseNums, whole \in BOOLEAN : CompletePhaseN(n, whole)
  BY DEF PhaseComplete
<1> DEFINE moved == Transition(n, NextPhase(n))
           old == IF AutoPrune THEN Old(moved, KeepRecent) ELSE {}
<1>2. /\ Command /\ TickPhase(n)
      /\ IF whole
           THEN /\ WriteState(moved) /\ notes' = notes \ old /\ attic' = attic \cup old
                /\ UNCHANGED <<said, cut>>
           ELSE UNCHANGED docVars
  BY <1>1 DEF CompletePhaseN
<1>3. RegistryInv /\ DocInv
  BY DEF ProjectInv, DocInv
<1>4. RegistryInv' /\ WorkCount' = WorkCount
  BY <1>2, <1>3, TickedKeeps DEF TickPhase
<1>5. /\ RegistryTypeOK /\ RegistryTypeOK' /\ IsFiniteSet(dirs')
      /\ PhaseNums \subseteq Nums
  BY <1>3, <1>4, SectionsListed DEF RegistryInv, FilesInv
<1>6. old \in SUBSET notes
  BY DEF Old
<1> HIDE DEF old
<1>7. CASE whole
  <2>1. /\ WriteState(moved) /\ notes' = notes \ old /\ attic' = attic \cup old
        /\ said' = said /\ cut' = cut
    BY <1>2, <1>7
  <2>2. n \in Nums
    BY <1>5
  <2>3. DocInv'
    BY <1>3, <1>5, <1>6, <2>1, <2>2, CompletionWrites
  <2>4. QED
    BY <1>3, <1>4, <2>3, Joined, WorkCountType
<1>8. CASE ~whole
  <2>1. DocInv'
    BY <1>2, <1>3, <1>8, StateKept
  <2>2. QED
    BY <1>3, <1>4, <2>1, Joined, WorkCountType
<1>9. QED
  BY <1>7, <1>8

LEMMA RemovePhaseKeeps ==
  ASSUME ProjectInv, NEW force \in BOOLEAN, RemovePhase(force)
  PROVE  Halves
<1>1. /\ Command /\ WriteState(OnePhaseLess) /\ UNCHANGED listVars
      /\ RegistryInv /\ DocInv
  BY DEF RemovePhase, ProjectInv, DocInv
<1>2. PICK n \in PhaseNums, padded \in BOOLEAN : PhaseRemove(n, padded, force)
  BY DEF RemovePhase
<1>3. RegistryInv' /\ (~force => WorkCount' = WorkCount)
  BY <1>1, <1>2, PhaseRemoveKeeps
<1>4. DocInv'
  BY <1>1, <1>3, PhaseLessWrites DEF RegistryInv, FilesInv
<1>5. CASE force = TRUE
  BY <1>3, <1>4, <1>5 DEF Halves, NoWorkLost, ProjectInv, DocInv
<1>6. CASE force = FALSE
  BY <1>1, <1>3, <1>4, <1>6, Joined, WorkCountType
<1>7. QED
  BY <1>5, <1>6

LEMMA CompleteMilestoneKeeps ==
  ASSUME ProjectInv, CompleteMilestone
  PROVE  Halves
<1>1. /\ Command /\ CloseMilestone /\ RegistryInv /\ DocInv
      /\ ArchivePhases \/ UNCHANGED registryVars
  BY DEF CompleteMilestone, ProjectInv, DocInv
<1>2. RegistryInv' /\ WorkCount' = WorkCount
  BY <1>1, ArchiveKeeps, TickedKeeps DEF registryVars
<1>3. DocInv'
  BY <1>1, CloseMilestoneWrites DEF RegistryInv, FilesInv
<1>4. QED
  BY <1>1, <1>2, <1>3, Joined, WorkCountType

LEMMA ClearPhasesKeeps ==
  ASSUME ProjectInv, ClearPhases
  PROVE  Halves
<1>1. RegistryInv' /\ DocInv'
  BY PhasesClearKeeps, StateKept DEF ClearPhases, ProjectInv, DocInv
<1>2. QED
  BY <1>1 DEF Halves, NoWorkLost, ProjectInv, DocInv

(* The commands that leave STATE.md alone.                                 *)
LEMMA RegistryCommandKeeps ==
  ASSUME ProjectInv, AddPhase \/ AddPhaseBatch \/ InsertPhase \/ RoadmapProgress \/ Agent
  PROVE  Halves
<1>1. Command /\ UNCHANGED docVars /\ RegistryInv /\ DocInv
  BY DEF AddPhase, AddPhaseBatch, InsertPhase, RoadmapProgress, Agent, ProjectInv, DocInv
<1>2. DocInv'
  BY <1>1, StateKept
<1>3. CASE AddPhase
  <2>1. RegistryInv' /\ WorkCount' = WorkCount
    BY <1>1, <1>3, PhaseAddKeeps DEF AddPhase
  <2>2. QED
    BY <1>1, <1>2, <2>1, Joined, WorkCountType
<1>4. CASE AddPhaseBatch
  <2>1. RegistryInv' /\ WorkCount' = WorkCount
    BY <1>1, <1>4, PhaseAddBatchKeeps DEF AddPhaseBatch
  <2>2. QED
    BY <1>1, <1>2, <2>1, Joined, WorkCountType
<1>5. CASE InsertPhase
  <2>1. RegistryInv' /\ WorkCount' = WorkCount
    BY <1>1, <1>5, PhaseInsertKeeps DEF InsertPhase
  <2>2. QED
    BY <1>1, <1>2, <2>1, Joined, WorkCountType
<1>6. CASE RoadmapProgress
  <2>1. PICK n \in PhaseNums : UpdatePlanProgress(n)
    BY <1>6 DEF RoadmapProgress
  <2>2. /\ roadmap' = Ticked(n) \/ roadmap' = roadmap
        /\ UNCHANGED <<dirs, vault, torn>>
    BY <2>1 DEF UpdatePlanProgress
  <2>3. RegistryInv' /\ WorkCount' = WorkCount
    BY <1>1, <2>2, TickedKeeps
  <2>4. QED
    BY <1>1, <1>2, <2>3, Joined, WorkCountType
<1>7. CASE Agent
  <2>1. RegistryInv' /\ WorkCount <= WorkCount'
    BY <1>1, <1>7, AgentKeeps DEF Agent
  <2>2. QED
    BY <1>1, <1>2, <2>1, Joined
<1>8. QED
  BY <1>3, <1>4, <1>5, <1>6, <1>7

LEMMA EveryStep ==
  ASSUME ProjectInv, [Next]_vars
  PROVE  Halves
<1>1. CASE Next
  BY <1>1, RegistryCommandKeeps, RemovePhaseKeeps, PhaseCompleteKeeps,
     CompleteMilestoneKeeps, ClearPhasesKeeps, StateCommandKeeps DEF Next
<1>2. CASE UNCHANGED vars
  <2>1. /\ UNCHANGED docVars /\ RegistryInv /\ DocInv
        /\ roadmap' = roadmap /\ dirs' = dirs /\ vault' = vault /\ torn' = torn
        /\ count' = count
    BY <1>2 DEF vars, registryVars, ProjectInv, DocInv
  <2>2. DocInv'
    BY <2>1, StateKept
  <2>3. RegistryInv'
    BY <2>1 DEF RegistryInv, RegistryTypeOK, FilesInv, PathsDiffer, NumbersInv, ListedInv,
                CountOK, PhaseNums, SectionNums, Sections
  <2>4. WorkCount' = WorkCount
    BY <2>1 DEF WorkCount
  <2>5. QED
    BY <2>1, <2>2, <2>3, <2>4, Joined, WorkCountType DEF ProjectInv, DocInv
<1>3. QED
  BY <1>1, <1>2

(* ------------------------------- theorems ------------------------------ *)

(* The invariant that the two properties rest on holds in every state.     *)
THEOREM ProjectStaysWhole == Spec => []ProjectInv
<1>1. ProjectInv /\ [Next]_vars => ProjectInv'
  BY EveryStep DEF Halves
<1>2. QED
  BY InitInv, <1>1, PTL DEF Spec

(* ROADMAP.md and the phase directories tell of the same phases: however   *)
(* phases were added, inserted, removed, completed and archived, a section *)
(* and a directory of one number are the same phase and no number is given *)
(* twice, unless a command crashed, could not rename a directory, or was   *)
(* given a number as the ROADMAP does not spell it (phase.cjs).            *)
THEOREM PhasesStayTogether == Spec => []PhasesAgree
<1>1. ProjectInv => PhasesAgree
  <2> SUFFICES ASSUME ProjectInv PROVE PhasesAgree
    OBVIOUS
  <2>1. TypeOK
    BY DEF ProjectInv, RegistryInv, CountOK, TypeOK
  <2>2. NumbersAreUnique
    BY DEF ProjectInv, RegistryInv, ListedInv, NumbersAreUnique
  <2>3. SidesAgree
    <3>1. SUFFICES ASSUME torn \cap Splitting = {},
                          NEW d \in dirs, NEW s \in Sections, d.num = s.num
                   PROVE  d.name = s.name
      BY DEF SidesAgree
    <3>2. PICK l \in Sections : l.num = d.num /\ l.name = d.name
      BY <3>1 DEF ProjectInv, RegistryInv, ListedInv
    <3>3. \A i, j \in DOMAIN roadmap : roadmap[i].num = roadmap[j].num => i = j
      BY <3>1 DEF ProjectInv, RegistryInv, ListedInv
    <3>4. l = s
      BY <3>1, <3>2, <3>3 DEF Sections
    <3>5. QED
      BY <3>2, <3>4
  <2>4. QED
    BY <2>1, <2>2, <2>3 DEF PhasesAgree
<1>2. QED
  BY ProjectStaysWhole, <1>1, PTL

(* Neither executed work nor a decision is lost: only phase remove --force *)
(* and phases clear delete a summary, and a decision that a command takes  *)
(* out of STATE.md is in the archive, but for a prune that crashed between *)
(* its two writes (cmdPhaseRemove, archivePhaseDirs, cmdStatePrune).       *)
THEOREM NothingGetsLost == Spec => NothingIsLost
<1>1. ProjectInv /\ [Next]_vars => [NoWorkLost /\ NothingForgotten']_vars
  BY EveryStep DEF Halves, ProjectInv
<1>2. QED
  BY ProjectStaysWhole, <1>1, PTL DEF Spec, NothingIsLost

(* ---------------------------- dependencies ----------------------------- *)

(* A phase depends on earlier phases, as their sections spell them.        *)
Met(s, S) == \A ref \in s.on : Less(ref.num, s.num) /\ \E t \in S : Spelled(t) = ref

DepsInv == torn \cap Blocking = {} => \A s \in Sections : Met(s, Sections)

LEMMA AddedSection ==
  ASSUME NEW int \in Nat, 1 <= int, NEW name \in Names
  PROVE  /\ AddedPhase(int, name) \in SectionType
         /\ AddedPhase(int, name).num = <<int, 0>> /\ AddedPhase(int, name).padded = FALSE
         /\ AddedPhase(int, name).on = {Ref(<<int - 1, 0>>, FALSE)}
         /\ Less(<<int - 1, 0>>, <<int, 0>>)
<1>1. <<int, 0>> \in Nums /\ <<int - 1, 0>> \in Nums
  BY DEF Nums
<1>2. {Ref(<<int - 1, 0>>, FALSE)} \subseteq [num : Nums, padded : BOOLEAN]
  BY <1>1 DEF Ref
<1>3. Less(<<int - 1, 0>>, <<int, 0>>)
  BY DEF Less
<1>4. QED
  BY <1>1, <1>2, <1>3 DEF AddedPhase, Section, SectionType

LEMMA NothingMissing ==
  ASSUME NEW int, NothingBefore(int) = {}, Sections \subseteq SectionType
  PROVE  \E t \in Sections : Spelled(t) = Ref(<<int - 1, 0>>, FALSE)
<1>1. PICK t \in Sections : t.num = <<int - 1, 0>> /\ ~t.padded
  BY DEF NothingBefore
<1>2. t.padded = FALSE
  BY <1>1 DEF SectionType
<1>3. QED
  BY <1>1, <1>2 DEF Spelled, Ref

LEMMA RefFields ==
  ASSUME NEW num, NEW padded
  PROVE  Ref(num, padded).num = num /\ Ref(num, padded).padded = padded
  BY DEF Ref

LEMMA PhaseAddDeps ==
  ASSUME RegistryInv, DepsInv, NEW name \in Names, NEW whole \in BOOLEAN,
         PhaseAdd(name, whole)
  PROVE  DepsInv'
<1> DEFINE new == NextInteger
           s == AddedPhase(new, name)
<1>1. new \in Nat /\ 1 <= new
  BY NextIntegerIsNew DEF RegistryInv, FilesInv, CountOK
<1>2. roadmap \in Seq(SectionType) /\ Sections = Range(roadmap) /\ Sections \subseteq SectionType
  BY SectionsListed DEF RegistryInv, RegistryTypeOK
<1>3. /\ whole => /\ roadmap' = Added(roadmap, s)
                  /\ torn' = torn \cup NothingBefore(new)
      /\ ~whole => torn' = torn \cup {"crash"}
  BY DEF PhaseAdd
<1> HIDE DEF new
<1>4. SUFFICES ASSUME torn' \cap Blocking = {}
               PROVE  \A x \in Sections' : Met(x, Sections')
  BY DEF DepsInv, Met
<1>5. whole /\ torn \cap Blocking = {} /\ NothingBefore(new) = {}
  BY <1>3, <1>4 DEF Blocking, NothingBefore
<1>6. /\ s \in SectionType /\ s.num = <<new, 0>>
      /\ s.on = {Ref(<<new - 1, 0>>, FALSE)} /\ Less(<<new - 1, 0>>, <<new, 0>>)
  BY <1>1, AddedSection
<1> HIDE DEF s
<1>7. Sections' = Sections \cup {s}
  <2>1. Range(Added(roadmap, s)) = Range(roadmap) \cup {s}
    BY <1>2, <1>6, SectionAdded
  <2>2. Sections' = Range(Added(roadmap, s))
    BY <1>3, <1>5 DEF Sections, Range
  <2>3. QED
    BY <1>2, <2>1, <2>2
<1>8. \E t \in Sections : Spelled(t) = Ref(<<new - 1, 0>>, FALSE)
  BY <1>2, <1>5, NothingMissing
<1>9. Met(s, Sections')
  BY <1>6, <1>7, <1>8, RefFields DEF Met
<1>10. QED
  BY <1>5, <1>7, <1>9 DEF DepsInv, Met

LEMMA PhaseAddBatchDeps ==
  ASSUME RegistryInv, DepsInv, NEW name1 \in Names, NEW name2 \in Names,
         PhaseAddBatch(name1, name2)
  PROVE  DepsInv'
<1> DEFINE one == NextInteger
           two == one + 1
           s1 == AddedPhase(one, name1)
           s2 == AddedPhase(two, name2)
           middle == Added(roadmap, s1)
<1>1. one \in Nat /\ 1 <= one
  BY NextIntegerIsNew DEF RegistryInv, FilesInv, CountOK
<1>2. roadmap \in Seq(SectionType) /\ Sections = Range(roadmap) /\ Sections \subseteq SectionType
  BY SectionsListed DEF RegistryInv, RegistryTypeOK
<1>3. roadmap' = Added(middle, s2) /\ torn' = torn \cup NothingBefore(one)
  BY DEF PhaseAddBatch
<1> HIDE DEF one
<1>4. two \in Nat /\ 1 <= two /\ two - 1 = one
  BY <1>1
<1> HIDE DEF two
<1>5. SUFFICES ASSUME torn' \cap Blocking = {}
               PROVE  \A x \in Sections' : Met(x, Sections')
  BY DEF DepsInv, Met
<1>6. torn \cap Blocking = {} /\ NothingBefore(one) = {}
  BY <1>3, <1>5 DEF Blocking, NothingBefore
<1>7. /\ s1 \in SectionType /\ s1.num = <<one, 0>> /\ s1.padded = FALSE
      /\ s1.on = {Ref(<<one - 1, 0>>, FALSE)} /\ Less(<<one - 1, 0>>, <<one, 0>>)
  BY <1>1, AddedSection
<1>8. /\ s2 \in SectionType /\ s2.num = <<two, 0>>
      /\ s2.on = {Ref(<<one, 0>>, FALSE)} /\ Less(<<one, 0>>, <<two, 0>>)
  BY <1>4, AddedSection
<1> HIDE DEF s1, s2
<1>9. middle \in Seq(SectionType) /\ Range(middle) = Sections \cup {s1}
  BY <1>2, <1>7, SectionAdded
<1> HIDE DEF middle
<1>10. Sections' = Sections \cup {s1, s2}
  <2>1. Range(Added(middle, s2)) = Range(middle) \cup {s2}
    BY <1>8, <1>9, SectionAdded
  <2>2. Sections' = Range(Added(middle, s2))
    BY <1>3 DEF Sections, Range
  <2>3. QED
    BY <1>9, <2>1, <2>2
<1>11. \E t \in Sections : Spelled(t) = Ref(<<one - 1, 0>>, FALSE)
  BY <1>2, <1>6, NothingMissing
<1>12. Met(s1, Sections')
  <2> DEFINE ref == Ref(<<one - 1, 0>>, FALSE)
  <2>1. s1.on = {ref} /\ \E t \in Sections' : Spelled(t) = ref
    BY <1>7, <1>10, <1>11
  <2>2. ref.num = <<one - 1, 0>>
    BY RefFields
  <2> HIDE DEF ref
  <2>3. Less(ref.num, s1.num)
    BY <1>7, <2>2
  <2>4. QED
    BY <2>1, <2>3 DEF Met
<1>13. Met(s2, Sections')
  <2>1. Spelled(s1) = Ref(<<one, 0>>, FALSE)
    BY <1>7 DEF Spelled
  <2>2. QED
    BY <1>8, <1>10, <2>1, RefFields DEF Met
<1>14. QED
  BY <1>6, <1>10, <1>12, <1>13 DEF DepsInv, Met

LEMMA PhaseInsertDeps ==
  ASSUME RegistryInv, DepsInv, NEW after \in SectionNums, NEW padded \in BOOLEAN,
         NEW name \in Names, NEW whole \in BOOLEAN,
         PhaseInsert(after, padded, name, whole)
  PROVE  DepsInv'
<1> DEFINE new == <<after[1], NextDecimal(after[1])>>
           at == First(Places(after))
           s == Section(new, after[1] < 10, name, "none", {Ref(after, padded)})
<1>1. /\ roadmap \in Seq(SectionType) /\ Sections = Range(roadmap)
      /\ after \in Nums /\ IsFiniteSet(dirs) /\ RegistryTypeOK
  BY SectionsListed DEF RegistryInv, FilesInv, RegistryTypeOK
<1>2. /\ after[2] = 0 /\ Places(after) # {}
      /\ whole => /\ roadmap' = InsertAt(roadmap, at + 1, s)
                  /\ torn' = torn \cup (IF roadmap[at].padded = padded THEN {} ELSE {"spelling"})
      /\ ~whole => torn' = torn \cup {"crash"}
  BY DEF PhaseInsert
<1>3. at \in DOMAIN roadmap /\ roadmap[at].num = after
  <2>1. Places(after) \subseteq Nat
    BY <1>1 DEF Places
  <2>2. at \in Places(after)
    BY <1>2, <2>1, FirstPlace
  <2>3. QED
    BY <2>2 DEF Places
<1>4. new \in Nums /\ Less(after, new)
  <2>1. after[1] \in Nat
    BY <1>1 DEF Nums
  <2>2. NextDecimal(after[1]) \in Nat /\ 1 <= NextDecimal(after[1])
    BY <1>1, <2>1, NextDecimalIsNew
  <2>3. QED
    BY <1>2, <2>1, <2>2 DEF Nums, Less
<1> HIDE DEF new, at
<1>5. s \in SectionType /\ s.num = new /\ s.on = {Ref(after, padded)}
  <2>1. (after[1] < 10) \in BOOLEAN /\ {Ref(after, padded)} \subseteq [num : Nums, padded : BOOLEAN]
    BY <1>1 DEF Ref
  <2>2. QED
    BY <1>4, <2>1 DEF Section, SectionType
<1> HIDE DEF s
<1>6. SUFFICES ASSUME torn' \cap Blocking = {}
               PROVE  \A x \in Sections' : Met(x, Sections')
  BY DEF DepsInv, Met
<1>7. whole /\ torn \cap Blocking = {} /\ roadmap[at].padded = padded
  BY <1>2, <1>6 DEF Blocking
<1>8. Sections' = Sections \cup {s}
  <2>1. at + 1 \in 1 .. Len(roadmap) + 1
    BY <1>1, <1>3
  <2>2. Range(InsertAt(roadmap, at + 1, s)) = Range(roadmap) \cup {s}
    BY <1>1, <1>5, <2>1, Inserted
  <2>3. Sections' = Range(InsertAt(roadmap, at + 1, s))
    BY <1>2, <1>7 DEF Sections, Range
  <2>4. QED
    BY <1>1, <2>2, <2>3
<1>9. roadmap[at] \in Sections /\ Spelled(roadmap[at]) = Ref(after, padded)
  BY <1>3, <1>7 DEF Sections, Spelled
<1>10. Met(s, Sections')
  BY <1>4, <1>5, <1>8, <1>9 DEF Met, Ref
<1>11. QED
  BY <1>7, <1>8, <1>10 DEF DepsInv, Met

(* Removing an integer phase keeps the order of the others, if it has no   *)
(* decimal phases.                                                         *)
LEMMA ShiftedInOrder ==
  ASSUME NEW n \in Nums, NEW k \in Nums, NEW m \in Nums, n[2] = 0, Less(k, m),
         k[1] # n[1], m[1] # n[1]
  PROVE  Less(Shifted(k, n), Shifted(m, n))
<1>1. /\ k[1] \in Nat /\ k[2] \in Nat /\ m[1] \in Nat /\ m[2] \in Nat /\ n[1] \in Nat
      /\ k[1] < m[1] \/ (k[1] = m[1] /\ k[2] < m[2])
  BY DEF Nums, Less
<1>2. /\ Shifted(k, n) = IF k[1] > n[1] /\ k[1] < Backlog THEN <<k[1] - 1, k[2]>> ELSE k
      /\ Shifted(m, n) = IF m[1] > n[1] /\ m[1] < Backlog THEN <<m[1] - 1, m[2]>> ELSE m
  BY <1>1 DEF Shifted, InBacklog, Backlog
<1>3. CASE k[1] > n[1] /\ k[1] < Backlog
  <2>1. Shifted(k, n)[1] = k[1] - 1 /\ Shifted(k, n)[2] = k[2]
    BY <1>2, <1>3
  <2>2. CASE m[1] > n[1] /\ m[1] < Backlog
    <3>1. Shifted(m, n)[1] = m[1] - 1 /\ Shifted(m, n)[2] = m[2]
      BY <1>2, <2>2
    <3>2. QED
      BY <1>1, <2>1, <3>1 DEF Less
  <2>3. CASE ~(m[1] > n[1] /\ m[1] < Backlog)
    <3>1. Shifted(m, n) = m
      BY <1>2, <2>3
    <3>2. QED
      BY <1>1, <1>3, <2>1, <2>3, <3>1 DEF Less, Backlog
  <2>4. QED
    BY <2>2, <2>3
<1>4. CASE ~(k[1] > n[1] /\ k[1] < Backlog)
  <2>1. Shifted(k, n) = k
    BY <1>2, <1>4
  <2>2. CASE m[1] > n[1] /\ m[1] < Backlog
    <3>1. Shifted(m, n)[1] = m[1] - 1 /\ Shifted(m, n)[2] = m[2]
      BY <1>2, <2>2
    <3>2. k[1] < n[1]
      BY <1>1, <1>4, <2>2 DEF Backlog
    <3>3. QED
      BY <1>1, <2>1, <2>2, <3>1, <3>2 DEF Less
  <2>3. CASE ~(m[1] > n[1] /\ m[1] < Backlog)
    BY <1>2, <2>1, <2>3
  <2>4. QED
    BY <2>2, <2>3
<1>5. QED
  BY <1>3, <1>4

LEMMA RespelledRef ==
  ASSUME NEW n \in Nums, NEW s \in SectionType
  PROVE  /\ Spelled(Renumbered(s, n)) = Respelled(Spelled(s), n)
         /\ Renumbered(s, n).on = {Respelled(ref, n) : ref \in s.on}
         /\ \A ref \in [num : Nums, padded : BOOLEAN] :
               Respelled(ref, n).num = Shifted(ref.num, n)
<1> DEFINE RefType == [num : Nums, padded : BOOLEAN]
           own == Respelled(Ref(s.num, s.padded), n)
           on == {Respelled(ref, n) : ref \in s.on}
<1>1. \A ref \in RefType : /\ Respelled(ref, n) = Ref(Respelled(ref, n).num, Respelled(ref, n).padded)
                          /\ Respelled(ref, n).num = Shifted(ref.num, n)
  BY RefFields DEF Respelled, Ref
<1>2. Ref(s.num, s.padded) \in RefType
  BY DEF Ref, SectionType
<1>3. Renumbered(s, n) = [s EXCEPT !.num = own.num, !.padded = own.padded, !.on = on]
  BY DEF Renumbered
<1>4. own = Ref(own.num, own.padded)
  BY <1>1, <1>2
<1>5. own = Respelled(Spelled(s), n)
  BY DEF Spelled
<1> HIDE DEF own, on
<1>6. /\ Renumbered(s, n).num = own.num /\ Renumbered(s, n).padded = own.padded
      /\ Renumbered(s, n).on = on
  BY <1>3 DEF SectionType
<1>7. Spelled(Renumbered(s, n)) = own
  BY <1>4, <1>6 DEF Spelled
<1>8. QED
  BY <1>1, <1>5, <1>6, <1>7 DEF on

LEMMA PhaseRemoveDeps ==
  ASSUME RegistryInv, DepsInv, NEW n \in PhaseNums, NEW padded \in BOOLEAN,
         NEW force \in BOOLEAN, PhaseRemove(n, padded, force)
  PROVE  DepsInv'
<1> DEFINE k == First(Matched(n, padded))
           kept == RemoveAt(roadmap, k)
           S == {s \in Sections : s.num # n}
<1>1. SUFFICES ASSUME torn' \cap Blocking = {}
               PROVE  \A x \in Sections' : Met(x, Sections')
  BY DEF DepsInv, Met
<1>2. /\ torn \cap Blocking = {} /\ Matched(n, padded) # {}
      /\ ~StaysBehind(n) /\ Dependents(n) = {}
  BY <1>1 DEF PhaseRemove, Blocking
<1>3. /\ roadmap \in Seq(SectionType) /\ Sections = Range(roadmap)
      /\ Sections \subseteq SectionType /\ n \in Nums
  BY SectionsListed DEF RegistryInv, RegistryTypeOK
<1>4. NumsDiffer(roadmap) /\ \A s \in Sections : Met(s, Sections)
  BY <1>2 DEF RegistryInv, ListedInv, NumsDiffer, DepsInv, Splitting, Blocking
<1>5. k \in DOMAIN roadmap /\ roadmap[k].num = n
  <2>1. Matched(n, padded) \subseteq Nat
    BY <1>3 DEF Matched, Places
  <2>2. k \in Matched(n, padded)
    BY <1>2, <2>1, FirstPlace
  <2>3. QED
    BY <2>2 DEF Matched, Places
<1>6. roadmap' = IF n[2] > 0 THEN kept ELSE [i \in DOMAIN kept |-> Renumbered(kept[i], n)]
  BY <1>2 DEF PhaseRemove, RemoveSection
<1> HIDE DEF k
<1>7. kept \in Seq(SectionType) /\ Range(kept) = S
  <2>1. /\ kept \in Seq(SectionType) /\ Range(kept) \subseteq Range(roadmap)
        /\ \A i \in DOMAIN roadmap : i # k => roadmap[i] \in Range(kept)
        /\ \A x \in Range(kept) : x.num # n
    BY <1>3, <1>4, <1>5, Removed
  <2> HIDE DEF kept
  <2>2. \A s \in Sections : s.num # n => s \in Range(kept)
    BY <1>3, <1>5, <2>1 DEF Range
  <2>3. QED
    BY <1>3, <2>1, <2>2
<1> HIDE DEF kept
<1>8. \A s \in S : Met(s, S)
  <2>1. SUFFICES ASSUME NEW s \in S, NEW ref \in s.on
                 PROVE  Less(ref.num, s.num) /\ \E t \in S : Spelled(t) = ref
    BY DEF Met
  <2>2. ref.num # n
    BY <1>2, <2>1 DEF Dependents
  <2>3. Less(ref.num, s.num) /\ \E t \in Sections : Spelled(t) = ref
    BY <1>4, <2>1 DEF Met
  <2>4. \A t \in Sections : Spelled(t).num = t.num
    BY RefFields DEF Spelled
  <2>5. QED
    BY <2>2, <2>3, <2>4
<1>9. CASE n[2] > 0
  <2>1. Sections' = S
    BY <1>6, <1>7, <1>9 DEF Sections, Range
  <2>2. QED
    BY <1>8, <2>1
<1>10. CASE ~(n[2] > 0)
  <2>1. Sections' = {Renumbered(s, n) : s \in S}
    <3>1. roadmap' = [i \in DOMAIN kept |-> Renumbered(kept[i], n)]
      BY <1>6, <1>10
    <3>2. Sections' = {Renumbered(kept[i], n) : i \in DOMAIN kept}
      BY <3>1 DEF Sections
    <3>3. S = {kept[i] : i \in DOMAIN kept}
      BY <1>7 DEF Range
    <3> HIDE DEF S
    <3>4. QED
      BY <3>2, <3>3
  <2>2. n[2] = 0
    BY <1>3, <1>10 DEF Nums
  <2>3. ASSUME NEW s \in S PROVE s \in SectionType /\ s.num \in Nums /\ s.num[1] # n[1]
    <3>1. s \in SectionType /\ s.num \in Nums /\ s.num \in SectionNums /\ s.num # n
      BY <1>3 DEF SectionType, SectionNums
    <3>2. /\ s.num = <<s.num[1], s.num[2]>> /\ s.num[2] \in Nat
          /\ n = <<n[1], n[2]>> /\ n[2] = 0
      BY <1>3, <2>2, <3>1 DEF Nums
    <3>3. QED
      BY <1>2, <3>1, <3>2 DEF StaysBehind
  <2>4. ASSUME NEW s \in S, NEW ref \in Renumbered(s, n).on
        PROVE  /\ Less(ref.num, Renumbered(s, n).num)
               /\ \E t \in Sections' : Spelled(t) = ref
    <3>1. /\ Renumbered(s, n).num = Shifted(s.num, n)
          /\ Renumbered(s, n).on = {Respelled(old, n) : old \in s.on}
      BY <1>3, <2>3, RenumberedSection, RespelledRef
    <3>2. PICK old \in s.on : ref = Respelled(old, n)
      BY <2>4, <3>1
    <3>3. Less(old.num, s.num) /\ \E t \in S : Spelled(t) = old
      BY <1>8 DEF Met
    <3>4. PICK t \in S : Spelled(t) = old
      BY <3>3
    <3>5. old \in [num : Nums, padded : BOOLEAN] /\ old.num = t.num
      BY <2>3, <3>2, <3>4, RefFields DEF Spelled, SectionType
    <3>6. ref.num = Shifted(old.num, n)
      BY <1>3, <2>3, <3>2, <3>5, RespelledRef
    <3>7. Less(ref.num, Shifted(s.num, n))
      BY <1>3, <2>2, <2>3, <3>3, <3>5, <3>6, ShiftedInOrder
    <3>8. Spelled(Renumbered(t, n)) = ref
      BY <1>3, <2>3, <3>2, <3>4, RespelledRef
    <3>9. QED
      BY <2>1, <3>1, <3>7, <3>8
  <2>5. QED
    BY <2>1, <2>4 DEF Met
<1>11. QED
  BY <1>9, <1>10

(* Every other command leaves numbers, spellings and dependencies alone.   *)
LEMMA TickedDeps ==
  ASSUME RegistryInv, DepsInv, NEW n, roadmap' = Ticked(n) \/ roadmap' = roadmap, torn' = torn
  PROVE  DepsInv'
<1>1. roadmap \in Seq(SectionType)
  BY DEF RegistryInv, RegistryTypeOK
<1>2. /\ DOMAIN roadmap' = DOMAIN roadmap
      /\ \A i \in DOMAIN roadmap : /\ roadmap'[i].num = roadmap[i].num
                                   /\ roadmap'[i].padded = roadmap[i].padded
                                   /\ roadmap'[i].on = roadmap[i].on
  <2>1. CASE roadmap' = roadmap
    BY <2>1
  <2>2. CASE roadmap' = Ticked(n) /\ roadmap' # roadmap
    <3> DEFINE open == {i \in Places(n) : roadmap[i].box = "open"}
               k == First(open)
    <3>1. roadmap' = [roadmap EXCEPT ![k].box = "checked"]
      BY <2>2 DEF Ticked
    <3> HIDE DEF k
    <3>2. \A i \in DOMAIN roadmap : roadmap[i] \in SectionType
      BY <1>1
    <3>3. QED
      BY <3>1, <3>2 DEF SectionType
  <2>3. QED
    BY <2>1, <2>2
<1>3. SUFFICES ASSUME torn \cap Blocking = {}
               PROVE  \A x \in Sections' : Met(x, Sections')
  BY DEF DepsInv, Met
<1>4. SUFFICES ASSUME NEW i \in DOMAIN roadmap, NEW ref \in roadmap'[i].on
               PROVE  /\ Less(ref.num, roadmap'[i].num)
                      /\ \E j \in DOMAIN roadmap' : Spelled(roadmap'[j]) = ref
  BY <1>2 DEF Met, Sections
<1>5. Less(ref.num, roadmap[i].num) /\ \E j \in DOMAIN roadmap : Spelled(roadmap[j]) = ref
  BY <1>2, <1>3, <1>4 DEF DepsInv, Met, Sections
<1>6. QED
  BY <1>2, <1>5 DEF Spelled

LEMMA InitDeps == Init => DepsInv
<1>1. SUFFICES ASSUME Init PROVE DepsInv
  OBVIOUS
<1>2. PICK p \in Projects : roadmap = p.roadmap
  BY <1>1 DEF Init
<1>3. /\ roadmap \in Seq(SectionType)
      /\ \A i \in DOMAIN roadmap : \A ref \in roadmap[i].on :
            /\ Less(ref.num, roadmap[i].num)
            /\ \E j \in DOMAIN roadmap : /\ roadmap[j].num = ref.num
                                         /\ roadmap[j].padded = ref.padded
  BY <1>2, ProjectsAssumption
<1>4. ASSUME NEW s \in Sections, NEW ref \in s.on
      PROVE  Less(ref.num, s.num) /\ \E t \in Sections : Spelled(t) = ref
  <2>1. PICK i \in DOMAIN roadmap : s = roadmap[i]
    BY DEF Sections
  <2>2. PICK j \in DOMAIN roadmap : roadmap[j].num = ref.num /\ roadmap[j].padded = ref.padded
    BY <1>3, <1>4, <2>1
  <2>3. ref \in [num : Nums, padded : BOOLEAN]
    <3>1. s \in SectionType
      BY <1>3, <2>1
    <3>2. QED
      BY <1>4, <3>1 DEF SectionType
  <2>4. ref = Ref(ref.num, ref.padded)
    BY <2>3 DEF Ref
  <2>5. Spelled(roadmap[j]) = ref
    BY <2>2, <2>4 DEF Spelled
  <2>6. QED
    BY <1>3, <1>4, <2>1, <2>5 DEF Sections
<1>5. QED
  BY <1>4 DEF DepsInv, Met

LEMMA EveryStepDeps ==
  ASSUME ProjectInv, DepsInv, [Next]_vars
  PROVE  DepsInv'
<1>1. RegistryInv /\ RegistryTypeOK
  BY DEF ProjectInv, RegistryInv
<1>2. CASE AddPhase \/ AddPhaseBatch \/ InsertPhase
  BY <1>1, <1>2, PhaseAddDeps, PhaseAddBatchDeps, PhaseInsertDeps
     DEF AddPhase, AddPhaseBatch, InsertPhase
<1>3. CASE \E force \in BOOLEAN : RemovePhase(force)
  BY <1>1, <1>3, PhaseRemoveDeps DEF RemovePhase
<1>4. CASE PhaseComplete \/ RoadmapProgress
  <2>1. \E n \in PhaseNums : roadmap' = Ticked(n) \/ roadmap' = roadmap
    BY <1>4 DEF PhaseComplete, CompletePhaseN, TickPhase, RoadmapProgress, UpdatePlanProgress
  <2>2. torn' = torn
    BY <1>4 DEF PhaseComplete, CompletePhaseN, TickPhase, RoadmapProgress, UpdatePlanProgress
  <2>3. QED
    BY <1>1, <2>1, <2>2, TickedDeps
<1>5. CASE CompleteMilestone \/ ClearPhases \/ StateCommand \/ Agent \/ UNCHANGED vars
  <2>1. roadmap' = roadmap /\ torn' = torn
    BY <1>5 DEF CompleteMilestone, ArchivePhases, ClearPhases, PhasesClear, StateCommand,
                Agent, Scaffold, WriteContext, WritePlan, WriteSummary, registryVars, vars
  <2>2. QED
    BY <1>1, <2>1, TickedDeps
<1>6. QED
  BY <1>2, <1>3, <1>4, <1>5 DEF Next

(* ------------------------------ next step ------------------------------ *)

DiskStatusType == {"complete", "partial", "planned", "discussed", "empty", "no_directory"}

LEMMA StatusType ==
  ASSUME NEW s
  PROVE  DiskStatus(s) \in DiskStatuses(s) /\ DiskStatus(s) \in DiskStatusType
<1>1. \A d : FilesStatus(d) \in DiskStatusType
  BY DEF FilesStatus, DiskStatusType
<1>2. DiskStatuses(s) \subseteq DiskStatusType
  BY <1>1 DEF DiskStatuses, DiskStatusType
<1>3. DiskStatuses(s) # {}
  BY DEF DiskStatuses
<1>4. QED
  BY <1>2, <1>3 DEF DiskStatus

LEMMA OneIsOffered ==
  ASSUME RegistryTypeOK, DepsInv
  PROVE  WorkIsOffered
<1>1. SUFFICES ASSUME torn \cap Blocking = {}, ~AllComplete,
                      \E s \in Sections : InSequence(s),
                      \A s \in Sections : DiskStatus(s) # "partial"
               PROVE  RecommendedActions({}) # {}
  BY DEF WorkIsOffered
<1> DEFINE T == {s \in Sections : InSequence(s) /\ DiskStatus(s) # "complete"}
<1>2. Sections \subseteq SectionType /\ \A s \in Sections : s.num \in Nums
  BY SectionsListed DEF SectionType
<1>3. PICK s \in T : \A t \in T : ~Less(t.num, s.num)
  <2>1. T # {}
    BY <1>1 DEF AllComplete
  <2>2. {t.num : t \in T} \subseteq Nums /\ {t.num : t \in T} # {}
    BY <1>2, <2>1
  <2>3. PICK m \in {t.num : t \in T} : \A k \in {t.num : t \in T} : ~Less(k, m)
    BY <2>2, LeastPhase
  <2>4. QED
    BY <2>3
<1>4. DepsSatisfied(s)
  <2>1. SUFFICES ASSUME NEW ref \in s.on
                 PROVE  \E t \in Sections : Spelled(t) = ref /\ DiskStatus(t) = "complete"
    BY DEF DepsSatisfied
  <2>2. PICK t \in Sections : Less(ref.num, s.num) /\ Spelled(t) = ref
    BY <1>1, <2>1 DEF DepsInv, Met
  <2>3. Less(t.num, s.num)
    BY <2>2, RefFields DEF Spelled
  <2>4. InSequence(t)
    BY <1>2, <2>3 DEF InSequence, InBacklog, Less, Nums, Backlog
  <2>5. QED
    BY <1>3, <2>2, <2>3, <2>4
<1>5. DiskStatus(s) \in {"planned", "discussed", "empty", "no_directory"}
  BY <1>1, StatusType DEF DiskStatusType
<1>6. Action(s) \in {"execute", "plan", "discuss"}
  BY <1>4, <1>5 DEF Action
<1>7. s \in RecommendedActions({})
  BY <1>1, <1>6 DEF RecommendedActions
<1>8. QED
  BY <1>7

LEMMA NothingIsLeft ==
  ASSUME RegistryTypeOK
  PROVE  DoneIsDone
<1>1. SUFFICES ASSUME InProgress = {}, ~ProgressHasNext, \E s \in Sections : InSequence(s)
               PROVE  AllComplete /\ AnalyzedCurrent = {} /\ AnalyzedNext = {}
  BY DEF DoneIsDone
<1>2. ASSUME NEW s \in Sections PROVE DiskStatus(s) = "complete"
  <2>1. CASE s.box = "checked"
    BY <2>1 DEF DiskStatus, DiskStatuses
  <2>2. CASE s.box # "checked"
    <3>1. DirsOf(s.num) # {}
      BY <1>1, <2>2 DEF ProgressHasNext, NotStartedSections
    <3>2. ASSUME NEW d \in DirsOf(s.num) PROVE FilesStatus(d) = "complete"
      <4>1. d \in MilestoneDirs /\ d.plans \in Nat /\ d.summaries \in Nat
        BY DEF DirsOf, MilestoneDirs, InMilestone, SectionNums, RegistryTypeOK, DirType
      <4>2. Complete(d)
        BY <1>1, <4>1 DEF ProgressHasNext, InProgress, Pending
      <4>3. ~(d.summaries = 0 /\ d.plans > 0) /\ d.plans # 0
        BY <4>1, <4>2 DEF Complete
      <4>4. QED
        BY <4>2, <4>3 DEF FilesStatus
    <3>3. DiskStatuses(s) = {FilesStatus(d) : d \in DirsOf(s.num)}
      BY <2>2, <3>1 DEF DiskStatuses
    <3>4. QED
      BY <3>2, <3>3, StatusType
  <2>3. QED
    BY <2>1, <2>2
<1>3. QED
  BY <1>1, <1>2 DEF AllComplete, AnalyzedCurrent, AnalyzedNext

(* There is a next step as long as there is work, and none afterwards: the *)
(* least phase that is not complete depends on earlier phases only, as     *)
(* their sections are spelled, whatever was added, inserted, removed or    *)
(* renumbered; and what init progress calls done, the manager and roadmap  *)
(* analyze call done (init.cjs, cmdInitManager and cmdInitProgress).       *)
THEOREM WorkStaysOffered == Spec => []NextStepIsKnown
<1>1. Init => ProjectInv /\ DepsInv
  BY InitInv, InitDeps
<1>2. ProjectInv /\ DepsInv /\ [Next]_vars => (ProjectInv /\ DepsInv)'
  BY EveryStep, EveryStepDeps DEF Halves
<1>3. ProjectInv /\ DepsInv => NextStepIsKnown
  BY OneIsOffered, NothingIsLeft DEF NextStepIsKnown, ProjectInv, RegistryInv
<1>4. QED
  BY <1>1, <1>2, <1>3, PTL DEF Spec

(* ------------------------------- reports ------------------------------- *)

(* Below 200 phases only all of them round to 100 percent.                 *)
LEMMA FullWhenAll ==
  ASSUME NEW a \in Nat, NEW b \in Nat, b > 0, b < 200, Round(a, b) >= 100
  PROVE  a >= b
<1> DEFINE c == 200 * a + b
           d == 2 * b
<1>1. c \in Nat /\ d \in Nat /\ d > 0
  OBVIOUS
<1>2. Round(a, b) = c \div d
  BY DEF Round
<1> HIDE DEF c, d
<1>3. 100 * d <= c
  <2>1. c \div d \in Int /\ c \div d >= 100 /\ c = d * (c \div d) + (c % d) /\ c % d >= 0
    BY <1>1, <1>2
  <2> DEFINE q == c \div d
  <2> HIDE DEF q
  <2>2. d * q >= d * 100
    BY <1>1, <2>1 DEF q
  <2>3. QED
    BY <1>1, <2>1, <2>2 DEF q
<1>4. QED
  BY <1>3 DEF c, d

LEMMA AllAreDone ==
  ASSUME NEW K, IsFiniteSet(K), K \subseteq DirType, \A d, e \in K : d.num = e.num => d = e,
         NEW N, IsFiniteSet(N), N = {} \/ \A d \in K : d.num \in N,
         NEW total, total < 200,
         total = IF N = {} \/ Cardinality(K) > Cardinality(N) THEN Cardinality(K)
                                                            ELSE Cardinality(N),
         NEW percent, percent \in {NoPercent, 100},
         percent = ComputeProgressPercent(SummariesIn(K), PlansIn(K), CompleteIn(K), total)
  PROVE  /\ \A d \in K : Complete(d)
         /\ N \subseteq {d.num : d \in K}
<1> DEFINE C == {d \in K : Complete(d)}
           a == SummariesIn(K)
           b == PlansIn(K)
           c == CompleteIn(K)
<1>1. /\ a \in Nat /\ b \in Nat /\ c \in Nat /\ Cardinality(K) \in Nat
      /\ Cardinality(N) \in Nat
  BY CountsOf, FS_CardinalityType
<1>2. total \in Nat /\ Cardinality(K) <= total /\ Cardinality(N) <= total
  BY <1>1, FS_EmptySet
<1> HIDE DEF a, b
<1>3. c = Cardinality(C) /\ C \in SUBSET K
  BY DEF CompleteIn
<1> HIDE DEF c
<1>4. total > 0 => c >= total
  <2>1. SUFFICES ASSUME total > 0 PROVE c >= total
    OBVIOUS
  <2> DEFINE plan == Round(a, b)
             phase == Round(c, total)
  <2>2. b > 0 => plan \in Nat
    BY <1>1, Rounded
  <2>3. phase \in Nat
    BY <1>1, <1>2, <2>1, Rounded
  <2>4. percent = IF b = 0 THEN AtMost(100, phase) ELSE AtMost(100, AtMost(phase, plan))
    <3>1. percent = CASE b = 0 /\ total = 0 -> NoPercent
                      [] b = 0 /\ total > 0 -> AtMost(100, phase)
                      [] b > 0 /\ total = 0 -> AtMost(100, plan)
                      [] OTHER -> AtMost(100, AtMost(phase, plan))
      BY DEF ComputeProgressPercent, a, b, c
    <3> HIDE DEF plan, phase
    <3>2. QED
      BY <1>1, <2>1, <3>1
  <2> HIDE DEF plan, phase
  <2>5. phase >= 100
    BY <1>1, <2>2, <2>3, <2>4 DEF AtMost, NoPercent
  <2>6. QED
    BY <1>1, <1>2, <2>1, <2>5, FullWhenAll DEF phase
<1>5. C = K /\ Cardinality(N) <= Cardinality(K)
  <2>1. CASE total > 0
    <3>1. Cardinality(C) <= Cardinality(K) /\ (Cardinality(K) = Cardinality(C) => K = C)
      BY <1>3, FS_Subset
    <3>2. QED
      BY <1>1, <1>2, <1>3, <1>4, <2>1, <3>1
  <2>2. CASE total = 0
    BY <1>1, <1>2, <2>2, FS_EmptySet
  <2>3. QED
    BY <1>2, <2>1, <2>2
<1>6. N \subseteq {d.num : d \in K}
  <2>1. CASE N = {}
    BY <2>1
  <2>2. CASE N # {}
    <3> DEFINE f == [d \in K |-> d.num]
    <3>1. f \in Injection(K, N)
      BY <2>2 DEF Injection, IsInjective
    <3>2. Cardinality(K) <= Cardinality(N) /\ (Cardinality(K) = Cardinality(N) <=> f \in Surjection(K, N))
      BY <3>1, FS_Injection
    <3>3. f \in Surjection(K, N)
      BY <1>1, <1>5, <3>2
    <3>4. \A d \in K : f[d] = d.num
      OBVIOUS
    <3> HIDE DEF f
    <3>5. \A n \in N : \E d \in K : f[d] = n
      BY <3>3 DEF Surjection
    <3>6. QED
      BY <3>4, <3>5
  <2>3. QED
    BY <2>1, <2>2
<1>7. QED
  BY <1>5, <1>6

(* M are the directories of the milestone and N the numbers of sections.   *)
LEMMA DoneReports ==
  ASSUME NEW D, IsFiniteSet(D), D \subseteq DirType, NEW M \in SUBSET D, NEW K \in Kept(M),
         NEW N, IsFiniteSet(N), N = {} \/ \A d \in M : d.num \in N,
         NEW total, total < 200,
         total = IF N = {} \/ Cardinality(K) > Cardinality(N) THEN Cardinality(K)
                                                            ELSE Cardinality(N),
         NEW percent, percent \in {NoPercent, 100},
         percent = ComputeProgressPercent(SummariesIn(K), PlansIn(K), CompleteIn(K), total)
  PROVE  /\ \A n \in N : \E d \in D : d.num = n /\ Complete(d)
         /\ {d.num : d \in {e \in M : Complete(e)}} = N \cup {d.num : d \in M}
<1>1. /\ K \subseteq M /\ \A d \in M : \E e \in K : e.num = d.num
      /\ \A d, e \in K : d.num = e.num => d = e
  BY DEF Kept
<1>2. IsFiniteSet(K) /\ K \subseteq DirType
  BY <1>1, FS_Subset
<1>3. (\A d \in K : Complete(d)) /\ N \subseteq {d.num : d \in K}
  BY <1>1, <1>2, AllAreDone
<1>4. \A n \in N \cup {d.num : d \in M} : \E e \in K : e.num = n /\ Complete(e)
  BY <1>1, <1>3
<1>5. QED
  BY <1>1, <1>4

LEMMA StateReports ==
  ASSUME RegistryTypeOK', IsFiniteSet(dirs'), NEW body, WriteState(body),
         fm'.percent = 100, fm'.phases < 200
  PROVE  /\ \A n \in SectionNums' : \E d \in dirs' : d.num = n /\ Complete(d)
         /\ StatsComplete' = StatsTotal'
<1>1. PICK K \in Kept(MilestoneDirs') : fm' = Frontmatter(doc, K)' /\ doc' = body
  BY DEF WriteState
<1> DEFINE total == IF SectionNums' = {} \/ Cardinality(K) > Cardinality(SectionNums')
                      THEN Cardinality(K) ELSE Cardinality(SectionNums')
           percent == ComputeProgressPercent(SummariesIn(K), PlansIn(K), CompleteIn(K), total)
<1>2. /\ fm'.phases = total
      /\ fm'.percent = IF percent = NoPercent THEN doc'.progress ELSE percent
  BY <1>1 DEF Frontmatter
<1>3. IsFiniteSet(SectionNums')
  BY FiniteNumbers DEF SectionNums, Sections, RegistryTypeOK
<1>4. /\ MilestoneDirs' \in SUBSET dirs' /\ dirs' \subseteq DirType
      /\ SectionNums' = {} \/ \A d \in MilestoneDirs' : d.num \in SectionNums'
  BY DEF MilestoneDirs, InMilestone, SectionNums, Sections, RegistryTypeOK
<1>5. /\ total < 200 /\ percent \in {NoPercent, 100}
      /\ total = IF SectionNums' = {} \/ Cardinality(K) > Cardinality(SectionNums')
                   THEN Cardinality(K) ELSE Cardinality(SectionNums')
      /\ percent = ComputeProgressPercent(SummariesIn(K), PlansIn(K), CompleteIn(K), total)
  BY <1>2
<1> DEFINE D == dirs'
           M == MilestoneDirs'
           N == SectionNums'
<1>6. /\ \A n \in N : \E d \in D : d.num = n /\ Complete(d)
      /\ {d.num : d \in {e \in M : Complete(e)}} = N \cup {d.num : d \in M}
  <2>1. /\ IsFiniteSet(D) /\ D \subseteq DirType /\ M \in SUBSET D /\ K \in Kept(M)
        /\ IsFiniteSet(N) /\ (N = {} \/ \A d \in M : d.num \in N)
        /\ total < 200 /\ percent \in {NoPercent, 100}
        /\ total = IF N = {} \/ Cardinality(K) > Cardinality(N) THEN Cardinality(K)
                                                              ELSE Cardinality(N)
        /\ percent = ComputeProgressPercent(SummariesIn(K), PlansIn(K), CompleteIn(K), total)
    BY <1>1, <1>3, <1>4, <1>5
  <2> HIDE DEF total, percent, D, M, N
  <2>2. QED
    BY <2>1, DoneReports
<1>7. QED
  BY <1>6 DEF StatsComplete, StatsTotal

LEMMA CloseReports ==
  ASSUME RegistryTypeOK, IsFiniteSet(dirs), CloseMilestone,
         fm'.percent = 100, fm'.phases < 200
  PROVE  /\ \A n \in SectionNums : \E d \in dirs : d.num = n /\ Complete(d)
         /\ StatsComplete = StatsTotal
<1> DEFINE body == [doc EXCEPT !.status = "v1.0 milestone complete", !.of = Unknown,
                              !.phase = IF doc.compound THEN Unknown ELSE @,
                              !.plan = IF doc.compound THEN NotStarted ELSE @,
                              !.total = IF doc.compound THEN 0 ELSE @,
                              !.phases = IF doc.compound THEN 0 ELSE @]
<1>1. PICK K \in Kept(MilestoneDirs) : fm' = Frontmatter(body, K)
  BY DEF CloseMilestone
<1> HIDE DEF body
<1> DEFINE total == IF SectionNums = {} \/ Cardinality(K) > Cardinality(SectionNums)
                      THEN Cardinality(K) ELSE Cardinality(SectionNums)
           percent == ComputeProgressPercent(SummariesIn(K), PlansIn(K), CompleteIn(K), total)
<1>2. /\ fm'.phases = total
      /\ fm'.percent = IF percent = NoPercent THEN body.progress ELSE percent
  BY <1>1 DEF Frontmatter
<1>3. IsFiniteSet(SectionNums)
  BY FiniteNumbers DEF SectionNums, Sections, RegistryTypeOK
<1>4. /\ MilestoneDirs \in SUBSET dirs /\ dirs \subseteq DirType
      /\ SectionNums = {} \/ \A d \in MilestoneDirs : d.num \in SectionNums
  BY DEF MilestoneDirs, InMilestone, SectionNums, Sections, RegistryTypeOK
<1>5. /\ total < 200 /\ percent \in {NoPercent, 100}
      /\ total = IF SectionNums = {} \/ Cardinality(K) > Cardinality(SectionNums)
                   THEN Cardinality(K) ELSE Cardinality(SectionNums)
      /\ percent = ComputeProgressPercent(SummariesIn(K), PlansIn(K), CompleteIn(K), total)
  BY <1>2
<1> HIDE DEF total, percent
<1>6. /\ \A n \in SectionNums : \E d \in dirs : d.num = n /\ Complete(d)
      /\ {d.num : d \in {e \in MilestoneDirs : Complete(e)}}
           = SectionNums \cup {d.num : d \in MilestoneDirs}
  BY <1>1, <1>3, <1>4, <1>5, DoneReports
<1>7. QED
  BY <1>6 DEF StatsComplete, StatsTotal

(* What a step does to the progress in the frontmatter.                    *)
Written == \E body : WriteState(body)

LEMMA StateCommandReports ==
  ASSUME StateCommand
  PROVE  Written \/ fm'.percent = 0 \/ fm'.percent = fm.percent
<1>1. CASE \E n \in PhaseNums : BeginPhase(n) \/ PlannedPhase(n) \/ CompletePhase(n)
  BY <1>1 DEF BeginPhase, PlannedPhase, CompletePhase, Written
<1>2. CASE AdvancePlan
  BY <1>2 DEF AdvancePlan, Written
<1>3. CASE Sync
  BY <1>3 DEF Sync, Written
<1>4. CASE UpdateProgress
  BY <1>4 DEF UpdateProgress, Written
<1>5. CASE MilestoneSwitch
  BY <1>5 DEF MilestoneSwitch
<1>6. CASE UpdateStatus("Paused")
  <2> DEFINE body == [doc EXCEPT !.status = "Paused"]
  <2>1. PICK K \in Kept(MilestoneDirs) :
          fm' = [Frontmatter(body, K) EXCEPT !.phases = fm.phases, !.done = fm.done,
                                             !.percent = fm.percent]
    BY <1>6 DEF UpdateStatus
  <2> HIDE DEF body
  <2>2. QED
    BY <2>1 DEF Frontmatter
<1>7. CASE AddDecision(doc.phase[1]) \/ \E whole \in BOOLEAN : Prune(KeepRecent, whole)
  BY <1>7 DEF AddDecision, Prune, Written
<1>8. QED
  BY <1>1, <1>2, <1>3, <1>4, <1>5, <1>6, <1>7 DEF StateCommand

LEMMA FullReports ==
  ASSUME ProjectInv, ProjectInv', Next
  PROVE  HundredPercentMeansDone
<1>1. SUFFICES ASSUME fm'.percent = 100, fm.percent # 100, fm'.phases < 200
               PROVE  /\ \A n \in SectionNums' :
                           \E d \in dirs \cup dirs' : d.num = n /\ Complete(d)
                      /\ dirs' = dirs => StatsComplete' = StatsTotal'
  BY DEF HundredPercentMeansDone
<1>2. /\ RegistryTypeOK /\ IsFiniteSet(dirs) /\ RegistryTypeOK' /\ IsFiniteSet(dirs')
  BY DEF ProjectInv, RegistryInv, FilesInv
<1>3. CASE Written
  BY <1>1, <1>2, <1>3, StateReports DEF Written
<1>4. CASE AddPhase \/ AddPhaseBatch \/ InsertPhase \/ RoadmapProgress \/ ClearPhases \/ Agent
  <2>1. fm' = fm
    BY <1>4 DEF AddPhase, AddPhaseBatch, InsertPhase, RoadmapProgress, ClearPhases, Agent, docVars
  <2>2. QED
    BY <1>1, <2>1
<1>5. CASE RemovePhase(TRUE) \/ RemovePhase(FALSE) \/ PhaseComplete
  <2>1. Written \/ fm' = fm
    BY <1>5 DEF RemovePhase, PhaseComplete, CompletePhaseN, Written, docVars
  <2>2. QED
    BY <1>1, <1>3, <2>1
<1>6. CASE StateCommand
  BY <1>1, <1>3, <1>6, StateCommandReports
<1>7. CASE CompleteMilestone
  <2>1. CloseMilestone /\ roadmap' = roadmap
    BY <1>7 DEF CompleteMilestone, ArchivePhases, registryVars
  <2>2. /\ \A n \in SectionNums : \E d \in dirs : d.num = n /\ Complete(d)
        /\ StatsComplete = StatsTotal
    BY <1>1, <1>2, <2>1, CloseReports
  <2>3. SectionNums' = SectionNums
    BY <2>1 DEF SectionNums, Sections
  <2>4. dirs' = dirs => StatsComplete' = StatsComplete /\ StatsTotal' = StatsTotal
    BY <2>1 DEF StatsComplete, StatsTotal, MilestoneDirs, InMilestone, SectionNums, Sections
  <2>5. QED
    BY <2>2, <2>3, <2>4
<1>8. QED
  BY <1>4, <1>5, <1>6, <1>7 DEF Next

LEMMA LastReports ==
  ASSUME ProjectInv, Next
  PROVE  LastPhaseIsLast
<1>1. SUFFICES ASSUME doc'.status = "Milestone complete", doc.status # "Milestone complete"
               PROVE  \A n \in SectionNums' : ~Less(doc'.phase, n)
  BY DEF LastPhaseIsLast
<1>2. doc \in BodyType /\ RegistryTypeOK /\ PhaseNums \subseteq Nums
  BY SectionsListed DEF ProjectInv, RegistryInv, DocTypeOK
<1>3. CASE AddPhase \/ AddPhaseBatch \/ InsertPhase \/ RoadmapProgress \/ ClearPhases \/ Agent
  <2>1. doc' = doc
    BY <1>3 DEF AddPhase, AddPhaseBatch, InsertPhase, RoadmapProgress, ClearPhases, Agent, docVars
  <2>2. QED
    BY <1>1, <2>1
<1>4. CASE RemovePhase(TRUE) \/ RemovePhase(FALSE)
  <2>1. doc' = OnePhaseLess
    BY <1>4 DEF RemovePhase, WriteState
  <2>2. QED
    BY <1>1, <1>2, <2>1 DEF OnePhaseLess, BodyType
<1>5. CASE PhaseComplete
  <2>1. PICK n \in PhaseNums, whole \in BOOLEAN : CompletePhaseN(n, whole)
    BY <1>5 DEF PhaseComplete
  <2> DEFINE next == NextPhase(n)
  <2>2. doc' = doc \/ doc' = Transition(n, next)
    BY <2>1 DEF CompletePhaseN, WriteState, docVars
  <2>3. roadmap' = Ticked(n) /\ n \in Nums
    BY <1>2, <2>1 DEF CompletePhaseN, TickPhase
  <2> HIDE DEF next
  <2>4. next = NoNext /\ doc'.phase = n
    BY <1>1, <1>2, <2>2 DEF Transition, BodyType
  <2>5. LaterPlaces(n) = {}
    <3>1. SUFFICES ASSUME LaterPlaces(n) # {} PROVE FALSE
      OBVIOUS
    <3>2. LaterDirs(n) = {}
      BY <2>4 DEF next, NextPhase, NoNext
    <3> DEFINE i == First(LaterPlaces(n))
    <3>3. i \in LaterPlaces(n)
      <4>1. LaterPlaces(n) \subseteq Nat
        BY <1>2 DEF LaterPlaces, RegistryTypeOK
      <4>2. QED
        BY <3>1, <4>1, FirstPlace
    <3>4. roadmap[i].num = <<0, 0>>
      BY <2>4, <3>1, <3>2 DEF next, NextPhase, NoNext
    <3>5. Less(n, <<0, 0>>)
      BY <3>3, <3>4 DEF LaterPlaces
    <3>6. QED
      BY <2>3, <3>5 DEF Less, Nums
  <2>6. SectionNums' \subseteq SectionNums
    <3> DEFINE open == {i \in Places(n) : roadmap[i].box = "open"}
               k == First(open)
    <3>1. roadmap' = roadmap \/ roadmap' = [roadmap EXCEPT ![k].box = "checked"]
      BY <2>3 DEF Ticked
    <3> HIDE DEF k
    <3>2. \A i \in DOMAIN roadmap : roadmap[i] \in SectionType
      BY <1>2 DEF RegistryTypeOK
    <3>3. /\ DOMAIN roadmap' = DOMAIN roadmap
          /\ \A i \in DOMAIN roadmap : roadmap'[i].num = roadmap[i].num
      BY <3>1, <3>2 DEF SectionType
    <3>4. QED
      BY <3>3 DEF SectionNums, Sections
  <2>7. QED
    BY <2>4, <2>5, <2>6 DEF LaterPlaces, SectionNums, Sections
<1>6. CASE CompleteMilestone
  BY <1>1, <1>2, <1>6 DEF CompleteMilestone, CloseMilestone, BodyType
<1>7. CASE StateCommand
  <2>1. CASE \E n \in PhaseNums : BeginPhase(n) \/ PlannedPhase(n) \/ CompletePhase(n)
    BY <1>1, <1>2, <2>1 DEF BeginPhase, PlannedPhase, CompletePhase, WriteState, BodyType
  <2>2. CASE AdvancePlan
    <3> DEFINE closed == [doc EXCEPT !.status = "Phase complete - ready for verification"]
               moved == [doc EXCEPT !.plan = @ + 1, !.status = "Ready to execute"]
               none == doc.plan = NotStarted \/ doc.total = 0
               last == doc.plan # NotStarted /\ doc.total > 0 /\ doc.plan >= doc.total
    <3>1. doc' = CASE none -> doc [] last -> closed [] OTHER -> moved
      BY <2>2 DEF AdvancePlan, WriteState
    <3>2. closed.status # "Milestone complete" /\ moved.status # "Milestone complete"
      BY <1>2 DEF BodyType
    <3>3. none => ~last
      BY <1>2 DEF BodyType
    <3> HIDE DEF closed, moved, none, last
    <3>4. QED
      BY <1>1, <3>1, <3>2, <3>3
  <2>3. CASE Sync
    BY <1>1, <1>2, <2>3 DEF Sync, WriteState, BodyType
  <2>4. CASE UpdateProgress
    BY <1>1, <1>2, <2>4 DEF UpdateProgress, WriteState, BodyType
  <2>5. CASE MilestoneSwitch \/ UpdateStatus("Paused")
    BY <1>1, <1>2, <2>5 DEF MilestoneSwitch, UpdateStatus, BodyType
  <2>6. CASE AddDecision(doc.phase[1]) \/ \E whole \in BOOLEAN : Prune(KeepRecent, whole)
    BY <1>1, <2>6 DEF AddDecision, Prune, WriteState
  <2>7. QED
    BY <1>7, <2>1, <2>2, <2>3, <2>4, <2>5, <2>6 DEF StateCommand
<1>8. QED
  BY <1>3, <1>4, <1>5, <1>6, <1>7 DEF Next

LEMMA CrashReports ==
  ASSUME ProjectInv, Next
  PROVE  CrashedAddIsReported
<1>1. SUFFICES ASSUME NEW d \in dirs' \ dirs, d.num[2] = 0,
                      "crash" \in torn', "crash" \notin torn
               PROVE  d.num \in UnlistedDirs'
  BY DEF CrashedAddIsReported
<1>2. /\ RegistryInv /\ RegistryTypeOK /\ IsFiniteSet(dirs) /\ NumbersInv
      /\ CountOK /\ MaxCommands \in Nat
  BY ProjectAssumption DEF ProjectInv, RegistryInv, FilesInv
<1>3. CASE \/ RoadmapProgress \/ ClearPhases \/ Agent \/ PhaseComplete
           \/ CompleteMilestone \/ StateCommand
  <2>1. torn' = torn
    BY <1>3 DEF RoadmapProgress, UpdatePlanProgress, ClearPhases, PhasesClear, Agent,
                Scaffold, WriteContext, WritePlan, WriteSummary, PhaseComplete,
                CompletePhaseN, TickPhase, CompleteMilestone, ArchivePhases, StateCommand,
                registryVars
  <2>2. QED
    BY <1>1, <2>1
<1>4. CASE RemovePhase(TRUE) \/ RemovePhase(FALSE)
  <2>1. PICK n \in PhaseNums, padded \in BOOLEAN, force \in BOOLEAN : PhaseRemove(n, padded, force)
    BY <1>4 DEF RemovePhase
  <2>2. "crash" \in torn' => "crash" \in torn
    BY <2>1 DEF PhaseRemove
  <2>3. QED
    BY <1>1, <2>2
<1>5. CASE AddPhaseBatch
  <2>1. torn' \subseteq torn \cup {"first"}
    BY <1>5 DEF AddPhaseBatch, PhaseAddBatch, NothingBefore
  <2>2. QED
    BY <1>1, <2>1
<1>6. CASE InsertPhase
  <2>1. PICK after \in SectionNums, name \in Names, padded, whole \in BOOLEAN :
          PhaseInsert(after, padded, name, whole)
    BY <1>6 DEF InsertPhase
  <2> DEFINE dec == NextDecimal(after[1])
  <2>2. dirs' = dirs \cup {Dir(<<after[1], dec>>, name)}
    BY <2>1 DEF PhaseInsert
  <2>3. dec \in Nat /\ 1 <= dec
    <3>1. after[1] \in Nat
      BY <1>2, SectionsListed DEF Nums
    <3>2. QED
      BY <1>2, <3>1, NextDecimalIsNew
  <2> HIDE DEF dec
  <2>4. d.num = <<after[1], dec>>
    BY <1>1, <2>2 DEF Dir
  <2>5. QED
    BY <1>1, <2>3, <2>4
<1>7. CASE AddPhase
  <2>1. PICK name \in Names, whole \in BOOLEAN : PhaseAdd(name, whole)
    BY <1>7 DEF AddPhase
  <2> DEFINE new == NextInteger
  <2>2. /\ dirs' = dirs \cup {Dir(<<new, 0>>, name)}
        /\ whole => torn' = torn \cup NothingBefore(new)
        /\ ~whole => roadmap' = roadmap
    BY <2>1 DEF PhaseAdd
  <2>3. new \in Nat /\ <<new, 0>> \notin PhaseNums
    <3>1. /\ new \in Nat /\ new + 2 * (MaxCommands - count) <= Backlog
          /\ \A k \in Nat : new <= k /\ k < Backlog => <<k, 0>> \notin PhaseNums
      BY <1>2, NextIntegerIsNew DEF CountOK
    <3>2. count \in Nat /\ count < MaxCommands
      BY <1>2, <1>7 DEF AddPhase, Command, CountOK
    <3> HIDE DEF new
    <3>3. new < Backlog
      BY <1>2, <3>1, <3>2 DEF Backlog
    <3>4. QED
      BY <3>1, <3>3
  <2> HIDE DEF new
  <2>4. roadmap' = roadmap
    BY <1>1, <2>2 DEF NothingBefore
  <2>5. d.num = <<new, 0>>
    BY <1>1, <2>2 DEF Dir
  <2>6. <<new, 0>> \notin SectionNums' /\ d.num \in DiskNums'
    BY <1>1, <2>3, <2>4 DEF PhaseNums, SectionNums, Sections, DiskNums
  <2>7. QED
    BY <2>5, <2>6 DEF UnlistedDirs
<1>8. QED
  BY <1>3, <1>4, <1>5, <1>6, <1>7 DEF Next

LEMMA SyncReports ==
  ASSUME ProjectInv
  PROVE  SyncedPlansAreValid
<1>1. SUFFICES ASSUME Sync, NEW d \in dirs, ValidatedDirs' = {d}, SyncPhase = {d},
                      ~StatusDrift(d)'
               PROVE  StateIsValid'
  BY DEF SyncedPlansAreValid
<1>2. doc \in BodyType
  BY DEF ProjectInv, DocTypeOK
<1> DEFINE all == IF Cardinality(dirs) > Cardinality(SectionNums)
                    THEN Cardinality(dirs) ELSE Cardinality(SectionNums)
           percent == ComputeProgressPercent(SummariesIn(dirs), PlansIn(dirs),
                                             CompleteIn(dirs), all)
           progress == IF percent = NoPercent THEN 0 ELSE percent
           synced == [doc EXCEPT !.progress = progress]
<1>3. \/ (doc.compound \/ doc.total = 0 \/ SyncPhase = {}) /\ doc' = synced
      \/ \E e \in SyncPhase : doc' = [synced EXCEPT !.total = e.plans]
  BY <1>1 DEF Sync, WriteState
<1> HIDE DEF progress
<1>4. doc'.compound = doc.compound
  BY <1>2, <1>3 DEF BodyType
<1>5. ~doc'.compound
  BY <1>1 DEF ValidatedDirs
<1>6. doc'.total = 0 \/ doc'.total = d.plans
  BY <1>1, <1>2, <1>3, <1>4, <1>5 DEF BodyType
<1>7. ~PlanCountDrift(d)'
  BY <1>6 DEF PlanCountDrift
<1>8. QED
  BY <1>1, <1>7 DEF StateIsValid

(* What the commands report is what the directories show: below 200 phases *)
(* a progress of 100 percent finds every phase of the ROADMAP complete,    *)
(* stats included; the phase that completes the milestone is the last one; *)
(* validate health reports the directory of a phase add that crashed; and  *)
(* state validate finds the plan count that state sync has brought up to   *)
(* date (state-document.cjs, cmdPhaseComplete, cmdStateSync).              *)
THEOREM ReportsStayTrue == Spec => ReportsAreTrue
<1>1. ProjectInv /\ ProjectInv' /\ [Next]_vars
        => [/\ HundredPercentMeansDone /\ LastPhaseIsLast
            /\ CrashedAddIsReported /\ SyncedPlansAreValid]_vars
  BY FullReports, LastReports, CrashReports, SyncReports
<1>2. QED
  BY ProjectStaysWhole, <1>1, PTL DEF Spec, ReportsAreTrue

=============================================================================
