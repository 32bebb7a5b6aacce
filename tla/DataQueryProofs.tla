--------------------------- MODULE DataQueryProofs ---------------------------
(***************************************************************************)
(* Reading a series page by page, for every set of rows, times and filters *)
(* and every limit: what a request returns is a slice of what is stored in *)
(* its range, although each year is read with a limit of its own, and the  *)
(* loop of _query_with_limit puts the slices together without a gap.       *)
(***************************************************************************)
EXTENDS DataQuery, FiniteSetTheorems, FunctionTheorems, TLAPS

-------------------------------------------------------------------------------
(* The rank of an element. *)

\* The elements up to x.
UpTo(S, x) == {y \in S : y <= x}

\* Every element has a place among those of its set, ...
LEMMA RankType ==
    ASSUME NEW S, S \subseteq Int, IsFiniteSet(S), NEW x \in S
    PROVE  Rank(S, x) \in 1..Cardinality(S)
<1>1. UpTo(S, x) \subseteq S /\ {x} \subseteq UpTo(S, x)
  BY DEF UpTo
<1>2. IsFiniteSet(UpTo(S, x)) /\ Cardinality(UpTo(S, x)) <= Cardinality(S)
  BY <1>1, FS_Subset
<1>3. Cardinality({x}) = 1 /\ Cardinality({x}) <= Cardinality(UpTo(S, x))
  BY <1>1, <1>2, FS_Subset, FS_Singleton
<1>4. Cardinality(UpTo(S, x)) \in Nat /\ Cardinality(S) \in Nat
  BY <1>2, FS_CardinalityType
<1>5. Rank(S, x) = Cardinality(UpTo(S, x))
  BY DEF Rank, UpTo
<1>6. QED
  BY <1>2, <1>3, <1>4, <1>5

\* ... a later one than the elements before it, ...
LEMMA RankMonotone ==
    ASSUME NEW S, S \subseteq Int, IsFiniteSet(S), NEW x \in S, NEW y \in S, x < y
    PROVE  Rank(S, x) < Rank(S, y)
<1>1. /\ UpTo(S, x) \subseteq UpTo(S, y) /\ UpTo(S, y) \subseteq S
      /\ y \in UpTo(S, y) /\ y \notin UpTo(S, x)
  <2>1. x \in Int /\ y \in Int /\ \A z \in S : z \in Int /\ (z <= x => z <= y)
    OBVIOUS
  <2>2. ~ (y <= x) /\ y <= y
    BY <2>1
  <2>3. QED
    BY <2>1, <2>2 DEF UpTo
<1>2. IsFiniteSet(UpTo(S, y))
  BY <1>1, FS_Subset
<1>3. /\ Cardinality(UpTo(S, x)) <= Cardinality(UpTo(S, y))
      /\ Cardinality(UpTo(S, x)) # Cardinality(UpTo(S, y))
      /\ IsFiniteSet(UpTo(S, x))
  BY <1>1, <1>2, FS_Subset
<1>4. Cardinality(UpTo(S, x)) \in Nat /\ Cardinality(UpTo(S, y)) \in Nat
  BY <1>2, <1>3, FS_CardinalityType
<1>5. Rank(S, x) = Cardinality(UpTo(S, x)) /\ Rank(S, y) = Cardinality(UpTo(S, y))
  BY DEF Rank, UpTo
<1>6. QED
  BY <1>3, <1>4, <1>5

\* ... so that the order of places is that of elements.
LEMMA RankOrder ==
    ASSUME NEW S, S \subseteq Int, IsFiniteSet(S), NEW x \in S, NEW y \in S
    PROVE  /\ x <= y <=> Rank(S, x) <= Rank(S, y)
           /\ x = y <=> Rank(S, x) = Rank(S, y)
<1>1. Rank(S, x) \in Nat /\ Rank(S, y) \in Nat /\ x \in Int /\ y \in Int
      /\ Cardinality(S) \in Nat
  <2>1. Cardinality(S) \in Nat
    BY FS_CardinalityType
  <2>2. Rank(S, x) \in 1..Cardinality(S) /\ Rank(S, y) \in 1..Cardinality(S)
    BY RankType
  <2>3. QED
    BY <2>1, <2>2
<1>2. x < y => Rank(S, x) < Rank(S, y)
  BY RankMonotone
<1>3. y < x => Rank(S, y) < Rank(S, x)
  BY RankMonotone
<1>4. QED
  BY <1>1, <1>2, <1>3

\* Every place is taken.
LEMMA RankTaken ==
    ASSUME NEW S, S \subseteq Int, IsFiniteSet(S), NEW i \in 1..Cardinality(S)
    PROVE  \E x \in S : Rank(S, x) = i
<1>1. Cardinality(S) \in Nat
  BY FS_CardinalityType
<1> DEFINE N == 1..Cardinality(S)
           f == [x \in S |-> Rank(S, x)]
<1>2. f \in [S -> N]
  BY RankType
<1>3. \A x, y \in S : f[x] = f[y] => x = y
  BY RankOrder
<1>4. f \in Injection(S, N)
  BY <1>2, <1>3 DEF Injection, IsInjective
<1>5. IsFiniteSet(N) /\ Cardinality(N) = Cardinality(S)
  BY <1>1, FS_Interval
<1>6. f \in Surjection(S, N)
  BY <1>4, <1>5, FS_Injection
<1>7. \E x \in S : f[x] = i
  BY <1>6 DEF Surjection
<1>8. QED
  BY <1>7

\* The first n elements are n, when there are as many.
LEMMA FirstOnes ==
    ASSUME NEW S, S \subseteq Int, IsFiniteSet(S), NEW n \in Nat, n <= Cardinality(S),
           NEW F, F = {x \in S : Rank(S, x) <= n}
    PROVE  IsFiniteSet(F) /\ Cardinality(F) = n
<1>1. Cardinality(S) \in Nat
  BY FS_CardinalityType
<1>2. IsFiniteSet(F)
  BY FS_Subset
<1> DEFINE f == [x \in F |-> Rank(S, x)]
<1>3. f \in [F -> 1..n]
  <2>1. \A x \in F : x \in S /\ Rank(S, x) <= n
    OBVIOUS
  <2>2. \A x \in F : Rank(S, x) \in 1..Cardinality(S)
    BY <2>1, RankType
  <2>3. \A x \in F : Rank(S, x) \in 1..n
    BY <1>1, <2>1, <2>2
  <2>4. QED
    BY <2>3
<1>4. \A x, y \in F : f[x] = f[y] => x = y
  BY RankOrder
<1>5. \A i \in 1..n : \E x \in F : f[x] = i
  <2>1. SUFFICES ASSUME NEW i \in 1..n PROVE \E x \in F : f[x] = i
    OBVIOUS
  <2>2. PICK x \in S : Rank(S, x) = i
    <3>1. i \in 1..Cardinality(S)
      BY <1>1
    <3>2. QED
      BY <3>1, RankTaken
  <2>3. x \in F
    BY <2>2
  <2>4. QED
    BY <2>2, <2>3
<1>6. f \in Injection(F, 1..n) /\ f \in Surjection(F, 1..n)
  BY <1>3, <1>4, <1>5 DEF Injection, IsInjective, Surjection
<1>7. IsFiniteSet(1..n) /\ Cardinality(1..n) = n
  BY FS_Interval
<1>8. QED
  BY <1>2, <1>6, <1>7, FS_Injection

\* The elements with certain places.
Slice(S, A) == {x \in S : Rank(S, x) \in A}

\* S is a part of T, and what it leaves out has n elements of S before it.
KeepsFirst(T, S, n) ==
    /\ T \subseteq Int /\ IsFiniteSet(T) /\ S \subseteq T /\ n \in Nat
    /\ \A c \in T \ S : Cardinality({s \in S : s < c}) >= n

\* Then the first n elements, and their places, are the same in both.
LEMMA SliceKept ==
    ASSUME NEW T, NEW S, NEW n, KeepsFirst(T, S, n), NEW A \in SUBSET (1..n)
    PROVE  Slice(S, A) = Slice(T, A)
<1>0. /\ T \subseteq Int /\ IsFiniteSet(T) /\ S \subseteq T /\ n \in Nat /\ A \subseteq 1..n
      /\ \A c \in T \ S : Cardinality({s \in S : s < c}) >= n
  BY DEF KeepsFirst
<1>1. IsFiniteSet(S) /\ S \subseteq Int
  BY <1>0, FS_Subset
<1>2. \A x \in S : Rank(S, x) \in Nat
  <2>1. Cardinality(S) \in Nat
    BY <1>1, FS_CardinalityType
  <2>2. \A x \in S : Rank(S, x) \in 1..Cardinality(S)
    BY <1>1, RankType
  <2>3. QED
    BY <2>1, <2>2
<1>3. ASSUME NEW x \in T, NEW R, S \subseteq R, R \subseteq T, x \in R, NEW c \in T \ S, c <= x
      PROVE  Rank(R, x) > n
  <2> DEFINE B == {s \in S : s < c}
  <2>1. IsFiniteSet(B) /\ Cardinality(B) \in Nat /\ Cardinality(B) >= n
    <3>1. IsFiniteSet(B)
      BY <1>1, FS_Subset
    <3>2. Cardinality(B) >= n
      BY <1>0, <1>3
    <3>3. QED
      BY <3>1, <3>2, FS_CardinalityType
  <2>2. x \notin B /\ c \in Int /\ x \in Int /\ \A s \in S : s \in Int
    BY <1>0, <1>3
  <2>3. IsFiniteSet(B \cup {x}) /\ Cardinality(B \cup {x}) = Cardinality(B) + 1
    BY <2>1, <2>2, FS_AddElement
  <2>4. B \cup {x} \subseteq UpTo(R, x)
    <3>1. \A s \in B : s \in R /\ s <= x
      BY <1>3, <2>2
    <3>2. x <= x
      BY <2>2
    <3>3. QED
      BY <1>3, <3>1, <3>2 DEF UpTo
  <2>5. IsFiniteSet(UpTo(R, x))
    <3>1. UpTo(R, x) \subseteq T
      BY <1>3 DEF UpTo
    <3>2. QED
      BY <1>0, <3>1, FS_Subset
  <2>6. Cardinality(UpTo(R, x)) \in Nat /\ Cardinality(B \cup {x}) <= Cardinality(UpTo(R, x))
    BY <2>4, <2>5, FS_Subset, FS_CardinalityType
  <2>7. Rank(R, x) = Cardinality(UpTo(R, x))
    BY DEF Rank, UpTo
  <2> HIDE DEF B
  <2>8. QED
    BY <1>0, <2>1, <2>3, <2>6, <2>7
<1>4. ASSUME NEW x \in S, \A c \in T \ S : ~ (c <= x) PROVE Rank(S, x) = Rank(T, x)
  <2>1. {y \in S : y <= x} = {y \in T : y <= x}
    BY <1>0, <1>4
  <2>2. QED
    BY <2>1 DEF Rank
<1>5. ASSUME NEW x \in S, Rank(S, x) \in A PROVE Rank(T, x) \in A
  <2>1. Rank(S, x) <= n /\ Rank(S, x) \in Nat
    <3>1. Rank(S, x) \in 1..n
      BY <1>0, <1>5
    <3>2. QED
      BY <1>0, <3>1
  <2>2. \A c \in T \ S : ~ (c <= x)
    <3>1. SUFFICES ASSUME NEW c \in T \ S, c <= x PROVE FALSE
      OBVIOUS
    <3>2. Rank(S, x) > n
      BY <1>0, <1>3, <3>1
    <3>3. QED
      BY <1>0, <2>1, <3>2
  <2>3. QED
    BY <1>4, <1>5, <2>2
<1>6. ASSUME NEW x \in T, Rank(T, x) \in A PROVE x \in S /\ Rank(S, x) \in A
  <2>1. Rank(T, x) <= n /\ Rank(T, x) \in Nat
    <3>1. Rank(T, x) \in 1..n
      BY <1>0, <1>6
    <3>2. QED
      BY <1>0, <3>1
  <2>2. \A c \in T \ S : ~ (c <= x)
    <3>1. SUFFICES ASSUME NEW c \in T \ S, c <= x PROVE FALSE
      OBVIOUS
    <3>2. Rank(T, x) > n
      BY <1>0, <1>3, <3>1
    <3>3. QED
      BY <1>0, <2>1, <3>2
  <2>3. x \in S
    BY <1>0, <2>2
  <2>4. QED
    BY <1>4, <1>6, <2>2, <2>3
<1>7. QED
  BY <1>0, <1>5, <1>6 DEF Slice

\* The first n of a set: all that are not among them come later, and there are n.
LEMMA FirstPage ==
    ASSUME NEW T, T \subseteq Int, IsFiniteSet(T), NEW n \in Nat,
           NEW P, P = Slice(T, 1..n)
    PROVE  /\ P \subseteq T /\ IsFiniteSet(P) /\ Cardinality(P) <= n
           /\ \A t \in T \ P : Cardinality(P) = n /\ \A x \in P : x < t
<1>1. Cardinality(T) \in Nat
  BY FS_CardinalityType
<1>2. \A x \in T : Rank(T, x) \in 1..Cardinality(T)
  BY RankType
<1>3. P = {x \in T : Rank(T, x) <= n}
  <2>1. \A x \in T : Rank(T, x) \in 1..n <=> Rank(T, x) <= n
    BY <1>1, <1>2
  <2>2. QED
    BY <2>1 DEF Slice
<1>4. P \subseteq T /\ IsFiniteSet(P)
  BY FS_Subset DEF Slice
<1>5. ASSUME n <= Cardinality(T) PROVE Cardinality(P) = n
  BY <1>3, <1>5, FirstOnes
<1>6. ASSUME ~ (n <= Cardinality(T)) PROVE Cardinality(P) <= n
  <2>1. Cardinality(P) <= Cardinality(T) /\ Cardinality(P) \in Nat
    BY <1>4, FS_Subset, FS_CardinalityType
  <2>2. QED
    BY <1>1, <1>6, <2>1
<1>7. ASSUME NEW t \in T \ P PROVE Cardinality(P) = n /\ \A x \in P : x < t
  <2>1. Rank(T, t) > n /\ Rank(T, t) <= Cardinality(T) /\ Rank(T, t) \in Nat
    BY <1>1, <1>2, <1>3
  <2>2. Cardinality(P) = n
    BY <1>1, <1>5, <2>1
  <2>3. ASSUME NEW x \in P PROVE x < t
    <3>1. x \in T /\ Rank(T, x) <= n /\ Rank(T, x) \in Nat
      BY <1>1, <1>2, <1>3
    <3>2. ~ (Rank(T, t) <= Rank(T, x))
      BY <2>1, <3>1
    <3>3. ~ (t <= x)
      BY <3>1, <3>2, RankOrder
    <3>4. t \in Int /\ x \in Int
      BY <3>1
    <3>5. QED
      BY <3>3, <3>4
  <2>4. QED
    BY <2>2, <2>3
<1>8. QED
  BY <1>4, <1>5, <1>6, <1>7

\* A page that is not empty has a last value.
LEMMA HasMax ==
    ASSUME NEW S, S \subseteq Nat, IsFiniteSet(S), Cardinality(S) >= 1, NEW m, m = Max(S)
    PROVE  m \in S /\ \A x \in S : x <= m
<1>1. Cardinality(S) \in Nat /\ S \subseteq Int
  BY FS_CardinalityType
<1>2. PICK x \in S : Rank(S, x) = Cardinality(S)
  <2>1. Cardinality(S) \in 1..Cardinality(S)
    BY <1>1
  <2>2. QED
    BY <1>1, <2>1, RankTaken
<1>3. \A y \in S : x >= y
  <2>1. SUFFICES ASSUME NEW y \in S PROVE x >= y
    OBVIOUS
  <2>2. Rank(S, y) <= Rank(S, x)
    <3>1. Rank(S, y) \in 1..Cardinality(S)
      BY <1>1, RankType
    <3>2. QED
      BY <1>1, <1>2, <3>1
  <2>3. y <= x
    BY <1>1, <2>2, RankOrder
  <2>4. QED
    BY <2>3
<1>4. m \in S /\ \A y \in S : m >= y
  BY <1>2, <1>3 DEF Max
<1>5. QED
  BY <1>4

\* The elements of a set in order.
LEMMA AscendingParts ==
    ASSUME NEW S, S \subseteq Nat, IsFiniteSet(S), NEW a, a = Ascending(S)
    PROVE  /\ a \in Seq(Nat) /\ Len(a) = Cardinality(S)
           /\ \A i \in 1..Len(a) : a[i] \in S
           /\ \A i, j \in 1..Len(a) : i < j => a[i] < a[j]
           /\ \A x \in S : \E i \in 1..Len(a) : a[i] = x
<1>1. Cardinality(S) \in Nat /\ S \subseteq Int
  BY FS_CardinalityType
<1>2. a = [i \in 1..Cardinality(S) |-> CHOOSE x \in S : Rank(S, x) = i]
  BY DEF Ascending
<1>3. ASSUME NEW i \in 1..Cardinality(S) PROVE a[i] \in S /\ Rank(S, a[i]) = i
  <2>1. \E x \in S : Rank(S, x) = i
    BY <1>1, RankTaken
  <2>2. a[i] = CHOOSE x \in S : Rank(S, x) = i
    BY <1>2
  <2>3. QED
    BY <2>1, <2>2
<1>4. a \in [1..Cardinality(S) -> Nat]
  BY <1>2, <1>3
<1>5. a \in Seq(Nat) /\ Len(a) = Cardinality(S)
  BY <1>1, <1>4
<1>6. ASSUME NEW i \in 1..Len(a), NEW j \in 1..Len(a), i < j PROVE a[i] < a[j]
  <2>1. a[i] \in S /\ a[j] \in S /\ Rank(S, a[i]) = i /\ Rank(S, a[j]) = j
    BY <1>3, <1>5
  <2>2. ~ (Rank(S, a[j]) <= Rank(S, a[i]))
    BY <1>6, <2>1
  <2>3. ~ (a[j] <= a[i])
    BY <1>1, <2>1, <2>2, RankOrder
  <2>4. a[i] \in Int /\ a[j] \in Int
    BY <1>1, <2>1
  <2>5. QED
    BY <2>3, <2>4
<1>7. ASSUME NEW x \in S PROVE \E i \in 1..Len(a) : a[i] = x
  <2>1. PICK i \in 1..Len(a) : i = Rank(S, x)
    BY <1>1, <1>5, RankType
  <2>2. a[i] \in S /\ Rank(S, a[i]) = Rank(S, x)
    BY <1>3, <1>5, <2>1
  <2>3. a[i] = x
    BY <1>1, <2>2, RankOrder
  <2>4. QED
    BY <2>3
<1>8. QED
  BY <1>3, <1>5, <1>6, <1>7

-------------------------------------------------------------------------------
(* A page *)

\* The columns of Cassandra: of a second each, and none from after the last.
Stored(cells) == \A c \in cells : \E s \in 0..MaxTime : c.col = s * Milli

\* The URI shown for a row leads to the row key that its values are written under.
LEMMA KeyFound ==
    ASSUME NEW row \in Rows
    PROVE  ReadKey(Uri(row)) = WriteKey(row)
<1>1. /\ row.summary \in {"base", "aggregation", "statistics", "average"} /\ row.window \in Nat
      /\ row.summary = "base" => row.window = 0
  BY ClientAssumption DEF InverseSummaryTypes
<1>2. CASE row.summary = "base"
  <2>1. Uri(row) = <<row.type, "base">>
    BY <1>2 DEF Uri
  <2>2. SummaryTypes["base"] = "base"
    BY DEF SummaryTypes
  <2>3. ReadKey(Uri(row)) = RowKey(row.type, "base", 0)
    BY <2>1, <2>2 DEF ReadKey
  <2>4. QED
    BY <1>1, <1>2, <2>3 DEF WriteKey
<1>3. CASE row.summary # "base"
  <2>1. Uri(row) = <<row.type, InverseSummaryTypes[row.summary], row.window>>
    BY <1>3 DEF Uri
  <2>2. SummaryTypes[InverseSummaryTypes[row.summary]] = row.summary
    BY <1>1 DEF SummaryTypes, InverseSummaryTypes
  <2>3. ReadKey(Uri(row)) = RowKey(row.type, row.summary, row.window)
    BY <2>1, <2>2 DEF ReadKey
  <2>4. QED
    BY <1>1, <2>3 DEF WriteKey
<1>4. QED
  BY <1>2, <1>3

\* The seconds of a series in a range.
Between(cells, lo, hi) == {t \in Times(cells) : lo <= t /\ t <= hi}

\* There are finitely many.
LEMMA TimesType ==
    ASSUME NEW cells, Stored(cells)
    PROVE  /\ Times(cells) \subseteq 0..MaxTime /\ IsFiniteSet(Times(cells))
           /\ \A t \in Nat : t \in Times(cells) <=>
                \E c \in cells : c.key = WriteKey(series) /\ c.col = t * Milli
<1>1. ASSUME NEW c \in cells
      PROVE  c.col \div Milli \in 0..MaxTime /\ c.col = (c.col \div Milli) * Milli
  <2>1. PICK s \in 0..MaxTime : c.col = s * Milli
    BY DEF Stored
  <2>2. s \in Nat /\ c.col = s * 1000
    BY <2>1, ClientAssumption DEF Milli
  <2>3. c.col \div Milli = s
    BY <2>2 DEF Milli
  <2>4. QED
    BY <2>1, <2>3
<1>2. Times(cells) \subseteq 0..MaxTime
  BY <1>1 DEF Times
<1>3. IsFiniteSet(Times(cells))
  <2>1. IsFiniteSet(0..MaxTime)
    BY ClientAssumption, FS_Interval
  <2>2. QED
    BY <1>2, <2>1, FS_Subset
<1>4. \A t \in Nat : (t * Milli) \div Milli = t
  BY DEF Milli
<1>5. QED
  BY <1>1, <1>2, <1>3, <1>4 DEF Times

\* A query reads each year up to n columns: what it leaves out has n before it.
LEMMA QueryKeeps ==
    ASSUME Stored(store), series \in Rows, NEW lo \in Int, NEW hi \in Int, NEW n \in Nat,
           NEW T, T = Between(store, lo, hi),
           NEW S, S = Serialize(Multiget(store, ReadKey(Uri(series)), lo * Milli, hi * Milli, n))
    PROVE  T \subseteq Nat /\ KeepsFirst(T, S, n)
<1> DEFINE key == WriteKey(series)
<1>1. PICK cols : cols = {d.col : d \in {c \in store : c.key = key /\ lo * Milli <= c.col
                                                                 /\ c.col <= hi * Milli}}
  OBVIOUS
<1>2. T \subseteq Times(store) /\ T \subseteq Nat /\ IsFiniteSet(T)
  <2>1. T \subseteq Times(store)
    BY DEF Between
  <2>2. Times(store) \subseteq Nat /\ IsFiniteSet(Times(store))
    BY TimesType, ClientAssumption
  <2>3. QED
    BY <2>1, <2>2, FS_Subset
<1>3. \A t \in Nat : /\ lo <= t <=> lo * Milli <= t * Milli
                     /\ t <= hi <=> t * Milli <= hi * Milli
  BY DEF Milli
<1>4. \A t \in T : t * Milli \in cols
  <2>1. SUFFICES ASSUME NEW t \in T PROVE t * Milli \in cols
    OBVIOUS
  <2>2. t \in Nat /\ t \in Times(store) /\ lo <= t /\ t <= hi
    BY <1>2 DEF Between
  <2>3. PICK c \in store : c.key = key /\ c.col = t * Milli
    BY <2>2, TimesType
  <2>4. lo * Milli <= c.col /\ c.col <= hi * Milli
    BY <1>3, <2>2, <2>3
  <2>5. QED
    BY <1>1, <2>3, <2>4
<1>5. \A d \in cols : d \div Milli \in T /\ d = (d \div Milli) * Milli /\ d \in Nat
  <2>1. SUFFICES ASSUME NEW d \in cols
                 PROVE  d \div Milli \in T /\ d = (d \div Milli) * Milli /\ d \in Nat
    OBVIOUS
  <2>2. PICK c \in store : c.key = key /\ c.col = d /\ lo * Milli <= d /\ d <= hi * Milli
    BY <1>1
  <2>3. PICK t \in 0..MaxTime : d = t * Milli
    BY <2>2 DEF Stored
  <2>4. t \in Nat /\ d \in Nat /\ d \div Milli = t
    BY <2>3, ClientAssumption DEF Milli
  <2>5. t \in Times(store)
    BY <2>2, <2>3, <2>4, TimesType
  <2>6. t \in T
    BY <1>3, <2>2, <2>3, <2>4, <2>5 DEF Between
  <2>7. QED
    BY <2>3, <2>4, <2>6
<1>6. PICK kept : kept = {c \in cols : Cardinality({d \in cols : Year(d) = Year(c) /\ d <= c}) <= n}
  OBVIOUS
<1>7. S = {c \div Milli : c \in kept}
  BY <1>1, <1>6, KeyFound DEF Serialize, Multiget
<1>8. S \subseteq T
  BY <1>5, <1>6, <1>7
<1>9. ASSUME NEW c \in T \ S PROVE Cardinality({s \in S : s < c}) >= n
  <2>1. PICK m : m = c * Milli
    OBVIOUS
  <2>2. m \in cols /\ m \in Nat /\ m \div Milli = c /\ c \in Nat
    BY <1>2, <1>4, <1>9, <2>1 DEF Milli
  <2>3. m \notin kept
    BY <1>7, <1>9, <2>2
  <2>4. PICK Y : Y = {d \in cols : Year(d) = Year(m)}
    OBVIOUS
  <2>5. Y \subseteq Int /\ IsFiniteSet(Y) /\ m \in Y
    <3>1. cols \subseteq Nat
      BY <1>5
    <3>2. \A d \in cols : d <= MaxTime * Milli
      <4>1. \A t \in T : t \in 0..MaxTime
        BY <1>2, TimesType
      <4>2. SUFFICES ASSUME NEW d \in cols PROVE d <= MaxTime * Milli
        OBVIOUS
      <4>3. PICK t \in 0..MaxTime : d = t * Milli
        BY <1>5, <4>1
      <4>4. QED
        BY <4>3, ClientAssumption DEF Milli
    <3>3. MaxTime * Milli \in Nat
      BY ClientAssumption DEF Milli
    <3>4. IsFiniteSet(cols)
      BY <3>1, <3>2, <3>3, FS_BoundedSetOfNaturals
    <3>5. Y \subseteq cols /\ m \in Y
      BY <2>2, <2>4
    <3>6. IsFiniteSet(Y)
      BY <3>4, <3>5, FS_Subset
    <3>7. QED
      BY <3>1, <3>5, <3>6
  <2>6. \A d \in Y : {e \in cols : Year(e) = Year(d) /\ e <= d} = {e \in Y : e <= d}
    BY <2>4
  <2>7. \A d \in Y : d \in kept <=> Rank(Y, d) <= n
    BY <1>6, <2>4, <2>6 DEF Rank
  <2>8. Cardinality(Y) \in Nat /\ \A d \in Y : Rank(Y, d) \in 1..Cardinality(Y)
    BY <2>5, RankType, FS_CardinalityType
  <2>9. ~ (Rank(Y, m) <= n) /\ Rank(Y, m) \in 1..Cardinality(Y)
    BY <2>3, <2>5, <2>7, <2>8
  <2>10. n <= Cardinality(Y) /\ Rank(Y, m) > n
    BY <2>8, <2>9
  <2>11. PICK F : F = {d \in Y : Rank(Y, d) <= n}
    OBVIOUS
  <2>12. IsFiniteSet(F) /\ Cardinality(F) = n
    BY <2>5, <2>10, <2>11, FirstOnes
  <2>13. PICK B : B = {s \in S : s < c}
    OBVIOUS
  <2>14. \A d \in F : /\ d \div Milli \in B /\ d = (d \div Milli) * Milli
    <3>1. SUFFICES ASSUME NEW d \in F PROVE d \div Milli \in B /\ d = (d \div Milli) * Milli
      OBVIOUS
    <3>2. d \in Y /\ d \in cols /\ d \in kept /\ Rank(Y, d) <= n
      BY <2>4, <2>7, <2>11
    <3>3. d \div Milli \in S /\ d = (d \div Milli) * Milli /\ d \in Nat /\ d \div Milli \in Nat
      BY <1>2, <1>5, <1>7, <3>2
    <3>4. ~ (Rank(Y, m) <= Rank(Y, d))
      <4>1. Rank(Y, m) \in Nat /\ Rank(Y, d) \in Nat
        BY <2>5, <2>8, <3>2
      <4>2. QED
        BY <2>10, <3>2, <4>1
    <3>5. ~ (m <= d)
      BY <2>5, <3>2, <3>4, RankOrder
    <3>6. d \div Milli < c
      BY <2>1, <2>2, <3>3, <3>5 DEF Milli
    <3>7. QED
      BY <2>13, <3>3, <3>6
  <2>15. PICK f : f = [d \in F |-> d \div Milli]
    OBVIOUS
  <2>16. f \in Injection(F, B)
    <3>1. f \in [F -> B]
      BY <2>14, <2>15
    <3>2. \A d, e \in F : f[d] = f[e] => d = e
      BY <2>14, <2>15
    <3>3. QED
      BY <3>1, <3>2 DEF Injection, IsInjective
  <2>17. IsFiniteSet(B)
    BY <1>2, <1>8, <2>13, FS_Subset
  <2>18. Cardinality(F) <= Cardinality(B) /\ Cardinality(B) \in Nat
    BY <2>16, <2>17, FS_Injection, FS_CardinalityType
  <2>19. QED
    BY <2>12, <2>13, <2>18
<1>10. QED
  BY <1>2, <1>8, <1>9 DEF KeepsFirst

\* The end of the range that a request reads.
High(w) == IF w.end = None THEN now + Buffer ELSE w.end

\* What a request with a limit returns: a slice of what is stored in its range.
LEMMA RetrieveIsSlice ==
    ASSUME Stored(store), series \in Rows, now \in Nat, NEW f, NEW w, w = TimeFilters(f, now),
           w.begin \in Int, w.end \in Int, ValidRange(w),
           NEW limit \in Nat \ {0}, Has(f, "limit"), f["limit"] = limit,
           NEW offset \in Nat, offset = IF Has(f, "offset") THEN f["offset"] ELSE 0,
           NEW T, T = Between(store, w.begin, High(w)),
           NEW r, r = Retrieve(store, Uri(series), f, now)
    PROVE  /\ r.status = 200
           /\ r.data = Slice(T, (offset + 1)..(offset + limit))
           /\ T \subseteq Nat /\ IsFiniteSet(T)
<1>1. PICK n \in Nat : n = limit + offset
  OBVIOUS
<1>2. PICK lo \in Int : lo = w.begin
  OBVIOUS
<1>3. PICK hi \in Int : hi = High(w)
  BY QueryAssumption DEF High
<1>4. PICK S : S = Serialize(Multiget(store, ReadKey(Uri(series)), lo * Milli, hi * Milli, n))
  OBVIOUS
<1>5. T \subseteq Nat /\ KeepsFirst(T, S, n)
  BY <1>2, <1>3, <1>4, QueryKeeps
<1>6. PICK A : A = (offset + 1)..(offset + limit)
  OBVIOUS
<1>7. A \in SUBSET (1..n)
  BY <1>1, <1>6
<1>8. Slice(S, A) = Slice(T, A) /\ IsFiniteSet(T)
  <2>1. Slice(S, A) = Slice(T, A)
    BY <1>5, <1>7, SliceKept
  <2>2. QED
    BY <1>5, <2>1 DEF KeepsFirst
<1>9. Wanted(f) = n
  BY <1>1 DEF Wanted
<1>10. QueryDatabase(store, Uri(series), w, n, now) =
         Multiget(store, ReadKey(Uri(series)), lo * Milli, hi * Milli, n)
  BY <1>2, <1>3 DEF QueryDatabase, High
<1>11. Paginate(S, f) = Slice(S, A)
  BY <1>6 DEF Paginate, Slice
<1>12. r = [status |-> 200, data |-> Paginate(S, f)]
  BY <1>4, <1>9, <1>10 DEF Retrieve
<1>13. QED
  BY <1>5, <1>6, <1>8, <1>11, <1>12

-------------------------------------------------------------------------------
(* The invariant of the loop *)

TimeKeys == {"time", "time-start", "time-end", "time-range"}

\* Time filters, and the parameters of a request.
Filter(f) == DOMAIN f \subseteq TimeKeys /\ \A k \in DOMAIN f : f[k] \in Nat \cup {None}
Request(q) ==
    /\ DOMAIN q \subseteq TimeKeys \cup {"limit"} /\ Has(q, "limit") /\ q["limit"] = Limit
    /\ \A k \in TimeKeys : k \in DOMAIN q => q[k] \in Nat \cup {None}

Types ==
    /\ Stored(store) /\ steady \subseteq store /\ now \in 0..MaxTime
    /\ series \in Rows /\ Filter(filters) /\ payload \in Seq(Nat)
    /\ pc \in {"idle", "ask", "done", "failed"}
    /\ pc = "ask" => Request(q_params)

\* The times that have to be returned, and those that were.
Bound(a) == IF a.end = None THEN a.at ELSE a.end
Due(t, a) == a.begin <= t /\ t <= Bound(a)
Returned(p, t) == \E i \in DOMAIN p : p[i] = t
Ordered(p) == \A i, j \in DOMAIN p : i < j => p[i] < p[j]

\* How far the next request reaches, whenever it is answered.
Reaches(q, n) ==
    IF Has(q, "time-end") THEN q["time-end"]
    ELSE IF Has(q, "time-range") THEN q["time-start"] + q["time-range"]
    ELSE n

\* Between two pages: time-start is behind what was returned and before what is still
\* due, and the next request reaches as far as the first one asked for.
Midway(q, p, a, times, n) ==
    /\ ~ Has(q, "time") /\ Has(q, "time-start")
    /\ a.begin <= q["time-start"]
    /\ \A t \in Nat : Returned(p, t) => t < q["time-start"]
    /\ Has(q, "time-end") => a.end = q["time-end"]
    /\ Bound(a) <= Reaches(q, n)
    /\ \A t \in times : Due(t, a) => Returned(p, t) \/ q["time-start"] <= t

\* A full page was answered, and time-start is one second behind its last value.  Unless
\* a filter limits what is asked for now, none did at first.
Unlimited(q, a) ==
    ~ Has(q, "time") /\ ~ Has(q, "time-end") /\ ~ Has(q, "time-range") => a.end = None
Onward(q, p, a) ==
    /\ Len(p) >= Limit /\ q["time-start"] = p[Len(p)] + 1
    /\ Unlimited(q, a)

Asked(a) == a.begin \in Int /\ a.end \in Int /\ a.at \in Nat

LoopInv ==
    /\ pc = "idle" => payload = <<>> /\ asked = NotYet
    /\ asked = NotYet => payload = <<>>
    /\ asked # NotYet => Asked(asked)
    /\ pc = "ask" /\ asked # NotYet =>
         /\ Midway(q_params, payload, asked, Times(steady), now)
         /\ Onward(q_params, payload, asked)

\* What handle_time_filters makes of a request.
LEMMA FiltersParts ==
    ASSUME NEW q, Request(q), NEW n \in Nat, NEW w, w = TimeFilters(q, n)
    PROVE  /\ w.begin \in Int /\ w.end \in Int
           /\ Has(q, "time") => w.begin = q["time"] /\ w.end = q["time"]
           /\ ~ Has(q, "time") /\ Has(q, "time-start") => w.begin = q["time-start"]
           /\ ~ Has(q, "time") /\ Has(q, "time-end") => w.end = q["time-end"]
           /\ ~ Has(q, "time") /\ ~ Has(q, "time-end") =>
                /\ Has(q, "time-range") /\ Has(q, "time-start") =>
                        w.end = q["time-start"] + q["time-range"]
                /\ Has(q, "time-range") /\ ~ Has(q, "time-start") =>
                        w.begin = n - q["time-range"] /\ w.end = None
                /\ ~ Has(q, "time-range") => w.end \in {n, None}
                /\ ~ Has(q, "time-range") /\ Has(q, "time-start") => w.end = None
           /\ (\A k \in TimeKeys : ~ Has(q, k)) => w.end = n
<1>1. /\ Has(q, "time") => q["time"] \in Nat
      /\ Has(q, "time-start") => q["time-start"] \in Nat
      /\ Has(q, "time-end") => q["time-end"] \in Nat
      /\ Has(q, "time-range") => q["time-range"] \in Nat
  BY DEF Request, Has, TimeKeys
<1>2. (\A k \in TimeKeys : ~ Has(q, k)) => /\ ~ Has(q, "time") /\ ~ Has(q, "time-start")
                                         /\ ~ Has(q, "time-end") /\ ~ Has(q, "time-range")
  BY DEF TimeKeys
<1>3. None \in Int
  BY DEF None
<1>4. QED
  BY <1>1, <1>2, <1>3 DEF TimeFilters

\* PagesFit in two parts: the pages do not overlap or go back, ...
Fits(p, a) == Ordered(p) /\ \A t \in Nat : Returned(p, t) => t >= a.begin

\* ... and they end with the range, or with the one that is counted anew.
End(a, n) == IF a.end = None THEN n + Buffer ELSE a.end
Open(q) == Has(q, "time-range") /\ ~ Has(q, "time") /\ ~ Has(q, "time-end")
Anew(q, p, i) == \E j \in Limit..(i - 1) : i - j <= Limit /\ p[i] <= p[j] + 1 + q["time-range"]
Ends(q, p, a, n) == \A i \in DOMAIN p : p[i] <= End(a, n) \/ (Open(q) /\ Anew(q, p, i))

\* A request reaches no further than that.
Limited(q, p, a, w) ==
    \/ High(w) <= End(a, now)
    \/ Open(q) /\ Len(p) >= Limit /\ High(w) <= p[Len(p)] + 1 + q["time-range"]

\* Before a page is asked for: what was returned lies before its range and in that of
\* the first request, and what is still due does not lie before it.
Before(q, p, a, times, w, n) ==
    /\ \A t \in Nat : Returned(p, t) => a.begin <= t /\ t < w.begin
    /\ a.begin <= w.begin
    /\ Has(q, "time") \/ Has(q, "time-end") => a.end = w.end
    /\ Bound(a) <= IF w.end = None THEN n ELSE w.end
    /\ \A t \in times : Due(t, a) => Returned(p, t) \/ w.begin <= t

\* A page from lo on can follow what ends before lo.
EndsBefore(p, lo) == p \in Seq(Nat) /\ Ordered(p) /\ \A t \in Nat : Returned(p, t) => t < lo
StartsAt(P, lo) == P \subseteq Nat /\ IsFiniteSet(P) /\ \A x \in P : lo <= x

\* All of p and of P, in order.
Joins(c, p, P) ==
    /\ c \in Seq(Nat) /\ Ordered(c)
    /\ \A t \in Nat : Returned(c, t) <=> Returned(p, t) \/ t \in P

\* What is appended comes after what was there.
LEMMA Appended ==
    ASSUME NEW lo \in Int, NEW p, EndsBefore(p, lo), NEW P, StartsAt(P, lo),
           NEW c, c = p \o Ascending(P)
    PROVE  Joins(c, p, P)
<1>0. /\ p \in Seq(Nat) /\ Ordered(p) /\ \A t \in Nat : Returned(p, t) => t < lo
      /\ P \subseteq Nat /\ IsFiniteSet(P) /\ \A x \in P : lo <= x
  BY DEF EndsBefore, StartsAt
<1>1. PICK b : b = Ascending(P)
  OBVIOUS
<1>2. /\ b \in Seq(Nat)
      /\ \A i \in 1..Len(b) : b[i] \in P
      /\ \A i, j \in 1..Len(b) : i < j => b[i] < b[j]
      /\ \A x \in P : \E i \in 1..Len(b) : b[i] = x
  BY <1>0, <1>1, AscendingParts
<1>3. /\ c \in Seq(Nat) /\ Len(c) = Len(p) + Len(b) /\ Len(p) \in Nat /\ Len(b) \in Nat
      /\ DOMAIN p = 1..Len(p) /\ DOMAIN c = 1..Len(c)
  BY <1>0, <1>1, <1>2
<1>4. /\ \A i \in 1..Len(p) : c[i] = p[i]
      /\ \A i \in 1..Len(c) : i > Len(p) => i - Len(p) \in 1..Len(b) /\ c[i] = b[i - Len(p)]
      /\ \A i \in 1..Len(b) : i + Len(p) \in 1..Len(c) /\ c[i + Len(p)] = b[i]
  BY <1>0, <1>1, <1>2, <1>3
<1>5. \A i \in 1..Len(p) : p[i] \in Nat /\ p[i] < lo
  <2>1. SUFFICES ASSUME NEW i \in 1..Len(p) PROVE p[i] \in Nat /\ p[i] < lo
    OBVIOUS
  <2>2. p[i] \in Nat /\ i \in DOMAIN p
    BY <1>0, <1>3
  <2>3. Returned(p, p[i])
    BY <2>2 DEF Returned
  <2>4. QED
    BY <1>0, <2>2, <2>3
<1>6. ASSUME NEW i \in 1..Len(c), NEW j \in 1..Len(c), i < j PROVE c[i] < c[j]
  <2>1. CASE j <= Len(p)
    <3>1. i \in 1..Len(p) /\ j \in 1..Len(p)
      BY <1>3, <1>6, <2>1
    <3>2. p[i] < p[j]
      BY <1>0, <1>3, <1>6, <3>1 DEF Ordered
    <3>3. QED
      BY <1>4, <3>1, <3>2
  <2>2. CASE i <= Len(p) /\ j > Len(p)
    <3>1. i \in 1..Len(p)
      BY <1>3, <2>2
    <3>2. c[i] \in Nat /\ c[i] < lo
      BY <1>4, <1>5, <3>1
    <3>3. c[j] \in Nat /\ lo <= c[j]
      BY <1>0, <1>2, <1>4, <2>2
    <3>4. QED
      BY <3>2, <3>3
  <2>3. CASE i > Len(p)
    <3>1. j > Len(p) /\ i - Len(p) < j - Len(p)
      BY <1>3, <1>6, <2>3
    <3>2. /\ i - Len(p) \in 1..Len(b) /\ c[i] = b[i - Len(p)]
          /\ j - Len(p) \in 1..Len(b) /\ c[j] = b[j - Len(p)]
      BY <1>4, <2>3, <3>1
    <3>3. PICK x \in 1..Len(b) : x = i - Len(p)
      BY <3>2
    <3>4. PICK y \in 1..Len(b) : y = j - Len(p)
      BY <3>2
    <3>5. x < y
      BY <3>1, <3>3, <3>4
    <3>6. b[x] < b[y]
      BY <1>2, <3>5
    <3>7. QED
      BY <3>2, <3>3, <3>4, <3>6
  <2>4. j <= Len(p) \/ (i <= Len(p) /\ j > Len(p)) \/ i > Len(p)
    <3>1. i \in Nat /\ j \in Nat /\ Len(p) \in Nat
      BY <1>3
    <3>2. QED
      BY <3>1
  <2>5. QED
    BY <2>1, <2>2, <2>3, <2>4
<1>7. ASSUME NEW t \in Nat PROVE Returned(c, t) <=> Returned(p, t) \/ t \in P
  <2>1. ASSUME Returned(c, t) PROVE Returned(p, t) \/ t \in P
    <3>1. PICK i \in 1..Len(c) : c[i] = t
      BY <1>3, <2>1 DEF Returned
    <3>2. i \in 1..Len(p) \/ i > Len(p)
      BY <1>3
    <3>3. QED
      BY <1>2, <1>3, <1>4, <3>1, <3>2 DEF Returned
  <2>2. ASSUME Returned(p, t) PROVE Returned(c, t)
    <3>1. PICK i \in 1..Len(p) : p[i] = t
      BY <1>3, <2>2 DEF Returned
    <3>2. i \in 1..Len(c) /\ c[i] = t
      BY <1>3, <1>4, <3>1
    <3>3. QED
      BY <1>3, <3>2 DEF Returned
  <2>3. ASSUME t \in P PROVE Returned(c, t)
    <3>1. PICK i \in 1..Len(b) : b[i] = t
      BY <1>2, <2>3
    <3>2. i + Len(p) \in 1..Len(c) /\ c[i + Len(p)] = t
      BY <1>4, <3>1
    <3>3. QED
      BY <1>3, <3>2 DEF Returned
  <2>4. QED
    BY <2>1, <2>2, <2>3
<1>8. QED
  BY <1>3, <1>6, <1>7 DEF Joins, Ordered

\* The state before the first page, ...
LEMMA BeforeFirst ==
    ASSUME NEW q, Request(q), now \in Nat, NEW w, w = TimeFilters(q, now),
           NEW a, a = AskedBy(q), NEW times, times \subseteq Nat, NEW p, p = <<>>
    PROVE  /\ Asked(a) /\ a # NotYet /\ Before(q, p, a, times, w, now)
           /\ Unlimited(q, a) /\ Limited(q, p, a, w)
<1>1. w.begin \in Int /\ w.end \in Int /\ ((\A k \in TimeKeys : ~ Has(q, k)) => w.end = now)
  BY FiltersParts
<1>2. a = [begin |-> w.begin, at |-> now,
           end |-> IF \A k \in TimeKeys : ~ Has(q, k) THEN None ELSE w.end]
  BY DEF AskedBy, TimeKeys
<1>3. None \in Int /\ None \notin Nat
  BY DEF None
<1>4. Asked(a) /\ a # NotYet
  <2>1. a.at \in Nat /\ NotYet.at = None /\ a.begin \in Int /\ a.end \in Int
    BY <1>1, <1>2, <1>3 DEF NotYet
  <2>2. QED
    BY <1>3, <2>1 DEF Asked
<1>5. Has(q, "time") \/ Has(q, "time-end") => a.end = w.end
  BY <1>2 DEF TimeKeys
<1>6. Bound(a) <= IF w.end = None THEN now ELSE w.end
  BY <1>1, <1>2, <1>3 DEF Bound
<1>7. \A t : ~ Returned(p, t)
  BY DEF Returned
<1>8. a.begin = w.begin
  BY <1>2
<1>9. Unlimited(q, a)
  <2>1. SUFFICES ASSUME ~ Has(q, "time"), ~ Has(q, "time-end"), ~ Has(q, "time-range"),
                        Has(q, "time-start")
                 PROVE  w.end = None
    BY <1>2 DEF Unlimited, TimeKeys
  <2>2. QED
    BY <2>1, FiltersParts
<1>10. Limited(q, p, a, w)
  <2>1. Buffer \in Nat
    BY QueryAssumption
  <2>2. High(w) <= End(a, now)
    BY <1>1, <1>2, <1>3, <2>1 DEF High, End
  <2>3. QED
    BY <2>2 DEF Limited
<1>11. QED
  BY <1>1, <1>4, <1>5, <1>6, <1>7, <1>8, <1>9, <1>10 DEF Before, Due

\* ... and before a later one.
LEMMA BeforeLater ==
    ASSUME NEW q, Request(q), now \in Nat, NEW w, w = TimeFilters(q, now),
           NEW a, Asked(a), NEW times, times \subseteq Nat, NEW p,
           Midway(q, p, a, times, now), Fits(p, a), Onward(q, p, a)
    PROVE  Before(q, p, a, times, w, now) /\ Limited(q, p, a, w)
<1>1. ~ Has(q, "time") /\ Has(q, "time-start")
  BY DEF Midway
<1>2. /\ w.begin \in Int /\ w.end \in Int /\ w.begin = q["time-start"]
      /\ Has(q, "time-end") => w.end = q["time-end"]
      /\ ~ Has(q, "time-end") /\ Has(q, "time-range") => w.end = q["time-start"] + q["time-range"]
      /\ ~ Has(q, "time-end") /\ ~ Has(q, "time-range") => w.end = None
  BY <1>1, FiltersParts
<1>3. /\ Has(q, "time-start") => q["time-start"] \in Nat
      /\ Has(q, "time-end") => q["time-end"] \in Nat
      /\ Has(q, "time-range") => q["time-range"] \in Nat
      /\ None \notin Nat
  BY DEF Request, Has, TimeKeys, None
<1>4. Reaches(q, now) = IF w.end = None THEN now ELSE w.end
  BY <1>1, <1>2, <1>3 DEF Reaches
<1>5. Before(q, p, a, times, w, now)
  <2>1. \A t \in Nat : Returned(p, t) => a.begin <= t
    BY DEF Fits, Asked
  <2>2. QED
    BY <1>1, <1>2, <1>4, <2>1 DEF Before, Midway
<1>6. Limited(q, p, a, w)
  <2>1. CASE Has(q, "time-end")
    <3>1. High(w) = w.end /\ End(a, now) = w.end /\ w.end \in Nat
      BY <1>2, <1>3, <2>1 DEF High, End, Midway
    <3>2. QED
      BY <3>1 DEF Limited
  <2>2. CASE ~ Has(q, "time-end") /\ Has(q, "time-range")
    <3>1. Open(q) /\ Len(p) >= Limit /\ q["time-start"] = p[Len(p)] + 1
      BY <1>1, <2>2 DEF Open, Onward
    <3>2. High(w) = q["time-start"] + q["time-range"] /\ High(w) \in Nat
      BY <1>1, <1>2, <1>3, <2>2 DEF High
    <3>3. High(w) <= p[Len(p)] + 1 + q["time-range"]
      BY <3>1, <3>2
    <3>4. QED
      BY <3>1, <3>3 DEF Limited
  <2>3. CASE ~ Has(q, "time-end") /\ ~ Has(q, "time-range")
    <3>1. a.end = None /\ w.end = None
      BY <1>1, <1>2, <2>3 DEF Onward, Unlimited
    <3>2. now + Buffer \in Int /\ High(w) = now + Buffer /\ End(a, now) = now + Buffer
      BY <3>1, QueryAssumption DEF High, End
    <3>3. QED
      BY <3>2 DEF Limited
  <2>4. QED
    BY <2>1, <2>2, <2>3
<1>7. QED
  BY <1>5, <1>6

\* A page that was answered: it continues what was returned, and it is the last one, or
\* time-start goes on behind it.
LEMMA PageTaken ==
    ASSUME Stored(store), now \in Nat, NEW q, Request(q), NEW w, w = TimeFilters(q, now),
           NEW p \in Seq(Nat), Ordered(p), NEW a, Asked(a),
           NEW times, times \subseteq Times(store), Before(q, p, a, times, w, now),
           NEW T, T = Between(store, w.begin, High(w)), T \subseteq Nat, IsFiniteSet(T),
           NEW P, P = Slice(T, 1..Limit), NEW c, c = p \o Ascending(P)
    PROVE  /\ c \in Seq(Nat) /\ Fits(c, a)
           /\ LastPage(P) => \A t \in times : Due(t, a) => Returned(c, t)
           /\ ~ LastPage(P) =>
                /\ Resume(P) \in Nat /\ Returned(c, Resume(P) - 1)
                /\ Midway(With(q, "time-start", Resume(P)), c, a, times, now)
<1>1. /\ w.begin \in Int /\ w.end \in Int /\ a.begin \in Int /\ a.end \in Int /\ a.at \in Nat
      /\ None \in Int /\ None \notin Nat /\ Buffer \in Nat /\ Limit \in Nat /\ Limit >= 2
  BY FiltersParts, QueryAssumption, ClientAssumption DEF Asked, None
<1>2. /\ P \subseteq T /\ IsFiniteSet(P) /\ Cardinality(P) <= Limit
      /\ \A t \in T \ P : Cardinality(P) = Limit /\ \A x \in P : x < t
  <2>1. T \subseteq Int
    OBVIOUS
  <2>2. QED
    BY <1>1, <2>1, FirstPage
<1>3. Cardinality(P) \in Nat /\ P \subseteq Nat
  BY <1>2, FS_CardinalityType
<1>4. \A t \in T : w.begin <= t /\ t <= High(w) /\ t \in Nat
  BY DEF Between
<1>5. /\ c \in Seq(Nat) /\ Ordered(c)
      /\ \A t \in Nat : Returned(c, t) <=> Returned(p, t) \/ t \in P
  <2>1. \A t \in Nat : Returned(p, t) => t < w.begin
    BY DEF Before
  <2>2. \A x \in P : w.begin <= x
    BY <1>2, <1>4
  <2>3. PICK lo \in Int : lo = w.begin
    BY <1>1
  <2>4. EndsBefore(p, lo) /\ StartsAt(P, lo)
    BY <1>2, <1>3, <2>1, <2>2, <2>3 DEF EndsBefore, StartsAt
  <2>5. Joins(c, p, P)
    BY <2>3, <2>4, Appended
  <2>6. QED
    BY <2>5 DEF Joins
<1>6. /\ Has(q, "time") => q["time"] \in Nat
      /\ Has(q, "time-start") => q["time-start"] \in Nat
      /\ Has(q, "time-end") => q["time-end"] \in Nat
      /\ Has(q, "time-range") => q["time-range"] \in Nat
  BY DEF Request, Has, TimeKeys
<1>7. /\ Has(q, "time") => w.begin = q["time"] /\ w.end = q["time"]
      /\ ~ Has(q, "time") /\ Has(q, "time-start") => w.begin = q["time-start"]
      /\ ~ Has(q, "time") /\ Has(q, "time-end") => w.end = q["time-end"]
      /\ ~ Has(q, "time") /\ ~ Has(q, "time-end") =>
           /\ Has(q, "time-range") /\ Has(q, "time-start") =>
                   w.end = q["time-start"] + q["time-range"]
           /\ Has(q, "time-range") /\ ~ Has(q, "time-start") =>
                   w.begin = now - q["time-range"] /\ w.end = None
           /\ ~ Has(q, "time-range") => w.end \in {now, None}
  BY FiltersParts
<1>8. ASSUME NEW t \in Nat, Returned(c, t) PROVE t >= a.begin
  <2>1. CASE Returned(p, t)
    BY <1>1, <2>1 DEF Before
  <2>2. CASE t \in P
    BY <1>1, <1>2, <1>4, <2>2 DEF Before
  <2>3. QED
    BY <1>5, <1>8, <2>1, <2>2
<1>9. ASSUME NEW t \in times, Due(t, a), ~ Returned(p, t) PROVE t \in T
  <2>1. t \in Times(store) /\ t \in Nat
    <3>1. Times(store) \subseteq 0..MaxTime
      BY TimesType
    <3>2. QED
      BY <3>1, ClientAssumption
  <2>2. w.begin <= t /\ t <= Bound(a)
    BY <1>9 DEF Before, Due
  <2>3. Bound(a) \in Int /\ Bound(a) <= IF w.end = None THEN now ELSE w.end
    BY <1>1 DEF Before, Bound
  <2>4. t <= High(w)
    BY <1>1, <2>1, <2>2, <2>3 DEF High
  <2>5. QED
    BY <2>1, <2>2, <2>4 DEF Between
<1>10. ASSUME LastPage(P), NEW t \in times, Due(t, a) PROVE Returned(c, t)
  <2>1. CASE Returned(p, t)
    <3>1. t \in Nat
      BY TimesType, ClientAssumption
    <3>2. QED
      BY <1>5, <2>1, <3>1
  <2>2. CASE ~ Returned(p, t)
    <3>1. t \in T
      BY <1>9, <1>10, <2>2
    <3>2. Cardinality(P) # Limit
      BY <1>1, <1>3, <1>10 DEF LastPage
    <3>3. t \in P
      BY <1>2, <3>1, <3>2
    <3>4. QED
      BY <1>3, <1>5, <3>3
  <2>3. QED
    BY <2>1, <2>2
<1>11. ASSUME ~ LastPage(P)
       PROVE  /\ Resume(P) \in Nat /\ Returned(c, Resume(P) - 1)
              /\ Midway(With(q, "time-start", Resume(P)), c, a, times, now)
  <2>1. Cardinality(P) >= 2
    BY <1>1, <1>3, <1>11 DEF LastPage
  <2>2. PICK m : m = Max(P)
    OBVIOUS
  <2>3. m \in P /\ m \in Nat /\ \A x \in P : x <= m
    BY <1>2, <1>3, <2>1, <2>2, HasMax
  <2>4. PICK s \in Nat : s = m + 1
    BY <2>3
  <2>5. s = Resume(P) /\ s - 1 = m
    BY <2>2, <2>3, <2>4 DEF Resume
  <2>6. PICK next : next = With(q, "time-start", s)
    OBVIOUS
  <2>7. /\ Has(next, "time-start") /\ next["time-start"] = s
        /\ Has(next, "time") <=> Has(q, "time")
        /\ Has(next, "time-end") <=> Has(q, "time-end")
        /\ Has(next, "time-range") <=> Has(q, "time-range")
        /\ Has(q, "time-end") => next["time-end"] = q["time-end"]
        /\ Has(q, "time-range") => next["time-range"] = q["time-range"]
    BY <1>1, <2>6 DEF With, Has
  <2>8. ~ Has(q, "time")
    <3>1. SUFFICES ASSUME Has(q, "time") PROVE FALSE
      OBVIOUS
    <3>2. q["time"] \in Nat /\ w.begin = q["time"] /\ High(w) = q["time"]
      BY <1>1, <1>6, <1>7, <3>1 DEF High
    <3>3. P \subseteq {q["time"]}
      BY <1>2, <1>4, <3>2
    <3>4. Cardinality(P) <= 1
      <4>1. PICK x : x = q["time"]
        OBVIOUS
      <4>2. IsFiniteSet({x}) /\ Cardinality({x}) = 1
        BY FS_Singleton
      <4>3. QED
        BY <3>3, <4>1, <4>2, FS_Subset
    <3>5. QED
      BY <1>3, <2>1, <3>4
  <2>9. w.begin <= m
    BY <1>2, <1>4, <2>3
  <2>10. a.begin <= s
    BY <1>1, <2>3, <2>4, <2>9 DEF Before
  <2>11. \A t \in Nat : Returned(c, t) => t < s
    <3>1. SUFFICES ASSUME NEW t \in Nat, Returned(c, t) PROVE t < s
      OBVIOUS
    <3>2. Returned(p, t) => t < w.begin
      BY DEF Before
    <3>3. t <= m
      BY <1>1, <1>5, <2>3, <2>9, <3>1, <3>2
    <3>4. QED
      BY <2>3, <2>4, <3>3
  <2>12. Bound(a) <= Reaches(next, now)
    <3>1. Bound(a) \in Int /\ Bound(a) <= IF w.end = None THEN now ELSE w.end
      BY <1>1 DEF Before, Bound
    <3>2. CASE Has(q, "time-end")
      BY <1>1, <1>6, <1>7, <2>7, <2>8, <3>1, <3>2 DEF Reaches
    <3>3. CASE ~ Has(q, "time-end") /\ Has(q, "time-range")
      <4>1. Reaches(next, now) = s + q["time-range"] /\ q["time-range"] \in Nat
        BY <1>6, <2>7, <3>3 DEF Reaches
      <4>2. CASE Has(q, "time-start")
        <5>1. /\ w.end = q["time-start"] + q["time-range"] /\ w.begin = q["time-start"]
              /\ q["time-start"] \in Nat
          BY <1>6, <1>7, <2>8, <3>3, <4>2
        <5>2. w.end # None
          BY <1>1, <4>1, <5>1
        <5>3. QED
          BY <2>3, <2>4, <2>9, <3>1, <4>1, <5>1, <5>2
      <4>3. CASE ~ Has(q, "time-start")
        BY <1>1, <1>6, <1>7, <2>3, <2>4, <2>8, <2>9, <3>1, <3>3, <4>1, <4>3
      <4>4. QED
        BY <4>2, <4>3
    <3>4. CASE ~ Has(q, "time-end") /\ ~ Has(q, "time-range")
      BY <1>1, <1>7, <2>7, <2>8, <3>1, <3>4 DEF Reaches
    <3>5. QED
      BY <3>2, <3>3, <3>4
  <2>13. ASSUME NEW t \in times, Due(t, a) PROVE Returned(c, t) \/ s <= t
    <3>1. t \in Nat
      BY TimesType, ClientAssumption
    <3>2. CASE Returned(p, t)
      BY <1>5, <3>1, <3>2
    <3>3. CASE t \in P
      BY <1>5, <3>1, <3>3
    <3>4. CASE ~ Returned(p, t) /\ t \notin P
      <4>1. t \in T \ P
        BY <1>9, <2>13, <3>4
      <4>2. m < t
        BY <1>2, <2>3, <4>1
      <4>3. QED
        BY <2>3, <2>4, <3>1, <4>2
    <3>5. QED
      BY <3>2, <3>3, <3>4
  <2>14. Has(next, "time-end") => a.end = next["time-end"]
    BY <1>7, <2>7, <2>8 DEF Before
  <2>15. Midway(next, c, a, times, now)
    BY <2>7, <2>8, <2>10, <2>11, <2>12, <2>13, <2>14 DEF Midway
  <2>16. Returned(c, m)
    BY <1>5, <2>3
  <2>17. QED
    BY <2>5, <2>6, <2>15, <2>16
<1>12. QED
  BY <1>5, <1>8, <1>10, <1>11 DEF Fits

\* The values of the page P follow those of p, in their places.
Follows(c, p, P) ==
    /\ c \in Seq(Nat) /\ Len(c) = Len(p) + Cardinality(P)
    /\ Len(p) \in Nat /\ Cardinality(P) \in Nat
    /\ \A i \in 1..Len(p) : c[i] = p[i]
    /\ \A i \in 1..Len(c) : i > Len(p) => c[i] \in P
    /\ \A x \in P : \E i \in 1..Len(c) : i > Len(p) /\ c[i] = x

\* That is what the result of a page is.
LEMMA Places ==
    ASSUME NEW p \in Seq(Nat), NEW P, P \subseteq Nat, IsFiniteSet(P),
           NEW c, c = p \o Ascending(P)
    PROVE  Follows(c, p, P)
<1>1. PICK b : b = Ascending(P)
  OBVIOUS
<1>2. /\ b \in Seq(Nat) /\ Len(b) = Cardinality(P) /\ \A i \in 1..Len(b) : b[i] \in P
      /\ \A x \in P : \E i \in 1..Len(b) : b[i] = x
  BY <1>1, AscendingParts
<1>3. /\ c \in Seq(Nat) /\ Len(c) = Len(p) + Len(b) /\ Len(p) \in Nat /\ Len(b) \in Nat
      /\ \A i \in 1..Len(p) : c[i] = p[i]
      /\ \A i \in 1..Len(c) : i > Len(p) => i - Len(p) \in 1..Len(b) /\ c[i] = b[i - Len(p)]
      /\ \A i \in 1..Len(b) : i + Len(p) \in 1..Len(c) /\ c[i + Len(p)] = b[i]
  BY <1>1, <1>2
<1>4. \A i \in 1..Len(c) : i > Len(p) => c[i] \in P
  BY <1>2, <1>3
<1>5. ASSUME NEW x \in P PROVE \E i \in 1..Len(c) : i > Len(p) /\ c[i] = x
  <2>1. PICK k \in 1..Len(b) : b[k] = x
    BY <1>2, <1>5
  <2>2. PICK i \in 1..Len(c) : i = k + Len(p) /\ c[i] = x
    BY <1>3, <2>1
  <2>3. i > Len(p)
    BY <1>3, <2>1, <2>2
  <2>4. QED
    BY <2>2, <2>3
<1>6. QED
  BY <1>2, <1>3, <1>4, <1>5 DEF Follows

\* A page ends where its request does: with the range, or time-range seconds past the
\* last value of the page before.
LEMMA EndsTaken ==
    ASSUME NEW q, NEW p \in Seq(Nat), NEW a, NEW w, Limited(q, p, a, w),
           Ends(q, p, a, now), Open(q) => q["time-range"] \in Nat,
           End(a, now) \in Int, High(w) \in Int,
           NEW P, P \subseteq Nat, IsFiniteSet(P), Cardinality(P) <= Limit,
           \A t \in P : t <= High(w), NEW c, c = p \o Ascending(P)
    PROVE  Ends(q, c, a, now)
<1>1. /\ c \in Seq(Nat) /\ Len(c) = Len(p) + Cardinality(P)
      /\ Len(p) \in Nat /\ Cardinality(P) \in Nat
      /\ \A i \in 1..Len(p) : c[i] = p[i]
      /\ \A i \in 1..Len(c) : i > Len(p) => c[i] \in P
  <2>1. Follows(c, p, P)
    BY Places
  <2>2. QED
    BY <2>1 DEF Follows
<1>2. Limit \in Nat /\ Limit >= 2
  BY ClientAssumption
<1>3. ASSUME NEW i \in 1..Len(c) PROVE c[i] <= End(a, now) \/ (Open(q) /\ Anew(q, c, i))
  <2>1. CASE i <= Len(p)
    <3>1. i \in 1..Len(p) /\ i \in DOMAIN p
      BY <1>1, <2>1
    <3>2. p[i] <= End(a, now) \/ (Open(q) /\ Anew(q, p, i))
      BY <3>1 DEF Ends
    <3>3. ASSUME Open(q), Anew(q, p, i) PROVE Anew(q, c, i)
      <4>1. PICK j \in Limit..(i - 1) : i - j <= Limit /\ p[i] <= p[j] + 1 + q["time-range"]
        BY <3>3 DEF Anew
      <4>2. j \in 1..Len(p)
        BY <1>1, <1>2, <3>1
      <4>3. c[i] <= c[j] + 1 + q["time-range"]
        BY <1>1, <3>1, <4>1, <4>2
      <4>4. QED
        BY <4>1, <4>3 DEF Anew
    <3>4. QED
      BY <1>1, <3>1, <3>2, <3>3
  <2>2. CASE i > Len(p)
    <3>1. c[i] \in Nat /\ c[i] <= High(w)
      BY <1>1, <2>2
    <3>2. CASE High(w) <= End(a, now)
      BY <3>1, <3>2
    <3>3. CASE Open(q) /\ Len(p) >= Limit /\ High(w) <= p[Len(p)] + 1 + q["time-range"]
      <4>1. PICK j \in Nat : j = Len(p)
        BY <1>1
      <4>2. j \in 1..Len(p) /\ j \in Limit..(i - 1) /\ i - j <= Limit
        <5>1. PICK k \in Nat : k = Cardinality(P)
          BY <1>1
        <5>2. i \in 1..(j + k) /\ k <= Limit /\ i > j /\ j >= Limit
          BY <1>1, <2>2, <3>3, <4>1, <5>1
        <5>3. j \in 1..j /\ j \in Limit..(i - 1) /\ i - j <= Limit
          BY ONLY <1>2, <5>2, j \in Nat, k \in Nat
        <5>4. QED
          BY <4>1, <5>3
      <4>3. c[j] = p[j] /\ p[j] \in Nat /\ High(w) <= p[j] + 1 + q["time-range"]
        <5>1. c[j] = p[j]
          BY <1>1, <4>2
        <5>2. p[j] \in Nat
          BY <4>2
        <5>3. QED
          BY <3>3, <4>1, <5>1, <5>2
      <4>4. PICK r \in Nat : r = q["time-range"]
        BY <3>3
      <4>5. c[i] <= c[j] + 1 + r
        <5>1. PICK h \in Int : h = High(w)
          OBVIOUS
        <5>2. PICK x \in Nat : x = c[i]
          BY <3>1
        <5>3. PICK y \in Nat : y = c[j]
          BY <4>3
        <5>4. x <= h /\ h <= y + 1 + r
          BY <3>1, <4>3, <4>4, <5>1, <5>2, <5>3
        <5>5. x <= y + 1 + r
          BY ONLY <5>1, <5>2, <5>3, <5>4, <4>4, h \in Int, x \in Nat, y \in Nat, r \in Nat
        <5>6. QED
          BY <5>2, <5>3, <5>5
      <4>6. QED
        BY <3>3, <4>2, <4>4, <4>5 DEF Anew
    <3>4. QED
      BY <3>2, <3>3 DEF Limited
  <2>3. QED
    BY <1>1, <2>1, <2>2
<1>4. DOMAIN c = 1..Len(c)
  BY <1>1
<1>5. QED
  BY <1>3, <1>4 DEF Ends

\* The request that follows a full page.
LEMMA OnwardNext ==
    ASSUME NEW q, NEW p \in Seq(Nat), NEW a, Unlimited(q, a),
           NEW P, P \subseteq Nat, IsFiniteSet(P), ~ LastPage(P),
           NEW c, c = p \o Ascending(P), Ordered(c)
    PROVE  Onward(With(q, "time-start", Resume(P)), c, a)
<1>1. /\ c \in Seq(Nat) /\ Len(c) = Len(p) + Cardinality(P)
      /\ Len(p) \in Nat /\ Cardinality(P) \in Nat
      /\ \A i \in 1..Len(c) : i > Len(p) => c[i] \in P
      /\ \A x \in P : \E i \in 1..Len(c) : i > Len(p) /\ c[i] = x
  <2>1. Follows(c, p, P)
    BY Places
  <2>2. QED
    BY <2>1 DEF Follows
<1>2. Cardinality(P) >= Limit /\ Limit \in Nat /\ Limit >= 2
  BY <1>1, ClientAssumption DEF LastPage
<1>3. PICK m : m = Max(P)
  OBVIOUS
<1>4. m \in P /\ m \in Nat /\ \A x \in P : x <= m
  <2>1. Cardinality(P) >= 1
    BY <1>1, <1>2
  <2>2. m \in P /\ \A x \in P : x <= m
    BY <1>3, <2>1, HasMax
  <2>3. QED
    BY <2>2
<1>5. PICK n \in Nat : n = Len(c)
  BY <1>1
<1>6. n \in 1..Len(c) /\ n > Len(p) /\ n >= Limit
  BY <1>1, <1>2, <1>5
<1>7. c[n] \in P /\ c[n] \in Nat /\ c[n] <= m
  BY <1>1, <1>4, <1>6
<1>8. c[n] = m
  <2>1. PICK i \in 1..Len(c) : c[i] = m
    BY <1>1, <1>4
  <2>2. i = n \/ i < n
    BY <1>5, <2>1
  <2>3. i < n => c[i] < c[n]
    <3>1. i \in DOMAIN c /\ n \in DOMAIN c
      BY <1>1, <1>6, <2>1
    <3>2. QED
      BY <3>1 DEF Ordered
  <2>4. CASE i = n
    BY <2>1, <2>4
  <2>5. CASE i < n
    <3>1. m < c[n]
      BY <2>1, <2>3, <2>5
    <3>2. PICK x \in Nat : x = c[n]
      BY <1>7
    <3>3. PICK y \in Nat : y = m
      BY <1>4
    <3>4. y < x /\ x <= y
      BY <1>7, <3>1, <3>2, <3>3
    <3>5. FALSE
      BY ONLY <3>4, x \in Nat, y \in Nat
    <3>6. QED
      BY <3>5
  <2>6. QED
    BY <2>2, <2>4, <2>5
<1>9. PICK next : next = With(q, "time-start", Resume(P))
  OBVIOUS
<1>10. next["time-start"] = m + 1
  BY <1>3, <1>9 DEF With, Resume
<1>11. /\ Has(next, "time") <=> Has(q, "time")
       /\ Has(next, "time-end") <=> Has(q, "time-end")
       /\ Has(next, "time-range") <=> Has(q, "time-range")
  BY <1>9 DEF With, Has
<1>12. Unlimited(next, a)
  BY <1>11 DEF Unlimited
<1>13. QED
  BY <1>5, <1>6, <1>8, <1>9, <1>10, <1>12 DEF Onward

\* Moving time-start changes nothing in where the range ends.
LEMMA EndsKept ==
    ASSUME NEW q, NEW s, NEW next, next = With(q, "time-start", s),
           NEW c, NEW a, Ends(q, c, a, now)
    PROVE  Ends(next, c, a, now)
<1>1. /\ Has(next, "time") <=> Has(q, "time")
      /\ Has(next, "time-end") <=> Has(q, "time-end")
      /\ Has(next, "time-range") <=> Has(q, "time-range")
  BY DEF With, Has
<1>2. Has(q, "time-range") => next["time-range"] = q["time-range"]
  BY DEF With, Has
<1>3. Open(next) <=> Open(q)
  BY <1>1 DEF Open
<1>4. Open(q) => next["time-range"] = q["time-range"]
  BY <1>2 DEF Open
<1>5. \A i : Open(q) /\ Anew(q, c, i) => Anew(next, c, i)
  BY <1>4 DEF Anew
<1>6. QED
  BY <1>3, <1>5 DEF Ends

-------------------------------------------------------------------------------
(* The steps *)

Inv == Types /\ LoopInv /\ PagesFit /\ Complete

\* PagesFit in the two forms.
LEMMA FitsParts ==
    ASSUME NEW p \in Seq(Nat), NEW a
    PROVE  Fits(p, a) <=>
             /\ \A i, j \in DOMAIN p : i < j => p[i] < p[j]
             /\ \A i \in DOMAIN p : p[i] >= a.begin
<1>1. \A i \in DOMAIN p : p[i] \in Nat
  OBVIOUS
<1>2. QED
  BY <1>1 DEF Fits, Ordered, Returned

\* A column holds a second.
LEMMA CellStored ==
    ASSUME NEW row \in Rows, NEW t \in 0..MaxTime
    PROVE  \E s \in 0..MaxTime : Cell(row, t).col = s * Milli
<1>1. MaxTime \in Nat /\ row.window \in Nat
  BY ClientAssumption
<1>2. ASSUME NEW w \in Nat, w > 0 PROVE (t \div w) * w \in 0..t
  BY <1>1, <1>2
<1>3. BinOf(row, t) \in 0..MaxTime
  <2>1. CASE row.summary # "base" /\ row.window > 0
    <3>1. PICK b \in 0..t : b = BinOf(row, t)
      BY <1>1, <1>2, <2>1 DEF BinOf
    <3>2. QED
      BY <1>1, <3>1
  <2>2. CASE ~ (row.summary # "base" /\ row.window > 0)
    BY <2>2 DEF BinOf
  <2>3. QED
    BY <2>1, <2>2
<1>4. QED
  BY <1>3 DEF Cell

\* The program starts in the invariant.
LEMMA InitInv == Init => Inv
<1>1. SUFFICES ASSUME Init PROVE Inv
  OBVIOUS
<1>2. Types
  <2>1. Stored(store)
    <3>1. PICK times \in Published : store = {Cell(row, t) : row \in Rows, t \in times}
      BY <1>1 DEF Init
    <3>2. times \subseteq 0..MaxTime
      BY ClientAssumption
    <3>3. \A row \in Rows, t \in times : \E u \in 0..MaxTime : Cell(row, t).col = u * Milli
      BY <3>2, CellStored
    <3>4. QED
      BY <3>1, <3>3 DEF Stored
  <2>2. series \in Rows
    BY <1>1, ClientAssumption DEF Init
  <2>3. Filter(filters)
    BY <1>1 DEF Init, NoFilter, Filter
  <2>4. payload \in Seq(Nat) /\ pc = "idle" /\ steady = {} /\ now \in 0..MaxTime
    BY <1>1, ClientAssumption DEF Init
  <2>5. QED
    BY <2>1, <2>2, <2>3, <2>4 DEF Types
<1>3. LoopInv
  BY <1>1 DEF Init, LoopInv
<1>4. PagesFit
  BY <1>1 DEF Init, PagesFit, InOrder, Within
<1>5. Complete
  BY <1>1 DEF Init, Complete
<1>6. QED
  BY <1>2, <1>3, <1>4, <1>5 DEF Inv

\* What the program and the archive do while no page is answered.
LEMMA RestKeeps ==
    ASSUME Inv, UNCHANGED client, now' \in Nat, now <= now', steady' \subseteq steady
    PROVE  (LoopInv /\ PagesFit /\ Complete)'
<1>1. /\ pc' = pc /\ series' = series /\ q_params' = q_params /\ payload' = payload
      /\ asked' = asked /\ NotYet' = NotYet
  BY DEF client, NotYet
<1>2. Times(steady)' \subseteq Times(steady)
  BY <1>1 DEF Times
<1>3. now \in Nat
  BY ClientAssumption DEF Inv, Types
<1>4. ASSUME pc = "ask", asked # NotYet
      PROVE  /\ Midway(q_params, payload, asked, Times(steady)', now')
             /\ Onward(q_params, payload, asked)
  <2>1. Midway(q_params, payload, asked, Times(steady), now) /\ Asked(asked) /\ Request(q_params)
    BY <1>4 DEF Inv, Types, LoopInv
  <2>2. Bound(asked) <= Reaches(q_params, now')
    <3>1. Bound(asked) <= Reaches(q_params, now) /\ Bound(asked) \in Int
      BY <2>1 DEF Midway, Asked, Bound
    <3>2. QED
      BY <1>3, <3>1 DEF Reaches
  <2>3. Onward(q_params, payload, asked)
    BY <1>4 DEF Inv, LoopInv
  <2>4. QED
    BY <1>2, <2>1, <2>2, <2>3 DEF Midway
<1>5. LoopInv'
  BY <1>1, <1>4 DEF Inv, LoopInv, Onward, Unlimited, Has
<1>6. PagesFit'
  <2>1. InOrder'
    BY <1>1 DEF Inv, PagesFit, InOrder
  <2>2. /\ OpenRange' <=> OpenRange
        /\ \A i : RangeAnew(i)' <=> RangeAnew(i)
    BY <1>1 DEF OpenRange, RangeAnew, Has
  <2>3. ASSUME NEW i \in DOMAIN payload, payload[i] <= FirstEnd PROVE payload[i] <= FirstEnd'
    <3>1. payload[i] \in Nat /\ asked # NotYet
      BY <2>3 DEF Inv, Types, LoopInv
    <3>2. asked.end \in Int /\ Buffer \in Nat
      BY <3>1, QueryAssumption DEF Inv, LoopInv, Asked
    <3>3. QED
      BY <1>1, <1>3, <2>3, <3>1, <3>2 DEF FirstEnd
  <2>4. Within'
    BY <1>1, <2>2, <2>3 DEF Inv, PagesFit, Within
  <2>5. QED
    BY <2>1, <2>4 DEF PagesFit
<1>7. Complete'
  BY <1>1, <1>2 DEF Inv, Complete, AtTheEdge
<1>8. QED
  BY <1>5, <1>6, <1>7

\* Nothing is wrong with an empty result.
LEMMA EmptyFits ==
    ASSUME payload' = <<>>, pc' # "done", pc' = "ask" => asked' = NotYet,
           pc' = "idle" => asked' = NotYet, asked' # NotYet => Asked(asked')
    PROVE  (LoopInv /\ PagesFit /\ Complete)'
<1>1. LoopInv'
  BY DEF LoopInv, NotYet
<1>2. PagesFit' /\ Complete'
  BY DEF PagesFit, InOrder, Within, Complete
<1>3. QED
  BY <1>1, <1>2

\* The next request: time-start is moved, all else stays.
LEMMA NextRequest ==
    ASSUME NEW q, Request(q), NEW s \in Nat, NEW next, next = With(q, "time-start", s)
    PROVE  /\ Request(next) /\ next["time-start"] = s
           /\ Has(next, "time") <=> Has(q, "time")
           /\ Has(next, "time-end") <=> Has(q, "time-end")
           /\ "time-end" \in DOMAIN next <=> "time-end" \in DOMAIN q
           /\ "time-end" \in DOMAIN q => next["time-end"] = q["time-end"]
<1>1. /\ DOMAIN next = DOMAIN q \cup {"time-start"} /\ next["time-start"] = s
      /\ \A k \in DOMAIN q : k # "time-start" => next[k] = q[k]
  BY DEF With
<1>2. /\ Has(next, "limit") /\ next["limit"] = Limit
      /\ Has(next, "time") <=> Has(q, "time")
      /\ Has(next, "time-end") <=> Has(q, "time-end")
      /\ "time-end" \in DOMAIN next <=> "time-end" \in DOMAIN q
      /\ "time-end" \in DOMAIN q => next["time-end"] = q["time-end"]
  BY <1>1 DEF Request, Has
<1>3. DOMAIN next \subseteq TimeKeys \cup {"limit"}
  BY <1>1 DEF Request, TimeKeys
<1>4. \A k \in TimeKeys : k \in DOMAIN next => next[k] \in Nat \cup {None}
  BY <1>1 DEF Request
<1>5. QED
  BY <1>1, <1>2, <1>3, <1>4 DEF Request

\* The answer to a request, or the error.
LEMMA PageStep ==
    ASSUME Inv, Page
    PROVE  Inv'
<1>1. /\ Stored(store) /\ steady \subseteq store /\ now \in Nat /\ series \in Rows
      /\ payload \in Seq(Nat) /\ Request(q_params) /\ Filter(filters) /\ now \in 0..MaxTime
  BY ClientAssumption DEF Inv, Types, Page
<1>2. /\ store' = store /\ now' = now /\ filters' = filters /\ series' = series
      /\ asked' = IF asked = NotYet THEN AskedBy(q_params) ELSE asked
      /\ steady' = IF asked = NotYet THEN store ELSE steady
  BY DEF Page
<1>3. PICK q : q = q_params
  OBVIOUS
<1>4. PICK p : p = payload
  OBVIOUS
<1>5. PICK a : a = asked'
  OBVIOUS
<1>6. PICK times : times = Times(steady)'
  OBVIOUS
<1>7. PICK w : w = TimeFilters(q, now)
  OBVIOUS
<1>8. PICK r : r = Retrieve(store, Uri(series), q, now)
  OBVIOUS
<1>9. /\ times \subseteq Times(store) /\ times \subseteq Nat
      /\ asked # NotYet => times = Times(steady)
  <2>1. Times(store) \subseteq Nat
    BY <1>1, TimesType, ClientAssumption
  <2>2. times \subseteq Times(store) /\ (asked # NotYet => times = Times(steady))
    BY <1>1, <1>2, <1>6 DEF Times
  <2>3. QED
    BY <2>1, <2>2
<1>10. Fits(p, asked) /\ Ends(q, p, asked, now)
  <2>1. Fits(p, asked)
    BY <1>1, <1>4, FitsParts DEF Inv, PagesFit, InOrder, Within
  <2>2. \A i \in DOMAIN p : p[i] <= FirstEnd \/ (OpenRange /\ RangeAnew(i))
    BY <1>4 DEF Inv, PagesFit, Within
  <2>3. End(asked, now) = FirstEnd /\ (Open(q) <=> OpenRange)
    BY <1>3 DEF End, FirstEnd, Open, OpenRange
  <2>4. \A i : RangeAnew(i) <=> Anew(q, p, i)
    BY <1>3, <1>4 DEF RangeAnew, Anew
  <2>5. QED
    BY <2>1, <2>2, <2>3, <2>4 DEF Ends
<1>11. /\ Asked(a) /\ a # NotYet /\ Before(q, p, a, times, w, now)
       /\ Unlimited(q, a) /\ Limited(q, p, a, w) /\ Ends(q, p, a, now)
  <2>1. CASE asked = NotYet
    <3>1. p = <<>> /\ a = AskedBy(q)
      BY <1>2, <1>3, <1>4, <1>5, <2>1 DEF Inv, LoopInv
    <3>2. Ends(q, p, a, now)
      BY <3>1 DEF Ends
    <3>3. QED
      BY <1>1, <1>3, <1>7, <1>9, <3>1, <3>2, BeforeFirst
  <2>2. CASE asked # NotYet
    <3>1. a = asked /\ Asked(a) /\ Midway(q, p, a, times, now) /\ Onward(q, p, a)
      BY <1>2, <1>3, <1>4, <1>5, <1>9, <2>2 DEF Inv, LoopInv, Page
    <3>2. Before(q, p, a, times, w, now) /\ Limited(q, p, a, w)
      BY <1>1, <1>3, <1>7, <1>9, <1>10, <3>1, BeforeLater
    <3>3. QED
      BY <1>10, <2>2, <3>1, <3>2 DEF Onward
  <2>3. QED
    BY <2>1, <2>2
<1>12. ASSUME payload' \in Seq(Nat), pc' \in {"ask", "done", "failed"},
              pc' = "ask" => Request(q_params')
       PROVE  Types'
  <2>1. Stored(store)' /\ Filter(filters)' /\ (steady \subseteq store)' /\ (series \in Rows)'
    BY <1>1, <1>2 DEF Stored, Filter
  <2>2. (now \in 0..MaxTime)'
    BY <1>1, <1>2
  <2>3. (pc = "ask" => Request(q_params))'
    BY <1>12 DEF Request, Has
  <2>4. QED
    BY <1>12, <2>1, <2>2, <2>3 DEF Types
<1>13. CASE r.status # 200 /\ GiveUp
  <2>1. payload' = <<>> /\ pc' = "failed"
    BY <1>13 DEF GiveUp
  <2>2. Types'
    BY <1>12, <2>1
  <2>3. (LoopInv /\ PagesFit /\ Complete)'
    BY <1>5, <1>11, <2>1, EmptyFits
  <2>4. QED
    BY <2>2, <2>3 DEF Inv
<1>14. CASE /\ r.status = 200
            /\ payload' = payload \o Ascending(r.data)
            /\ IF LastPage(r.data) THEN pc' = "done" /\ UNCHANGED q_params
               ELSE Advance(q_params, r.data)
  <2>1. PICK T : T = Between(store, w.begin, High(w))
    OBVIOUS
  <2>2. PICK P : P = r.data
    OBVIOUS
  <2>3. P = Slice(T, 1..Limit) /\ T \subseteq Nat /\ IsFiniteSet(T)
    <3>1. ValidRange(w)
      BY <1>7, <1>8, <1>14 DEF Retrieve
    <3>2. w.begin \in Int /\ w.end \in Int
      BY <1>1, <1>3, <1>7, FiltersParts
    <3>3. Has(q, "limit") /\ q["limit"] = Limit /\ ~ Has(q, "offset")
      BY <1>1, <1>3 DEF Request, Has, TimeKeys
    <3>4. PICK limit \in Nat \ {0} : limit = Limit
      BY ClientAssumption
    <3>5. PICK offset \in Nat : offset = 0
      OBVIOUS
    <3>6. r.data = Slice(T, (offset + 1)..(offset + limit)) /\ T \subseteq Nat /\ IsFiniteSet(T)
      BY <1>1, <1>7, <1>8, <2>1, <3>1, <3>2, <3>3, <3>4, <3>5, RetrieveIsSlice
    <3>7. offset + 1 = 1 /\ offset + limit = Limit
      BY <3>4, <3>5
    <3>8. QED
      BY <2>2, <3>6, <3>7
  <2>4. PICK c : c = p \o Ascending(P)
    OBVIOUS
  <2>5. payload' = c
    BY <1>4, <1>14, <2>2, <2>4
  <2>6. /\ c \in Seq(Nat) /\ Fits(c, a)
        /\ LastPage(P) => \A t \in times : Due(t, a) => Returned(c, t)
        /\ ~ LastPage(P) =>
             /\ Resume(P) \in Nat /\ Returned(c, Resume(P) - 1)
             /\ Midway(With(q, "time-start", Resume(P)), c, a, times, now)
    <3>1. Request(q) /\ p \in Seq(Nat) /\ Ordered(p)
      BY <1>1, <1>3, <1>4, <1>10 DEF Fits
    <3>2. Stored(store) /\ now \in Nat
      BY <1>1
    <3>3. Asked(a) /\ Before(q, p, a, times, w, now) /\ times \subseteq Times(store)
      BY <1>9, <1>11
    <3>4. QED
      BY <1>7, <2>1, <2>3, <2>4, <3>1, <3>2, <3>3, PageTaken
  <2>6a. P \subseteq Nat /\ IsFiniteSet(P) /\ Cardinality(P) <= Limit /\ P \subseteq T
    <3>1. T \subseteq Int /\ Limit \in Nat
      BY <2>3, ClientAssumption
    <3>4. PICK n \in Nat : n = Limit
      BY <3>1
    <3>5. P = Slice(T, 1..n)
      BY <2>3, <3>4
    <3>6. P \subseteq T /\ IsFiniteSet(P) /\ Cardinality(P) <= n
      BY <2>3, <3>1, <3>5, FirstPage
    <3>2. P \subseteq T /\ IsFiniteSet(P) /\ Cardinality(P) <= Limit
      BY <3>4, <3>6
    <3>3. QED
      BY <2>3, <3>2
  <2>6b. Ends(q, c, a, now)
    <3>1. Request(q) /\ p \in Seq(Nat)
      BY <1>1, <1>3, <1>4
    <3>2. Open(q) => q["time-range"] \in Nat
      BY <3>1 DEF Open, Has, Request, TimeKeys
    <3>3. w.end \in Int /\ a.end \in Int /\ Buffer \in Nat /\ now \in Nat
      BY <1>1, <1>7, <1>11, <3>1, FiltersParts, QueryAssumption DEF Asked
    <3>4. End(a, now) \in Int /\ High(w) \in Int
      BY <3>3 DEF End, High
    <3>5. \A t \in P : t <= High(w)
      BY <2>1, <2>6a DEF Between
    <3>6. Limited(q, p, a, w) /\ Ends(q, p, a, now)
      BY <1>11
    <3>7. QED
      BY <2>4, <2>6a, <3>1, <3>2, <3>4, <3>5, <3>6, EndsTaken
  <2>7. ASSUME Ends(q_params', c, a, now) PROVE PagesFit'
    <3>1. PICK q1 : q1 = q_params'
      OBVIOUS
    <3>2. /\ \A i, j \in DOMAIN c : i < j => c[i] < c[j]
          /\ \A i \in DOMAIN c : c[i] >= a.begin
      BY <2>6, FitsParts
    <3>3. \A i \in DOMAIN c : c[i] <= End(a, now) \/ (Open(q1) /\ Anew(q1, c, i))
      BY <2>7, <3>1 DEF Ends
    <3>4. FirstEnd' = End(a, now) /\ (OpenRange' <=> Open(q1))
      BY <1>2, <1>5, <3>1 DEF FirstEnd, End, OpenRange, Open, Has
    <3>5. \A i : RangeAnew(i)' <=> Anew(q1, c, i)
      BY <2>5, <3>1 DEF RangeAnew, Anew
    <3>6. InOrder'
      BY <2>5, <3>2 DEF InOrder
    <3>7. Within'
      BY <1>5, <2>5, <3>2, <3>3, <3>4, <3>5 DEF Within
    <3>8. QED
      BY <3>6, <3>7 DEF PagesFit
  <2>8. CASE LastPage(P)
    <3>1. pc' = "done" /\ q_params' = q
      BY <1>3, <1>14, <2>2, <2>8
    <3>2. Types'
      BY <1>12, <2>5, <2>6, <3>1
    <3>3. LoopInv'
      BY <1>5, <1>11, <3>1 DEF LoopInv, NotYet, Asked
    <3>4. PagesFit'
      BY <2>7, <2>6b, <3>1
    <3>5. Complete'
      <4>1. \A t \in times : a.begin <= t /\ t <= Bound(a) => \E i \in DOMAIN c : c[i] = t
        BY <2>6, <2>8 DEF Due, Returned
      <4>2. QED
        BY <1>5, <1>6, <2>5, <4>1 DEF Complete, Bound
    <3>6. QED
      BY <3>2, <3>3, <3>4, <3>5 DEF Inv
  <2>9. CASE ~ LastPage(P)
    <3>1. PICK s \in Nat : s = Resume(P)
      BY <2>6, <2>9
    <3>2. PICK next : next = With(q, "time-start", s)
      OBVIOUS
    <3>3. Returned(c, s - 1) /\ Midway(next, c, a, times, now)
      BY <2>6, <2>9, <3>1, <3>2
    <3>4. /\ q_params' = next
          /\ pc' = IF "time-end" \notin DOMAIN next THEN "ask"
                   ELSE IF next["time-end"] = None THEN "failed"
                   ELSE IF next["time-start"] >= next["time-end"] THEN "done"
                   ELSE "ask"
      BY <1>3, <1>14, <2>2, <2>9, <3>1, <3>2 DEF Advance
    <3>5. /\ Request(next) /\ next["time-start"] = s
          /\ Has(next, "time") <=> Has(q, "time")
          /\ Has(next, "time-end") <=> Has(q, "time-end")
      <4>1. Request(q)
        BY <1>1, <1>3
      <4>2. s \in Nat
        BY <3>1
      <4>3. QED
        BY <3>2, <4>1, <4>2, NextRequest
    <3>6. Types'
      BY <1>12, <2>5, <2>6, <3>4, <3>5
    <3>7. LoopInv'
      <4>0. Onward(q_params, payload, asked)'
        <5>1. Ordered(c) /\ p \in Seq(Nat) /\ Unlimited(q, a)
          BY <1>1, <1>4, <1>11, <2>6 DEF Fits
        <5>2. Onward(next, c, a)
          BY <2>4, <2>9, <2>6a, <3>1, <3>2, <5>1, OnwardNext
        <5>3. QED
          BY <1>5, <2>5, <3>4, <5>2 DEF Onward, Unlimited, Has
      <4>1. Midway(q_params, payload, asked, Times(steady), now)'
        BY <1>2, <1>5, <1>6, <2>5, <3>3, <3>4 DEF Midway, Bound, Due, Returned, Reaches, Has
      <4>2. Asked(asked)'
        BY <1>5, <1>11 DEF Asked
      <4>3. pc' # "idle" /\ asked' # NotYet'
        BY <1>5, <1>11, <3>4 DEF NotYet
      <4>4. QED
        BY <4>0, <4>1, <4>2, <4>3 DEF LoopInv
    <3>8. PagesFit'
      <4>1. Ends(next, c, a, now)
        BY <2>6b, <3>2, EndsKept
      <4>2. QED
        BY <2>7, <3>4, <4>1
    <3>9. Complete'
      <4>1. SUFFICES ASSUME pc' = "done", NEW t \in times, Due(t, a), ~ Returned(c, t)
                     PROVE  /\ Has(next, "time-end") /\ t = next["time-end"]
                            /\ Returned(c, t - 1)
        BY <1>5, <1>6, <2>5, <3>4 DEF Complete, AtTheEdge, Due, Bound, Returned, Has
      <4>2. /\ "time-end" \in DOMAIN next /\ next["time-end"] # None /\ s >= next["time-end"]
            /\ Has(next, "time-end")
        BY <3>4, <3>5, <4>1 DEF Has
      <4>3. next["time-end"] \in Nat /\ t \in Nat
        BY <1>9, <3>5, <4>2 DEF Request, TimeKeys
      <4>4. a.end = next["time-end"] /\ s <= t
        BY <3>3, <3>5, <4>1, <4>2 DEF Midway
      <4>5. t <= next["time-end"]
        BY <4>1, <4>2, <4>4 DEF Due, Bound
      <4>6. t = next["time-end"] /\ s = t
        BY <4>2, <4>3, <4>4, <4>5
      <4>7. QED
        BY <3>3, <4>2, <4>6
    <3>10. QED
      BY <3>6, <3>7, <3>8, <3>9 DEF Inv
  <2>10. QED
    BY <2>8, <2>9
<1>15. QED
  BY <1>3, <1>8, <1>13, <1>14 DEF Page

\* Every other step leaves what was returned alone, or drops it.
LEMMA StepInv ==
    ASSUME Inv, [Next]_vars
    PROVE  Inv'
<1>1. /\ Stored(store) /\ steady \subseteq store /\ now \in Nat /\ now \in 0..MaxTime
      /\ series \in Rows /\ Filter(filters) /\ payload \in Seq(Nat)
      /\ pc \in {"idle", "ask", "done", "failed"} /\ (pc = "ask" => Request(q_params))
      /\ MaxTime \in Nat
  BY ClientAssumption DEF Inv, Types
<1>2. ASSUME UNCHANGED client, now' \in 0..MaxTime, now <= now', steady' \subseteq steady,
             Stored(store'), steady' \subseteq store', Filter(filters')
      PROVE  Inv'
  <2>1. Types'
    <3>1. /\ pc' = pc /\ series' = series /\ q_params' = q_params /\ payload' = payload
      BY <1>2 DEF client
    <3>2. Stored(store)' /\ Filter(filters)' /\ (pc = "ask" => Request(q_params))'
      BY <1>1, <1>2, <3>1 DEF Stored, Filter, Request, Has
    <3>3. QED
      BY <1>1, <1>2, <3>1, <3>2 DEF Types
  <2>2. now' \in Nat
    BY <1>1, <1>2
  <2>3. QED
    BY <1>2, <2>1, <2>2, RestKeeps DEF Inv
<1>3. now <= now
  BY <1>1
<1>4. ASSUME SetFilter PROVE Inv'
  <2>1. PICK k \in DOMAIN Values : \E v \in Values[k] : filters' = With(filters, k, v)
    BY <1>4 DEF SetFilter
  <2>2. PICK v \in Values[k] : filters' = With(filters, k, v)
    BY <2>1
  <2>3. k \in TimeKeys /\ v \in Nat \cup {None}
    BY <2>1, <2>2, ClientAssumption DEF TimeKeys
  <2>4. Filter(filters')
    BY <1>1, <2>2, <2>3 DEF Filter, With
  <2>5. QED
    BY <1>1, <1>2, <1>3, <1>4, <2>4 DEF SetFilter
<1>5. ASSUME DelFilter PROVE Inv'
  <2>1. Filter(filters')
    BY <1>1, <1>5 DEF DelFilter, Filter
  <2>2. QED
    BY <1>1, <1>2, <1>3, <1>5, <2>1 DEF DelFilter
<1>6. ASSUME GetData PROVE Inv'
  <2>1. payload = <<>> /\ asked = NotYet
    BY <1>6 DEF GetData, Inv, LoopInv
  <2>2. Request(q_params')
    <3>1. PICK q : q = q_params'
      OBVIOUS
    <3>2. DOMAIN q = DOMAIN filters \cup {"limit"} /\ q["limit"] = Limit
          /\ \A k \in DOMAIN filters : k # "limit" => q[k] = filters[k]
      BY <1>6, <3>1 DEF GetData, With
    <3>3. Limit # None
      BY ClientAssumption DEF None
    <3>4. Request(q)
      BY <1>1, <3>2, <3>3 DEF Request, Filter, TimeKeys, Has
    <3>5. QED
      BY <3>1, <3>4
  <2>3. Types'
    <3>1. Stored(store)' /\ Filter(filters)' /\ Request(q_params)'
      BY <1>1, <1>6, <2>2 DEF GetData, Stored, Filter, Request, Has
    <3>2. QED
      BY <1>1, <1>6, <3>1 DEF GetData, Types
  <2>4. payload' = <<>> /\ asked' = NotYet /\ pc' = "ask"
    BY <1>6, <2>1 DEF GetData
  <2>5. QED
    BY <2>3, <2>4, EmptyFits DEF Inv
<1>7. ASSUME Continue PROVE Inv'
  <2>1. Types'
    <3>1. Stored(store)' /\ Filter(filters)'
      BY <1>1, <1>7 DEF Continue, Stored, Filter
    <3>2. (series \in Rows)'
      BY <1>7, ClientAssumption DEF Continue
    <3>3. QED
      BY <1>1, <1>7, <3>1, <3>2 DEF Continue, Types
  <2>2. payload' = <<>> /\ asked' = NotYet /\ pc' = "idle"
    BY <1>7 DEF Continue
  <2>3. QED
    BY <2>1, <2>2, EmptyFits DEF Inv
<1>8. ASSUME Unanswered PROVE Inv'
  <2>1. payload' = <<>> /\ pc' = "failed" /\ asked' = asked
    BY <1>8 DEF Unanswered, GiveUp
  <2>2. Types'
    <3>1. Stored(store)' /\ Filter(filters)'
      BY <1>1, <1>8 DEF Unanswered, Stored, Filter
    <3>2. QED
      BY <1>1, <1>8, <2>1, <3>1 DEF Unanswered, Types
  <2>3. asked' # NotYet => Asked(asked')
    BY <2>1 DEF Inv, LoopInv
  <2>4. QED
    BY <2>1, <2>2, <2>3, EmptyFits DEF Inv
<1>9. ASSUME Publish PROVE Inv'
  <2>1. PICK t \in 0..now : store' = store \cup {Cell(row, t) : row \in Rows}
    BY <1>9 DEF Publish
  <2>2. t \in 0..MaxTime
    BY <1>1, <2>1
  <2>3. \A row \in Rows : \E s \in 0..MaxTime : Cell(row, t).col = s * Milli
    BY <2>2, CellStored
  <2>4. Stored(store')
    BY <1>1, <2>1, <2>3 DEF Stored
  <2>5. steady' = steady /\ steady' \subseteq store'
    BY <1>1, <1>9, <2>1 DEF Publish
  <2>6. QED
    BY <1>1, <1>2, <1>3, <1>9, <2>4, <2>5 DEF Publish
<1>10. ASSUME Expire PROVE Inv'
  <2>1. PICK c \in store : store' = store \ {c} /\ steady' = steady \ {c}
    BY <1>10 DEF Expire
  <2>2. Stored(store') /\ steady' \subseteq store' /\ steady' \subseteq steady
    BY <1>1, <2>1 DEF Stored
  <2>3. QED
    BY <1>1, <1>2, <1>3, <1>10, <2>2 DEF Expire
<1>11. ASSUME Tick PROVE Inv'
  <2>1. now' \in 0..MaxTime /\ now <= now'
    BY <1>1, <1>11 DEF Tick
  <2>2. QED
    BY <1>1, <1>2, <1>11, <2>1 DEF Tick
<1>12. ASSUME UNCHANGED vars PROVE Inv'
  BY <1>1, <1>2, <1>3, <1>12 DEF vars
<1>13. QED
  BY <1>4, <1>5, <1>6, <1>7, <1>8, <1>9, <1>10, <1>11, <1>12, PageStep DEF Next

\* A page is a slice of the whole result.
LEMMA SliceOfAll == Types => PageIsSlice
<1>1. SUFFICES ASSUME Types, NEW n \in 1..Limit, NEW k \in 0..Limit, NEW f,
                      f = With(With(With(NoFilter, "limit", n), "offset", k), "time-end", MaxTime)
               PROVE  Retrieve(store, Uri(series), f, now).data =
                        {t \in Times(store) : Rank(Times(store), t) \in (k + 1)..(k + n)}
  BY DEF PageIsSlice
<1>2. Stored(store) /\ series \in Rows /\ now \in Nat /\ MaxTime \in Nat /\ Limit \in Nat
  BY <1>1, ClientAssumption DEF Types
<1>3. n \in Nat \ {0} /\ k \in Nat /\ None \notin Nat
  BY <1>1, <1>2 DEF None
<1>4. /\ DOMAIN f = {"limit", "offset", "time-end"}
      /\ f["limit"] = n /\ f["offset"] = k /\ f["time-end"] = MaxTime
  BY <1>1 DEF With, NoFilter
<1>5. /\ Has(f, "limit") /\ Has(f, "offset") /\ Has(f, "time-end")
      /\ ~ Has(f, "time") /\ ~ Has(f, "time-start") /\ ~ Has(f, "time-range")
  BY <1>2, <1>3, <1>4 DEF Has
<1>6. PICK w : w = TimeFilters(f, now)
  OBVIOUS
<1>7. w.begin = 0 /\ w.end = MaxTime
  BY <1>4, <1>5, <1>6 DEF TimeFilters
<1>8. ValidRange(w) /\ High(w) = MaxTime
  BY <1>2, <1>3, <1>7 DEF ValidRange, High
<1>9. PICK T : T = Between(store, w.begin, High(w))
  OBVIOUS
<1>10. T = Times(store)
  <2>1. \A t \in Times(store) : 0 <= t /\ t <= MaxTime
    BY <1>2, TimesType
  <2>2. QED
    BY <1>7, <1>8, <1>9, <2>1 DEF Between
<1>11. PICK r : r = Retrieve(store, Uri(series), f, now)
  OBVIOUS
<1>12. r.data = Slice(T, (k + 1)..(k + n))
  <2>1. k = IF Has(f, "offset") THEN f["offset"] ELSE 0
    BY <1>4, <1>5
  <2>2. w.begin \in Int /\ w.end \in Int
    BY <1>2, <1>7
  <2>3. QED
    BY <1>2, <1>3, <1>4, <1>5, <1>6, <1>8, <1>9, <1>11, <2>1, <2>2, RetrieveIsSlice
<1>13. QED
  BY <1>10, <1>11, <1>12 DEF Slice

-------------------------------------------------------------------------------
(* The theorems *)

\* The invariant of the loop holds throughout.
LEMMA Invariance == Spec => []Inv
<1>1. Init => Inv
  BY InitInv
<1>2. Inv /\ [Next]_vars => Inv'
  BY StepInv
<1>3. QED
  BY <1>1, <1>2, PTL DEF Spec

\* The pages that _query_with_limit puts together never overlap and never go back, none
\* has a value from before the range of the first request, and one from behind its end
\* only if it is a later page under a time-range that neither time nor time-end limits:
\* then it goes time-range seconds past the last value of a page before it, and no more.
THEOREM PagesNeverOverlap == Spec => []PagesFit
<1>1. Inv => PagesFit
  BY DEF Inv
<1>2. QED
  BY <1>1, Invariance, PTL

\* get_data, when it returns, has every value in the range of the first request that was
\* there all the time, but for the one at time-end when a full page ends just before it.
THEOREM NothingMissed == Spec => []Complete
<1>1. Inv => Complete
  BY DEF Inv
<1>2. QED
  BY <1>1, Invariance, PTL

\* limit and offset cut the same page out of the rows of the years, each read up to
\* limit + offset columns, as out of the whole series.
THEOREM LimitOfEachYearSuffices == Spec => []PageIsSlice
<1>1. Inv => PageIsSlice
  BY SliceOfAll DEF Inv
<1>2. QED
  BY <1>1, Invariance, PTL
===============================================================================
