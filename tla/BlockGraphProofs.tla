-------------------------- MODULE BlockGraphProofs --------------------------
(***************************************************************************)
(* What the nodes of the task graph are made of, for any features, blocks  *)
(* and requests: what a node depends on, how far a label reaches and what  *)
(* the join puts together.                                                 *)
(***************************************************************************)
EXTENDS BlockGraph, FiniteSetTheorems, SequenceTheorems, WellFoundedInduction, TLAPS

-----------------------------------------------------------------------------
(* Least and greatest elements.                                            *)

(* The least element of a set of natural numbers                           *)
LEMMA MinOfNats ==
  ASSUME NEW T \in SUBSET Nat, T # {}
  PROVE  Min(T) \in T /\ \A m \in T : Min(T) <= m
<1>1. PICK n \in T : \A m \in T : ~(<<m, n>> \in OpToRel(<, Nat))
  BY NatLessThanWellFounded, WFMin
<1>2. \A m \in T : ~(m < n)
  BY <1>1 DEF OpToRel
<1>3. n \in T /\ \A m \in T : n <= m
  BY <1>2
<1> QED BY <1>3 DEF Min

(* The greatest element of a bounded one                                   *)
LEMMA MaxOfNats ==
  ASSUME NEW T \in SUBSET Nat, T # {}, NEW bound \in Nat, \A m \in T : m <= bound
  PROVE  Max(T) \in T /\ \A m \in T : m <= Max(T)
<1> DEFINE U == {bound - m : m \in T}
<1>1. U \in SUBSET Nat /\ U # {}
  OBVIOUS
<1>2. Min(U) \in U /\ \A u \in U : Min(U) <= u
  <2> HIDE DEF U
  <2> QED BY <1>1, MinOfNats
<1>3. PICK n \in T : Min(U) = bound - n
  BY <1>2
<1>4. n \in T /\ \A m \in T : n >= m
  <2> SUFFICES ASSUME NEW m \in T PROVE n >= m
    BY <1>3
  <2>1. bound - n <= bound - m
    BY <1>2, <1>3
  <2> QED BY <2>1
<1> QED BY <1>4 DEF Max

(* A finite set of natural numbers is bounded.                             *)
LEMMA BoundOfFinite ==
  ASSUME NEW T \in SUBSET Nat, IsFiniteSet(T)
  PROVE  \E bound \in Nat : \A m \in T : m <= bound
<1> DEFINE G == {n \in Nat : \A U \in SUBSET Nat :
                   IsFiniteSet(U) /\ Cardinality(U) = n => \E b \in Nat : \A m \in U : m <= b}
           B == {n \in Nat : n \notin G}
<1> SUFFICES ASSUME B # {} PROVE FALSE
  BY FS_CardinalityType
<1>1. PICK n \in B : \A m \in B : n <= m
  <2>1. B \in SUBSET Nat
    OBVIOUS
  <2> HIDE DEF B
  <2> QED BY <2>1, MinOfNats
<1>2. PICK U \in SUBSET Nat : /\ IsFiniteSet(U) /\ Cardinality(U) = n
                              /\ ~\E b \in Nat : \A m \in U : m <= b
  OBVIOUS
<1>3. PICK x \in U : TRUE
  BY <1>2
<1>4. IsFiniteSet(U \ {x}) /\ Cardinality(U \ {x}) = n - 1
  BY <1>2, FS_RemoveElement
<1>5. n - 1 \in Nat /\ n - 1 \in G
  <2>1. Cardinality(U \ {x}) \in Nat
    BY <1>4, FS_CardinalityType
  <2>2. n \in Nat /\ ~(n <= n - 1) /\ n - 1 \notin B
    BY <1>1, <1>4, <2>1
  <2> QED BY <1>4, <2>1, <2>2
<1>6. PICK b \in Nat : \A m \in U \ {x} : m <= b
  BY <1>4, <1>5
<1>7. \A m \in U : m <= b + x
  BY <1>6
<1> QED BY <1>2, <1>7

-----------------------------------------------------------------------------
(* The order of blocks.                                                    *)

LEMMA BeforeIsOrder ==
  /\ \A a, b \in Block : a # b => Before(a, b) \/ Before(b, a)
  /\ \A a \in Block : ~Before(a, a)
  /\ \A a, b, c \in Block : Before(a, b) /\ Before(b, c) => Before(a, c)
BY DEF Before, Block

(* A sequence that enumerates a set of blocks in order                     *)
Enumerates(s, S, n) ==
  /\ s \in [1..n -> S]
  /\ \A m, l \in 1..n : m < l => Before(s[m], s[l])
  /\ \A b \in S : \E m \in 1..n : s[m] = b

Below(S, b) == {a \in S : Before(a, b)}

(* A block with fewer blocks below it is the earlier one.                  *)
LEMMA RankOrders ==
  ASSUME NEW S \in SUBSET Block, IsFiniteSet(S), NEW a \in S, NEW b \in S, Before(a, b)
  PROVE  Cardinality(Below(S, a)) < Cardinality(Below(S, b))
<1>1. Below(S, a) \subseteq Below(S, b) /\ Below(S, a) # Below(S, b)
  BY BeforeIsOrder DEF Below
<1>2. IsFiniteSet(Below(S, b)) /\ Below(S, b) \in SUBSET S
  BY FS_Subset DEF Below
<1>3. /\ IsFiniteSet(Below(S, a))
      /\ Cardinality(Below(S, a)) <= Cardinality(Below(S, b))
      /\ Cardinality(Below(S, b)) = Cardinality(Below(S, a)) => Below(S, b) = Below(S, a)
  BY <1>1, <1>2, FS_Subset
<1>4. Cardinality(Below(S, a)) \in Nat /\ Cardinality(Below(S, b)) \in Nat
  BY <1>2, <1>3, FS_CardinalityType
<1> QED BY <1>1, <1>3, <1>4

(* Every finite set of blocks can be enumerated in order ...               *)
LEMMA OrderExists ==
  ASSUME NEW S \in SUBSET Block, IsFiniteSet(S)
  PROVE  \E s : Enumerates(s, S, Cardinality(S))
<1> DEFINE N == Cardinality(S)
           rank == [b \in S |-> Cardinality(Below(S, b)) + 1]
<1>1. N \in Nat /\ IsFiniteSet(1..N) /\ Cardinality(1..N) = N
  BY FS_CardinalityType, FS_Interval
<1>2. \A b \in S : rank[b] \in 1..N
  <2> TAKE b \in S
  <2>1. Below(S, b) \in SUBSET S /\ b \in S /\ b \notin Below(S, b)
    BY BeforeIsOrder DEF Below
  <2>2. Below(S, b) \in SUBSET S /\ Below(S, b) # S
    BY <2>1
  <2>3. /\ IsFiniteSet(Below(S, b)) /\ Cardinality(Below(S, b)) <= N
        /\ N = Cardinality(Below(S, b)) => S = Below(S, b)
    BY <2>2, FS_Subset
  <2>4. Cardinality(Below(S, b)) \in Nat
    BY <2>3, FS_CardinalityType
  <2> QED BY <1>1, <2>2, <2>3, <2>4
<1>3. \A a, b \in S : Before(a, b) => rank[a] < rank[b]
  <2> SUFFICES ASSUME NEW a \in S, NEW b \in S, Before(a, b)
      PROVE Cardinality(Below(S, a)) + 1 < Cardinality(Below(S, b)) + 1
    OBVIOUS
  <2>1. Cardinality(Below(S, a)) \in Nat /\ Cardinality(Below(S, b)) \in Nat
    BY FS_Subset, FS_CardinalityType DEF Below
  <2> QED BY <2>1, RankOrders
<1>4. rank \in [S -> 1..N]
  BY <1>2
<1> HIDE DEF rank
<1>5. \A a, b \in S : rank[a] = rank[b] => a = b
  <2> SUFFICES ASSUME NEW a \in S, NEW b \in S, rank[a] = rank[b], a # b PROVE FALSE
    OBVIOUS
  <2>1. rank[a] < rank[b] \/ rank[b] < rank[a]
    BY <1>3, BeforeIsOrder
  <2> QED BY <2>1, <1>2
<1>6. rank \in Injection(S, 1..N)
  BY <1>4, <1>5 DEF Injection, IsInjective
<1>7. rank \in Surjection(S, 1..N)
  <2> HIDE DEF N
  <2>1. Cardinality(S) = Cardinality(1..N)
    BY <1>1 DEF N
  <2> QED BY <1>1, <1>6, <2>1, FS_Injection
<1>8. \A n \in 1..N : \E b \in S : rank[b] = n
  BY <1>7 DEF Surjection
<1> DEFINE s == [n \in 1..N |-> CHOOSE b \in S : rank[b] = n]
<1>9. \A n \in 1..N : s[n] \in S /\ rank[s[n]] = n
  BY <1>8
<1>10. s \in [1..N -> S]
  BY <1>9
<1> HIDE DEF s, N
<1>11. ASSUME NEW m \in 1..N, NEW l \in 1..N, m < l
       PROVE  Before(s[m], s[l])
  <2>1. s[m] \in S /\ s[l] \in S /\ rank[s[m]] = m /\ rank[s[l]] = l
    BY <1>9
  <2>2. m \in Nat /\ l \in Nat /\ ~(l < m) /\ m # l
    BY <1>1, <1>11
  <2>3. s[m] # s[l]
    BY <2>1, <2>2
  <2>4. ~Before(s[l], s[m])
    BY <2>1, <2>2, <1>3
  <2> QED BY <2>1, <2>3, <2>4, BeforeIsOrder
<1>12. \A b \in S : \E m \in 1..N : s[m] = b
  <2> TAKE b \in S
  <2>1. s[rank[b]] = b /\ rank[b] \in 1..N
    BY <1>2, <1>5, <1>9
  <2> QED BY <2>1
<1>13. Enumerates(s, S, N)
  BY <1>10, <1>11, <1>12 DEF Enumerates
<1> QED BY <1>13 DEF N

(* ... and InOrder is one that does.                                       *)
LEMMA InOrderEnumerates ==
  ASSUME NEW S \in SUBSET Block, IsFiniteSet(S)
  PROVE  Enumerates(InOrder(S), S, Cardinality(S))
<1> DEFINE N == Cardinality(S)
           t == InOrder(S)
<1>1. N \in Nat /\ IsFiniteSet(1..N) /\ Cardinality(1..N) = N
  BY FS_CardinalityType, FS_Interval
<1>2. PICK s : Enumerates(s, S, N)
  BY OrderExists
<1>3. s \in [1..N -> S] /\ \A m, l \in DOMAIN s : m < l => Before(s[m], s[l])
  BY <1>2 DEF Enumerates
<1>4. t \in [1..N -> S] /\ \A m, l \in DOMAIN t : m < l => Before(t[m], t[l])
  BY <1>3 DEF InOrder
<1> HIDE DEF t
<1>5. \A m, l \in 1..N : m < l => Before(t[m], t[l])
  BY <1>4
<1>6. \A m, l \in 1..N : t[m] = t[l] => m = l
  <2> SUFFICES ASSUME NEW m \in 1..N, NEW l \in 1..N, m < l PROVE t[m] # t[l]
    BY <1>1
  <2>1. Before(t[m], t[l]) /\ t[m] \in Block
    BY <1>4, <1>5
  <2> QED BY <2>1, BeforeIsOrder
<1>7. t \in Injection(1..N, S)
  BY <1>4, <1>6 DEF Injection, IsInjective
<1>8. t \in Surjection(1..N, S)
  <2> HIDE DEF N
  <2>1. Cardinality(S) = Cardinality(1..N)
    BY <1>1 DEF N
  <2> QED BY <1>1, <1>7, <2>1, FS_Injection
<1>9. \A b \in S : \E m \in 1..N : t[m] = b
  BY <1>8 DEF Surjection
<1>10. Enumerates(t, S, N)
  BY <1>4, <1>5, <1>9 DEF Enumerates
<1> QED BY <1>10 DEF t

(* Before the m-th block of an enumeration there are m - 1.                *)
LEMMA RankOfPlace ==
  ASSUME NEW S \in SUBSET Block, NEW n \in Nat, NEW s, Enumerates(s, S, n), NEW m \in 1..n
  PROVE  Cardinality(Below(S, s[m])) = m - 1
<1> DEFINE f == [l \in 1..(m - 1) |-> s[l]]
<1>1. /\ s \in [1..n -> S]
      /\ \A k, l \in 1..n : k < l => Before(s[k], s[l])
      /\ \A b \in S : \E k \in 1..n : s[k] = b
  BY DEF Enumerates
<1>2. \A k \in 1..n : Before(s[k], s[m]) => k < m
  <2> SUFFICES ASSUME NEW k \in 1..n, Before(s[k], s[m]), ~(k < m) PROVE FALSE
    OBVIOUS
  <2>1. k = m \/ m < k
    OBVIOUS
  <2>2. s[k] \in Block /\ s[m] \in Block
    BY <1>1
  <2>3. s[k] = s[m] \/ Before(s[m], s[k])
    BY <1>1, <2>1
  <2> QED BY <2>2, <2>3, BeforeIsOrder
<1>3. f \in [1..(m - 1) -> Below(S, s[m])]
  BY <1>1 DEF Below
<1>4. \A b \in Below(S, s[m]) : \E k \in 1..(m - 1) : f[k] = b
  <2> SUFFICES ASSUME NEW b \in Below(S, s[m]) PROVE \E k \in 1..(m - 1) : f[k] = b
    OBVIOUS
  <2>1. PICK k \in 1..n : s[k] = b
    BY <1>1 DEF Below
  <2>2. k < m
    BY <1>2, <2>1 DEF Below
  <2>3. k \in 1..(m - 1) /\ f[k] = b
    BY <2>1, <2>2
  <2> QED BY <2>3
<1>5. \A k, l \in 1..(m - 1) : f[k] = f[l] => k = l
  <2> SUFFICES ASSUME NEW k \in 1..(m - 1), NEW l \in 1..(m - 1), k < l PROVE s[k] # s[l]
    OBVIOUS
  <2>1. Before(s[k], s[l]) /\ s[k] \in Block
    BY <1>1
  <2> QED BY <2>1, BeforeIsOrder
<1>6. f \in Bijection(1..(m - 1), Below(S, s[m]))
  <2> HIDE DEF f
  <2>1. f \in Injection(1..(m - 1), Below(S, s[m]))
    BY <1>3, <1>5 DEF Injection, IsInjective
  <2>2. f \in Surjection(1..(m - 1), Below(S, s[m]))
    BY <1>3, <1>4 DEF Surjection
  <2> QED BY <2>1, <2>2 DEF Bijection
<1>7. ExistsBijection(1..(m - 1), Below(S, s[m]))
  <2> HIDE DEF f
  <2> QED BY <1>6 DEF ExistsBijection
<1>8. IsFiniteSet(1..(m - 1)) /\ Cardinality(1..(m - 1)) = m - 1
  BY FS_Interval
<1> QED BY <1>7, <1>8, FS_Bijection

(* There is one enumeration only.                                          *)
LEMMA EnumerationIsInOrder ==
  ASSUME NEW S \in SUBSET Block, NEW n \in Nat, NEW s, Enumerates(s, S, n)
  PROVE  IsFiniteSet(S) /\ Cardinality(S) = n /\ s = InOrder(S)
<1>1. /\ s \in [1..n -> S]
      /\ \A k, l \in 1..n : k < l => Before(s[k], s[l])
      /\ \A b \in S : \E k \in 1..n : s[k] = b
  BY DEF Enumerates
<1>2. \A k, l \in 1..n : s[k] = s[l] => k = l
  <2> SUFFICES ASSUME NEW k \in 1..n, NEW l \in 1..n, k < l PROVE s[k] # s[l]
    OBVIOUS
  <2>1. Before(s[k], s[l]) /\ s[k] \in Block
    BY <1>1
  <2> QED BY <2>1, BeforeIsOrder
<1>3. s \in Injection(1..n, S)
  BY <1>1, <1>2 DEF Injection, IsInjective
<1>4. s \in Surjection(1..n, S)
  BY <1>1 DEF Surjection
<1>5. ExistsBijection(1..n, S)
  BY <1>3, <1>4 DEF ExistsBijection, Bijection
<1>6. IsFiniteSet(1..n) /\ Cardinality(1..n) = n
  BY FS_Interval
<1>7. IsFiniteSet(S) /\ Cardinality(S) = n
  BY <1>5, <1>6, FS_Bijection
<1> DEFINE t == InOrder(S)
<1>8. Enumerates(t, S, n)
  BY <1>7, InOrderEnumerates
<1> HIDE DEF t
<1>9. t \in [1..n -> S]
  BY <1>8 DEF Enumerates
<1>10. \A m \in 1..n : s[m] = t[m]
  <2> SUFFICES ASSUME NEW m \in 1..n, s[m] # t[m] PROVE FALSE
    OBVIOUS
  <2>1. s[m] \in S /\ t[m] \in S
    BY <1>1, <1>9
  <2>2. Cardinality(Below(S, s[m])) = m - 1
    BY RankOfPlace
  <2>3. Cardinality(Below(S, t[m])) = m - 1
    BY <1>8, RankOfPlace
  <2>4. Before(s[m], t[m]) \/ Before(t[m], s[m])
    BY <2>1, BeforeIsOrder
  <2>5. \/ Cardinality(Below(S, s[m])) < Cardinality(Below(S, t[m]))
        \/ Cardinality(Below(S, t[m])) < Cardinality(Below(S, s[m]))
    BY <1>7, <2>1, <2>4, RankOrders
  <2> QED BY <2>2, <2>3, <2>5
<1>11. s = t
  BY <1>1, <1>9, <1>10
<1> QED BY <1>7, <1>11 DEF t

-----------------------------------------------------------------------------
(* Blocks that at most touch.                                              *)

Apart(S) == \A a, b \in S : a # b => a.end <= b.start \/ b.end <= a.start
StartsDiffer(S) == \A a, b \in S : a.start = b.start => a = b

Ordered(s) ==
  /\ s \in Seq(Block)
  /\ \A m, n \in DOMAIN s : m < n => Before(s[m], s[n]) /\ s[m].end <= s[n].start

LEMMA OrderedSeq ==
  ASSUME NEW s, Ordered(s)
  PROVE  /\ Len(s) \in Nat /\ DOMAIN s = 1..Len(s) /\ s \in [1..Len(s) -> Block]
         /\ \A n \in DOMAIN s : /\ s[n] \in Block /\ n \in Nat
                                /\ s[n].start \in Nat /\ s[n].end \in Nat /\ s[n].start <= s[n].end
<1>1. Len(s) \in Nat /\ DOMAIN s = 1..Len(s) /\ s \in [1..Len(s) -> Block]
  BY LenProperties DEF Ordered
<1> QED BY <1>1 DEF Block

(* The blocks of a set in order, and the set of the blocks of a sequence   *)
LEMMA InOrderOrdered ==
  ASSUME NEW S \in SUBSET Block, IsFiniteSet(S)
  PROVE  /\ InOrder(S) \in Seq(Block) /\ Len(InOrder(S)) = Cardinality(S)
         /\ Range(InOrder(S)) = S
         /\ Apart(S) => Ordered(InOrder(S))
<1> DEFINE N == Cardinality(S)
           t == InOrder(S)
<1>1. N \in Nat
  BY FS_CardinalityType
<1>2. Enumerates(t, S, N)
  BY InOrderEnumerates
<1> HIDE DEF t, N
<1>3. /\ t \in [1..N -> S]
      /\ \A k, l \in 1..N : k < l => Before(t[k], t[l])
      /\ \A b \in S : \E k \in 1..N : t[k] = b
  BY <1>2 DEF Enumerates
<1>4. t \in Seq(Block) /\ Len(t) = N
  BY <1>1, <1>3
<1>5. Range(t) = S
  BY <1>3 DEF Range
<1>6. ASSUME Apart(S) PROVE Ordered(t)
  <2> SUFFICES ASSUME NEW k \in 1..N, NEW l \in 1..N, k < l PROVE t[k].end <= t[l].start
    BY <1>3, <1>4 DEF Ordered
  <2>1. t[k] \in S /\ t[l] \in S /\ t[k] \in Block /\ t[l] \in Block /\ Before(t[k], t[l])
    BY <1>3
  <2>2. t[k] # t[l]
    BY <2>1, BeforeIsOrder
  <2>3. t[k].end <= t[l].start \/ t[l].end <= t[k].start
    BY <1>6, <2>1, <2>2 DEF Apart
  <2> QED BY <2>1, <2>3 DEF Before, Block
<1> QED BY <1>4, <1>5, <1>6 DEF t, N

LEMMA OrderedIsInOrder ==
  ASSUME NEW s, Ordered(s)
  PROVE  /\ Range(s) \in SUBSET Block /\ IsFiniteSet(Range(s)) /\ Cardinality(Range(s)) = Len(s)
         /\ s = InOrder(Range(s)) /\ Apart(Range(s))
<1>1. Len(s) \in Nat /\ DOMAIN s = 1..Len(s) /\ s \in [1..Len(s) -> Block]
  BY OrderedSeq
<1>2. Enumerates(s, Range(s), Len(s)) /\ Range(s) \in SUBSET Block
  BY <1>1 DEF Ordered, Enumerates, Range
<1>3. Apart(Range(s))
  BY <1>1 DEF Ordered, Apart, Range
<1> QED BY <1>1, <1>2, <1>3, EnumerationIsInOrder

-----------------------------------------------------------------------------
(* Interval dicts: what is assigned at a cell, and the keys of items().    *)

LEMMA CellsOfBlock ==
  ASSUME NEW b \in Block, NEW c
  PROVE  c \in Cells(b) <=> c \in Nat /\ 2 * b.start <= c /\ c <= 2 * b.end
BY DEF Cells, Block

LEMMA WithinTransitive ==
  ASSUME NEW a \in Block, NEW b \in Block, NEW c \in Block, Within(a, b), Within(b, c)
  PROVE  Within(a, c)
BY DEF Within, Block

LEMMA AssignedAt ==
  ASSUME NEW s, NEW values, NEW last \in Nat, DOMAIN s \subseteq 0..last
  PROVE  /\ DOMAIN Assigned(s, values) = UNION {Cells(s[n]) : n \in DOMAIN s}
         /\ \A c \in DOMAIN Assigned(s, values) : \E n \in DOMAIN s :
              /\ c \in Cells(s[n]) /\ Assigned(s, values)[c] = values[n]
              /\ \A m \in DOMAIN s : c \in Cells(s[m]) => m <= n
<1>1. DOMAIN Assigned(s, values) = UNION {Cells(s[n]) : n \in DOMAIN s}
  BY DEF Assigned
<1>2. ASSUME NEW c \in DOMAIN Assigned(s, values)
      PROVE  \E n \in DOMAIN s :
               /\ c \in Cells(s[n]) /\ Assigned(s, values)[c] = values[n]
               /\ \A m \in DOMAIN s : c \in Cells(s[m]) => m <= n
  <2> DEFINE T == {n \in DOMAIN s : c \in Cells(s[n])}
  <2>1. T # {} /\ T \in SUBSET Nat /\ \A m \in T : m <= last
    BY <1>1, <1>2
  <2>2. Max(T) \in T /\ \A m \in T : m <= Max(T)
    <3> HIDE DEF T
    <3> QED BY <2>1, MaxOfNats
  <2>3. Assigned(s, values)[c] = values[Max(T)]
    BY <1>1, <1>2 DEF Assigned
  <2> HIDE DEF T
  <2>4. Max(T) \in DOMAIN s /\ c \in Cells(s[Max(T)])
    BY <2>2 DEF T
  <2>5. \A m \in DOMAIN s : c \in Cells(s[m]) => m <= Max(T)
    BY <2>2 DEF T
  <2> QED BY <2>3, <2>4, <2>5
<1> QED BY <1>1, <1>2

Timed(d) == DOMAIN d \in SUBSET Nat /\ IsFiniteSet(DOMAIN d)

(* A value holds from a point on, and without a gap.                       *)
LeftClosed(d) ==
  \A t \in Nat : 2 * t + 1 \in DOMAIN d => 2 * t \in DOMAIN d /\ d[2 * t] = d[2 * t + 1]
Gapless(d) ==
  \A c, e \in DOMAIN d : d[c] = d[e] => \A x \in c..e : x \in DOMAIN d /\ d[x] = d[c]

LEMMA AssignedTimed ==
  ASSUME NEW s, NEW values, NEW last \in Nat, DOMAIN s \subseteq 0..last,
         \A n \in DOMAIN s : s[n] \in Block
  PROVE  Timed(Assigned(s, values))
<1> DEFINE cells == {Cells(s[n]) : n \in DOMAIN s}
           f == [n \in DOMAIN s |-> Cells(s[n])]
<1>1. IsFiniteSet(0..last)
  BY FS_Interval
<1>2. IsFiniteSet(DOMAIN s)
  BY <1>1, FS_Subset
<1>3. f \in Surjection(DOMAIN s, cells)
  BY DEF Surjection
<1>4. IsFiniteSet(cells)
  <2> HIDE DEF f, cells
  <2> QED BY <1>2, <1>3, FS_Surjection
<1>5. \A T \in cells : IsFiniteSet(T)
  <2> SUFFICES ASSUME NEW n \in DOMAIN s PROVE IsFiniteSet(Cells(s[n]))
    OBVIOUS
  <2>1. 2 * s[n].start \in Int /\ 2 * s[n].end \in Int
    BY DEF Block
  <2> QED BY <2>1, FS_Interval DEF Cells
<1>6. IsFiniteSet(UNION cells)
  <2> HIDE DEF cells
  <2> QED BY <1>4, <1>5, FS_UNION
<1>7. DOMAIN Assigned(s, values) = UNION cells
  BY DEF Assigned
<1>8. UNION cells \subseteq Nat
  BY CellsOfBlock
<1> QED BY <1>6, <1>7, <1>8 DEF Timed

(* In a sequence of blocks in order only the next one can take something   *)
(* from a block, the point where they touch.                               *)
LEMMA OnlyTheEndIsTaken ==
  ASSUME NEW s, Ordered(s), NEW m \in DOMAIN s, NEW n \in DOMAIN s, m < n,
         NEW c \in Cells(s[m]), c \in Cells(s[n])
  PROVE  c = 2 * s[m].end /\ c = 2 * s[n].start
<1>1. s[m] \in Block /\ s[n] \in Block /\ s[m].end <= s[n].start
  BY OrderedSeq DEF Ordered
<1> QED BY <1>1, CellsOfBlock DEF Block

LEMMA AssignedInOrder ==
  ASSUME NEW s, Ordered(s), NEW values
  PROVE  /\ Timed(Assigned(s, values))
         /\ \A c \in DOMAIN Assigned(s, values) : \E n \in DOMAIN s :
              /\ c \in Cells(s[n]) /\ Assigned(s, values)[c] = values[n]
              /\ \A m \in DOMAIN s : c \in Cells(s[m]) => m <= n
         /\ LeftClosed(Assigned(s, values))
<1> DEFINE d == Assigned(s, values)
<1>1. /\ Len(s) \in Nat /\ DOMAIN s = 1..Len(s) /\ DOMAIN s \subseteq 0..Len(s)
      /\ \A n \in DOMAIN s : s[n] \in Block /\ n \in Nat
  BY OrderedSeq
<1>2. /\ DOMAIN d = UNION {Cells(s[n]) : n \in DOMAIN s}
      /\ \A c \in DOMAIN d : \E n \in DOMAIN s :
           /\ c \in Cells(s[n]) /\ d[c] = values[n]
           /\ \A m \in DOMAIN s : c \in Cells(s[m]) => m <= n
  BY <1>1, AssignedAt
<1>3. Timed(d)
  BY <1>1, AssignedTimed
<1> HIDE DEF d
<1>4. ASSUME NEW t \in Nat, 2 * t + 1 \in DOMAIN d
      PROVE  2 * t \in DOMAIN d /\ d[2 * t] = d[2 * t + 1]
  <2>1. PICK n \in DOMAIN s : 2 * t + 1 \in Cells(s[n]) /\ d[2 * t + 1] = values[n]
    BY <1>2, <1>4
  <2>2. 2 * t \in Cells(s[n]) /\ t < s[n].end
    BY <1>1, <2>1, CellsOfBlock DEF Block
  <2>3. 2 * t \in DOMAIN d
    BY <1>2, <2>2
  <2>4. PICK m \in DOMAIN s : /\ 2 * t \in Cells(s[m]) /\ d[2 * t] = values[m]
                              /\ \A l \in DOMAIN s : 2 * t \in Cells(s[l]) => l <= m
    BY <1>2, <2>3
  <2>5. ~(n < m)
    <3> SUFFICES ASSUME n < m PROVE FALSE
      OBVIOUS
    <3>1. 2 * t = 2 * s[n].end
      BY <2>2, <2>4, OnlyTheEndIsTaken
    <3> QED BY <1>1, <2>2, <3>1 DEF Block
  <2>6. n = m
    BY <1>1, <2>2, <2>4, <2>5
  <2> QED BY <2>1, <2>3, <2>4, <2>6
<1>5. LeftClosed(d)
  BY <1>4 DEF LeftClosed
<1> QED BY <1>2, <1>3, <1>5 DEF d

(* Values that differ are assigned without a gap.                          *)
LEMMA AssignedGapless ==
  ASSUME NEW s, Ordered(s), NEW values, \A m, n \in DOMAIN s : values[m] = values[n] => m = n
  PROVE  Gapless(Assigned(s, values))
<1> DEFINE d == Assigned(s, values)
<1>1. \A n \in DOMAIN s : s[n] \in Block /\ n \in Nat
  BY OrderedSeq
<1>2. \A c \in DOMAIN d : \E n \in DOMAIN s :
           /\ c \in Cells(s[n]) /\ d[c] = values[n]
           /\ \A m \in DOMAIN s : c \in Cells(s[m]) => m <= n
  BY AssignedInOrder
<1>3. DOMAIN d = UNION {Cells(s[n]) : n \in DOMAIN s}
  BY DEF Assigned
<1> HIDE DEF d
<1> SUFFICES ASSUME NEW c \in DOMAIN d, NEW e \in DOMAIN d, d[c] = d[e], NEW x \in c..e
             PROVE  x \in DOMAIN d /\ d[x] = d[c]
  BY DEF Gapless, d
<1>4. PICK n \in DOMAIN s : /\ c \in Cells(s[n]) /\ d[c] = values[n]
                            /\ \A m \in DOMAIN s : c \in Cells(s[m]) => m <= n
  BY <1>2
<1>5. PICK m \in DOMAIN s : /\ e \in Cells(s[m]) /\ d[e] = values[m]
                            /\ \A l \in DOMAIN s : e \in Cells(s[l]) => l <= m
  BY <1>2
<1>6. m = n
  BY <1>4, <1>5
<1>7. c \in Nat /\ e \in Nat /\ x \in Nat /\ c <= x /\ x <= e
  BY <1>1, <1>4, <1>5, CellsOfBlock
<1>8. x \in Cells(s[n])
  BY <1>1, <1>4, <1>5, <1>6, <1>7, CellsOfBlock DEF Block
<1>9. x \in DOMAIN d
  BY <1>3, <1>8
<1>10. PICK l \in DOMAIN s : /\ x \in Cells(s[l]) /\ d[x] = values[l]
                             /\ \A k \in DOMAIN s : x \in Cells(s[k]) => k <= l
  BY <1>2, <1>9
<1>11. ~(n < l)
  <2> SUFFICES ASSUME n < l PROVE FALSE
    OBVIOUS
  <2>1. x = 2 * s[n].end /\ x = 2 * s[l].start
    BY <1>8, <1>10, OnlyTheEndIsTaken
  <2>2. x = e
    BY <1>1, <1>5, <1>6, <1>7, <2>1, CellsOfBlock DEF Block
  <2> QED BY <1>1, <1>5, <1>6, <1>10, <2>2
<1>12. l = n
  BY <1>1, <1>8, <1>10, <1>11
<1> QED BY <1>4, <1>9, <1>10, <1>12

(* The closed interval around some cells                                   *)
LEMMA Hull ==
  ASSUME NEW S \in SUBSET Nat, S # {}, IsFiniteSet(S)
  PROVE  /\ ClosedAround(S) \in Block
         /\ S \subseteq Cells(ClosedAround(S))
         /\ \A b \in Block : S \subseteq Cells(b) => Within(ClosedAround(S), b)
         /\ Min(S) \in S /\ Max(S) \in S /\ \A c \in S : Min(S) <= c /\ c <= Max(S)
         /\ ClosedAround(S).start = Min(S) \div 2 /\ ClosedAround(S).end = (Max(S) + 1) \div 2
<1>1. Min(S) \in S /\ \A c \in S : Min(S) <= c
  BY MinOfNats
<1>2. \E bound \in Nat : \A c \in S : c <= bound
  BY BoundOfFinite
<1>3. Max(S) \in S /\ \A c \in S : c <= Max(S)
  BY <1>2, MaxOfNats
<1> DEFINE a == Min(S)
           z == Max(S)
           h == ClosedAround(S)
<1>4. a \in Nat /\ z \in Nat /\ a <= z
  BY <1>1, <1>3
<1>5. h = [start |-> a \div 2, end |-> (z + 1) \div 2]
  BY DEF ClosedAround
<1> HIDE DEF a, z, h
<1>6. h.start = a \div 2 /\ h.end = (z + 1) \div 2
  BY <1>5
<1>7. /\ h.start \in Nat /\ h.end \in Nat /\ h.start <= h.end
      /\ 2 * h.start <= a /\ a <= 2 * h.start + 1 /\ z <= 2 * h.end /\ 2 * h.end <= z + 1
  BY <1>4, <1>6
<1>8. h \in Block
  BY <1>5, <1>6, <1>7 DEF Block
<1>9. S \subseteq Cells(h)
  <2> SUFFICES ASSUME NEW c \in S PROVE c \in Cells(h)
    OBVIOUS
  <2>1. a <= c /\ c <= z /\ c \in Nat
    BY <1>1, <1>3 DEF a, z
  <2> QED BY <1>4, <1>7, <1>8, <2>1, CellsOfBlock
<1>10. ASSUME NEW b \in Block, S \subseteq Cells(b) PROVE Within(h, b)
  <2>1. 2 * b.start <= a /\ z <= 2 * b.end
    BY <1>1, <1>3, <1>10, CellsOfBlock DEF a, z
  <2> QED BY <1>4, <1>7, <2>1 DEF Within, Block
<1> QED BY <1>1, <1>3, <1>6, <1>8, <1>9, <1>10 DEF a, z, h

Run(d, v) == {c \in DOMAIN d : d[c] = v}

LEMMA RunHull ==
  ASSUME NEW d, Timed(d), NEW e \in DOMAIN d
  PROVE  /\ Run(d, d[e]) \in SUBSET Nat /\ e \in Run(d, d[e]) /\ IsFiniteSet(Run(d, d[e]))
         /\ ClosedAround(Run(d, d[e])) \in Block
         /\ LeftClosed(d) => 2 * ClosedAround(Run(d, d[e])).start \in Run(d, d[e])
<1> DEFINE S == Run(d, d[e])
<1>1. S \in SUBSET Nat /\ e \in S /\ S \in SUBSET DOMAIN d
  BY DEF Run, Timed
<1>2. IsFiniteSet(S)
  <2> HIDE DEF S
  <2> QED BY <1>1, FS_Subset DEF Timed
<1> HIDE DEF S
<1>3. /\ ClosedAround(S) \in Block /\ Min(S) \in S
      /\ ClosedAround(S).start = Min(S) \div 2
      /\ \A c \in S : Min(S) <= c
  BY <1>1, <1>2, Hull
<1>4. ASSUME LeftClosed(d) PROVE 2 * ClosedAround(S).start \in S
  <2> DEFINE t == Min(S) \div 2
  <2>1. Min(S) \in Nat
    BY <1>1, <1>3
  <2>2. t \in Nat /\ (Min(S) = 2 * t \/ Min(S) = 2 * t + 1)
    <3> HIDE DEF S
    <3> QED BY <2>1
  <2> HIDE DEF t
  <2>3. CASE Min(S) = 2 * t + 1
    <3>1. 2 * t + 1 \in DOMAIN d /\ d[2 * t + 1] = d[e]
      BY <1>3, <2>3 DEF S, Run
    <3>2. 2 * t \in DOMAIN d /\ d[2 * t] = d[e]
      BY <1>4, <2>2, <3>1 DEF LeftClosed
    <3>3. 2 * t \in S
      BY <3>2 DEF S, Run
    <3> QED BY <1>3, <2>2, <2>3, <3>3
  <2>4. CASE Min(S) = 2 * t
    BY <1>3, <2>4 DEF t
  <2> QED BY <2>2, <2>3, <2>4
<1> QED BY <1>1, <1>2, <1>3, <1>4 DEF S

(* The key of a value is the interval around its cells.                    *)
LEMMA ItemsKeys ==
  ASSUME NEW d, Timed(d)
  PROVE  /\ DOMAIN Items(d) = {ClosedAround(Run(d, d[c])) : c \in DOMAIN d}
         /\ \A i \in DOMAIN Items(d) : \E c \in DOMAIN d :
              i = ClosedAround(Run(d, d[c])) /\ Items(d)[i] = d[c]
         /\ DOMAIN Items(d) \in SUBSET Block /\ IsFiniteSet(DOMAIN Items(d))
<1> DEFINE pairs == {<<c, d[c]>> : c \in DOMAIN d}
           Place(v) == {p[1] : p \in {p \in pairs : p[2] = v}}
           Key(v) == ClosedAround(Place(v))
<1>1. \A v : Place(v) = Run(d, v)
  <2> TAKE v
  <2>1. ASSUME NEW c \in Run(d, v) PROVE c \in Place(v)
    <3>1. <<c, d[c]>> \in pairs /\ <<c, d[c]>>[1] = c /\ <<c, d[c]>>[2] = v
      BY <2>1 DEF Run
    <3> HIDE DEF pairs
    <3> QED BY <3>1
  <2>2. ASSUME NEW c \in Place(v) PROVE c \in Run(d, v)
    <3>1. PICK p \in pairs : p[2] = v /\ c = p[1]
      BY <2>2
    <3>2. PICK e \in DOMAIN d : p = <<e, d[e]>>
      BY <3>1
    <3> QED BY <3>1, <3>2 DEF Run
  <2> QED BY <2>1, <2>2
<1>2. \A v : Key(v) = ClosedAround(Run(d, v))
  <2> HIDE DEF Place
  <2> QED BY <1>1
<1>3. Items(d) = [i \in {Key(p[2]) : p \in pairs} |-> (CHOOSE p \in pairs : Key(p[2]) = i)[2]]
  BY DEF Items
<1> HIDE DEF Key
<1>4. DOMAIN Items(d) = {ClosedAround(Run(d, d[c])) : c \in DOMAIN d}
  <2>1. DOMAIN Items(d) = {Key(p[2]) : p \in pairs}
    BY <1>3
  <2>2. {Key(p[2]) : p \in pairs} = {Key(d[c]) : c \in DOMAIN d}
    <3>1. ASSUME NEW c \in DOMAIN d PROVE Key(d[c]) \in {Key(p[2]) : p \in pairs}
      <4>1. <<c, d[c]>> \in pairs /\ <<c, d[c]>>[2] = d[c]
        BY <3>1
      <4> HIDE DEF pairs
      <4> QED BY <4>1
    <3>2. ASSUME NEW p \in pairs PROVE Key(p[2]) \in {Key(d[c]) : c \in DOMAIN d}
      <4>1. PICK c \in DOMAIN d : p = <<c, d[c]>>
        BY <3>2
      <4>2. p[2] = d[c]
        BY <4>1
      <4> HIDE DEF pairs
      <4> QED BY <4>2
    <3> HIDE DEF pairs
    <3> QED BY <3>1, <3>2
  <2>3. {Key(d[c]) : c \in DOMAIN d} = {ClosedAround(Run(d, d[c])) : c \in DOMAIN d}
    BY <1>2
  <2> QED BY <2>1, <2>2, <2>3
<1>5. ASSUME NEW i \in DOMAIN Items(d)
      PROVE  \E c \in DOMAIN d : i = ClosedAround(Run(d, d[c])) /\ Items(d)[i] = d[c]
  <2> DEFINE pair == CHOOSE p \in pairs : Key(p[2]) = i
  <2>1. \E p \in pairs : Key(p[2]) = i
    BY <1>3, <1>5
  <2>2. pair \in pairs /\ Key(pair[2]) = i
    BY <2>1
  <2>3. Items(d)[i] = pair[2]
    BY <1>3, <1>5
  <2> HIDE DEF pair
  <2>4. PICK c \in DOMAIN d : pair = <<c, d[c]>>
    BY <2>2
  <2> QED BY <1>2, <2>2, <2>3, <2>4
<1>6. DOMAIN Items(d) \in SUBSET Block
  BY <1>4, RunHull
<1>7. IsFiniteSet(DOMAIN Items(d))
  <2> DEFINE f == [c \in DOMAIN d |-> ClosedAround(Run(d, d[c]))]
  <2>1. f \in Surjection(DOMAIN d, DOMAIN Items(d))
    BY <1>4 DEF Surjection
  <2> HIDE DEF f
  <2> QED BY <2>1, FS_Surjection DEF Timed
<1> QED BY <1>4, <1>5, <1>6, <1>7

(* When values hold from points on, each key has one value, ...            *)
LEMMA ItemsUnique ==
  ASSUME NEW d, Timed(d), LeftClosed(d), NEW c \in DOMAIN d
  PROVE  /\ ClosedAround(Run(d, d[c])) \in DOMAIN Items(d)
         /\ Items(d)[ClosedAround(Run(d, d[c]))] = d[c]
<1> DEFINE i == ClosedAround(Run(d, d[c]))
<1>1. i \in DOMAIN Items(d)
  BY ItemsKeys
<1>2. 2 * i.start \in Run(d, d[c])
  BY RunHull
<1> HIDE DEF i
<1>3. PICK e \in DOMAIN d : i = ClosedAround(Run(d, d[e])) /\ Items(d)[i] = d[e]
  BY <1>1, ItemsKeys
<1>4. 2 * i.start \in Run(d, d[e])
  BY <1>3, RunHull
<1>5. d[c] = d[e]
  BY <1>2, <1>4 DEF Run
<1> QED BY <1>1, <1>3, <1>5 DEF i

(* ... and when they also hold without a gap, the keys at most touch and   *)
(* begin at different points.                                              *)
LEMMA ItemsApart ==
  ASSUME NEW d, Timed(d), LeftClosed(d), Gapless(d)
  PROVE  Apart(DOMAIN Items(d)) /\ StartsDiffer(DOMAIN Items(d))
<1> SUFFICES ASSUME NEW i \in DOMAIN Items(d), NEW j \in DOMAIN Items(d), i # j
             PROVE  (i.end <= j.start \/ j.end <= i.start) /\ i.start # j.start
  BY DEF Apart, StartsDiffer
<1>1. PICK c \in DOMAIN d : i = ClosedAround(Run(d, d[c]))
  BY ItemsKeys
<1>2. PICK e \in DOMAIN d : j = ClosedAround(Run(d, d[e]))
  BY ItemsKeys
<1> DEFINE R == Run(d, d[c])
           Q == Run(d, d[e])
<1>3. d[c] # d[e]
  BY <1>1, <1>2
<1>4. /\ R \in SUBSET Nat /\ c \in R /\ IsFiniteSet(R) /\ 2 * i.start \in R
      /\ Q \in SUBSET Nat /\ e \in Q /\ IsFiniteSet(Q) /\ 2 * j.start \in Q
      /\ i \in Block /\ j \in Block
  BY <1>1, <1>2, RunHull
<1>5. \A x : ~(x \in R /\ x \in Q)
  BY <1>3 DEF Run
<1>6. \A x, y \in R : \A z \in x..y : z \in R
  BY DEF Run, Gapless
<1>7. \A x, y \in Q : \A z \in x..y : z \in Q
  BY DEF Run, Gapless
<1> HIDE DEF R, Q
<1>8. /\ Min(R) \in R /\ Max(R) \in R /\ i.end = (Max(R) + 1) \div 2
      /\ i.start = Min(R) \div 2 /\ \A x \in R : Min(R) <= x /\ x <= Max(R)
  BY <1>1, <1>4, Hull DEF R
<1>9. /\ Min(Q) \in Q /\ Max(Q) \in Q /\ j.end = (Max(Q) + 1) \div 2
      /\ j.start = Min(Q) \div 2 /\ \A x \in Q : Min(Q) <= x /\ x <= Max(Q)
  BY <1>2, <1>4, Hull DEF Q
<1>10. Max(R) < Min(Q) \/ Max(Q) < Min(R)
  <2> SUFFICES ASSUME ~(Max(R) < Min(Q)), ~(Max(Q) < Min(R)) PROVE FALSE
    OBVIOUS
  <2>1. Min(R) \in Nat /\ Max(R) \in Nat /\ Min(Q) \in Nat /\ Max(Q) \in Nat
    BY <1>4, <1>8, <1>9
  <2>2. CASE Min(R) <= Min(Q)
    <3>1. Min(Q) \in Min(R)..Max(R)
      BY <2>1, <2>2
    <3> QED BY <1>5, <1>6, <1>8, <1>9, <3>1
  <2>3. CASE Min(Q) <= Min(R)
    <3>1. Min(R) \in Min(Q)..Max(Q)
      BY <2>1, <2>3
    <3> QED BY <1>5, <1>7, <1>8, <1>9, <3>1
  <2> QED BY <2>1, <2>2, <2>3
<1>11. i.end <= j.start \/ j.end <= i.start
  <2>1. Min(R) \in Nat /\ Max(R) \in Nat /\ Min(Q) \in Nat /\ Max(Q) \in Nat
    BY <1>4, <1>8, <1>9
  <2> QED BY <1>8, <1>9, <1>10, <2>1
<1>12. i.start # j.start
  BY <1>4, <1>5
<1> QED BY <1>11, <1>12

-----------------------------------------------------------------------------
(* The inner join of interval dicts.                                       *)

Common(ds) == {c \in UNION {DOMAIN ds[k] : k \in DOMAIN ds} : \A k \in DOMAIN ds : c \in DOMAIN ds[k]}
Both(ds) == [c \in Common(ds) |-> [k \in DOMAIN ds |-> ds[k][c]]]

LEMMA GetOverlapsItems == \A ds : GetOverlaps(ds) = Items(Both(ds))
<1> TAKE ds
<1> DEFINE domains == {DOMAIN ds[k] : k \in DOMAIN ds}
<1>1. {c \in UNION domains : \A D \in domains : c \in D} = Common(ds)
  BY DEF Common
<1> HIDE DEF domains
<1>2. GetOverlaps(ds) =
        Items([c \in {c \in UNION domains : \A D \in domains : c \in D} |-> [k \in DOMAIN ds |-> ds[k][c]]])
  BY DEF GetOverlaps, domains
<1> QED BY <1>1, <1>2 DEF Both

LEMMA BothAt ==
  ASSUME NEW ds, NEW c \in DOMAIN Both(ds)
  PROVE  /\ DOMAIN Both(ds)[c] = DOMAIN ds
         /\ \A k \in DOMAIN ds : c \in DOMAIN ds[k] /\ Both(ds)[c][k] = ds[k][c]
BY DEF Both, Common

LEMMA BothDict ==
  ASSUME NEW ds, DOMAIN ds # {}, \A k \in DOMAIN ds : Timed(ds[k])
  PROVE  /\ DOMAIN Both(ds) = Common(ds)
         /\ \A c : c \in Common(ds) <=> \A k \in DOMAIN ds : c \in DOMAIN ds[k]
         /\ Timed(Both(ds))
         /\ (\A k \in DOMAIN ds : LeftClosed(ds[k])) => LeftClosed(Both(ds))
         /\ (\A k \in DOMAIN ds : Gapless(ds[k])) => Gapless(Both(ds))
<1> PICK k0 \in DOMAIN ds : TRUE
  OBVIOUS
<1>1. DOMAIN Both(ds) = Common(ds)
  BY DEF Both
<1>2. \A c : c \in Common(ds) <=> \A k \in DOMAIN ds : c \in DOMAIN ds[k]
  BY DEF Common
<1>3. Timed(Both(ds))
  <2>1. Common(ds) \in SUBSET DOMAIN ds[k0]
    BY <1>2
  <2>2. IsFiniteSet(DOMAIN ds[k0]) /\ DOMAIN ds[k0] \subseteq Nat
    BY DEF Timed
  <2>3. IsFiniteSet(Common(ds))
    BY <2>1, <2>2, FS_Subset
  <2> QED BY <1>1, <2>1, <2>2, <2>3 DEF Timed
<1>4. ASSUME \A k \in DOMAIN ds : LeftClosed(ds[k])
      PROVE  LeftClosed(Both(ds))
  <2> SUFFICES ASSUME NEW t \in Nat, 2 * t + 1 \in DOMAIN Both(ds)
               PROVE  2 * t \in DOMAIN Both(ds) /\ Both(ds)[2 * t] = Both(ds)[2 * t + 1]
    BY DEF LeftClosed
  <2>1. \A k \in DOMAIN ds : 2 * t + 1 \in DOMAIN ds[k]
    BY BothAt
  <2>2. \A k \in DOMAIN ds : 2 * t \in DOMAIN ds[k] /\ ds[k][2 * t] = ds[k][2 * t + 1]
    BY <1>4, <2>1 DEF LeftClosed
  <2>3. 2 * t \in Common(ds) /\ 2 * t + 1 \in Common(ds)
    BY <1>2, <2>1, <2>2
  <2>4. Both(ds)[2 * t] = [k \in DOMAIN ds |-> ds[k][2 * t]]
    BY <2>3 DEF Both
  <2>5. Both(ds)[2 * t + 1] = [k \in DOMAIN ds |-> ds[k][2 * t + 1]]
    BY <2>3 DEF Both
  <2> QED BY <1>1, <2>2, <2>3, <2>4, <2>5
<1>5. ASSUME \A k \in DOMAIN ds : Gapless(ds[k])
      PROVE  Gapless(Both(ds))
  <2> SUFFICES ASSUME NEW c \in DOMAIN Both(ds), NEW e \in DOMAIN Both(ds),
                      Both(ds)[c] = Both(ds)[e], NEW x \in c..e
               PROVE  x \in DOMAIN Both(ds) /\ Both(ds)[x] = Both(ds)[c]
    BY DEF Gapless
  <2>1. \A k \in DOMAIN ds : c \in DOMAIN ds[k] /\ e \in DOMAIN ds[k] /\ ds[k][c] = ds[k][e]
    BY BothAt
  <2>2. \A k \in DOMAIN ds : x \in DOMAIN ds[k] /\ ds[k][x] = ds[k][c]
    BY <1>5, <2>1 DEF Gapless
  <2>3. x \in Common(ds) /\ c \in Common(ds)
    BY <1>2, <2>1, <2>2
  <2>4. Both(ds)[x] = [k \in DOMAIN ds |-> ds[k][x]]
    BY <2>3 DEF Both
  <2>5. Both(ds)[c] = [k \in DOMAIN ds |-> ds[k][c]]
    BY <2>3 DEF Both
  <2> QED BY <1>1, <2>2, <2>3, <2>4, <2>5
<1> QED BY <1>1, <1>2, <1>3, <1>4, <1>5

(* A key of the join lies in what holds its value in every dict.           *)
LEMMA KeyOfBoth ==
  ASSUME NEW ds, DOMAIN ds # {}, \A k \in DOMAIN ds : Timed(ds[k]),
         NEW i \in DOMAIN GetOverlaps(ds)
  PROVE  /\ i \in Block
         /\ \E c \in Common(ds) :
              /\ GetOverlaps(ds)[i] = [k \in DOMAIN ds |-> ds[k][c]]
              /\ i = ClosedAround(Run(Both(ds), Both(ds)[c]))
              /\ \A k \in DOMAIN ds : \A b \in Block :
                   (\A e \in DOMAIN ds[k] : ds[k][e] = ds[k][c] => e \in Cells(b)) => Within(i, b)
<1> DEFINE d == Both(ds)
<1>1. Timed(d) /\ DOMAIN d = Common(ds)
  BY BothDict
<1>2. i \in DOMAIN Items(d)
  BY GetOverlapsItems
<1> HIDE DEF d
<1>3. PICK c \in DOMAIN d : i = ClosedAround(Run(d, d[c])) /\ Items(d)[i] = d[c]
  BY <1>1, <1>2, ItemsKeys
<1>4. i \in Block /\ Run(d, d[c]) \in SUBSET Nat /\ Run(d, d[c]) # {} /\ IsFiniteSet(Run(d, d[c]))
  BY <1>1, <1>3, RunHull
<1>5. d[c] = [k \in DOMAIN ds |-> ds[k][c]]
  BY <1>1, <1>3 DEF d, Both
<1>6. ASSUME NEW k \in DOMAIN ds, NEW b \in Block,
             \A e \in DOMAIN ds[k] : ds[k][e] = ds[k][c] => e \in Cells(b)
      PROVE  Within(i, b)
  <2>1. Run(d, d[c]) \subseteq Cells(b)
    <3> SUFFICES ASSUME NEW e \in DOMAIN d, d[e] = d[c] PROVE e \in Cells(b)
      BY DEF Run
    <3>1. e \in DOMAIN ds[k] /\ ds[k][e] = ds[k][c]
      BY BothAt DEF d
    <3> QED BY <1>6, <3>1
  <2> QED BY <1>3, <1>4, <2>1, Hull
<1> QED BY <1>1, <1>3, <1>4, <1>5, <1>6, GetOverlapsItems DEF d

-----------------------------------------------------------------------------
(* What a node of a feature depends on.                                    *)

(* The blocks of an input that a node depends on, when it is made of g     *)
Group(f, S, g) == {b \in S : b = g \/ (f \in Windowed /\ Before(b, g) /\ g.start - b.end <= Window)}

LEMMA LookBackIsGroup ==
  ASSUME NEW s, Ordered(s), NEW n \in DOMAIN s
  PROVE  LookBack(s, n) = {b \in Range(s) : b = s[n] \/ (Before(b, s[n]) /\ s[n].start - b.end <= Window)}
<1> DEFINE G == {b \in Range(s) : b = s[n] \/ (Before(b, s[n]) /\ s[n].start - b.end <= Window)}
<1>1. /\ Len(s) \in Nat /\ DOMAIN s = 1..Len(s)
      /\ \A m \in DOMAIN s : /\ s[m] \in Block /\ m \in Nat
                             /\ s[m].start \in Nat /\ s[m].end \in Nat /\ s[m].start <= s[m].end
      /\ \A m, l \in DOMAIN s : m < l => Before(s[m], s[l]) /\ s[m].end <= s[l].start
  BY OrderedSeq DEF Ordered
<1>2. Window \in Nat
  BY BlockGraphAssumption
<1>3. ASSUME NEW b \in LookBack(s, n) PROVE b \in G
  <2>1. PICK j \in 1..n : b = s[j] /\ \A k \in j..(n - 1) : s[n].start - s[k].end <= Window
    BY <1>3 DEF LookBack
  <2>2. j \in DOMAIN s /\ n \in Nat /\ j \in Nat
    BY <1>1
  <2>3. CASE j = n
    BY <2>1, <2>2, <2>3 DEF Range
  <2>4. CASE j < n
    <3>1. j \in j..(n - 1)
      BY <2>2, <2>4
    <3>2. s[n].start - s[j].end <= Window /\ Before(s[j], s[n])
      BY <1>1, <2>1, <2>2, <2>4, <3>1
    <3> QED BY <2>1, <2>2, <3>2 DEF Range
  <2> QED BY <2>2, <2>3, <2>4
<1>4. ASSUME NEW b \in G PROVE b \in LookBack(s, n)
  <2>1. PICK j \in DOMAIN s : b = s[j]
    BY <1>4 DEF Range
  <2>2. CASE b = s[n]
    <3>1. n \in 1..n /\ \A k \in n..(n - 1) : FALSE
      BY <1>1
    <3> QED BY <2>2, <3>1 DEF LookBack
  <2>3. CASE Before(b, s[n]) /\ s[n].start - b.end <= Window
    <3>1. j < n
      <4> SUFFICES ASSUME ~(j < n) PROVE FALSE
        OBVIOUS
      <4>1. j = n \/ n < j
        BY <1>1
      <4>2. s[n] = s[j] \/ Before(s[n], s[j])
        BY <1>1, <4>1
      <4> QED BY <1>1, <2>1, <2>3, <4>2, BeforeIsOrder
    <3>2. ASSUME NEW k \in j..(n - 1) PROVE s[n].start - s[k].end <= Window
      <4>1. k \in DOMAIN s /\ (k = j \/ j < k)
        BY <1>1, <3>1
      <4>2. s[j].end <= s[k].end
        BY <1>1, <4>1
      <4> QED BY <1>1, <1>2, <2>1, <2>3, <4>1, <4>2
    <3>3. j \in 1..n
      BY <1>1, <3>1
    <3> QED BY <2>1, <3>2, <3>3 DEF LookBack
  <2> QED BY <1>4, <2>2, <2>3
<1> QED BY <1>3, <1>4

LEMMA GroupedValues ==
  ASSUME NEW s, Ordered(s), NEW f
  PROVE  Grouped(f, s) = Assigned(s, [n \in DOMAIN s |-> Group(f, Range(s), s[n])])
<1>1. \A n \in DOMAIN s :
        (IF f \in Windowed THEN LookBack(s, n) ELSE {s[n]}) = Group(f, Range(s), s[n])
  <2> TAKE n \in DOMAIN s
  <2>1. s[n] \in Range(s)
    BY DEF Range
  <2>2. CASE f \in Windowed
    BY <2>1, <2>2, LookBackIsGroup DEF Group
  <2>3. CASE f \notin Windowed
    BY <2>1, <2>3 DEF Group
  <2> QED BY <2>2, <2>3
<1>2. [n \in DOMAIN s |-> IF f \in Windowed THEN LookBack(s, n) ELSE {s[n]}]
        = [n \in DOMAIN s |-> Group(f, Range(s), s[n])]
  BY <1>1
<1> QED BY <1>2 DEF Grouped

(* Different blocks make different groups.                                 *)
LEMMA GroupsDiffer ==
  ASSUME NEW s, Ordered(s), NEW f, NEW m \in DOMAIN s, NEW n \in DOMAIN s,
         Group(f, Range(s), s[m]) = Group(f, Range(s), s[n])
  PROVE  m = n
<1>1. s[m] \in Range(s) /\ s[n] \in Range(s)
  BY DEF Range
<1>2. s[m] \in Group(f, Range(s), s[n]) /\ s[n] \in Group(f, Range(s), s[m])
  BY <1>1 DEF Group
<1>3. s[m] = s[n] \/ (Before(s[m], s[n]) /\ Before(s[n], s[m]))
  BY <1>2 DEF Group
<1>4. /\ s[m] \in Block /\ s[n] \in Block /\ m \in Nat /\ n \in Nat
      /\ \A k, l \in DOMAIN s : k < l => Before(s[k], s[l])
  BY OrderedSeq DEF Ordered
<1>5. s[m] = s[n]
  BY <1>3, <1>4, BeforeIsOrder
<1>6. ~(m < n) /\ ~(n < m)
  BY <1>4, <1>5, BeforeIsOrder
<1> QED BY <1>4, <1>6

LEMMA GroupedDict ==
  ASSUME NEW s, Ordered(s), NEW f
  PROVE  /\ Timed(Grouped(f, s)) /\ LeftClosed(Grouped(f, s)) /\ Gapless(Grouped(f, s))
         /\ DOMAIN Grouped(f, s) = UNION {Cells(s[n]) : n \in DOMAIN s}
         /\ \A c \in DOMAIN Grouped(f, s) : \E n \in DOMAIN s :
              /\ Grouped(f, s)[c] = Group(f, Range(s), s[n])
              /\ \A e \in DOMAIN Grouped(f, s) :
                   Grouped(f, s)[e] = Grouped(f, s)[c] => e \in Cells(s[n])
<1> DEFINE values == [n \in DOMAIN s |-> Group(f, Range(s), s[n])]
           d == Grouped(f, s)
<1>1. d = Assigned(s, values)
  BY GroupedValues
<1>2. \A m, n \in DOMAIN s : values[m] = values[n] => m = n
  BY GroupsDiffer
<1>3. \A n \in DOMAIN s : values[n] = Group(f, Range(s), s[n])
  OBVIOUS
<1> HIDE DEF values, d
<1>4. /\ Timed(d) /\ LeftClosed(d)
      /\ \A c \in DOMAIN d : \E n \in DOMAIN s : c \in Cells(s[n]) /\ d[c] = values[n]
  BY <1>1, AssignedInOrder
<1>5. Gapless(d)
  BY <1>1, <1>2, AssignedGapless
<1>6. DOMAIN d = UNION {Cells(s[n]) : n \in DOMAIN s}
  BY <1>1 DEF Assigned
<1>7. ASSUME NEW c \in DOMAIN d
      PROVE  \E n \in DOMAIN s :
               /\ d[c] = Group(f, Range(s), s[n])
               /\ \A e \in DOMAIN d : d[e] = d[c] => e \in Cells(s[n])
  <2>1. PICK n \in DOMAIN s : c \in Cells(s[n]) /\ d[c] = values[n]
    BY <1>4, <1>7
  <2>2. ASSUME NEW e \in DOMAIN d, d[e] = d[c] PROVE e \in Cells(s[n])
    <3>1. PICK m \in DOMAIN s : e \in Cells(s[m]) /\ d[e] = values[m]
      BY <1>4, <2>2
    <3> QED BY <1>2, <2>1, <2>2, <3>1
  <2> QED BY <1>3, <2>1, <2>2
<1> QED BY <1>4, <1>5, <1>6, <1>7 DEF d

LEMMA DepsOfFeature ==
  ASSUME NEW f \in Features
  PROVE  Deps(f) # {} /\ Deps(f) \subseteq Sources \cup Features
<1>1. Children[f] \in Seq(Sources \cup Features) /\ Children[f] # <<>>
  BY BlockGraphAssumption
<1>2. DOMAIN Children[f] = 1..Len(Children[f]) /\ Len(Children[f]) \in Nat
      /\ \A n \in DOMAIN Children[f] : Children[f][n] \in Sources \cup Features
  BY <1>1, LenProperties
<1>3. Len(Children[f]) # 0
  BY <1>1, <1>2, EmptySeq
<1>4. 1 \in DOMAIN Children[f]
  BY <1>2, <1>3
<1> QED BY <1>2, <1>4 DEF Deps, Range

(* What can be the blocks of a feature or source in a range                *)
NodeSet(S, r) == S \in SUBSET Block /\ IsFiniteSet(S) /\ Apart(S) /\ \A b \in S : Within(b, r)

(* The nodes of a feature over blocks S[k] of its inputs                   *)
NodeMap(f, S) == GetOverlaps([k \in Deps(f) |-> Grouped(f, InOrder(S[k]))])

LEMMA GroupedSet ==
  ASSUME NEW S, S \in SUBSET Block, IsFiniteSet(S), Apart(S), NEW f
  PROVE  LET d == Grouped(f, InOrder(S)) IN
         /\ Timed(d) /\ LeftClosed(d) /\ Gapless(d)
         /\ DOMAIN d = UNION {Cells(b) : b \in S}
         /\ \A c \in DOMAIN d : \E g \in S :
              d[c] = Group(f, S, g) /\ \A e \in DOMAIN d : d[e] = d[c] => e \in Cells(g)
<1> DEFINE s == InOrder(S)
           d == Grouped(f, s)
<1>1. Range(s) = S /\ Ordered(s)
  BY InOrderOrdered
<1> HIDE DEF s
<1>2. \A n \in DOMAIN s : s[n] \in S
  BY <1>1 DEF Range
<1>3. {Cells(s[n]) : n \in DOMAIN s} = {Cells(b) : b \in S}
  BY <1>1 DEF Range
<1>4. /\ Timed(d) /\ LeftClosed(d) /\ Gapless(d)
      /\ DOMAIN d = UNION {Cells(s[n]) : n \in DOMAIN s}
      /\ \A c \in DOMAIN d : \E n \in DOMAIN s :
           d[c] = Group(f, Range(s), s[n]) /\ \A e \in DOMAIN d : d[e] = d[c] => e \in Cells(s[n])
  BY <1>1, GroupedDict
<1> HIDE DEF d
<1>5. \A c \in DOMAIN d : \E g \in S :
        d[c] = Group(f, S, g) /\ \A e \in DOMAIN d : d[e] = d[c] => e \in Cells(g)
  <2> SUFFICES ASSUME NEW c \in DOMAIN d
      PROVE \E g \in S : d[c] = Group(f, S, g) /\ \A e \in DOMAIN d : d[e] = d[c] => e \in Cells(g)
    OBVIOUS
  <2>1. PICK n \in DOMAIN s :
           d[c] = Group(f, Range(s), s[n]) /\ \A e \in DOMAIN d : d[e] = d[c] => e \in Cells(s[n])
    BY <1>4
  <2> QED BY <1>1, <1>2, <2>1
<1> QED BY <1>3, <1>4, <1>5 DEF d, s

LEMMA NodesOfFeature ==
  ASSUME NEW f \in Features, NEW S, NEW r \in Block, \A k \in Deps(f) : NodeSet(S[k], r)
  PROVE  /\ NodeSet(DOMAIN NodeMap(f, S), r) /\ StartsDiffer(DOMAIN NodeMap(f, S))
         /\ \A i \in DOMAIN NodeMap(f, S) :
              /\ DOMAIN NodeMap(f, S)[i] = Deps(f)
              /\ \A k \in Deps(f) : \E g \in S[k] :
                   Within(i, g) /\ NodeMap(f, S)[i][k] = Group(f, S[k], g)
<1> DEFINE ds == [k \in Deps(f) |-> Grouped(f, InOrder(S[k]))]
           d == Both(ds)
<1>1. DOMAIN ds = Deps(f) /\ Deps(f) # {}
  BY DepsOfFeature
<1>2. \A k \in Deps(f) : S[k] \in SUBSET Block /\ IsFiniteSet(S[k]) /\ Apart(S[k])
                         /\ \A b \in S[k] : Within(b, r)
  BY DEF NodeSet
<1>3. \A k \in Deps(f) :
        /\ Timed(ds[k]) /\ LeftClosed(ds[k]) /\ Gapless(ds[k])
        /\ \A c \in DOMAIN ds[k] : \E g \in S[k] :
             ds[k][c] = Group(f, S[k], g) /\ \A e \in DOMAIN ds[k] : ds[k][e] = ds[k][c] => e \in Cells(g)
  <2> TAKE k \in Deps(f)
  <2> DEFINE T == S[k]
             e == Grouped(f, InOrder(T))
  <2>1. T \in SUBSET Block /\ IsFiniteSet(T) /\ Apart(T)
    BY <1>2
  <2>2. ds[k] = e
    OBVIOUS
  <2> HIDE DEF T, e, ds
  <2>3. /\ Timed(e) /\ LeftClosed(e) /\ Gapless(e)
        /\ \A c \in DOMAIN e : \E g \in T :
             e[c] = Group(f, T, g) /\ \A x \in DOMAIN e : e[x] = e[c] => x \in Cells(g)
    BY <2>1, GroupedSet DEF e
  <2> QED BY <2>2, <2>3 DEF T
<1>4. NodeMap(f, S) = GetOverlaps(ds)
  BY DEF NodeMap
<1> HIDE DEF ds, d
<1>5. Timed(d) /\ LeftClosed(d) /\ Gapless(d)
  BY <1>1, <1>3, BothDict DEF d
<1>6. NodeMap(f, S) = Items(d)
  BY <1>4, GetOverlapsItems DEF d
<1>7. Apart(DOMAIN NodeMap(f, S)) /\ StartsDiffer(DOMAIN NodeMap(f, S))
  BY <1>5, <1>6, ItemsApart
<1>8. DOMAIN NodeMap(f, S) \in SUBSET Block /\ IsFiniteSet(DOMAIN NodeMap(f, S))
  BY <1>5, <1>6, ItemsKeys
<1>9. ASSUME NEW i \in DOMAIN NodeMap(f, S)
      PROVE  /\ DOMAIN NodeMap(f, S)[i] = Deps(f)
             /\ \A k \in Deps(f) : \E g \in S[k] :
                  Within(i, g) /\ NodeMap(f, S)[i][k] = Group(f, S[k], g)
  <2>1. PICK c \in Common(ds) :
              /\ NodeMap(f, S)[i] = [k \in DOMAIN ds |-> ds[k][c]]
              /\ \A k \in DOMAIN ds : \A b \in Block :
                   (\A e \in DOMAIN ds[k] : ds[k][e] = ds[k][c] => e \in Cells(b)) => Within(i, b)
    <3>1. DOMAIN ds # {} /\ \A k \in DOMAIN ds : Timed(ds[k])
      BY <1>1, <1>3
    <3>2. i \in DOMAIN GetOverlaps(ds)
      BY <1>4, <1>9
    <3>3. \E c \in Common(ds) :
              /\ GetOverlaps(ds)[i] = [k \in DOMAIN ds |-> ds[k][c]]
              /\ \A k \in DOMAIN ds : \A b \in Block :
                   (\A e \in DOMAIN ds[k] : ds[k][e] = ds[k][c] => e \in Cells(b)) => Within(i, b)
      <4>1. \E c \in Common(ds) :
              /\ GetOverlaps(ds)[i] = [k \in DOMAIN ds |-> ds[k][c]]
              /\ i = ClosedAround(Run(Both(ds), Both(ds)[c]))
              /\ \A k \in DOMAIN ds : \A b \in Block :
                   (\A e \in DOMAIN ds[k] : ds[k][e] = ds[k][c] => e \in Cells(b)) => Within(i, b)
        BY <3>1, <3>2, KeyOfBoth
      <4> QED BY <4>1
    <3> QED BY <1>4, <3>3
  <2>2. ASSUME NEW k \in Deps(f)
        PROVE  \E g \in S[k] : Within(i, g) /\ NodeMap(f, S)[i][k] = Group(f, S[k], g)
    <3>1. c \in DOMAIN ds[k]
      BY <1>1, <2>2 DEF Common
    <3>2. PICK g \in S[k] :
             ds[k][c] = Group(f, S[k], g) /\ \A e \in DOMAIN ds[k] : ds[k][e] = ds[k][c] => e \in Cells(g)
      BY <1>3, <2>2, <3>1
    <3>3. g \in Block
      BY <1>2, <2>2, <3>2
    <3>4. Within(i, g)
      BY <1>1, <2>1, <2>2, <3>2, <3>3
    <3>5. NodeMap(f, S)[i][k] = ds[k][c]
      BY <1>1, <2>1, <2>2
    <3> QED BY <3>2, <3>4, <3>5
  <2> QED BY <1>1, <2>1, <2>2
<1>10. ASSUME NEW i \in DOMAIN NodeMap(f, S) PROVE Within(i, r)
  <2>1. PICK k \in Deps(f) : TRUE
    BY <1>1
  <2>2. PICK g \in S[k] : Within(i, g)
    BY <1>9, <1>10
  <2>3. i \in Block /\ g \in Block /\ Within(g, r)
    BY <1>2, <1>8, <1>10
  <2> QED BY <2>2, <2>3, WithinTransitive
<1> QED BY <1>7, <1>8, <1>9, <1>10 DEF NodeSet

-----------------------------------------------------------------------------
(* The ranges of a source.                                                 *)

LEMMA InTimeOrdered ==
  ASSUME NEW s \in Seq(Block), InTime(s)
  PROVE  Ordered(s)
<1>1. \A n \in DOMAIN s : s[n] \in Block
  BY LenProperties
<1> QED BY <1>1 DEF InTime, Ordered, Before, Block

Gaps(s, n) == {m \in 2..n : s[m].start - s[m - 1].end > SameRangeDiff}

LEMMA EndedIncreases ==
  ASSUME NEW s, NEW m \in Nat, NEW n \in Nat
  PROVE  /\ Ended(s, m) \in Nat /\ Ended(s, n) \in Nat
         /\ m <= n => Ended(s, m) <= Ended(s, n)
         /\ Ended(s, m) < Ended(s, n) => \E l \in Gaps(s, n) : m < l
<1>1. IsFiniteSet(2..m) /\ IsFiniteSet(2..n)
  BY FS_Interval
<1>2. Gaps(s, m) \in SUBSET (2..m) /\ Gaps(s, n) \in SUBSET (2..n)
  BY DEF Gaps
<1>3. /\ IsFiniteSet(Gaps(s, m)) /\ IsFiniteSet(Gaps(s, n))
      /\ Cardinality(Gaps(s, m)) \in Nat /\ Cardinality(Gaps(s, n)) \in Nat
  BY <1>1, <1>2, FS_Subset, FS_CardinalityType
<1>4. Ended(s, m) = Cardinality(Gaps(s, m)) /\ Ended(s, n) = Cardinality(Gaps(s, n))
  BY DEF Ended, Gaps
<1>5. ASSUME m <= n PROVE Cardinality(Gaps(s, m)) <= Cardinality(Gaps(s, n))
  <2>1. Gaps(s, m) \in SUBSET Gaps(s, n)
    BY <1>5 DEF Gaps
  <2> QED BY <1>3, <2>1, FS_Subset
<1>6. ASSUME Cardinality(Gaps(s, m)) < Cardinality(Gaps(s, n))
      PROVE  \E l \in Gaps(s, n) : m < l
  <2> SUFFICES ASSUME \A l \in Gaps(s, n) : ~(m < l) PROVE FALSE
    OBVIOUS
  <2>1. Gaps(s, n) \in SUBSET Gaps(s, m)
    BY DEF Gaps
  <2>2. Cardinality(Gaps(s, n)) <= Cardinality(Gaps(s, m))
    BY <1>3, <2>1, FS_Subset
  <2> QED BY <1>3, <1>6, <2>2
<1> QED BY <1>3, <1>4, <1>5, <1>6

(* A range is a part of the sequence, ...                                  *)
LEMMA RangeIsPart ==
  ASSUME NEW s, Ordered(s), NEW l \in DOMAIN MakeRanges(s)
  PROVE  \E a, z \in DOMAIN s :
           /\ a <= z /\ Ended(s, a) = l - 1 /\ Ended(s, z) = l - 1
           /\ MakeRanges(s)[l] = SubSeq(s, a, z)
<1> DEFINE Of == {n \in DOMAIN s : Ended(s, n) = l - 1}
<1>1. Len(s) \in Nat /\ DOMAIN s = 1..Len(s)
  BY OrderedSeq
<1>2. PICK n \in DOMAIN s : l = Ended(s, n) + 1
  BY DEF MakeRanges
<1>3. n \in Nat /\ Ended(s, n) \in Nat
  BY <1>1, EndedIncreases
<1>4. n \in Of /\ Of \in SUBSET Nat /\ \A m \in Of : m <= Len(s)
  BY <1>1, <1>2, <1>3
<1>5. MakeRanges(s)[l] = SubSeq(s, Min(Of), Max(Of))
  BY DEF MakeRanges
<1> HIDE DEF Of
<1>6. Min(Of) \in Of /\ \A m \in Of : Min(Of) <= m
  BY <1>4, MinOfNats
<1>7. Max(Of) \in Of /\ \A m \in Of : m <= Max(Of)
  BY <1>1, <1>4, MaxOfNats
<1>8. Min(Of) <= Max(Of)
  BY <1>6, <1>7
<1>9. /\ Min(Of) \in DOMAIN s /\ Ended(s, Min(Of)) = l - 1
      /\ Max(Of) \in DOMAIN s /\ Ended(s, Max(Of)) = l - 1
  BY <1>6, <1>7 DEF Of
<1> QED BY <1>5, <1>8, <1>9

LEMMA PartOrdered ==
  ASSUME NEW s, Ordered(s), NEW a \in DOMAIN s, NEW z \in DOMAIN s, a <= z
  PROVE  /\ Ordered(SubSeq(s, a, z)) /\ SubSeq(s, a, z) # <<>>
         /\ Span(SubSeq(s, a, z)) = [start |-> s[a].start, end |-> s[z].end]
<1> DEFINE r == SubSeq(s, a, z)
<1>1. /\ Len(s) \in Nat /\ DOMAIN s = 1..Len(s)
      /\ \A m \in DOMAIN s : s[m] \in Block /\ m \in Nat
      /\ \A m, n \in DOMAIN s : m < n => Before(s[m], s[n]) /\ s[m].end <= s[n].start
  BY OrderedSeq DEF Ordered
<1>2. r \in Seq(Block) /\ Len(r) = z - a + 1 /\ \A i \in 1..(z - a + 1) : r[i] = s[a + i - 1]
  <2>1. a \in Int /\ z \in Int /\ \A i \in a..z : s[i] \in Block
    BY <1>1
  <2> QED BY <1>1, <2>1, SubSeqProperties
<1> HIDE DEF r
<1>3. DOMAIN r = 1..(z - a + 1)
  BY <1>2, LenProperties
<1>4. Ordered(r)
  <2> SUFFICES ASSUME NEW m \in DOMAIN r, NEW n \in DOMAIN r, m < n
               PROVE  Before(r[m], r[n]) /\ r[m].end <= r[n].start
    BY <1>2 DEF Ordered
  <2>1. a + m - 1 \in DOMAIN s /\ a + n - 1 \in DOMAIN s /\ a + m - 1 < a + n - 1
    BY <1>1, <1>3
  <2>2. r[m] = s[a + m - 1] /\ r[n] = s[a + n - 1]
    BY <1>2, <1>3
  <2> QED BY <1>1, <2>1, <2>2
<1>5. r # <<>>
  <2>1. Len(<<>>) = 0
    OBVIOUS
  <2> QED BY <1>1, <1>2, <2>1
<1>6. r[1] = s[a] /\ r[Len(r)] = s[z]
  <2>1. 1 \in 1..(z - a + 1) /\ z - a + 1 \in 1..(z - a + 1) /\ a + 1 - 1 = a /\ a + (z - a + 1) - 1 = z
    BY <1>1
  <2>2. r[1] = s[a + 1 - 1] /\ r[z - a + 1] = s[a + (z - a + 1) - 1]
    BY <1>2, <2>1
  <2> QED BY <1>2, <2>1, <2>2
<1> QED BY <1>4, <1>5, <1>6 DEF r, Span

(* ... has its blocks in order, and the ranges do not meet.                *)
LEMMA RangesOfSource ==
  ASSUME NEW s, Ordered(s)
  PROVE  /\ DOMAIN MakeRanges(s) \subseteq 0..(Len(s) + 1) /\ Len(s) + 1 \in Nat
         /\ IsFiniteSet(DOMAIN MakeRanges(s))
         /\ \A l \in DOMAIN MakeRanges(s) : Ordered(MakeRanges(s)[l]) /\ MakeRanges(s)[l] # <<>>
         /\ \A k, l \in DOMAIN MakeRanges(s) :
              Overlaps(Span(MakeRanges(s)[k]), Span(MakeRanges(s)[l])) => k = l
<1> DEFINE R == MakeRanges(s)
<1>1. /\ Len(s) \in Nat /\ DOMAIN s = 1..Len(s)
      /\ \A m \in DOMAIN s : /\ s[m] \in Block /\ m \in Nat
                             /\ s[m].start \in Nat /\ s[m].end \in Nat /\ s[m].start <= s[m].end
      /\ \A m, n \in DOMAIN s : m < n => s[m].end <= s[n].start
  BY OrderedSeq DEF Ordered
<1>2. DOMAIN R = {Ended(s, n) + 1 : n \in DOMAIN s}
  BY DEF MakeRanges
<1>3. \A l \in DOMAIN R : \E a, z \in DOMAIN s :
           /\ a <= z /\ Ended(s, a) = l - 1 /\ Ended(s, z) = l - 1 /\ R[l] = SubSeq(s, a, z)
  BY RangeIsPart
<1> HIDE DEF R
<1>4. \A n \in DOMAIN s : Ended(s, n) \in 0..Len(s)
  <2> TAKE n \in DOMAIN s
  <2> DEFINE N == Len(s)
  <2>1. N \in Nat /\ n \in Nat /\ Gaps(s, n) \in SUBSET (1..N)
    BY <1>1 DEF Gaps
  <2> HIDE DEF N
  <2>2. IsFiniteSet(1..N) /\ Cardinality(1..N) = N
    BY <2>1, FS_Interval
  <2>3. Cardinality(Gaps(s, n)) <= Cardinality(1..N)
    BY <2>1, <2>2, FS_Subset
  <2>4. Ended(s, n) \in Nat /\ Ended(s, n) = Cardinality(Gaps(s, n))
    BY <2>1, EndedIncreases DEF Ended, Gaps
  <2>5. Ended(s, n) \in 0..N
    BY <2>1, <2>2, <2>3, <2>4
  <2> QED BY <2>5 DEF N
<1>5. DOMAIN R \subseteq 0..(Len(s) + 1)
  BY <1>1, <1>2, <1>4
<1>6. IsFiniteSet(DOMAIN R)
  <2>1. IsFiniteSet(0..(Len(s) + 1))
    BY <1>1, FS_Interval
  <2> QED BY <1>5, <2>1, FS_Subset
<1>7. \A l \in DOMAIN R : Ordered(R[l]) /\ R[l] # <<>>
  BY <1>3, PartOrdered
<1>8. ASSUME NEW k \in DOMAIN R, NEW l \in DOMAIN R, k < l
      PROVE  ~Overlaps(Span(R[k]), Span(R[l]))
  <2>1. PICK a, z \in DOMAIN s :
           /\ a <= z /\ Ended(s, a) = k - 1 /\ Ended(s, z) = k - 1 /\ R[k] = SubSeq(s, a, z)
    BY <1>3
  <2>2. PICK b, y \in DOMAIN s :
           /\ b <= y /\ Ended(s, b) = l - 1 /\ Ended(s, y) = l - 1 /\ R[l] = SubSeq(s, b, y)
    BY <1>3
  <2>3. Ended(s, z) < Ended(s, b)
    BY <1>5, <1>8, <2>1, <2>2
  <2>4. PICK m \in Gaps(s, b) : z < m
    BY <1>1, <2>3, EndedIncreases
  <2>5. /\ m \in 2..b /\ s[m].start - s[m - 1].end > 1 /\ m \in DOMAIN s /\ m - 1 \in DOMAIN s
        /\ z <= m - 1 /\ m <= b
    BY <1>1, <2>4 DEF Gaps, SameRangeDiff
  <2>6. s[z].end <= s[m - 1].end
    <3>1. z = m - 1 \/ z < m - 1
      BY <1>1, <2>5
    <3>2. CASE z < m - 1
      <4>1. s[z].end <= s[m - 1].start
        BY <1>1, <2>5, <3>2
      <4> QED BY <1>1, <2>5, <4>1
    <3> QED BY <1>1, <3>1, <3>2
  <2> /\ s[m].start \in Nat /\ s[m].end \in Nat /\ s[m].start <= s[m].end
      /\ s[b].start \in Nat /\ s[m - 1].end \in Nat /\ s[z].end \in Nat
    BY <1>1, <2>1, <2>2, <2>5
  <2>7. s[m].start <= s[b].start
    <3>1. m = b \/ m < b
      BY <1>1, <2>5
    <3>2. CASE m < b
      <4>1. s[m].end <= s[b].start
        BY <1>1, <2>5, <3>2
      <4> QED BY <1>1, <2>5, <4>1
    <3> QED BY <1>1, <3>1, <3>2
  <2>8. s[z].end < s[b].start
    BY <1>1, <2>5, <2>6, <2>7
  <2>9. Span(R[k]).end = s[z].end /\ Span(R[l]).start = s[b].start
    <3>1. Span(R[k]) = [start |-> s[a].start, end |-> s[z].end]
      BY <2>1, PartOrdered
    <3>2. Span(R[l]) = [start |-> s[b].start, end |-> s[y].end]
      BY <2>2, PartOrdered
    <3> QED BY <3>1, <3>2
  <2> QED BY <1>1, <2>8, <2>9 DEF Overlaps
<1>9. \A k, l \in DOMAIN R : Overlaps(Span(R[k]), Span(R[l])) => k = l
  <2> SUFFICES ASSUME NEW k \in DOMAIN R, NEW l \in DOMAIN R, Overlaps(Span(R[k]), Span(R[l])), k # l
               PROVE  FALSE
    OBVIOUS
  <2>1. k < l \/ l < k
    BY <1>5
  <2>2. Overlaps(Span(R[l]), Span(R[k]))
    BY DEF Overlaps
  <2> QED BY <1>8, <2>1, <2>2
<1> QED BY <1>1, <1>5, <1>6, <1>7, <1>9 DEF R

LEMMA SpanOfOrdered ==
  ASSUME NEW r, Ordered(r), r # <<>>
  PROVE  /\ Span(r) \in Block /\ Range(r) # {} /\ NodeSet(Range(r), Span(r))
         /\ \A j \in Block : (\A b \in Range(r) : Within(b, j)) => Within(Span(r), j)
<1>1. /\ Len(r) \in Nat /\ DOMAIN r = 1..Len(r)
      /\ \A m \in DOMAIN r : /\ r[m] \in Block /\ m \in Nat
                             /\ r[m].start \in Nat /\ r[m].end \in Nat /\ r[m].start <= r[m].end
      /\ \A m, n \in DOMAIN r : m < n => r[m].end <= r[n].start
  BY OrderedSeq DEF Ordered
<1>2. Len(r) # 0
  BY EmptySeq DEF Ordered
<1> DEFINE N == Len(r)
<1>3. 1 \in DOMAIN r /\ N \in DOMAIN r /\ N \in Nat /\ DOMAIN r = 1..N
  BY <1>1, <1>2
<1>4. Span(r) = [start |-> r[1].start, end |-> r[N].end]
  BY DEF Span
<1> HIDE DEF N
<1>5. ASSUME NEW m \in DOMAIN r
      PROVE  r[1].start <= r[m].start /\ r[m].end <= r[N].end
  <2>1. (m = 1 \/ 1 < m) /\ (m = N \/ m < N)
    BY <1>3
  <2>2. r[1].start <= r[m].start
    <3>1. CASE 1 < m
      <4>1. r[1].end <= r[m].start
        BY <1>1, <1>3, <3>1
      <4> QED BY <1>1, <1>3, <4>1
    <3> QED BY <1>1, <2>1, <3>1
  <2>3. r[m].end <= r[N].end
    <3>1. CASE m < N
      <4>1. r[m].end <= r[N].start
        BY <1>1, <1>3, <3>1
      <4> QED BY <1>1, <1>3, <4>1
    <3> QED BY <1>1, <2>1, <3>1
  <2> QED BY <2>2, <2>3
<1>6. Span(r) \in Block
  <2>1. r[1].start <= r[N].end
    <3>1. r[1].start <= r[N].start /\ r[N].start <= r[N].end
      BY <1>1, <1>3, <1>5
    <3> QED BY <1>1, <1>3, <3>1
  <2> QED BY <1>1, <1>3, <1>4, <2>1 DEF Block
<1>7. \A b \in Range(r) : Within(b, Span(r))
  BY <1>4, <1>5 DEF Range, Within
<1>8. Range(r) # {} /\ r[1] \in Range(r) /\ r[N] \in Range(r)
  BY <1>3 DEF Range
<1>9. NodeSet(Range(r), Span(r))
  BY <1>7, OrderedIsInOrder DEF NodeSet
<1>10. \A j \in Block : (\A b \in Range(r) : Within(b, j)) => Within(Span(r), j)
  BY <1>4, <1>8 DEF Within
<1> QED BY <1>6, <1>8, <1>9, <1>10

(* In the graph of a source, each of its ranges has its blocks as nodes.   *)
LEMMA SourceGraphNodes ==
  ASSUME NEW s, Ordered(s)
  PROVE  LET R == MakeRanges(s)
             G == SourceGraph(R)
         IN  /\ DOMAIN G \in SUBSET Block /\ IsFiniteSet(DOMAIN G)
             /\ \A r \in DOMAIN G : NodeSet(DOMAIN G[r], r)
             /\ \A i, j \in DOMAIN G : Overlaps(i, j) => i = j
             /\ \A l \in DOMAIN R : /\ Span(R[l]) \in DOMAIN G /\ DOMAIN G[Span(R[l])] # {}
                                    /\ R[l] = InOrder(DOMAIN G[Span(R[l])])
<1> DEFINE R == MakeRanges(s)
           G == SourceGraph(R)
<1>1. /\ IsFiniteSet(DOMAIN R)
      /\ \A l \in DOMAIN R : Ordered(R[l]) /\ R[l] # <<>>
      /\ \A k, l \in DOMAIN R : Overlaps(Span(R[k]), Span(R[l])) => k = l
  BY RangesOfSource
<1> HIDE DEF R
<1>2. \A l \in DOMAIN R : /\ Span(R[l]) \in Block /\ NodeSet(Range(R[l]), Span(R[l]))
                          /\ Range(R[l]) # {} /\ R[l] = InOrder(Range(R[l]))
  BY <1>1, SpanOfOrdered, OrderedIsInOrder
<1>3. DOMAIN G = {Span(r) : r \in Range(R)}
  BY DEF SourceGraph
<1>4. DOMAIN G = {Span(R[l]) : l \in DOMAIN R}
  BY <1>3 DEF Range
<1>5. ASSUME NEW l \in DOMAIN R
      PROVE  DOMAIN G[Span(R[l])] = Range(R[l])
  <2> DEFINE i == Span(R[l])
             p == CHOOSE r \in Range(R) : Span(r) = i
  <2>1. i \in DOMAIN G
    BY <1>4, <1>5
  <2>2. DOMAIN G[i] = Range(p)
    BY <1>3, <2>1 DEF SourceGraph
  <2>3. R[l] \in Range(R)
    BY <1>5 DEF Range
  <2>4. p \in Range(R) /\ Span(p) = i
    BY <2>3
  <2> HIDE DEF p
  <2>5. PICK k \in DOMAIN R : p = R[k]
    BY <2>4 DEF Range
  <2>6. Span(R[k]) = Span(R[l]) /\ Span(R[l]) \in Block
    BY <1>2, <1>5, <2>4, <2>5
  <2>7. Overlaps(Span(R[k]), Span(R[l]))
    BY <2>6 DEF Overlaps, Block
  <2>8. k = l
    BY <1>1, <1>5, <2>7
  <2> QED BY <2>2, <2>5, <2>8
<1> HIDE DEF G
<1>6. DOMAIN G \in SUBSET Block
  BY <1>2, <1>4
<1>7. IsFiniteSet(DOMAIN G)
  <2> DEFINE f == [l \in DOMAIN R |-> Span(R[l])]
  <2>1. f \in Surjection(DOMAIN R, DOMAIN G)
    BY <1>4 DEF Surjection
  <2> HIDE DEF f
  <2> QED BY <1>1, <2>1, FS_Surjection
<1>8. \A r \in DOMAIN G : NodeSet(DOMAIN G[r], r)
  <2> TAKE r \in DOMAIN G
  <2>1. PICK l \in DOMAIN R : r = Span(R[l])
    BY <1>4
  <2> QED BY <1>2, <1>5, <2>1
<1>9. \A i, j \in DOMAIN G : Overlaps(i, j) => i = j
  <2> SUFFICES ASSUME NEW i \in DOMAIN G, NEW j \in DOMAIN G, Overlaps(i, j) PROVE i = j
    OBVIOUS
  <2>1. PICK k \in DOMAIN R : i = Span(R[k])
    BY <1>4
  <2>2. PICK l \in DOMAIN R : j = Span(R[l])
    BY <1>4
  <2> QED BY <1>1, <2>1, <2>2
<1>10. \A l \in DOMAIN R : /\ Span(R[l]) \in DOMAIN G /\ DOMAIN G[Span(R[l])] # {}
                           /\ R[l] = InOrder(DOMAIN G[Span(R[l])])
  BY <1>2, <1>4, <1>5
<1> QED BY <1>6, <1>7, <1>8, <1>9, <1>10 DEF G, R

-----------------------------------------------------------------------------
(* The ranges that all inputs of a feature have.                           *)

LEMMA RangesDict ==
  ASSUME NEW R, NEW last \in Nat, DOMAIN R \subseteq 0..last, \A l \in DOMAIN R : Span(R[l]) \in Block
  PROVE  /\ Timed(RangesToDict(R))
         /\ \A c \in DOMAIN RangesToDict(R) : \E l \in DOMAIN R :
              RangesToDict(R)[c] = R[l] /\ c \in Cells(Span(R[l]))
<1> DEFINE s == [l \in DOMAIN R |-> Span(R[l])]
<1>1. DOMAIN s = DOMAIN R /\ \A l \in DOMAIN s : s[l] = Span(R[l]) /\ s[l] \in Block
  OBVIOUS
<1>2. RangesToDict(R) = Assigned(s, R)
  BY DEF RangesToDict
<1> HIDE DEF s
<1>3. DOMAIN s \subseteq 0..last
  BY <1>1
<1>4. Timed(Assigned(s, R))
  BY <1>1, <1>3, AssignedTimed
<1>5. \A c \in DOMAIN Assigned(s, R) : \E n \in DOMAIN s :
              /\ c \in Cells(s[n]) /\ Assigned(s, R)[c] = R[n]
              /\ \A m \in DOMAIN s : c \in Cells(s[m]) => m <= n
  BY <1>3, AssignedAt
<1> QED BY <1>1, <1>2, <1>4, <1>5

Met(blocks, i) == {b \in Range(blocks) : Overlaps(i, b)}

LEMMA PruneOverlapsKeys ==
  ASSUME NEW overlaps
  PROVE  /\ DOMAIN PruneOverlaps(overlaps) = DOMAIN overlaps
         /\ \A i \in DOMAIN overlaps :
              /\ DOMAIN PruneOverlaps(overlaps)[i] = DOMAIN overlaps[i]
              /\ \A k \in DOMAIN overlaps[i] :
                   PruneOverlaps(overlaps)[i][k] = InOrder(Met(overlaps[i][k], i))
BY DEF PruneOverlaps, Met

InRanges(D, R) ==
  \A k \in D : /\ \E last \in Nat : DOMAIN R[k] \subseteq 0..last
               /\ \A l \in DOMAIN R[k] : Span(R[k][l]) \in Block

Pruned(D, R) == PruneOverlaps(GetOverlaps([k \in D |-> RangesToDict(R[k])]))

MetBy(D, R) ==
  \A i \in DOMAIN Pruned(D, R) : \A k \in D : \E l \in DOMAIN R[k] :
    Within(i, Span(R[k][l])) /\ Pruned(D, R)[i][k] = InOrder(Met(R[k][l], i))

LEMMA CommonRangesFit ==
  ASSUME NEW D, D # {}, NEW R, InRanges(D, R)
  PROVE  /\ DOMAIN Pruned(D, R) \in SUBSET Block /\ IsFiniteSet(DOMAIN Pruned(D, R))
         /\ MetBy(D, R)
<1> DEFINE ds == [k \in D |-> RangesToDict(R[k])]
           all == GetOverlaps(ds)
           ranges == PruneOverlaps(all)
<1>1. DOMAIN ds = D
  OBVIOUS
<1>2. \A k \in D :
        /\ Timed(ds[k])
        /\ \A c \in DOMAIN ds[k] : \E l \in DOMAIN R[k] : ds[k][c] = R[k][l] /\ c \in Cells(Span(R[k][l]))
  <2> TAKE k \in D
  <2> DEFINE Rk == R[k]
  <2>1. ds[k] = RangesToDict(Rk)
    OBVIOUS
  <2>2. PICK last \in Nat : DOMAIN Rk \subseteq 0..last
    BY DEF InRanges
  <2>3. \A l \in DOMAIN Rk : Span(Rk[l]) \in Block
    BY DEF InRanges
  <2> HIDE DEF Rk, ds
  <2>4. /\ Timed(RangesToDict(Rk))
        /\ \A c \in DOMAIN RangesToDict(Rk) : \E l \in DOMAIN Rk :
              RangesToDict(Rk)[c] = Rk[l] /\ c \in Cells(Span(Rk[l]))
    BY <2>2, <2>3, RangesDict
  <2> QED BY <2>1, <2>4 DEF Rk
<1> HIDE DEF ds
<1>3. DOMAIN all \in SUBSET Block /\ IsFiniteSet(DOMAIN all)
  <2>1. Timed(Both(ds))
    BY <1>1, <1>2, BothDict
  <2> QED BY <2>1, GetOverlapsItems, ItemsKeys
<1>4. ASSUME NEW i \in DOMAIN all, NEW k \in D
      PROVE  \E l \in DOMAIN R[k] : Within(i, Span(R[k][l])) /\ all[i][k] = R[k][l]
  <2>1. DOMAIN ds # {} /\ \A x \in DOMAIN ds : Timed(ds[x])
    BY <1>1, <1>2
  <2>2. \E c \in Common(ds) :
              /\ all[i] = [x \in DOMAIN ds |-> ds[x][c]]
              /\ i = ClosedAround(Run(Both(ds), Both(ds)[c]))
              /\ \A x \in DOMAIN ds : \A b \in Block :
                   (\A e \in DOMAIN ds[x] : ds[x][e] = ds[x][c] => e \in Cells(b)) => Within(i, b)
    BY <2>1, <1>4, KeyOfBoth
  <2>3. PICK c \in Common(ds) :
              /\ all[i] = [x \in DOMAIN ds |-> ds[x][c]]
              /\ \A x \in DOMAIN ds : \A b \in Block :
                   (\A e \in DOMAIN ds[x] : ds[x][e] = ds[x][c] => e \in Cells(b)) => Within(i, b)
    BY <2>2
  <2>4. c \in DOMAIN ds[k] /\ all[i][k] = ds[k][c]
    BY <1>1, <1>4, <2>3 DEF Common
  <2>5. PICK l \in DOMAIN R[k] : ds[k][c] = R[k][l]
    BY <1>2, <1>4, <2>4
  <2>6. ASSUME NEW e \in DOMAIN ds[k], ds[k][e] = ds[k][c] PROVE e \in Cells(Span(R[k][l]))
    <3>1. PICK m \in DOMAIN R[k] : ds[k][e] = R[k][m] /\ e \in Cells(Span(R[k][m]))
      BY <1>2, <1>4, <2>6
    <3>2. R[k][m] = R[k][l]
      BY <2>5, <2>6, <3>1
    <3> QED BY <3>1, <3>2
  <2>7. Span(R[k][l]) \in Block
    BY <1>4 DEF InRanges
  <2>8. Within(i, Span(R[k][l]))
    BY <1>1, <1>4, <2>3, <2>6, <2>7
  <2> QED BY <2>4, <2>5, <2>8
<1> HIDE DEF all
<1>5. DOMAIN ranges = DOMAIN all
  BY PruneOverlapsKeys
<1>6. ASSUME NEW i \in DOMAIN all, NEW k \in D
      PROVE  \E l \in DOMAIN R[k] :
               /\ Within(i, Span(R[k][l]))
               /\ ranges[i][k] = InOrder(Met(R[k][l], i))
  <2>1. PICK l \in DOMAIN R[k] : Within(i, Span(R[k][l])) /\ all[i][k] = R[k][l]
    BY <1>4, <1>6
  <2>2. k \in DOMAIN all[i]
    BY <1>1, <1>2, <1>6, KeyOfBoth DEF all
  <2>3. ranges[i][k] = InOrder(Met(all[i][k], i))
    BY <1>6, <2>2, PruneOverlapsKeys
  <2> QED BY <2>1, <2>3
<1> QED BY <1>3, <1>5, <1>6 DEF Pruned, MetBy, all, ds

-----------------------------------------------------------------------------
(* What is true of the graph while it is built.                            *)

Filled(dg, k) == {r \in DOMAIN dg[k] : DOMAIN dg[k][r] # {}}

(* The nodes of a range are in it, in order, those of a feature distinct.  *)
NodesFit(dg) ==
  /\ DOMAIN dg \subseteq Sources \cup Features
  /\ \A k \in DOMAIN dg :
       /\ DOMAIN dg[k] \in SUBSET Block /\ IsFiniteSet(DOMAIN dg[k])
       /\ \A r \in DOMAIN dg[k] :
            /\ NodeSet(DOMAIN dg[k][r], r)
            /\ k \in Features => StartsDiffer(DOMAIN dg[k][r])

(* The ranges with nodes are apart, whichever features made them.          *)
RangesApart(dg) == \A k \in DOMAIN dg : \A i, j \in Filled(dg, k) : Overlaps(i, j) => i = j

SourcesFromData(dt, dg) ==
  \A k \in Sources \cap DOMAIN dg : dg[k] = SourceGraph(MakeRanges(dt[k]))

InputsOf(dg, f, r) == [k \in Deps(f) |-> DOMAIN dg[k][r]]

(* The nodes of a feature are those that its inputs have in the range: to  *)
(* build them once more changes nothing.                                   *)
FeaturesFromInputs(dg) ==
  \A f \in Features \cap DOMAIN dg : \A r \in Filled(dg, f) :
    /\ \A k \in Deps(f) : k \in DOMAIN dg /\ r \in Filled(dg, k)
    /\ dg[f][r] = NodeMap(f, InputsOf(dg, f, r))

(* What is remembered of a range are all the nodes of it.                  *)
RangesKnown(mt, dg) ==
  \A k \in DOMAIN mt :
    /\ k \in Features /\ k \in DOMAIN dg /\ mt[k] \in Seq(Seq(Block))
    /\ \A n \in DOMAIN mt[k] :
         mt[k][n] # <<>> => \E i \in Filled(dg, k) : mt[k][n] = InOrder(DOMAIN dg[k][i])

GraphInv(dg) == NodesFit(dg) /\ RangesApart(dg) /\ FeaturesFromInputs(dg)

Entered(dg, f, graph) ==
  IF graph = <<>> THEN dg
  ELSE Updated(dg, [k \in {f} |-> IF f \in DOMAIN dg THEN Updated(dg[f], graph) ELSE graph])

(* What has nodes keeps them.                                              *)
Preserved(dg, new) ==
  \A k \in DOMAIN dg :
    /\ k \in DOMAIN new
    /\ \A r \in Filled(dg, k) : r \in Filled(new, k) /\ new[k][r] = dg[k][r]

(* A feature or a source enters the graph.                                 *)
LEMMA EnteredAt ==
  ASSUME NEW dg, NEW f, NEW graph, graph # <<>>
  PROVE  /\ DOMAIN Entered(dg, f, graph) = DOMAIN dg \cup {f}
         /\ \A k \in DOMAIN dg : k # f => Entered(dg, f, graph)[k] = dg[k]
         /\ DOMAIN Entered(dg, f, graph)[f] = DOMAIN graph \cup (IF f \in DOMAIN dg THEN DOMAIN dg[f] ELSE {})
         /\ \A r \in DOMAIN graph : Entered(dg, f, graph)[f][r] = graph[r]
         /\ f \in DOMAIN dg =>
              \A r \in DOMAIN dg[f] : r \notin DOMAIN graph => Entered(dg, f, graph)[f][r] = dg[f][r]
<1> DEFINE one == IF f \in DOMAIN dg THEN Updated(dg[f], graph) ELSE graph
           new == [k \in {f} |-> one]
<1>1. Entered(dg, f, graph) = Updated(dg, new)
  BY DEF Entered
<1>2. DOMAIN new = {f} /\ new[f] = one
  OBVIOUS
<1> HIDE DEF new
<1>3. /\ DOMAIN Updated(dg, new) = DOMAIN dg \cup {f}
      /\ \A k \in DOMAIN dg : k # f => Updated(dg, new)[k] = dg[k]
      /\ Updated(dg, new)[f] = one
  BY <1>2 DEF Updated
<1>4. CASE f \in DOMAIN dg
  <2>1. one = Updated(dg[f], graph)
    BY <1>4
  <2> HIDE DEF one
  <2>2. /\ DOMAIN one = DOMAIN dg[f] \cup DOMAIN graph
        /\ \A r \in DOMAIN graph : one[r] = graph[r]
        /\ \A r \in DOMAIN dg[f] : r \notin DOMAIN graph => one[r] = dg[f][r]
    BY <2>1 DEF Updated
  <2> QED BY <1>1, <1>3, <1>4, <2>2
<1>5. CASE f \notin DOMAIN dg
  <2>1. one = graph
    BY <1>5
  <2> HIDE DEF one
  <2> QED BY <1>1, <1>3, <1>5, <2>1
<1> QED BY <1>4, <1>5

(* ... and nothing that was there is lost.                                 *)
LEMMA EnteredPreserves ==
  ASSUME NEW dg, NEW f, NEW graph,
         f \in DOMAIN dg => \A r \in Filled(dg, f) : r \in DOMAIN graph => graph[r] = dg[f][r]
  PROVE  Preserved(dg, Entered(dg, f, graph))
<1> DEFINE new == Entered(dg, f, graph)
<1>1. CASE graph = <<>>
  BY <1>1 DEF Entered, Preserved
<1>2. CASE graph # <<>>
  <2>1. /\ DOMAIN new = DOMAIN dg \cup {f}
        /\ \A k \in DOMAIN dg : k # f => new[k] = dg[k]
        /\ DOMAIN new[f] = DOMAIN graph \cup (IF f \in DOMAIN dg THEN DOMAIN dg[f] ELSE {})
        /\ \A r \in DOMAIN graph : new[f][r] = graph[r]
        /\ f \in DOMAIN dg => \A r \in DOMAIN dg[f] : r \notin DOMAIN graph => new[f][r] = dg[f][r]
    BY <1>2, EnteredAt
  <2> HIDE DEF new
  <2>2. SUFFICES ASSUME NEW k \in DOMAIN dg, NEW r \in Filled(dg, k)
                 PROVE  r \in Filled(new, k) /\ new[k][r] = dg[k][r]
    BY <2>1 DEF Preserved, new
  <2>3. CASE k # f
    BY <2>1, <2>3 DEF Filled
  <2>4. CASE k = f
    <3>1. r \in DOMAIN dg[f] /\ DOMAIN dg[f][r] # {} /\ f \in DOMAIN dg /\ r \in Filled(dg, f)
      BY <2>4 DEF Filled
    <3>2. r \in DOMAIN new[f] /\ new[f][r] = dg[f][r]
      BY <2>1, <3>1
    <3> QED BY <2>4, <3>1, <3>2 DEF Filled
  <2> QED BY <2>3, <2>4
<1> QED BY <1>1, <1>2

(* Nodes stay those of their inputs while the graph grows.                 *)
LEMMA InputsPreserved ==
  ASSUME NEW dg, NEW new, Preserved(dg, new), FeaturesFromInputs(dg),
         NEW f \in Features \cap DOMAIN dg, NEW r \in Filled(dg, f)
  PROVE  /\ \A k \in Deps(f) : k \in DOMAIN new /\ r \in Filled(new, k)
         /\ InputsOf(new, f, r) = InputsOf(dg, f, r)
         /\ new[f][r] = NodeMap(f, InputsOf(new, f, r))
<1>1. /\ \A k \in Deps(f) : k \in DOMAIN dg /\ r \in Filled(dg, k)
      /\ dg[f][r] = NodeMap(f, InputsOf(dg, f, r))
  BY DEF FeaturesFromInputs
<1>2. \A k \in Deps(f) : k \in DOMAIN new /\ r \in Filled(new, k) /\ new[k][r] = dg[k][r]
  BY <1>1 DEF Preserved
<1>3. InputsOf(new, f, r) = InputsOf(dg, f, r)
  BY <1>2 DEF InputsOf
<1>4. new[f][r] = dg[f][r]
  BY DEF Preserved
<1> QED BY <1>1, <1>2, <1>3, <1>4

(* A source: its ranges.                                                   *)
LEMMA SourceEnters ==
  ASSUME NEW dg, NEW dt, NEW k \in Sources, Ordered(dt[k]), GraphInv(dg), SourcesFromData(dt, dg)
  PROVE  LET new == Entered(dg, k, SourceGraph(MakeRanges(dt[k])))
         IN  GraphInv(new) /\ SourcesFromData(dt, new) /\ Preserved(dg, new)
<1> DEFINE graph == SourceGraph(MakeRanges(dt[k]))
           new == Entered(dg, k, graph)
<1> SUFFICES GraphInv(new) /\ SourcesFromData(dt, new) /\ Preserved(dg, new)
  OBVIOUS
<1>1. /\ DOMAIN graph \in SUBSET Block /\ IsFiniteSet(DOMAIN graph)
      /\ \A r \in DOMAIN graph : NodeSet(DOMAIN graph[r], r)
      /\ \A i, j \in DOMAIN graph : Overlaps(i, j) => i = j
  BY SourceGraphNodes
<1>2. graph = [r \in DOMAIN graph |-> graph[r]]
  BY DEF SourceGraph
<1>3. k \in DOMAIN dg => dg[k] = graph
  BY DEF SourcesFromData
<1> HIDE DEF graph
<1>4. CASE graph = <<>>
  <2>1. new = dg
    BY <1>4 DEF Entered
  <2>2. Preserved(dg, dg)
    BY DEF Preserved
  <2> HIDE DEF new
  <2>3. GraphInv(new) /\ SourcesFromData(dt, new) /\ Preserved(dg, new)
    BY <2>1, <2>2
  <2> QED BY <2>3 DEF new
<1>5. CASE graph # <<>>
  <2>1. DOMAIN new = DOMAIN dg \cup {k} /\ \A x \in DOMAIN dg : x # k => new[x] = dg[x]
    <3>1. /\ DOMAIN Entered(dg, k, graph) = DOMAIN dg \cup {k}
          /\ \A x \in DOMAIN dg : x # k => Entered(dg, k, graph)[x] = dg[x]
          /\ DOMAIN Entered(dg, k, graph)[k] = DOMAIN graph \cup (IF k \in DOMAIN dg THEN DOMAIN dg[k] ELSE {})
          /\ \A r \in DOMAIN graph : Entered(dg, k, graph)[k][r] = graph[r]
          /\ k \in DOMAIN dg =>
               \A r \in DOMAIN dg[k] : r \notin DOMAIN graph => Entered(dg, k, graph)[k][r] = dg[k][r]
      BY <1>5, EnteredAt
    <3> QED BY <3>1
  <2>2. new[k] = graph
    <3> DEFINE one == IF k \in DOMAIN dg THEN Updated(dg[k], graph) ELSE graph
               this == [x \in {k} |-> one]
    <3>1. new = Updated(dg, this)
      BY <1>5 DEF Entered
    <3>2. new[k] = one
      BY <3>1 DEF Updated
    <3>3. k \in DOMAIN dg => Updated(dg[k], graph) = [r \in DOMAIN graph |-> graph[r]]
      BY <1>3 DEF Updated
    <3> QED BY <1>2, <3>2, <3>3
  <2>3. Preserved(dg, new)
    BY <1>3, EnteredPreserves
  <2> HIDE DEF new
  <2>4. NodesFit(new)
    <3>1. k \notin Features
      BY BlockGraphAssumption
    <3> QED BY <1>1, <2>1, <2>2, <3>1 DEF GraphInv, NodesFit
  <2>5. RangesApart(new)
    BY <1>1, <2>1, <2>2 DEF GraphInv, RangesApart, Filled
  <2>6. FeaturesFromInputs(new)
    <3> SUFFICES ASSUME NEW f \in Features \cap DOMAIN new, NEW r \in Filled(new, f)
                 PROVE  /\ \A x \in Deps(f) : x \in DOMAIN new /\ r \in Filled(new, x)
                        /\ new[f][r] = NodeMap(f, InputsOf(new, f, r))
      BY DEF FeaturesFromInputs
    <3>1. f # k
      BY BlockGraphAssumption
    <3>2. f \in DOMAIN dg /\ r \in Filled(dg, f)
      BY <2>1, <3>1 DEF Filled
    <3>3. FeaturesFromInputs(dg) /\ f \in Features \cap DOMAIN dg
      BY <3>2 DEF GraphInv
    <3> QED BY <2>3, <3>2, <3>3, InputsPreserved
  <2>7. SourcesFromData(dt, new)
    BY <2>1, <2>2 DEF SourcesFromData, graph
  <2> QED BY <2>3, <2>4, <2>5, <2>6, <2>7 DEF GraphInv, new, graph
<1> QED BY <1>4, <1>5

(* A feature: nodes that its inputs have in a range that all of them have. *)
FromInputs(dg, f, graph) ==
  \A i \in DOMAIN graph : DOMAIN graph[i] # {} \/ (f \in DOMAIN dg /\ i \in Filled(dg, f)) =>
    /\ \A k \in Deps(f) : k \in DOMAIN dg /\ i \in Filled(dg, k)
    /\ graph[i] = NodeMap(f, InputsOf(dg, f, i))

LEMMA FeatureEnters ==
  ASSUME NEW dg, NEW f \in Features, NEW graph, DOMAIN graph \in SUBSET Block, IsFiniteSet(DOMAIN graph),
         GraphInv(dg), FromInputs(dg, f, graph)
  PROVE  LET new == Entered(dg, f, graph)
         IN  GraphInv(new) /\ Preserved(dg, new) /\ \A dt : SourcesFromData(dt, dg) => SourcesFromData(dt, new)
<1> DEFINE new == Entered(dg, f, graph)
<1>1. Preserved(dg, new)
  <2>1. ASSUME f \in DOMAIN dg, NEW r \in Filled(dg, f), r \in DOMAIN graph PROVE graph[r] = dg[f][r]
    BY <2>1 DEF FromInputs, GraphInv, FeaturesFromInputs
  <2> QED BY <2>1, EnteredPreserves
<1>2. CASE graph = <<>>
  BY <1>1, <1>2 DEF Entered
<1>3. CASE graph # <<>>
  <2>1. /\ DOMAIN new = DOMAIN dg \cup {f}
        /\ \A k \in DOMAIN dg : k # f => new[k] = dg[k]
        /\ DOMAIN new[f] = DOMAIN graph \cup (IF f \in DOMAIN dg THEN DOMAIN dg[f] ELSE {})
        /\ \A r \in DOMAIN graph : new[f][r] = graph[r]
        /\ f \in DOMAIN dg => \A r \in DOMAIN dg[f] : r \notin DOMAIN graph => new[f][r] = dg[f][r]
    BY <1>3, EnteredAt
  <2> HIDE DEF new
  <2>2. ASSUME NEW r \in Filled(new, f)
        PROVE  /\ \A k \in Deps(f) : k \in DOMAIN dg /\ r \in Filled(dg, k)
               /\ new[f][r] = NodeMap(f, InputsOf(dg, f, r))
    <3>1. CASE r \in DOMAIN graph
      <4>1. DOMAIN graph[r] # {} /\ new[f][r] = graph[r]
        BY <2>1, <2>2, <3>1 DEF Filled
      <4> QED BY <3>1, <4>1 DEF FromInputs
    <3>2. CASE r \notin DOMAIN graph
      <4>1. f \in DOMAIN dg /\ r \in DOMAIN dg[f] /\ new[f][r] = dg[f][r] /\ DOMAIN dg[f][r] # {}
        BY <2>1, <2>2, <3>2 DEF Filled
      <4>2. r \in Filled(dg, f) /\ f \in Features \cap DOMAIN dg
        BY <4>1 DEF Filled
      <4> QED BY <4>1, <4>2 DEF GraphInv, FeaturesFromInputs
    <3> QED BY <3>1, <3>2
  <2>3. NodesFit(new)
    <3>1. DOMAIN new[f] \in SUBSET Block /\ IsFiniteSet(DOMAIN new[f])
      <4>1. f \in DOMAIN dg => DOMAIN dg[f] \in SUBSET Block /\ IsFiniteSet(DOMAIN dg[f])
        BY DEF GraphInv, NodesFit
      <4>2. CASE f \in DOMAIN dg
        <5>1. DOMAIN new[f] = DOMAIN graph \cup DOMAIN dg[f]
          BY <2>1, <4>2
        <5>2. IsFiniteSet(DOMAIN graph \cup DOMAIN dg[f])
          BY <4>1, <4>2, FS_Union
        <5> QED BY <4>1, <4>2, <5>1, <5>2
      <4>3. CASE f \notin DOMAIN dg
        <5>1. DOMAIN new[f] = DOMAIN graph
          BY <2>1, <4>3
        <5> QED BY <5>1
      <4> QED BY <4>2, <4>3
    <3>2. ASSUME NEW r \in DOMAIN new[f]
          PROVE  NodeSet(DOMAIN new[f][r], r) /\ StartsDiffer(DOMAIN new[f][r])
      <4>1. CASE DOMAIN new[f][r] = {}
        BY <4>1, FS_EmptySet DEF NodeSet, Apart, StartsDiffer
      <4>2. CASE DOMAIN new[f][r] # {}
        <5>1. r \in Filled(new, f) /\ r \in Block
          BY <3>1, <3>2, <4>2 DEF Filled
        <5>2. /\ \A k \in Deps(f) : k \in DOMAIN dg /\ r \in Filled(dg, k)
              /\ new[f][r] = NodeMap(f, InputsOf(dg, f, r))
          BY <2>2, <5>1
        <5>3. \A k \in Deps(f) : NodeSet(InputsOf(dg, f, r)[k], r)
          BY <5>2 DEF GraphInv, NodesFit, Filled, InputsOf
        <5>4. NodeSet(DOMAIN NodeMap(f, InputsOf(dg, f, r)), r) /\ StartsDiffer(DOMAIN NodeMap(f, InputsOf(dg, f, r)))
          BY <5>1, <5>3, NodesOfFeature
        <5> QED BY <5>2, <5>4
      <4> QED BY <4>1, <4>2
    <3> QED BY <2>1, <3>1, <3>2 DEF GraphInv, NodesFit
  <2>4. RangesApart(new)
    <3>1. ASSUME NEW i \in Filled(new, f), NEW j \in Filled(new, f), Overlaps(i, j) PROVE i = j
      <4>1. PICK k \in Deps(f) : TRUE
        BY DepsOfFeature
      <4>2. k \in DOMAIN dg /\ i \in Filled(dg, k) /\ j \in Filled(dg, k)
        BY <2>2, <3>1
      <4> QED BY <3>1, <4>2 DEF GraphInv, RangesApart
    <3>2. ASSUME NEW k \in DOMAIN new, k # f PROVE k \in DOMAIN dg /\ Filled(new, k) = Filled(dg, k)
      BY <2>1, <3>2 DEF Filled
    <3> QED BY <3>1, <3>2 DEF GraphInv, RangesApart
  <2>5. FeaturesFromInputs(new)
    <3> SUFFICES ASSUME NEW x \in Features \cap DOMAIN new, NEW r \in Filled(new, x)
                 PROVE  /\ \A k \in Deps(x) : k \in DOMAIN new /\ r \in Filled(new, k)
                        /\ new[x][r] = NodeMap(x, InputsOf(new, x, r))
      BY DEF FeaturesFromInputs
    <3>1. CASE x = f
      <4>1. /\ \A k \in Deps(f) : k \in DOMAIN dg /\ r \in Filled(dg, k)
            /\ new[f][r] = NodeMap(f, InputsOf(dg, f, r))
        BY <2>2, <3>1
      <4>2. \A k \in Deps(f) : k \in DOMAIN new /\ r \in Filled(new, k) /\ new[k][r] = dg[k][r]
        BY <1>1, <4>1 DEF Preserved
      <4>3. InputsOf(new, f, r) = InputsOf(dg, f, r)
        BY <4>2 DEF InputsOf
      <4> QED BY <3>1, <4>1, <4>2, <4>3
    <3>2. CASE x # f
      <4>1. x \in DOMAIN dg /\ new[x] = dg[x]
        BY <2>1, <3>2
      <4>2. r \in Filled(dg, x) /\ FeaturesFromInputs(dg) /\ x \in Features \cap DOMAIN dg
        BY <4>1 DEF Filled, GraphInv
      <4> QED BY <1>1, <4>2, InputsPreserved
    <3> QED BY <3>1, <3>2
  <2>6. ASSUME NEW dt, SourcesFromData(dt, dg) PROVE SourcesFromData(dt, new)
    <3>1. f \notin Sources
      BY BlockGraphAssumption
    <3> QED BY <2>1, <2>6, <3>1 DEF SourcesFromData
  <2> QED BY <1>1, <2>3, <2>4, <2>5, <2>6 DEF GraphInv, new
<1> QED BY <1>2, <1>3

(* What is built for a feature                                             *)
DataFits(dt) == \A k \in Sources : Ordered(dt[k])

BuildInv == DataFits(data) /\ GraphInv(dag) /\ SourcesFromData(data, dag) /\ RangesKnown(metas, dag)

(* The ranges of an input that can be used, those that are in the graph.   *)
LEMMA KnownRanges ==
  ASSUME NEW k \in Sources \cup Features, BuildInv, ~Unusable(k)
  PROVE  /\ \E last \in Nat : DOMAIN RangesOf(k) \subseteq 0..last
         /\ \A l \in DOMAIN RangesOf(k) : Ordered(RangesOf(k)[l]) /\ Span(RangesOf(k)[l]) \in Block
         /\ k \in DOMAIN dag =>
              \A l \in DOMAIN RangesOf(k) : \E j \in Filled(dag, k) :
                RangesOf(k)[l] = InOrder(DOMAIN dag[k][j]) /\ Within(Span(RangesOf(k)[l]), j)
<1>1. CASE k \in Sources
  <2> DEFINE s == data[k]
             R == MakeRanges(s)
             G == SourceGraph(R)
  <2>1. RangesOf(k) = R
    BY <1>1 DEF RangesOf
  <2>2. Ordered(s)
    BY <1>1 DEF BuildInv, DataFits
  <2>3. k \in DOMAIN dag => dag[k] = G
    BY <1>1 DEF BuildInv, SourcesFromData
  <2> HIDE DEF s
  <2>4. /\ DOMAIN R \subseteq 0..(Len(s) + 1) /\ Len(s) + 1 \in Nat
        /\ IsFiniteSet(DOMAIN R)
        /\ \A l \in DOMAIN R : Ordered(R[l]) /\ R[l] # <<>>
    BY <2>2, RangesOfSource
  <2>5. /\ \A r \in DOMAIN G : NodeSet(DOMAIN G[r], r)
        /\ \A l \in DOMAIN R : /\ Span(R[l]) \in DOMAIN G /\ DOMAIN G[Span(R[l])] # {}
                               /\ R[l] = InOrder(DOMAIN G[Span(R[l])])
    BY <2>2, SourceGraphNodes
  <2> HIDE DEF R
  <2>6. \A l \in DOMAIN R : Span(R[l]) \in Block
    BY <2>4, SpanOfOrdered
  <2> HIDE DEF G
  <2>7. \A l \in DOMAIN R : Within(Span(R[l]), Span(R[l]))
    BY <2>6 DEF Within, Block
  <2>8. k \in DOMAIN dag => \A l \in DOMAIN R : Span(R[l]) \in Filled(dag, k)
    BY <2>3, <2>5 DEF Filled
  <2>9. k \in DOMAIN dag =>
          \A l \in DOMAIN R : \E j \in Filled(dag, k) :
            R[l] = InOrder(DOMAIN dag[k][j]) /\ Within(Span(R[l]), j)
    BY <2>3, <2>5, <2>7, <2>8
  <2> QED BY <2>1, <2>4, <2>6, <2>9
<1>2. CASE k \in Features
  <2> DEFINE R == metas[k]
  <2>1. RangesOf(k) = R
    BY <1>2, BlockGraphAssumption DEF RangesOf
  <2>2. k \in DOMAIN metas /\ <<>> \notin Range(R)
    BY <1>2, <2>1 DEF Unusable
  <2>3. /\ k \in DOMAIN dag /\ R \in Seq(Seq(Block))
        /\ \A n \in DOMAIN R : R[n] # <<>> => \E i \in Filled(dag, k) : R[n] = InOrder(DOMAIN dag[k][i])
    BY <2>2 DEF BuildInv, RangesKnown
  <2> HIDE DEF R
  <2>4. ASSUME NEW l \in DOMAIN R
        PROVE  /\ Ordered(R[l]) /\ Span(R[l]) \in Block
               /\ \E j \in Filled(dag, k) : R[l] = InOrder(DOMAIN dag[k][j]) /\ Within(Span(R[l]), j)
    <3>1. R[l] # <<>>
      BY <2>2, <2>4 DEF Range
    <3>2. PICK j \in Filled(dag, k) : R[l] = InOrder(DOMAIN dag[k][j])
      BY <2>3, <2>4, <3>1
    <3> DEFINE S == DOMAIN dag[k][j]
    <3>3. NodeSet(S, j) /\ j \in Block
      BY <2>3 DEF BuildInv, GraphInv, NodesFit, Filled
    <3>4. S \in SUBSET Block /\ IsFiniteSet(S) /\ Apart(S) /\ \A b \in S : Within(b, j)
      BY <3>3 DEF NodeSet
    <3> HIDE DEF S
    <3>5. /\ InOrder(S) \in Seq(Block) /\ Len(InOrder(S)) = Cardinality(S)
          /\ Range(InOrder(S)) = S
          /\ Apart(S) => Ordered(InOrder(S))
      BY <3>4, InOrderOrdered
    <3>6. R[l] = InOrder(S)
      BY <3>2 DEF S
    <3>7. Ordered(R[l]) /\ Range(R[l]) = S
      BY <3>4, <3>5, <3>6
    <3> DEFINE r == R[l]
    <3>8. Ordered(r) /\ r # <<>> /\ Range(r) = S
      BY <3>1, <3>7
    <3> HIDE DEF r
    <3>9. /\ Span(r) \in Block /\ Range(r) # {} /\ NodeSet(Range(r), Span(r))
          /\ \A x \in Block : (\A b \in Range(r) : Within(b, x)) => Within(Span(r), x)
      BY <3>8, SpanOfOrdered
    <3>10. Span(r) \in Block /\ Within(Span(r), j)
      BY <3>3, <3>4, <3>8, <3>9
    <3> QED BY <3>2, <3>7, <3>10 DEF r
  <2>5. Len(R) \in Nat /\ DOMAIN R \subseteq 0..Len(R)
    BY <2>3
  <2> QED BY <2>1, <2>3, <2>4, <2>5
<1> QED BY <1>1, <1>2

(* What a feature is built of are the nodes of its inputs.                 *)
LEMMA BuiltFromInputs ==
  ASSUME NEW f \in Features, BuildInv, \A k \in Deps(f) : ~Unusable(k),
         Resolves(RangeGraph(f, CommonRanges(f)))
  PROVE  LET graph == RangeGraph(f, CommonRanges(f))
         IN  /\ DOMAIN graph \in SUBSET Block /\ IsFiniteSet(DOMAIN graph)
             /\ \A i \in DOMAIN graph : DOMAIN graph[i] \in SUBSET Block /\ IsFiniteSet(DOMAIN graph[i])
             /\ FromInputs(dag, f, graph)
<1> DEFINE R == [k \in Deps(f) |-> RangesOf(k)]
           ranges == Pruned(Deps(f), R)
           graph == RangeGraph(f, ranges)
<1>1. Deps(f) # {} /\ Deps(f) \subseteq Sources \cup Features
  BY DepsOfFeature
<1>2. \A k \in Deps(f) :
        /\ \E last \in Nat : DOMAIN R[k] \subseteq 0..last
        /\ \A l \in DOMAIN R[k] : Ordered(R[k][l]) /\ Span(R[k][l]) \in Block
        /\ k \in DOMAIN dag =>
              \A l \in DOMAIN R[k] : \E j \in Filled(dag, k) :
                R[k][l] = InOrder(DOMAIN dag[k][j]) /\ Within(Span(R[k][l]), j)
  BY <1>1, KnownRanges
<1>3. CommonRanges(f) = ranges
  <2>1. [k \in Deps(f) |-> RangesToDict(R[k])] = [k \in Deps(f) |-> RangesToDict(RangesOf(k))]
    OBVIOUS
  <2> QED BY <2>1 DEF CommonRanges, Pruned
<1> HIDE DEF R
<1>4. /\ DOMAIN ranges \in SUBSET Block /\ IsFiniteSet(DOMAIN ranges)
      /\ \A i \in DOMAIN ranges : \A k \in Deps(f) : \E l \in DOMAIN R[k] :
           /\ Within(i, Span(R[k][l]))
           /\ ranges[i][k] = InOrder(Met(R[k][l], i))
  <2>1. \A k \in Deps(f) : /\ \E last \in Nat : DOMAIN R[k] \subseteq 0..last
                           /\ \A l \in DOMAIN R[k] : Span(R[k][l]) \in Block
    BY <1>2
  <2>2. InRanges(Deps(f), R)
    BY <2>1 DEF InRanges
  <2>3. Deps(f) # {}
    BY <1>1
  <2>4. /\ DOMAIN Pruned(Deps(f), R) \in SUBSET Block /\ IsFiniteSet(DOMAIN Pruned(Deps(f), R))
        /\ MetBy(Deps(f), R)
    BY <2>2, <2>3, CommonRangesFit
  <2> QED BY <2>4 DEF ranges, MetBy
<1> HIDE DEF ranges
<1>5. DOMAIN graph = DOMAIN ranges
  BY DEF RangeGraph
<1>6. ASSUME NEW i \in DOMAIN ranges, NEW k \in Deps(f) PROVE Ordered(ranges[i][k])
  <2>1. PICK l \in DOMAIN R[k] : ranges[i][k] = InOrder(Met(R[k][l], i))
    BY <1>4, <1>6
  <2> DEFINE r == R[k][l]
             S == Met(r, i)
  <2>2. Ordered(r)
    BY <1>2, <1>6
  <2>3. ranges[i][k] = InOrder(S)
    BY <2>1
  <2> HIDE DEF r
  <2>4. Range(r) \in SUBSET Block /\ IsFiniteSet(Range(r)) /\ Apart(Range(r))
    BY <2>2, OrderedIsInOrder
  <2>5. S \in SUBSET Block /\ IsFiniteSet(S) /\ Apart(S)
    BY <2>4, FS_Subset DEF Apart, Met
  <2> HIDE DEF S
  <2> QED BY <2>3, <2>5, InOrderOrdered
<1>7. ASSUME NEW i \in DOMAIN ranges
      PROVE  /\ DOMAIN graph[i] \in SUBSET Block /\ IsFiniteSet(DOMAIN graph[i])
             /\ DOMAIN graph[i] # {} => \A k \in Deps(f) : k \in DOMAIN dag /\ i \in Filled(dag, k)
  <2> DEFINE ds == [k \in Deps(f) |-> Grouped(f, ranges[i][k])]
  <2>1. graph[i] = GetOverlaps(ds)
    BY <1>7 DEF RangeGraph
  <2>2. DOMAIN ds = Deps(f)
    OBVIOUS
  <2>3. ASSUME NEW k \in Deps(f)
        PROVE  /\ Timed(ds[k])
               /\ \A c \in DOMAIN ds[k] : ds[k][c] # {}
    <3> DEFINE s == ranges[i][k]
    <3>1. Ordered(s)
      BY <1>6, <1>7, <2>3
    <3>2. ds[k] = Grouped(f, s)
      BY <2>3
    <3> HIDE DEF s, ds
    <3>3. /\ Timed(Grouped(f, s)) /\ LeftClosed(Grouped(f, s)) /\ Gapless(Grouped(f, s))
          /\ DOMAIN Grouped(f, s) = UNION {Cells(s[n]) : n \in DOMAIN s}
          /\ \A c \in DOMAIN Grouped(f, s) : \E n \in DOMAIN s :
               /\ Grouped(f, s)[c] = Group(f, Range(s), s[n])
               /\ \A e \in DOMAIN Grouped(f, s) :
                    Grouped(f, s)[e] = Grouped(f, s)[c] => e \in Cells(s[n])
      BY <3>1, GroupedDict
    <3>4. \A n \in DOMAIN s : s[n] \in Group(f, Range(s), s[n])
      BY DEF Group, Range
    <3> QED BY <3>2, <3>3, <3>4
  <2> HIDE DEF ds
  <2>4. DOMAIN ds # {} /\ \A k \in DOMAIN ds : Timed(ds[k])
    BY <1>1, <2>2, <2>3
  <2>5. DOMAIN GetOverlaps(ds) \in SUBSET Block /\ IsFiniteSet(DOMAIN GetOverlaps(ds))
    <3>1. Timed(Both(ds))
      BY <2>4, BothDict
    <3> QED BY <3>1, GetOverlapsItems, ItemsKeys
  <2>6. ASSUME NEW b \in DOMAIN graph[i], NEW k \in Deps(f)
        PROVE  k \in DOMAIN dag /\ i \in Filled(dag, k)
    <3>1. b \in DOMAIN GetOverlaps(ds)
      BY <2>1, <2>6
    <3>2. PICK c \in Common(ds) : GetOverlaps(ds)[b] = [x \in DOMAIN ds |-> ds[x][c]]
      BY <2>4, <3>1, KeyOfBoth
    <3>3. c \in DOMAIN ds[k] /\ k \in DOMAIN graph[i][b] /\ graph[i][b][k] = ds[k][c]
      BY <2>1, <2>2, <2>6, <3>2 DEF Common
    <3>4. graph[i][b][k] # {}
      BY <2>3, <2>6, <3>3
    <3>5. k \in DOMAIN dag /\ i \in DOMAIN dag[k] /\ graph[i][b][k] \subseteq DOMAIN dag[k][i]
      BY <1>3, <1>5, <1>7, <2>6, <3>3 DEF Resolves
    <3> QED BY <3>4, <3>5 DEF Filled
  <2> QED BY <2>1, <2>5, <2>6
<1>8. ASSUME NEW i \in DOMAIN ranges, \A k \in Deps(f) : k \in DOMAIN dag /\ i \in Filled(dag, k)
      PROVE  graph[i] = NodeMap(f, InputsOf(dag, f, i))
  <2>1. ASSUME NEW k \in Deps(f) PROVE ranges[i][k] = InOrder(DOMAIN dag[k][i])
    <3>1. PICK l \in DOMAIN R[k] : /\ Within(i, Span(R[k][l]))
                                   /\ ranges[i][k] = InOrder(Met(R[k][l], i))
      BY <1>4, <1>8, <2>1
    <3>2. PICK j \in Filled(dag, k) : R[k][l] = InOrder(DOMAIN dag[k][j]) /\ Within(Span(R[k][l]), j)
      BY <1>2, <1>8, <2>1
    <3>3. i \in Block /\ j \in Block /\ Span(R[k][l]) \in Block
      BY <1>2, <1>4, <1>8, <2>1 DEF BuildInv, GraphInv, NodesFit, Filled
    <3>4. Within(i, j)
      BY <3>1, <3>2, <3>3, WithinTransitive
    <3>5. Overlaps(i, j)
      BY <3>3, <3>4 DEF Within, Overlaps, Block
    <3>6. i = j
      BY <1>8, <2>1, <3>5 DEF BuildInv, GraphInv, RangesApart
    <3> DEFINE S == DOMAIN dag[k][i]
    <3>7. NodeSet(S, i)
      BY <1>8, <2>1 DEF BuildInv, GraphInv, NodesFit, Filled
    <3>8. S \in SUBSET Block /\ IsFiniteSet(S) /\ \A b \in S : Within(b, i)
      BY <3>7 DEF NodeSet
    <3>9. R[k][l] = InOrder(S)
      BY <3>2, <3>6
    <3> HIDE DEF S
    <3>10. Range(InOrder(S)) = S
      BY <3>8, InOrderOrdered
    <3>11. \A b \in S : Overlaps(i, b)
      BY <3>3, <3>8 DEF Within, Overlaps, Block
    <3>12. Met(R[k][l], i) = S
      BY <3>9, <3>10, <3>11 DEF Met
    <3> QED BY <3>1, <3>12 DEF S
  <2>2. graph[i] = GetOverlaps([k \in Deps(f) |-> Grouped(f, ranges[i][k])])
    BY <1>8 DEF RangeGraph
  <2>3. [k \in Deps(f) |-> Grouped(f, ranges[i][k])]
          = [k \in Deps(f) |-> Grouped(f, InOrder(InputsOf(dag, f, i)[k]))]
    BY <2>1 DEF InputsOf
  <2> QED BY <2>2, <2>3 DEF NodeMap
<1>9. FromInputs(dag, f, graph)
  <2> SUFFICES ASSUME NEW i \in DOMAIN ranges,
                      DOMAIN graph[i] # {} \/ (f \in DOMAIN dag /\ i \in Filled(dag, f))
               PROVE  /\ \A k \in Deps(f) : k \in DOMAIN dag /\ i \in Filled(dag, k)
                      /\ graph[i] = NodeMap(f, InputsOf(dag, f, i))
    BY <1>5 DEF FromInputs
  <2>1. \A k \in Deps(f) : k \in DOMAIN dag /\ i \in Filled(dag, k)
    BY <1>7 DEF BuildInv, GraphInv, FeaturesFromInputs
  <2> QED BY <1>8, <2>1
<1> QED BY <1>3, <1>4, <1>5, <1>7, <1>9

(* What is remembered of the ranges of a feature                           *)
RangesIn(graph) == [n \in DOMAIN InOrder(DOMAIN graph) |-> InOrder(DOMAIN graph[InOrder(DOMAIN graph)[n]])]

Remembered(mt, f, graph) ==
  IF graph = <<>> THEN mt
  ELSE Updated(mt, [k \in {f} |-> IF f \in DOMAIN mt THEN mt[f] \o RangesIn(graph) ELSE RangesIn(graph)])

LEMMA RangesInGraph ==
  ASSUME NEW graph, DOMAIN graph \in SUBSET Block, IsFiniteSet(DOMAIN graph),
         \A i \in DOMAIN graph : DOMAIN graph[i] \in SUBSET Block /\ IsFiniteSet(DOMAIN graph[i])
  PROVE  /\ RangesIn(graph) \in Seq(Seq(Block))
         /\ \A n \in DOMAIN RangesIn(graph) : RangesIn(graph)[n] # <<>> =>
              \E i \in DOMAIN graph : DOMAIN graph[i] # {} /\ RangesIn(graph)[n] = InOrder(DOMAIN graph[i])
<1> DEFINE order == InOrder(DOMAIN graph)
<1>1. order \in Seq(Block) /\ Range(order) = DOMAIN graph
  BY InOrderOrdered
<1>2. RangesIn(graph) = [n \in DOMAIN order |-> InOrder(DOMAIN graph[order[n]])]
  BY DEF RangesIn
<1> HIDE DEF order
<1>3. \A n \in DOMAIN order : order[n] \in DOMAIN graph
  BY <1>1 DEF Range
<1>4. ASSUME NEW i \in DOMAIN graph
      PROVE  /\ InOrder(DOMAIN graph[i]) \in Seq(Block)
             /\ InOrder(DOMAIN graph[i]) # <<>> => DOMAIN graph[i] # {}
  <2> DEFINE S == DOMAIN graph[i]
  <2>1. S \in SUBSET Block /\ IsFiniteSet(S)
    OBVIOUS
  <2> HIDE DEF S
  <2>2. InOrder(S) \in Seq(Block) /\ Len(InOrder(S)) = Cardinality(S)
    BY <2>1, InOrderOrdered
  <2>3. S = {} => Cardinality(S) = 0
    BY FS_EmptySet
  <2>4. S = {} => InOrder(S) = <<>>
    BY <2>2, <2>3, EmptySeq
  <2> QED BY <2>2, <2>4 DEF S
<1>5. RangesIn(graph) \in Seq(Seq(Block))
  <2>1. Len(order) \in Nat /\ DOMAIN order = 1..Len(order)
    BY <1>1
  <2>2. \A n \in 1..Len(order) : InOrder(DOMAIN graph[order[n]]) \in Seq(Block)
    BY <1>3, <1>4, <2>1
  <2>3. RangesIn(graph) \in [1..Len(order) -> Seq(Block)]
    BY <1>2, <2>1, <2>2
  <2> QED BY <2>1, <2>3, SeqDef
<1>6. ASSUME NEW n \in DOMAIN RangesIn(graph), RangesIn(graph)[n] # <<>>
      PROVE  \E i \in DOMAIN graph : DOMAIN graph[i] # {} /\ RangesIn(graph)[n] = InOrder(DOMAIN graph[i])
  <2>1. n \in DOMAIN order /\ RangesIn(graph)[n] = InOrder(DOMAIN graph[order[n]])
    BY <1>2, <1>6
  <2> QED BY <1>3, <1>4, <1>6, <2>1
<1> QED BY <1>5, <1>6

LEMMA RangesRemembered ==
  ASSUME NEW mt, NEW dg, NEW f \in Features, NEW graph,
         DOMAIN graph \in SUBSET Block, IsFiniteSet(DOMAIN graph),
         \A i \in DOMAIN graph : DOMAIN graph[i] \in SUBSET Block /\ IsFiniteSet(DOMAIN graph[i]),
         RangesKnown(mt, dg), Preserved(dg, Entered(dg, f, graph))
  PROVE  RangesKnown(Remembered(mt, f, graph), Entered(dg, f, graph))
<1> DEFINE new == Entered(dg, f, graph)
           now == Remembered(mt, f, graph)
           ranges == RangesIn(graph)
<1>1. ASSUME NEW k \in DOMAIN mt
      PROVE  /\ k \in Features /\ k \in DOMAIN new /\ mt[k] \in Seq(Seq(Block))
             /\ \A n \in DOMAIN mt[k] :
                  mt[k][n] # <<>> => \E i \in Filled(new, k) : mt[k][n] = InOrder(DOMAIN new[k][i])
  <2> HIDE DEF new
  <2>1. /\ k \in Features /\ k \in DOMAIN dg /\ mt[k] \in Seq(Seq(Block))
        /\ \A n \in DOMAIN mt[k] :
             mt[k][n] # <<>> => \E i \in Filled(dg, k) : mt[k][n] = InOrder(DOMAIN dg[k][i])
    BY <1>1 DEF RangesKnown
  <2>2. k \in DOMAIN new /\ \A i \in Filled(dg, k) : i \in Filled(new, k) /\ new[k][i] = dg[k][i]
    BY <2>1 DEF Preserved, new
  <2> QED BY <2>1, <2>2
<1>2. CASE graph = <<>>
  <2>1. now = mt
    BY <1>2 DEF Remembered
  <2> HIDE DEF now, new
  <2>2. RangesKnown(now, new)
    BY <1>1, <2>1 DEF RangesKnown
  <2> QED BY <2>2 DEF now, new
<1>3. CASE graph # <<>>
  <2>1. /\ ranges \in Seq(Seq(Block))
        /\ \A n \in DOMAIN ranges : ranges[n] # <<>> =>
             \E i \in DOMAIN graph : DOMAIN graph[i] # {} /\ ranges[n] = InOrder(DOMAIN graph[i])
    BY RangesInGraph
  <2>2. /\ DOMAIN new = DOMAIN dg \cup {f}
        /\ \A k \in DOMAIN dg : k # f => new[k] = dg[k]
        /\ DOMAIN new[f] = DOMAIN graph \cup (IF f \in DOMAIN dg THEN DOMAIN dg[f] ELSE {})
        /\ \A r \in DOMAIN graph : new[f][r] = graph[r]
        /\ f \in DOMAIN dg => \A r \in DOMAIN dg[f] : r \notin DOMAIN graph => new[f][r] = dg[f][r]
    BY <1>3, EnteredAt
  <2> HIDE DEF ranges, new
  <2>3. \A n \in DOMAIN ranges : ranges[n] # <<>> =>
             \E i \in Filled(new, f) : ranges[n] = InOrder(DOMAIN new[f][i])
    <3>1. \A i \in DOMAIN graph : DOMAIN graph[i] # {} => i \in Filled(new, f) /\ new[f][i] = graph[i]
      BY <2>2 DEF Filled
    <3> QED BY <2>1, <3>1
  <2> DEFINE one == IF f \in DOMAIN mt THEN mt[f] \o ranges ELSE ranges
             this == [k \in {f} |-> one]
  <2>4. now = Updated(mt, this)
    BY <1>3 DEF Remembered, ranges
  <2>5. DOMAIN now = DOMAIN mt \cup {f} /\ now[f] = one /\ \A k \in DOMAIN mt : k # f => now[k] = mt[k]
    BY <2>4 DEF Updated
  <2>6. /\ one \in Seq(Seq(Block))
        /\ \A n \in DOMAIN one : one[n] # <<>> => \E i \in Filled(new, f) : one[n] = InOrder(DOMAIN new[f][i])
    <3>1. CASE f \in DOMAIN mt
      <4> DEFINE old == mt[f]
      <4>1. /\ old \in Seq(Seq(Block))
            /\ \A n \in DOMAIN old :
                 old[n] # <<>> => \E i \in Filled(new, f) : old[n] = InOrder(DOMAIN new[f][i])
        BY <1>1, <3>1
      <4>2. one = old \o ranges
        BY <3>1
      <4> HIDE DEF old, one
      <4>3. one \in Seq(Seq(Block)) /\ Len(one) = Len(old) + Len(ranges)
        BY <2>1, <4>1, <4>2, ConcatProperties
      <4>4. ASSUME NEW n \in DOMAIN one
            PROVE  \/ n \in DOMAIN old /\ one[n] = old[n]
                   \/ n - Len(old) \in DOMAIN ranges /\ one[n] = ranges[n - Len(old)]
        <5>1. n \in 1..(Len(old) + Len(ranges)) /\ Len(old) \in Nat /\ Len(ranges) \in Nat
          BY <2>1, <4>1, <4>3, <4>4, LenProperties
        <5>2. one[n] = IF n <= Len(old) THEN old[n] ELSE ranges[n - Len(old)]
          BY <2>1, <4>1, <4>2, <5>1, ConcatProperties
        <5>3. DOMAIN old = 1..Len(old) /\ DOMAIN ranges = 1..Len(ranges)
          BY <2>1, <4>1, LenProperties
        <5> QED BY <5>1, <5>2, <5>3
      <4>5. ASSUME NEW n \in DOMAIN one, one[n] # <<>>
            PROVE  \E i \in Filled(new, f) : one[n] = InOrder(DOMAIN new[f][i])
        <5>1. CASE n \in DOMAIN old /\ one[n] = old[n]
          BY <4>1, <4>5, <5>1
        <5>2. CASE n - Len(old) \in DOMAIN ranges /\ one[n] = ranges[n - Len(old)]
          BY <2>3, <4>5, <5>2
        <5> QED BY <4>4, <5>1, <5>2
      <4> QED BY <4>3, <4>5
    <3>2. CASE f \notin DOMAIN mt
      <4>1. one = ranges
        BY <3>2
      <4> HIDE DEF one
      <4> QED BY <2>1, <2>3, <4>1
    <3> QED BY <3>1, <3>2
  <2> HIDE DEF one, now
  <2>7. RangesKnown(now, new)
    <3> SUFFICES ASSUME NEW k \in DOMAIN now
                 PROVE  /\ k \in Features /\ k \in DOMAIN new /\ now[k] \in Seq(Seq(Block))
                        /\ \A n \in DOMAIN now[k] :
                             now[k][n] # <<>> => \E i \in Filled(new, k) : now[k][n] = InOrder(DOMAIN new[k][i])
      BY DEF RangesKnown
    <3>1. CASE k = f
      BY <2>2, <2>5, <2>6, <3>1
    <3>2. CASE k # f
      BY <1>1, <2>5, <3>2 DEF new
    <3> QED BY <3>1, <3>2
  <2> QED BY <2>7 DEF now, new
<1> QED BY <1>2, <1>3

-----------------------------------------------------------------------------
(* The inductive invariant.                                                *)

(* NotJoinable, of any graph                                               *)
Unjoinable(asked, ahead, graphs) ==
  \/ \E f \in Range(asked) : f \notin DOMAIN graphs
  \/ \E x \in ahead : \E i \in DOMAIN graphs[x] : ~SortedIntervals(InOrder(DOMAIN graphs[x][i]))
  \/ \E f \in DOMAIN NodeSets(asked, ahead, graphs) :
       \E i, j \in DOMAIN NodeSets(asked, ahead, graphs)[f] : i # j /\ Overlaps(i, j)

JoinOf(ranges) == [i \in DOMAIN ranges |-> JoinBlocks(ranges[i])]

Asked ==
  /\ requested \in Seq(Features) /\ requested # <<>>
  /\ label \subseteq Range(requested) /\ \A x, y \in label : x = y

(* Nothing is joined until everything is.                                  *)
JoinInv ==
  /\ status # "joined" => joined = <<>>
  /\ status = "joined" =>
       /\ ~Unjoinable(requested, label, dag)
       /\ ~CannotPrune(JoinRanges(NodeSets(requested, label, dag)))
       /\ joined = JoinOf(JoinRanges(NodeSets(requested, label, dag)))

Inv == Asked /\ BuildInv /\ JoinInv

LEMMA InitInv == Init => Inv
<1> SUFFICES ASSUME Init PROVE Inv
  OBVIOUS
<1>1. Asked
  <2>1. requested \in Seq(Features) /\ requested # <<>>
    BY BlockGraphAssumption DEF Init
  <2>2. label = {} \/ \E f \in Range(requested) : label = {f}
    BY DEF Init
  <2> QED BY <2>1, <2>2 DEF Asked
<1>2. DataFits(data)
  <2> SUFFICES ASSUME NEW k \in Sources PROVE Ordered(data[k])
    BY DEF DataFits
  <2>1. data[k] \in Inputs[k]
    BY DEF Init
  <2>2. data[k] \in Seq(Block) /\ InTime(data[k])
    BY <2>1, BlockGraphAssumption
  <2> QED BY <2>2, InTimeOrdered
<1>3. DOMAIN dag = {} /\ DOMAIN metas = {}
  BY DEF Init
<1>4. BuildInv
  BY <1>2, <1>3 DEF BuildInv, GraphInv, NodesFit, RangesApart, FeaturesFromInputs, SourcesFromData, RangesKnown
<1>5. JoinInv
  BY DEF Init, JoinInv
<1> QED BY <1>1, <1>4, <1>5 DEF Inv

LEMMA VisitSourceInv == \A k \in Sources : Inv /\ VisitSource(k) => BuildInv'
<1> SUFFICES ASSUME NEW k \in Sources, Inv, VisitSource(k) PROVE BuildInv'
  OBVIOUS
<1> DEFINE new == Entered(dag, k, SourceGraph(MakeRanges(data[k])))
<1>1. dag' = new
  BY DEF VisitSource, Enter, Entered
<1>2. data' = data /\ metas' = metas
  BY DEF VisitSource, inputs
<1>3. Ordered(data[k]) /\ GraphInv(dag) /\ SourcesFromData(data, dag) /\ DataFits(data) /\ RangesKnown(metas, dag)
  BY DEF Inv, BuildInv, DataFits
<1>4. GraphInv(new) /\ SourcesFromData(data, new) /\ Preserved(dag, new)
  BY <1>3, SourceEnters
<1> HIDE DEF new
<1>5. RangesKnown(metas, new)
  <2> SUFFICES ASSUME NEW x \in DOMAIN metas
               PROVE  /\ x \in Features /\ x \in DOMAIN new /\ metas[x] \in Seq(Seq(Block))
                      /\ \A n \in DOMAIN metas[x] :
                           metas[x][n] # <<>> => \E i \in Filled(new, x) : metas[x][n] = InOrder(DOMAIN new[x][i])
    BY DEF RangesKnown
  <2>1. /\ x \in Features /\ x \in DOMAIN dag /\ metas[x] \in Seq(Seq(Block))
        /\ \A n \in DOMAIN metas[x] :
             metas[x][n] # <<>> => \E i \in Filled(dag, x) : metas[x][n] = InOrder(DOMAIN dag[x][i])
    BY <1>3 DEF RangesKnown
  <2>2. x \in DOMAIN new /\ \A i \in Filled(dag, x) : i \in Filled(new, x) /\ new[x][i] = dag[x][i]
    BY <1>4, <2>1 DEF Preserved
  <2> QED BY <2>1, <2>2
<1>6. GraphInv(dag') /\ SourcesFromData(data', dag') /\ DataFits(data') /\ RangesKnown(metas', dag')
  BY <1>1, <1>2, <1>3, <1>4, <1>5
<1> QED BY <1>6 DEF BuildInv

LEMMA VisitFeatureInv == \A f \in Features : Inv /\ VisitFeature(f) => BuildInv'
<1> SUFFICES ASSUME NEW f \in Features, Inv, VisitFeature(f) PROVE BuildInv'
  OBVIOUS
<1>1. data' = data
  BY DEF VisitFeature, inputs
<1>2. GraphInv(dag) /\ SourcesFromData(data, dag) /\ DataFits(data) /\ RangesKnown(metas, dag) /\ BuildInv
  BY DEF Inv, BuildInv
<1>3. CASE BuildFails
  <2>1. dag' = dag /\ metas' = metas
    BY <1>3 DEF BuildFails
  <2>2. GraphInv(dag') /\ SourcesFromData(data', dag') /\ DataFits(data') /\ RangesKnown(metas', dag')
    BY <1>1, <1>2, <2>1
  <2> QED BY <2>2 DEF BuildInv
<1>4. CASE ~BuildFails
  <2> DEFINE graph == RangeGraph(f, CommonRanges(f))
             new == Entered(dag, f, graph)
             now == Remembered(metas, f, graph)
  <2>1. (\A k \in Deps(f) : ~Unusable(k)) /\ Resolves(graph) /\ Build(f, graph)
    BY <1>4 DEF VisitFeature
  <2>2. /\ DOMAIN graph \in SUBSET Block /\ IsFiniteSet(DOMAIN graph)
        /\ \A i \in DOMAIN graph : DOMAIN graph[i] \in SUBSET Block /\ IsFiniteSet(DOMAIN graph[i])
        /\ FromInputs(dag, f, graph)
    BY <1>2, <2>1, BuiltFromInputs
  <2> HIDE DEF graph
  <2>3. dag' = new
    BY <2>1 DEF Build, Enter, Entered
  <2>4. metas' = now
    BY <2>1 DEF Build, Remembered, RangesIn
  <2>5. GraphInv(new) /\ Preserved(dag, new) /\ \A dt : SourcesFromData(dt, dag) => SourcesFromData(dt, new)
    BY <1>2, <2>2, FeatureEnters
  <2>6. RangesKnown(now, new)
    BY <1>2, <2>2, <2>5, RangesRemembered
  <2> HIDE DEF new, now
  <2>7. GraphInv(dag') /\ SourcesFromData(data', dag') /\ DataFits(data') /\ RangesKnown(metas', dag')
    BY <1>1, <1>2, <2>3, <2>4, <2>5, <2>6
  <2> QED BY <2>7 DEF BuildInv
<1> QED BY <1>3, <1>4

LEMMA NextInv == Inv /\ [Next]_vars => Inv'
<1> SUFFICES ASSUME Inv, [Next]_vars PROVE Inv'
  OBVIOUS
<1>1. CASE UNCHANGED vars
  <2>1. /\ data' = data /\ requested' = requested /\ label' = label /\ metas' = metas
        /\ dag' = dag /\ joined' = joined /\ status' = status
    BY <1>1 DEF vars
  <2>2. Asked'
    BY <2>1 DEF Inv, Asked
  <2>3. BuildInv'
    BY <2>1 DEF Inv, BuildInv
  <2>4. JoinInv'
    BY <2>1 DEF Inv, JoinInv
  <2> QED BY <2>2, <2>3, <2>4 DEF Inv
<1>2. ASSUME NEW k \in Sources, VisitSource(k) PROVE Inv'
  <2>1. requested' = requested /\ label' = label /\ status = "building" /\ status' = status /\ joined' = joined
    BY <1>2 DEF VisitSource, Visiting, inputs
  <2>2. Asked'
    BY <2>1 DEF Inv, Asked
  <2>3. JoinInv'
    BY <2>1 DEF Inv, JoinInv
  <2> QED BY <1>2, <2>2, <2>3, VisitSourceInv DEF Inv
<1>3. ASSUME NEW f \in Features, VisitFeature(f) PROVE Inv'
  <2>1. requested' = requested /\ label' = label /\ joined' = joined /\ status = "building" /\ status' # "joined"
    BY <1>3 DEF VisitFeature, Visiting, inputs, BuildFails, Build
  <2>2. Asked'
    BY <2>1 DEF Inv, Asked
  <2>3. JoinInv'
    BY <2>1 DEF Inv, JoinInv
  <2> QED BY <1>3, <2>2, <2>3, VisitFeatureInv DEF Inv
<1>4. CASE NextRequest
  <2>1. /\ data' = data /\ requested' = requested /\ label' = label /\ metas' = <<>>
        /\ dag' = dag /\ joined' = joined /\ status = "building" /\ status' = status
    BY <1>4 DEF NextRequest, inputs
  <2>2. Asked'
    BY <2>1 DEF Inv, Asked
  <2>3. BuildInv'
    <3>1. DOMAIN metas' = {}
      BY <2>1
    <3>2. RangesKnown(metas', dag')
      BY <3>1 DEF RangesKnown
    <3> QED BY <2>1, <3>2 DEF Inv, BuildInv
  <2>4. JoinInv'
    BY <2>1 DEF Inv, JoinInv
  <2> QED BY <2>2, <2>3, <2>4 DEF Inv
<1>5. CASE Join
  <2>1. data' = data /\ requested' = requested /\ label' = label /\ metas' = metas /\ dag' = dag
    BY <1>5 DEF Join, inputs
  <2>2. Asked'
    BY <2>1 DEF Inv, Asked
  <2>3. BuildInv'
    BY <2>1 DEF Inv, BuildInv
  <2>4. JoinInv'
    <3>1. NotJoinable <=> Unjoinable(requested, label, dag)
      BY DEF NotJoinable, Unjoinable, NodesOf
    <3>2. CASE NotJoinable \/ CannotPrune(JoinRanges(NodesOf))
      <4>1. status' = "join_error" /\ joined' = joined /\ status = "building"
        BY <1>5, <3>2 DEF Join
      <4> QED BY <4>1 DEF Inv, JoinInv
    <3>3. CASE ~(NotJoinable \/ CannotPrune(JoinRanges(NodesOf)))
      <4>1. /\ status' = "joined"
            /\ joined' = [i \in DOMAIN JoinRanges(NodesOf) |-> JoinBlocks(JoinRanges(NodesOf)[i])]
        BY <1>5, <3>3 DEF Join
      <4>2. /\ joined' = JoinOf(JoinRanges(NodeSets(requested, label, dag)))
            /\ ~CannotPrune(JoinRanges(NodeSets(requested, label, dag)))
        BY <3>3, <4>1 DEF JoinOf, NodesOf
      <4> QED BY <2>1, <3>1, <3>3, <4>1, <4>2 DEF JoinInv
    <3> QED BY <3>2, <3>3
  <2> QED BY <2>2, <2>3, <2>4 DEF Inv
<1> QED BY <1>1, <1>2, <1>3, <1>4, <1>5 DEF Next

(* Throughout, the nodes of every feature are those that its inputs have,   *)
(* and what is joined is joined of the finished graph.                      *)
THEOREM GraphIsConsistent == Spec => []Inv
BY InitInv, NextInv, PTL DEF Spec

-----------------------------------------------------------------------------
(* What a node depends on, and how far a label reaches.                    *)

LEMMA InvDependsOnItsWindow == Inv => DependsOnItsWindow
<1> SUFFICES ASSUME Inv, NEW f \in Features \cap DOMAIN dag, NEW r \in DOMAIN dag[f],
                    NEW i \in DOMAIN dag[f][r], NEW k \in Deps(f)
             PROVE  \E g \in DOMAIN dag[k][r] :
                      /\ Within(i, g)
                      /\ dag[f][r][i][k] =
                           {b \in DOMAIN dag[k][r] : b = g \/ (f \in Windowed /\ Before(b, g) /\ g.start - b.end <= Window)}
  BY DEF DependsOnItsWindow
<1> DEFINE S == InputsOf(dag, f, r)
<1>1. r \in Filled(dag, f)
  BY DEF Filled
<1>2. /\ \A x \in Deps(f) : x \in DOMAIN dag /\ r \in Filled(dag, x)
      /\ dag[f][r] = NodeMap(f, S)
  BY <1>1 DEF Inv, BuildInv, GraphInv, FeaturesFromInputs
<1>3. \A x \in Deps(f) : S[x] = DOMAIN dag[x][r]
  BY DEF InputsOf
<1>4. \A x \in Deps(f) : NodeSet(S[x], r)
  BY <1>2, <1>3 DEF Inv, BuildInv, GraphInv, NodesFit, Filled
<1>5. r \in Block
  BY DEF Inv, BuildInv, GraphInv, NodesFit
<1> HIDE DEF S
<1>6. \A j \in DOMAIN NodeMap(f, S) : \A x \in Deps(f) : \E g \in S[x] :
        Within(j, g) /\ NodeMap(f, S)[j][x] = Group(f, S[x], g)
  BY <1>4, <1>5, NodesOfFeature
<1>7. PICK g \in S[k] : Within(i, g) /\ dag[f][r][i][k] = Group(f, S[k], g)
  BY <1>2, <1>6
<1>8. g \in DOMAIN dag[k][r] /\ dag[f][r][i][k] = Group(f, DOMAIN dag[k][r], g)
  BY <1>3, <1>7
<1> QED BY <1>7, <1>8 DEF Group

(* A block of a feature depends on the block of the input that it is in and, *)
(* if it looks back, on all those in the window before it, whatever blocks   *)
(* the sources have and however the features depend on each other.           *)
THEOREM NodesDependOnTheirWindow == Spec => []DependsOnItsWindow
BY GraphIsConsistent, InvDependsOnItsWindow, PTL

(* The blocks of a feature in a range, one after the other                 *)
Increasing(s) == Ordered(s) /\ \A m, n \in DOMAIN s : m < n => s[m].start < s[n].start

LEMMA FeatureIncreasing ==
  ASSUME NEW S \in SUBSET Block, IsFiniteSet(S), Apart(S), StartsDiffer(S)
  PROVE  Increasing(InOrder(S)) /\ Range(InOrder(S)) = S
<1> DEFINE s == InOrder(S)
<1>1. Ordered(s) /\ Range(s) = S
  BY InOrderOrdered
<1> HIDE DEF s
<1>2. ASSUME NEW m \in DOMAIN s, NEW n \in DOMAIN s, m < n PROVE s[m].start < s[n].start
  <2>1. s[m] \in S /\ s[n] \in S
    BY <1>1 DEF Range
  <2>2. Before(s[m], s[n])
    BY <1>1, <1>2 DEF Ordered
  <2>3. s[m] # s[n]
    BY <2>1, <2>2, BeforeIsOrder
  <2>4. s[m].start # s[n].start
    BY <2>1, <2>3 DEF StartsDiffer
  <2> QED BY <2>1, <2>2, <2>4 DEF Before, Block
<1> QED BY <1>1, <1>2 DEF Increasing, s

LEMMA MinOfTwo ==
  ASSUME NEW a \in Nat, NEW b \in Nat
  PROVE  /\ Min({a, b}) \in Nat /\ Min({a, b}) <= a /\ Min({a, b}) <= b
         /\ Min({a, b}) = a \/ Min({a, b}) = b
<1> DEFINE T == {a, b}
<1>1. T \in SUBSET Nat /\ T # {} /\ a \in T /\ b \in T /\ \A m \in T : m = a \/ m = b
  OBVIOUS
<1> HIDE DEF T
<1>2. Min(T) \in T /\ \A m \in T : Min(T) <= m
  BY <1>1, MinOfNats
<1>3. Min(T) \in Nat /\ Min(T) <= a /\ Min(T) <= b /\ (Min(T) = a \/ Min(T) = b)
  BY <1>1, <1>2
<1> QED BY <1>3 DEF T

(* The blocks ahead are those that start up to the horizon.                *)
LEMMA AheadReaches ==
  ASSUME NEW s, Increasing(s), NEW n \in DOMAIN s
  PROVE  /\ Horizon(s, n) \in Nat
         /\ Ahead(s, n) = {b \in Range(s) : s[n].start <= b.start /\ b.start <= Horizon(s, n)}
<1>1. /\ Len(s) \in Nat /\ DOMAIN s = 1..Len(s)
      /\ \A m \in DOMAIN s : s[m].start \in Nat /\ s[m].end \in Nat /\ s[m].start <= s[m].end
      /\ \A m, l \in DOMAIN s : m < l => s[m].start < s[l].start /\ s[m].end <= s[l].start
  BY OrderedSeq DEF Increasing, Ordered
<1>2. Lookahead \in Nat
  BY BlockGraphAssumption
<1> DEFINE H == Horizon(s, n)
<1>3. Len(s) \in DOMAIN s /\ n \in Nat
  BY <1>1
<1>4. s[n].end + Lookahead \in Nat /\ s[Len(s)].end \in Nat
  BY <1>1, <1>2, <1>3
<1>5. H \in Nat /\ (H = s[n].end + Lookahead \/ H = s[Len(s)].end)
  BY <1>4, MinOfTwo DEF Horizon
<1>6. s[n].end <= s[Len(s)].end
  <2>1. CASE n = Len(s)
    BY <1>1, <1>3, <2>1
  <2>2. CASE n < Len(s)
    BY <1>1, <1>3, <2>2
  <2> QED BY <1>1, <2>1, <2>2
<1>7. s[n].start <= H
  BY <1>1, <1>2, <1>3, <1>5, <1>6
<1> HIDE DEF H
<1>8. \A l \in DOMAIN s : s[l].end <= H \/ (s[l].start <= H /\ H <= s[l].end) <=> s[l].start <= H
  BY <1>1, <1>5
<1>9. ASSUME NEW m \in n..Len(s), \A l \in (n + 1)..m : s[l].end <= H \/ (s[l].start <= H /\ H <= s[l].end)
      PROVE  s[m] \in Range(s) /\ s[n].start <= s[m].start /\ s[m].start <= H
  <2>1. m \in DOMAIN s /\ s[m] \in Range(s)
    BY <1>1, <1>3, <1>9 DEF Range
  <2>2. CASE m = n
    BY <1>1, <1>7, <2>1, <2>2
  <2>3. CASE m > n
    <3>1. m \in (n + 1)..m
      BY <1>3, <1>9, <2>3
    <3>2. s[m].start <= H
      BY <1>8, <1>9, <2>1, <3>1
    <3> QED BY <1>1, <2>1, <2>3, <3>2
  <2> QED BY <1>3, <1>9, <2>2, <2>3
<1>10. ASSUME NEW m \in DOMAIN s, s[n].start <= s[m].start, s[m].start <= H
       PROVE  m \in n..Len(s) /\ \A l \in (n + 1)..m : s[l].end <= H \/ (s[l].start <= H /\ H <= s[l].end)
  <2>1. m >= n
    BY <1>1, <1>10
  <2>2. ASSUME NEW l \in (n + 1)..m PROVE s[l].start <= H
    <3>1. l \in DOMAIN s /\ l <= m /\ l \in Nat /\ m \in Nat
      BY <1>1, <1>3, <1>10, <2>2
    <3>2. s[l].start <= s[m].start
      <4>1. CASE l = m
        BY <1>1, <3>1, <4>1
      <4>2. CASE l < m
        BY <1>1, <3>1, <1>10, <4>2
      <4> QED BY <3>1, <4>1, <4>2
    <3> QED BY <1>1, <1>5, <1>10, <3>1, <3>2
  <2>3. \A l \in (n + 1)..m : l \in DOMAIN s
    BY <1>1, <1>3, <1>10
  <2> QED BY <1>1, <1>3, <1>8, <1>10, <2>1, <2>2, <2>3
<1>11. Ahead(s, n) = {s[m] : m \in {m \in n..Len(s) : \A l \in (n + 1)..m :
         s[l].end <= H \/ (s[l].start <= H /\ H <= s[l].end)}}
  BY DEF Ahead, H
<1>12. \A b \in Range(s) : \E m \in DOMAIN s : b = s[m]
  BY DEF Range
<1>13. Ahead(s, n) \subseteq {b \in Range(s) : s[n].start <= b.start /\ b.start <= H}
  BY <1>9, <1>11
<1>14. {b \in Range(s) : s[n].start <= b.start /\ b.start <= H} \subseteq Ahead(s, n)
  <2> SUFFICES ASSUME NEW b \in Range(s), s[n].start <= b.start, b.start <= H PROVE b \in Ahead(s, n)
    OBVIOUS
  <2>1. PICK m \in DOMAIN s : b = s[m]
    BY <1>12
  <2> QED BY <1>10, <1>11, <2>1
<1>15. Ahead(s, n) = {b \in Range(s) : s[n].start <= b.start /\ b.start <= H}
  BY <1>13, <1>14
<1> QED BY <1>5, <1>15 DEF H

(* What remains of the last block of a label                               *)
Cut(s) == [start |-> s[Len(s)].start, end |-> s[Len(s)].end - Lookahead]

LEMMA LookaheadNodes ==
  ASSUME NEW s, Increasing(s), s # <<>>
  PROVE  /\ Len(s) \in DOMAIN s
         /\ DOMAIN LookaheadGraph(s) =
              {s[n] : n \in 1..(Len(s) - 1)} \cup (IF Cut(s).end > Cut(s).start THEN {Cut(s)} ELSE {})
         /\ \A n \in 1..(Len(s) - 1) : n \in DOMAIN s /\ LookaheadGraph(s)[s[n]] = Ahead(s, n)
         /\ Cut(s) \in DOMAIN LookaheadGraph(s) => LookaheadGraph(s)[Cut(s)] = Ahead(s, Len(s))
<1>1. /\ Len(s) \in Nat /\ DOMAIN s = 1..Len(s) /\ s \in Seq(Block)
      /\ \A m \in DOMAIN s : s[m] \in Block
      /\ \A m, l \in DOMAIN s : m < l => s[m].start < s[l].start
  BY OrderedSeq DEF Increasing, Ordered
<1>2. Len(s) \in DOMAIN s
  BY <1>1, EmptySeq
<1>3. \A m \in DOMAIN s : s[m].start \in Nat
  BY <1>1 DEF Block
<1> DEFINE last == s[Len(s)]
           cut == [last EXCEPT !.end = @ - Lookahead]
           Nth(i) == IF i = cut THEN Len(s) ELSE CHOOSE n \in DOMAIN s : s[n] = i
           D == {s[n] : n \in 1..(Len(s) - 1)} \cup (IF cut.end > cut.start THEN {cut} ELSE {})
<1>4. last \in [start: Nat, end: Nat]
  BY <1>1, <1>2 DEF Block
<1>5. cut = Cut(s) /\ Cut(s).start = last.start
  BY <1>4 DEF Cut
<1>6. LookaheadGraph(s) = [i \in D |-> Ahead(s, Nth(i))]
  BY DEF LookaheadGraph
<1> HIDE DEF cut
<1>7. ASSUME NEW n \in 1..(Len(s) - 1) PROVE n \in DOMAIN s /\ s[n] \in D /\ Nth(s[n]) = n
  <2>1. n \in DOMAIN s /\ n < Len(s) /\ n \in Nat
    BY <1>1, <1>7
  <2>2. s[n].start # last.start
    BY <1>1, <1>2, <1>3, <2>1
  <2>3. s[n] # cut
    BY <1>5, <2>2
  <2>4. \A m \in DOMAIN s : s[m] = s[n] => m = n
    <3> SUFFICES ASSUME NEW m \in DOMAIN s, s[m] = s[n], m # n PROVE FALSE
      OBVIOUS
    <3>1. m < n \/ n < m
      BY <1>1, <2>1
    <3>2. s[m].start < s[n].start \/ s[n].start < s[m].start
      BY <1>1, <2>1, <3>1
    <3> QED BY <1>3, <2>1, <3>2
  <2>5. (CHOOSE m \in DOMAIN s : s[m] = s[n]) = n
    BY <2>1, <2>4
  <2> QED BY <1>7, <2>1, <2>3, <2>5
<1>8. Nth(cut) = Len(s)
  OBVIOUS
<1>9. DOMAIN LookaheadGraph(s) = D
  BY <1>6
<1>10. \A n \in 1..(Len(s) - 1) : n \in DOMAIN s /\ LookaheadGraph(s)[s[n]] = Ahead(s, n)
  <2> HIDE DEF Nth, D
  <2> QED BY <1>6, <1>7
<1>11. cut \in D => LookaheadGraph(s)[cut] = Ahead(s, Len(s))
  <2> HIDE DEF Nth, D
  <2> QED BY <1>6, <1>8
<1> QED BY <1>2, <1>5, <1>9, <1>10, <1>11

LEMMA InvLabelReachesItsHorizon == Inv => LabelReachesItsHorizon
<1> SUFFICES ASSUME Inv, NEW x \in label \cap DOMAIN dag, NEW r \in DOMAIN dag[x],
                    NEW i \in DOMAIN LookaheadGraph(InOrder(DOMAIN dag[x][r]))
             PROVE  LookaheadGraph(InOrder(DOMAIN dag[x][r]))[i] =
                      {b \in Range(InOrder(DOMAIN dag[x][r])) : i.start <= b.start
                         /\ b.start <= Min({i.end + Lookahead,
                              InOrder(DOMAIN dag[x][r])[Len(InOrder(DOMAIN dag[x][r]))].end})}
  BY DEF LabelReachesItsHorizon
<1>1. x \in Features
  <2>1. x \in Range(requested)
    BY DEF Inv, Asked
  <2> QED BY <2>1 DEF Inv, Asked, Range
<1> DEFINE S == DOMAIN dag[x][r]
           s == InOrder(S)
<1>2. S \in SUBSET Block /\ IsFiniteSet(S) /\ Apart(S) /\ StartsDiffer(S)
  BY <1>1 DEF Inv, BuildInv, GraphInv, NodesFit, NodeSet
<1> HIDE DEF S
<1>3. Increasing(s)
  BY <1>2, FeatureIncreasing
<1>4. i \in DOMAIN LookaheadGraph(s)
  BY DEF S
<1> HIDE DEF s
<1>5. s # <<>>
  BY <1>4 DEF LookaheadGraph
<1>6. /\ Len(s) \in DOMAIN s
      /\ DOMAIN LookaheadGraph(s) =
           {s[n] : n \in 1..(Len(s) - 1)} \cup (IF Cut(s).end > Cut(s).start THEN {Cut(s)} ELSE {})
      /\ \A n \in 1..(Len(s) - 1) : n \in DOMAIN s /\ LookaheadGraph(s)[s[n]] = Ahead(s, n)
      /\ Cut(s) \in DOMAIN LookaheadGraph(s) => LookaheadGraph(s)[Cut(s)] = Ahead(s, Len(s))
  BY <1>3, <1>5, LookaheadNodes
<1>7. /\ Len(s) \in Nat /\ DOMAIN s = 1..Len(s)
      /\ \A n \in DOMAIN s : s[n].start \in Nat /\ s[n].end \in Nat /\ s[n].start <= s[n].end
  BY <1>3, OrderedSeq DEF Increasing
<1>8. \A n \in DOMAIN s : Ahead(s, n) = {b \in Range(s) : s[n].start <= b.start /\ b.start <= Horizon(s, n)}
  BY <1>3, AheadReaches
<1> DEFINE H == Min({i.end + Lookahead, s[Len(s)].end})
<1>9. LookaheadGraph(s)[i] = {b \in Range(s) : i.start <= b.start /\ b.start <= H}
  <2>1. CASE \E n \in 1..(Len(s) - 1) : i = s[n]
    <3>1. PICK n \in 1..(Len(s) - 1) : i = s[n]
      BY <2>1
    <3>2. n \in DOMAIN s /\ LookaheadGraph(s)[i] = Ahead(s, n)
      BY <1>6, <3>1
    <3>3. Horizon(s, n) = H
      BY <3>1 DEF Horizon
    <3> QED BY <1>8, <3>1, <3>2, <3>3
  <2>2. CASE ~\E n \in 1..(Len(s) - 1) : i = s[n]
    <3>1. i = Cut(s) /\ Cut(s).end > Cut(s).start
      BY <1>4, <1>6, <2>2
    <3> DEFINE last == s[Len(s)]
    <3>2. last.start \in Nat /\ last.end \in Nat /\ last.start <= last.end /\ Lookahead \in Nat
      BY <1>6, <1>7, BlockGraphAssumption
    <3>3. i.start = last.start /\ i.end = last.end - Lookahead
      BY <3>1 DEF Cut
    <3>4. LookaheadGraph(s)[i] = {b \in Range(s) : last.start <= b.start /\ b.start <= Horizon(s, Len(s))}
      BY <1>4, <1>6, <1>8, <3>1
    <3>5. Horizon(s, Len(s)) = last.end
      <4>1. last.end + Lookahead \in Nat
        BY <3>2
      <4>2. Horizon(s, Len(s)) = Min({last.end + Lookahead, last.end})
        BY DEF Horizon
      <4> HIDE DEF last
      <4> QED BY <3>2, <4>1, <4>2, MinOfTwo
    <3>6. H = last.end
      <4>1. i.end + Lookahead = last.end
        BY <3>2, <3>3
      <4>2. H = Min({last.end, last.end})
        BY <4>1
      <4> HIDE DEF last, H
      <4> QED BY <3>2, <4>2, MinOfTwo
    <3> QED BY <3>3, <3>4, <3>5, <3>6
  <2> QED BY <2>1, <2>2
<1> QED BY <1>9 DEF H, s, S

(* The label of a block is made of exactly the blocks up to its horizon,     *)
(* also when a range ends before, whatever the blocks and the lookahead.     *)
THEOREM LabelsReachTheirHorizon == Spec => []LabelReachesItsHorizon
BY GraphIsConsistent, InvLabelReachesItsHorizon, PTL

-----------------------------------------------------------------------------
(* What is joined: the nodes of each feature and of the label.             *)

Joinable(N) ==
  \A f \in DOMAIN N :
    /\ DOMAIN N[f] \in SUBSET Block /\ IsFiniteSet(DOMAIN N[f])
    /\ \A i, j \in DOMAIN N[f] : Overlaps(i, j) => i = j
    /\ \A i \in DOMAIN N[f] : NodeSet(N[f][i], i) /\ StartsDiffer(N[f][i])

(* A label has the nodes of its feature, the last one cut.                 *)
LEMMA LookaheadNodeSet ==
  ASSUME NEW S, NEW r \in Block, NodeSet(S, r), StartsDiffer(S)
  PROVE  LET D == DOMAIN LookaheadGraph(InOrder(S)) IN NodeSet(D, r) /\ StartsDiffer(D)
<1> DEFINE s == InOrder(S)
           D == DOMAIN LookaheadGraph(s)
<1>1. Increasing(s) /\ Range(s) = S /\ \A b \in S : b \in Block /\ Within(b, r)
  BY FeatureIncreasing DEF NodeSet
<1> HIDE DEF s
<1> SUFFICES NodeSet(D, r) /\ StartsDiffer(D)
  BY DEF s
<1>2. CASE s = <<>>
  <2>1. D = {}
    BY <1>2 DEF LookaheadGraph
  <2> HIDE DEF D
  <2> QED BY <2>1, FS_EmptySet DEF NodeSet, Apart, StartsDiffer
<1>3. CASE s # <<>>
  <2>1. /\ Len(s) \in Nat /\ DOMAIN s = 1..Len(s)
        /\ \A n \in DOMAIN s : s[n] \in Block /\ n \in Nat /\ s[n].start \in Nat /\ s[n].end \in Nat /\ s[n].start <= s[n].end
        /\ \A m, n \in DOMAIN s : m < n => s[m].start < s[n].start /\ s[m].end <= s[n].start
    BY <1>1, OrderedSeq DEF Increasing, Ordered
  <2>2. /\ Len(s) \in DOMAIN s
        /\ D = {s[n] : n \in 1..(Len(s) - 1)} \cup (IF Cut(s).end > Cut(s).start THEN {Cut(s)} ELSE {})
    BY <1>1, <1>3, LookaheadNodes
  <2>3. \A n \in DOMAIN s : s[n] \in S
    BY <1>1 DEF Range
  <2>4. Lookahead \in Nat
    BY BlockGraphAssumption
  <2> HIDE DEF D
  <2>5. ASSUME NEW b \in D
        PROVE  /\ b \in Block /\ Within(b, r)
               /\ \E n \in DOMAIN s : /\ b.start = s[n].start /\ b.end <= s[n].end
                                      /\ n < Len(s) => b = s[n]
                                      /\ n = Len(s) => b = Cut(s)
    <3>1. CASE \E n \in 1..(Len(s) - 1) : b = s[n]
      <4>1. PICK n \in 1..(Len(s) - 1) : b = s[n]
        BY <3>1
      <4>2. n \in DOMAIN s /\ n < Len(s)
        BY <2>1
      <4> QED BY <1>1, <2>1, <2>3, <4>1, <4>2
    <3>2. CASE b = Cut(s) /\ Cut(s).end > Cut(s).start
      <4> DEFINE last == s[Len(s)]
      <4>1. last \in Block /\ Within(last, r) /\ last.start \in Nat /\ last.end \in Nat
        BY <1>1, <2>1, <2>2, <2>3
      <4>2. b = [start |-> last.start, end |-> last.end - Lookahead] /\ last.end - Lookahead > last.start
        BY <3>2 DEF Cut
      <4> HIDE DEF last
      <4>3. last.end - Lookahead \in Nat
        BY <2>4, <4>1, <4>2
      <4>4. b \in Block /\ Within(b, r) /\ b.start = last.start /\ b.end <= last.end
        BY <2>4, <4>1, <4>2, <4>3 DEF Block, Within
      <4>5. \E n \in DOMAIN s : n = Len(s)
        BY <2>2
      <4> QED BY <2>1, <3>2, <4>4, <4>5 DEF last
    <3> QED BY <2>2, <2>5, <3>1, <3>2
  <2>6. ASSUME NEW a \in D, NEW b \in D, a # b
        PROVE  (a.end <= b.start \/ b.end <= a.start) /\ a.start # b.start
    <3>1. PICK m \in DOMAIN s : /\ a.start = s[m].start /\ a.end <= s[m].end
                                /\ m < Len(s) => a = s[m]
                                /\ m = Len(s) => a = Cut(s)
      BY <2>5, <2>6
    <3>2. PICK n \in DOMAIN s : /\ b.start = s[n].start /\ b.end <= s[n].end
                                /\ n < Len(s) => b = s[n]
                                /\ n = Len(s) => b = Cut(s)
      BY <2>5, <2>6
    <3>3. m # n
      BY <2>1, <2>6, <3>1, <3>2
    <3>4. a.start \in Nat /\ a.end \in Nat /\ b.start \in Nat /\ b.end \in Nat
      BY <2>5, <2>6 DEF Block
    <3>5. CASE m < n
      BY <2>1, <3>1, <3>2, <3>4, <3>5
    <3>6. CASE n < m
      BY <2>1, <3>1, <3>2, <3>4, <3>6
    <3> QED BY <2>1, <3>3, <3>5, <3>6
  <2>7. IsFiniteSet(D)
    <3> DEFINE A == {s[n] : n \in 1..(Len(s) - 1)}
               C == IF Cut(s).end > Cut(s).start THEN {Cut(s)} ELSE {}
    <3>1. A \subseteq S
      BY <2>1, <2>3
    <3>2. IsFiniteSet(A)
      <4> HIDE DEF A
      <4> QED BY <3>1, FS_Subset DEF NodeSet
    <3>3. IsFiniteSet(C)
      BY FS_EmptySet, FS_Singleton
    <3>4. D = A \cup C
      BY <2>2
    <3> HIDE DEF A, C
    <3> QED BY <3>2, <3>3, <3>4, FS_Union
  <2> QED BY <2>5, <2>6, <2>7 DEF NodeSet, Apart, StartsDiffer
<1> QED BY <1>2, <1>3

LEMMA NodesAreJoinable ==
  ASSUME Inv, ~Unjoinable(requested, label, dag)
  PROVE  /\ Joinable(NodeSets(requested, label, dag))
         /\ requested[1] \in DOMAIN NodeSets(requested, label, dag)
<1> DEFINE N == NodeSets(requested, label, dag)
           own == [f \in Range(requested) |-> [i \in DOMAIN dag[f] |-> DOMAIN dag[f][i]]]
           ahead == [l \in {Label : x \in label} |->
                       [i \in UNION {DOMAIN dag[x] : x \in label} |->
                          DOMAIN LookaheadGraph(InOrder(UNION {DOMAIN dag[x][i] : x \in label}))]]
<1>1. N = Updated(own, ahead)
  BY DEF NodeSets
<1>2. /\ DOMAIN own = Range(requested)
      /\ \A f \in Range(requested) : own[f] = [i \in DOMAIN dag[f] |-> DOMAIN dag[f][i]]
  OBVIOUS
<1>3. /\ DOMAIN ahead = {Label : x \in label}
      /\ \A l \in DOMAIN ahead : ahead[l] = [i \in UNION {DOMAIN dag[x] : x \in label} |->
                          DOMAIN LookaheadGraph(InOrder(UNION {DOMAIN dag[x][i] : x \in label}))]
  OBVIOUS
<1> HIDE DEF own, ahead
<1>4. /\ DOMAIN N = Range(requested) \cup DOMAIN ahead
      /\ \A f \in DOMAIN N : N[f] = IF f \in DOMAIN ahead THEN ahead[f] ELSE own[f]
  BY <1>1, <1>2 DEF Updated
<1>5. \A f \in DOMAIN N : \A i, j \in DOMAIN N[f] : Overlaps(i, j) => i = j
  BY DEF Unjoinable
<1>6. ASSUME NEW f \in Range(requested)
      PROVE  /\ f \in Features /\ f \in DOMAIN dag
             /\ DOMAIN dag[f] \in SUBSET Block /\ IsFiniteSet(DOMAIN dag[f])
             /\ \A i \in DOMAIN dag[f] : NodeSet(DOMAIN dag[f][i], i) /\ StartsDiffer(DOMAIN dag[f][i])
  <2>1. f \in Features
    BY DEF Inv, Asked, Range
  <2>2. f \in DOMAIN dag
    BY DEF Unjoinable
  <2> QED BY <2>1, <2>2 DEF Inv, BuildInv, GraphInv, NodesFit
<1> HIDE DEF N
<1>7. ASSUME NEW f \in DOMAIN N
      PROVE  /\ DOMAIN N[f] \in SUBSET Block /\ IsFiniteSet(DOMAIN N[f])
             /\ \A i \in DOMAIN N[f] : NodeSet(N[f][i], i) /\ StartsDiffer(N[f][i])
  <2>1. CASE f \in DOMAIN ahead
    <3>1. PICK x \in label : TRUE
      BY <1>3, <2>1
    <3>2. label = {x} /\ x \in Range(requested)
      BY <3>1 DEF Inv, Asked
    <3>3. UNION {DOMAIN dag[y] : y \in label} = DOMAIN dag[x]
      BY <3>2
    <3>4. \A i : UNION {DOMAIN dag[y][i] : y \in label} = DOMAIN dag[x][i]
      BY <3>2
    <3>5. N[f] = ahead[f]
      BY <1>4, <2>1
    <3>6. DOMAIN N[f] = DOMAIN dag[x]
      BY <1>3, <2>1, <3>3, <3>5
    <3>7. \A i \in DOMAIN N[f] : N[f][i] = DOMAIN LookaheadGraph(InOrder(DOMAIN dag[x][i]))
      BY <1>3, <2>1, <3>3, <3>4, <3>5, <3>6
    <3>8. ASSUME NEW i \in DOMAIN N[f] PROVE NodeSet(N[f][i], i) /\ StartsDiffer(N[f][i])
      <4>1. i \in Block /\ NodeSet(DOMAIN dag[x][i], i) /\ StartsDiffer(DOMAIN dag[x][i])
        BY <1>6, <3>2, <3>6
      <4> DEFINE S == DOMAIN dag[x][i]
      <4>2. NodeSet(S, i) /\ StartsDiffer(S) /\ N[f][i] = DOMAIN LookaheadGraph(InOrder(S))
        BY <3>7, <4>1
      <4> HIDE DEF S
      <4>3. NodeSet(DOMAIN LookaheadGraph(InOrder(S)), i) /\ StartsDiffer(DOMAIN LookaheadGraph(InOrder(S)))
        BY <4>1, <4>2, LookaheadNodeSet
      <4> QED BY <4>2, <4>3
    <3> QED BY <1>6, <3>2, <3>6, <3>8
  <2>2. CASE f \notin DOMAIN ahead
    <3>1. f \in Range(requested) /\ N[f] = own[f]
      BY <1>4, <2>2
    <3>2. DOMAIN N[f] = DOMAIN dag[f] /\ \A i \in DOMAIN N[f] : N[f][i] = DOMAIN dag[f][i]
      BY <1>2, <3>1
    <3> QED BY <1>6, <3>1, <3>2
  <2> QED BY <2>1, <2>2
<1>8. requested[1] \in DOMAIN N
  <2>1. 1 \in DOMAIN requested
    <3>1. requested \in Seq(Features) /\ requested # <<>>
      BY DEF Inv, Asked
    <3>2. Len(requested) \in Nat \ {0}
      BY <3>1, EmptySeq
    <3> QED BY <3>1, <3>2, LenProperties
  <2> QED BY <1>4, <2>1 DEF Range
<1>9. \A f \in DOMAIN N : \A i, j \in DOMAIN N[f] : Overlaps(i, j) => i = j
  BY <1>5 DEF N
<1>10. Joinable(N) /\ requested[1] \in DOMAIN N
  BY <1>7, <1>8, <1>9 DEF Joinable
<1> QED BY <1>10 DEF N

(* The nodes of a range, as far as they overlap what is common             *)
MetIn(S, r) == {b \in S : Overlaps(r, b)}

LEMMA SharedCellOverlaps ==
  ASSUME NEW a \in Block, NEW b \in Block, NEW c, c \in Cells(a), c \in Cells(b)
  PROVE  Overlaps(a, b)
<1>1. c \in Nat /\ 2 * a.start <= c /\ c <= 2 * a.end /\ 2 * b.start <= c /\ c <= 2 * b.end
  BY CellsOfBlock
<1> QED BY <1>1 DEF Overlaps, Block

LEMMA WithinCells ==
  ASSUME NEW a \in Block, NEW b \in Block, Within(a, b)
  PROVE  Cells(a) \subseteq Cells(b)
<1> SUFFICES ASSUME NEW c \in Cells(a) PROVE c \in Cells(b)
  OBVIOUS
<1>1. c \in Nat /\ 2 * a.start <= c /\ c <= 2 * a.end
  BY CellsOfBlock
<1>2. 2 * b.start <= c /\ c <= 2 * b.end
  BY <1>1 DEF Within, Block
<1> QED BY <1>1, <1>2, CellsOfBlock

(* The dict of the ranges of one feature                                   *)
RangeDictFits(ranges, d) ==
  /\ Timed(d) /\ LeftClosed(d)
  /\ DOMAIN d = UNION {Cells(j) : j \in DOMAIN ranges}
  /\ \A c \in DOMAIN d : \E j \in DOMAIN ranges : c \in Cells(j) /\ d[c] = InOrder(ranges[j])

LEMMA DictOfRanges ==
  ASSUME NEW ranges, DOMAIN ranges \in SUBSET Block, IsFiniteSet(DOMAIN ranges),
         \A i, j \in DOMAIN ranges : Overlaps(i, j) => i = j
  PROVE  RangeDictFits(ranges, RangeDict(ranges))
<1> DEFINE K == DOMAIN ranges
           s == InOrder(K)
           values == [n \in DOMAIN s |-> InOrder(ranges[s[n]])]
           d == Assigned(s, values)
<1>1. Apart(K)
  BY DEF Apart, Overlaps, Block
<1>2. RangeDict(ranges) = d
  BY DEF RangeDict
<1>3. Ordered(s) /\ Range(s) = K
  <2> HIDE DEF K
  <2>1. K \in SUBSET Block /\ IsFiniteSet(K)
    BY DEF K
  <2> QED BY <1>1, <2>1, InOrderOrdered
<1>4. \A n \in DOMAIN s : values[n] = InOrder(ranges[s[n]])
  OBVIOUS
<1> HIDE DEF values
<1>5. \A n \in DOMAIN s : s[n] \in K
  BY <1>3 DEF Range
<1> HIDE DEF s
<1>6. /\ Timed(d)
      /\ \A c \in DOMAIN d : \E n \in DOMAIN s :
           /\ c \in Cells(s[n]) /\ d[c] = values[n]
           /\ \A m \in DOMAIN s : c \in Cells(s[m]) => m <= n
      /\ LeftClosed(d)
  BY <1>3, AssignedInOrder
<1>7. DOMAIN d = UNION {Cells(s[n]) : n \in DOMAIN s}
  BY DEF Assigned
<1>8. {Cells(s[n]) : n \in DOMAIN s} = {Cells(j) : j \in K}
  <2>1. \A j \in K : \E n \in DOMAIN s : j = s[n]
    BY <1>3 DEF Range
  <2> QED BY <1>5, <2>1
<1> HIDE DEF d
<1>9. \A c \in DOMAIN d : \E j \in K : c \in Cells(j) /\ d[c] = InOrder(ranges[j])
  BY <1>4, <1>5, <1>6
<1> QED BY <1>2, <1>6, <1>7, <1>8, <1>9 DEF RangeDictFits

(* What the features have in common are parts of a range of each.          *)
JoinRangesFit(N, ranges) ==
  /\ DOMAIN ranges \in SUBSET Block
  /\ \A r \in DOMAIN ranges :
       /\ DOMAIN ranges[r] = DOMAIN N
       /\ \A f \in DOMAIN N : \E j \in DOMAIN N[f] :
            Within(r, j) /\ ranges[r][f] = InOrder(MetIn(N[f][j], r))

LEMMA JoinedRanges ==
  ASSUME NEW N, DOMAIN N # {}, Joinable(N), ~CannotPrune(JoinRanges(N))
  PROVE  JoinRangesFit(N, JoinRanges(N))
<1> DEFINE ds == [f \in DOMAIN N |-> RangeDict(N[f])]
           all == GetOverlaps(ds)
           ranges == PruneOverlaps(all)
<1>1. JoinRanges(N) = ranges
  BY DEF JoinRanges
<1>2. DOMAIN ds = DOMAIN N
  OBVIOUS
<1>3. \A f \in DOMAIN N : RangeDictFits(N[f], ds[f])
  <2> TAKE f \in DOMAIN N
  <2> DEFINE Nf == N[f]
  <2>1. DOMAIN Nf \in SUBSET Block /\ IsFiniteSet(DOMAIN Nf) /\ \A i, j \in DOMAIN Nf : Overlaps(i, j) => i = j
    BY DEF Joinable
  <2>2. ds[f] = RangeDict(Nf)
    OBVIOUS
  <2> HIDE DEF Nf, ds
  <2>3. RangeDictFits(Nf, RangeDict(Nf))
    BY <2>1, DictOfRanges
  <2> QED BY <2>2, <2>3 DEF Nf
<1> HIDE DEF ds
<1>4. DOMAIN ds # {} /\ \A f \in DOMAIN ds : Timed(ds[f]) /\ LeftClosed(ds[f])
  BY <1>2, <1>3 DEF RangeDictFits
<1>5. DOMAIN all \in SUBSET Block
  <2>1. Timed(Both(ds))
    BY <1>4, BothDict
  <2> QED BY <2>1, GetOverlapsItems, ItemsKeys
<1>6. ASSUME NEW r \in DOMAIN all
      PROVE  /\ DOMAIN all[r] = DOMAIN N
             /\ \A f \in DOMAIN N : \E j \in DOMAIN N[f] :
                  all[r][f] = InOrder(N[f][j]) /\ (N[f][j] # {} => Within(r, j))
  <2>1. /\ r \in Block
        /\ \E c \in Common(ds) :
              /\ GetOverlaps(ds)[r] = [x \in DOMAIN ds |-> ds[x][c]]
              /\ r = ClosedAround(Run(Both(ds), Both(ds)[c]))
              /\ \A x \in DOMAIN ds : \A b \in Block :
                   (\A e \in DOMAIN ds[x] : ds[x][e] = ds[x][c] => e \in Cells(b)) => Within(r, b)
    BY <1>4, <1>6, KeyOfBoth
  <2>2. PICK c \in Common(ds) :
              /\ all[r] = [x \in DOMAIN ds |-> ds[x][c]]
              /\ \A x \in DOMAIN ds : \A b \in Block :
                   (\A e \in DOMAIN ds[x] : ds[x][e] = ds[x][c] => e \in Cells(b)) => Within(r, b)
    BY <2>1
  <2> HIDE DEF all
  <2>3. ASSUME NEW f \in DOMAIN N
        PROVE  \E j \in DOMAIN N[f] : all[r][f] = InOrder(N[f][j]) /\ (N[f][j] # {} => Within(r, j))
    <3>1. c \in DOMAIN ds[f] /\ all[r][f] = ds[f][c]
      BY <1>2, <2>2, <2>3 DEF Common
    <3>2. PICK j \in DOMAIN N[f] : c \in Cells(j) /\ ds[f][c] = InOrder(N[f][j])
      BY <1>3, <2>3, <3>1 DEF RangeDictFits
    <3>3. ASSUME N[f][j] # {}, NEW e \in DOMAIN ds[f], ds[f][e] = ds[f][c] PROVE e \in Cells(j)
      <4>1. PICK i \in DOMAIN N[f] : e \in Cells(i) /\ ds[f][e] = InOrder(N[f][i])
        BY <1>3, <2>3, <3>3 DEF RangeDictFits
      <4> DEFINE A == N[f][i]
                 B == N[f][j]
      <4>2. i \in Block /\ j \in Block /\ NodeSet(A, i) /\ NodeSet(B, j) /\ B # {} /\ InOrder(A) = InOrder(B)
        BY <2>3, <3>2, <3>3, <4>1 DEF Joinable
      <4> HIDE DEF A, B
      <4>3. Range(InOrder(A)) = A /\ Range(InOrder(B)) = B
        BY <4>2, InOrderOrdered DEF NodeSet
      <4>4. A = B
        BY <4>2, <4>3
      <4>5. PICK b \in B : TRUE
        BY <4>2
      <4>6. b \in Block /\ Within(b, i) /\ Within(b, j)
        BY <4>2, <4>4, <4>5 DEF NodeSet
      <4>7. Overlaps(i, j)
        BY <4>2, <4>6 DEF Within, Overlaps, Block
      <4>8. i = j
        BY <2>3, <4>7 DEF Joinable
      <4> QED BY <4>1, <4>8
    <3>4. j \in Block
      BY <2>3 DEF Joinable
    <3>5. N[f][j] # {} => Within(r, j)
      BY <1>2, <2>2, <2>3, <3>3, <3>4
    <3> QED BY <3>1, <3>2, <3>5
  <2> QED BY <1>2, <2>2, <2>3
<1> HIDE DEF all
<1>7. /\ DOMAIN ranges = DOMAIN all
      /\ \A i \in DOMAIN all :
           /\ DOMAIN ranges[i] = DOMAIN all[i]
           /\ \A k \in DOMAIN all[i] : ranges[i][k] = InOrder(Met(all[i][k], i))
  BY PruneOverlapsKeys
<1> HIDE DEF ranges
<1>8. ASSUME NEW r \in DOMAIN all, NEW f \in DOMAIN N
      PROVE  \E j \in DOMAIN N[f] : Within(r, j) /\ ranges[r][f] = InOrder(MetIn(N[f][j], r))
  <2>1. PICK j \in DOMAIN N[f] : all[r][f] = InOrder(N[f][j]) /\ (N[f][j] # {} => Within(r, j))
    BY <1>6, <1>8
  <2> DEFINE S == N[f][j]
  <2>2. NodeSet(S, j)
    BY <1>8 DEF Joinable
  <2>3. all[r][f] = InOrder(S)
    BY <2>1
  <2> HIDE DEF S
  <2>4. Range(InOrder(S)) = S
    BY <2>2, InOrderOrdered DEF NodeSet
  <2>5. Met(all[r][f], r) = MetIn(S, r)
    BY <2>3, <2>4 DEF Met, MetIn
  <2>6. f \in DOMAIN ranges[r] /\ ranges[r][f] = InOrder(MetIn(S, r))
    BY <1>6, <1>7, <1>8, <2>5
  <2>7. S # {}
    <3> SUFFICES ASSUME S = {} PROVE FALSE
      OBVIOUS
    <3>1. MetIn(S, r) = {}
      BY DEF MetIn
    <3> DEFINE E == {}
    <3>2. E \in SUBSET Block /\ IsFiniteSet(E) /\ Cardinality(E) = 0
      BY FS_EmptySet
    <3> HIDE DEF E
    <3>3. InOrder(E) \in Seq(Block) /\ Len(InOrder(E)) = 0
      BY <3>2, InOrderOrdered
    <3>4. InOrder(E) = <<>>
      BY <3>3, EmptySeq
    <3>5. ranges[r][f] = <<>>
      BY <2>6, <3>1, <3>4 DEF E
    <3>6. <<>> \in Range(ranges[r]) /\ r \in DOMAIN ranges
      BY <1>7, <1>8, <2>6, <3>5 DEF Range
    <3> QED BY <1>1, <3>6 DEF CannotPrune
  <2> QED BY <2>1, <2>6, <2>7 DEF S
<1>9. JoinRangesFit(N, ranges)
  BY <1>5, <1>6, <1>7, <1>8 DEF JoinRangesFit
<1> QED BY <1>1, <1>9

(* Every moment that all features have a range for is in a common one.     *)
JoinRangesCover(N, ranges) ==
  \A c : (\A f \in DOMAIN N : \E j \in DOMAIN N[f] : c \in Cells(j)) =>
    \E r \in DOMAIN ranges :
      /\ r \in Block /\ c \in Cells(r)
      /\ \A f \in DOMAIN N : \A j \in DOMAIN N[f] :
           c \in Cells(j) => f \in DOMAIN ranges[r] /\ ranges[r][f] = InOrder(MetIn(N[f][j], r))

LEMMA RangesCover ==
  ASSUME NEW N, DOMAIN N # {}, Joinable(N)
  PROVE  JoinRangesCover(N, JoinRanges(N))
<1> DEFINE ds == [f \in DOMAIN N |-> RangeDict(N[f])]
           all == GetOverlaps(ds)
           ranges == PruneOverlaps(all)
<1>1. JoinRanges(N) = ranges
  BY DEF JoinRanges
<1>2. DOMAIN ds = DOMAIN N
  OBVIOUS
<1>3. \A f \in DOMAIN N : RangeDictFits(N[f], ds[f])
  <2> TAKE f \in DOMAIN N
  <2> DEFINE Nf == N[f]
  <2>1. DOMAIN Nf \in SUBSET Block /\ IsFiniteSet(DOMAIN Nf) /\ \A i, j \in DOMAIN Nf : Overlaps(i, j) => i = j
    BY DEF Joinable
  <2>2. ds[f] = RangeDict(Nf)
    OBVIOUS
  <2> HIDE DEF Nf, ds
  <2>3. RangeDictFits(Nf, RangeDict(Nf))
    BY <2>1, DictOfRanges
  <2> QED BY <2>2, <2>3 DEF Nf
<1> HIDE DEF ds
<1>4. DOMAIN ds # {} /\ \A f \in DOMAIN ds : Timed(ds[f]) /\ LeftClosed(ds[f])
  BY <1>2, <1>3 DEF RangeDictFits
<1> DEFINE d == Both(ds)
<1>5. /\ DOMAIN d = Common(ds)
      /\ \A c : c \in Common(ds) <=> \A f \in DOMAIN ds : c \in DOMAIN ds[f]
      /\ Timed(d) /\ LeftClosed(d)
  BY <1>4, BothDict
<1>6. all = Items(d)
  BY GetOverlapsItems
<1>7. /\ DOMAIN ranges = DOMAIN all
      /\ \A i \in DOMAIN all :
           /\ DOMAIN ranges[i] = DOMAIN all[i]
           /\ \A k \in DOMAIN all[i] : ranges[i][k] = InOrder(Met(all[i][k], i))
  <2> HIDE DEF all
  <2> QED BY PruneOverlapsKeys
<1> HIDE DEF all, ranges
<1>8. ASSUME NEW c, \A f \in DOMAIN N : \E j \in DOMAIN N[f] : c \in Cells(j)
      PROVE  \E r \in DOMAIN ranges :
               /\ r \in Block /\ c \in Cells(r)
               /\ \A f \in DOMAIN N : \A j \in DOMAIN N[f] :
                    c \in Cells(j) => f \in DOMAIN ranges[r] /\ ranges[r][f] = InOrder(MetIn(N[f][j], r))
  <2>1. \A f \in DOMAIN ds : c \in DOMAIN ds[f]
    BY <1>2, <1>3, <1>8 DEF RangeDictFits
  <2>2. c \in DOMAIN d
    BY <1>5, <2>1
  <2>3. \A f \in DOMAIN N : f \in DOMAIN d[c] /\ d[c][f] = ds[f][c]
    BY <1>2, <2>2, BothAt
  <2> HIDE DEF d
  <2> DEFINE S == Run(d, d[c])
             r == ClosedAround(S)
  <2>4. r \in DOMAIN all /\ all[r] = d[c]
    BY <1>5, <1>6, <2>2, ItemsUnique
  <2>5. S \in SUBSET Nat /\ c \in S /\ IsFiniteSet(S)
    BY <1>5, <2>2, RunHull
  <2> HIDE DEF S
  <2>6. S # {}
    BY <2>5
  <2>7. r \in Block /\ S \subseteq Cells(r)
    BY <2>5, <2>6, Hull
  <2> HIDE DEF r
  <2>8. ASSUME NEW f \in DOMAIN N, NEW j \in DOMAIN N[f], c \in Cells(j)
        PROVE  f \in DOMAIN ranges[r] /\ ranges[r][f] = InOrder(MetIn(N[f][j], r))
    <3>1. PICK i \in DOMAIN N[f] : c \in Cells(i) /\ ds[f][c] = InOrder(N[f][i])
      BY <1>2, <1>3, <2>1, <2>8 DEF RangeDictFits
    <3>2. i \in Block /\ j \in Block
      BY <2>8 DEF Joinable
    <3>3. Overlaps(i, j)
      BY <2>8, <3>1, <3>2, SharedCellOverlaps
    <3>4. i = j
      BY <2>8, <3>3 DEF Joinable
    <3> DEFINE T == N[f][j]
    <3>5. NodeSet(T, j)
      BY <2>8 DEF Joinable
    <3>6. all[r][f] = InOrder(T)
      BY <2>3, <2>4, <2>8, <3>1, <3>4
    <3> HIDE DEF T
    <3>7. Range(InOrder(T)) = T
      BY <3>5, InOrderOrdered DEF NodeSet
    <3>8. Met(all[r][f], r) = MetIn(T, r)
      BY <3>6, <3>7 DEF Met, MetIn
    <3>9. f \in DOMAIN all[r]
      BY <2>3, <2>4, <2>8
    <3>10. f \in DOMAIN ranges[r] /\ ranges[r][f] = InOrder(MetIn(T, r))
      BY <1>7, <2>4, <3>8, <3>9
    <3> QED BY <3>10 DEF T
  <2>9. r \in DOMAIN ranges /\ c \in Cells(r)
    BY <1>7, <2>4, <2>5, <2>7
  <2> QED BY <2>7, <2>8, <2>9
<1>9. JoinRangesCover(N, ranges)
  BY <1>8 DEF JoinRangesCover
<1> QED BY <1>1, <1>9

(* The dict of the nodes of a range                                        *)
NodeDictFits(s, d) ==
  /\ Timed(d) /\ LeftClosed(d)
  /\ DOMAIN d = UNION {Cells(b) : b \in Range(s)}
  /\ \A c \in DOMAIN d : d[c] \in Range(s) /\ c \in Cells(d[c])
  /\ Range(d) = Range(s)

LEMMA DictOfNodes ==
  ASSUME NEW s, Increasing(s)
  PROVE  NodeDictFits(s, NodeDict(s))
<1> DEFINE d == Assigned(s, s)
<1>1. NodeDict(s) = d
  BY DEF NodeDict
<1>2. /\ Timed(d)
      /\ \A c \in DOMAIN d : \E n \in DOMAIN s :
           /\ c \in Cells(s[n]) /\ d[c] = s[n]
           /\ \A m \in DOMAIN s : c \in Cells(s[m]) => m <= n
      /\ LeftClosed(d)
  BY AssignedInOrder DEF Increasing
<1>3. DOMAIN d = UNION {Cells(s[n]) : n \in DOMAIN s}
  BY DEF Assigned
<1> HIDE DEF d
<1>4. DOMAIN d = UNION {Cells(b) : b \in Range(s)}
  <2>1. {Cells(s[n]) : n \in DOMAIN s} = {Cells(b) : b \in Range(s)}
    <3>1. \A n \in DOMAIN s : s[n] \in Range(s)
      BY DEF Range
    <3>2. \A b \in Range(s) : \E n \in DOMAIN s : b = s[n]
      BY DEF Range
    <3> QED BY <3>1, <3>2
  <2> QED BY <1>3, <2>1
<1>5. \A c \in DOMAIN d : d[c] \in Range(s) /\ c \in Cells(d[c])
  BY <1>2 DEF Range
<1>6. Range(d) \subseteq Range(s)
  BY <1>5 DEF Range
<1>7. Range(s) \subseteq Range(d)
  <2> SUFFICES ASSUME NEW n \in DOMAIN s PROVE \E c \in DOMAIN d : d[c] = s[n]
    BY DEF Range
  <2> DEFINE c == 2 * s[n].start
  <2>1. /\ \A m \in DOMAIN s : s[m] \in Block /\ m \in Nat /\ s[m].start \in Nat /\ s[m].end \in Nat /\ s[m].start <= s[m].end
        /\ \A m, l \in DOMAIN s : m < l => s[m].start < s[l].start
    BY OrderedSeq DEF Increasing
  <2>2. c \in Nat /\ c \in Cells(s[n])
    BY <2>1, CellsOfBlock
  <2>3. c \in DOMAIN d
    BY <1>3, <2>2
  <2>4. PICK m \in DOMAIN s : /\ c \in Cells(s[m]) /\ d[c] = s[m]
                              /\ \A l \in DOMAIN s : c \in Cells(s[l]) => l <= m
    BY <1>2, <2>3
  <2>5. n <= m
    BY <2>2, <2>4
  <2>6. 2 * s[m].start <= c
    BY <2>1, <2>4, CellsOfBlock
  <2>7. ~(n < m)
    BY <2>1, <2>4, <2>6
  <2>8. n = m
    BY <2>1, <2>5, <2>7
  <2> QED BY <2>3, <2>4, <2>8
<1>8. NodeDictFits(s, d)
  BY <1>2, <1>4, <1>5, <1>6, <1>7 DEF NodeDictFits
<1> QED BY <1>1, <1>8

(* What is joined of the nodes of a range.                                 *)
Previous(s, b) == {s[n - 1] : n \in {n \in 2..Len(s) : s[n] = b}}

JoinBlocksFit(P, nodes) ==
  /\ DOMAIN nodes \in SUBSET Block
  /\ \A i \in DOMAIN nodes :
       /\ DOMAIN nodes[i] = DOMAIN P
       /\ \A f \in DOMAIN P :
            /\ nodes[i][f].node \in Range(P[f]) /\ Within(i, nodes[i][f].node)
            /\ nodes[i][f].prev = Previous(P[f], nodes[i][f].node)
  /\ \A c : (\A f \in DOMAIN P : \E b \in Range(P[f]) : c \in Cells(b)) =>
       \E i \in DOMAIN nodes : c \in Cells(i)

LEMMA JoinedBlocks ==
  ASSUME NEW P, DOMAIN P # {}, \A f \in DOMAIN P : Increasing(P[f])
  PROVE  JoinBlocksFit(P, JoinBlocks(P))
<1> DEFINE dicts == [f \in DOMAIN P |-> NodeDict(P[f])]
           overlaps == GetOverlaps(dicts)
           nodes == JoinBlocks(P)
<1>1. nodes = [i \in DOMAIN overlaps |->
                 [f \in DOMAIN P |-> [node |-> overlaps[i][f], prev |-> Prev(dicts[f], overlaps[i][f])]]]
  BY DEF JoinBlocks
<1>2. DOMAIN dicts = DOMAIN P
  OBVIOUS
<1>3. \A f \in DOMAIN P : NodeDictFits(P[f], dicts[f])
  <2> TAKE f \in DOMAIN P
  <2> DEFINE Pf == P[f]
  <2>1. Increasing(Pf) /\ dicts[f] = NodeDict(Pf)
    OBVIOUS
  <2> HIDE DEF Pf, dicts
  <2>2. NodeDictFits(Pf, NodeDict(Pf))
    BY <2>1, DictOfNodes
  <2> QED BY <2>1, <2>2 DEF Pf
<1>4. \A f \in DOMAIN P : \A b : Prev(dicts[f], b) = Previous(P[f], b)
  <2> TAKE f \in DOMAIN P
  <2> DEFINE s == P[f]
             d == dicts[f]
  <2>1. Increasing(s) /\ Range(d) = Range(s)
    BY <1>3 DEF NodeDictFits
  <2> HIDE DEF s, d
  <2>2. InOrder(Range(d)) = s
    BY <2>1, OrderedIsInOrder DEF Increasing
  <2>3. \A b : Prev(d, b) = Previous(s, b)
    BY <2>2 DEF Prev, Previous
  <2> QED BY <2>3 DEF s, d
<1> HIDE DEF dicts
<1>5. DOMAIN dicts # {} /\ \A f \in DOMAIN dicts : Timed(dicts[f]) /\ LeftClosed(dicts[f])
  BY <1>2, <1>3 DEF NodeDictFits
<1> DEFINE d == Both(dicts)
<1>6. /\ DOMAIN d = Common(dicts)
      /\ \A c : c \in Common(dicts) <=> \A f \in DOMAIN dicts : c \in DOMAIN dicts[f]
      /\ Timed(d) /\ LeftClosed(d)
  BY <1>5, BothDict
<1>7. overlaps = Items(d)
  BY GetOverlapsItems
<1>8. DOMAIN overlaps \in SUBSET Block
  BY <1>6, <1>7, ItemsKeys
<1>9. ASSUME NEW i \in DOMAIN overlaps, NEW f \in DOMAIN P
      PROVE  overlaps[i][f] \in Range(P[f]) /\ Within(i, overlaps[i][f])
  <2>1. \E c \in Common(dicts) :
              /\ GetOverlaps(dicts)[i] = [x \in DOMAIN dicts |-> dicts[x][c]]
              /\ i = ClosedAround(Run(Both(dicts), Both(dicts)[c]))
              /\ \A x \in DOMAIN dicts : \A b \in Block :
                   (\A e \in DOMAIN dicts[x] : dicts[x][e] = dicts[x][c] => e \in Cells(b)) => Within(i, b)
    BY <1>5, <1>9, KeyOfBoth
  <2>2. PICK c \in Common(dicts) :
              /\ overlaps[i] = [x \in DOMAIN dicts |-> dicts[x][c]]
              /\ \A x \in DOMAIN dicts : \A b \in Block :
                   (\A e \in DOMAIN dicts[x] : dicts[x][e] = dicts[x][c] => e \in Cells(b)) => Within(i, b)
    BY <2>1
  <2> HIDE DEF overlaps
  <2>3. c \in DOMAIN dicts[f] /\ overlaps[i][f] = dicts[f][c]
    BY <1>2, <1>6, <1>9, <2>2
  <2>4. \A e \in DOMAIN dicts[f] : dicts[f][e] \in Range(P[f]) /\ e \in Cells(dicts[f][e])
    BY <1>3, <1>9 DEF NodeDictFits
  <2> DEFINE b == dicts[f][c]
  <2>5. b \in Range(P[f])
    BY <2>3, <2>4
  <2>6. b \in Block
    <3>1. Ordered(P[f])
      BY <1>9 DEF Increasing
    <3> QED BY <2>5, <3>1, OrderedIsInOrder
  <2>7. \A e \in DOMAIN dicts[f] : dicts[f][e] = b => e \in Cells(b)
    BY <2>4
  <2>8. Within(i, b)
    BY <1>2, <1>9, <2>2, <2>6, <2>7
  <2> QED BY <2>3, <2>5, <2>8
<1>10. ASSUME NEW c, \A f \in DOMAIN P : \E b \in Range(P[f]) : c \in Cells(b)
       PROVE  \E i \in DOMAIN overlaps : c \in Cells(i)
  <2>1. \A f \in DOMAIN dicts : c \in DOMAIN dicts[f]
    BY <1>2, <1>3, <1>10 DEF NodeDictFits
  <2>2. c \in DOMAIN d
    BY <1>6, <2>1
  <2> HIDE DEF d
  <2> DEFINE S == Run(d, d[c])
             i == ClosedAround(S)
  <2>3. i \in DOMAIN overlaps
    BY <1>6, <1>7, <2>2, ItemsUnique
  <2>4. S \in SUBSET Nat /\ c \in S /\ IsFiniteSet(S)
    BY <1>6, <2>2, RunHull
  <2> HIDE DEF S
  <2>5. S # {}
    BY <2>4
  <2>6. S \subseteq Cells(i)
    BY <2>4, <2>5, Hull
  <2> QED BY <2>3, <2>4, <2>6
<1> HIDE DEF overlaps
<1>11. /\ DOMAIN nodes = DOMAIN overlaps
       /\ \A i \in DOMAIN overlaps :
            /\ DOMAIN nodes[i] = DOMAIN P
            /\ \A f \in DOMAIN P : /\ nodes[i][f].node = overlaps[i][f]
                                   /\ nodes[i][f].prev = Prev(dicts[f], overlaps[i][f])
  BY <1>1
<1> HIDE DEF nodes
<1>12. JoinBlocksFit(P, nodes)
  BY <1>4, <1>8, <1>9, <1>10, <1>11 DEF JoinBlocksFit
<1> QED BY <1>12 DEF nodes

(* The nodes before a node, among those of all the ranges of its feature.  *)
LEMMA NothingBetween ==
  ASSUME NEW K, DOMAIN K \in SUBSET Block, \A i, j \in DOMAIN K : Overlaps(i, j) => i = j,
         \A i \in DOMAIN K : NodeSet(K[i], i) /\ StartsDiffer(K[i]),
         NEW r \in Block, NEW j \in DOMAIN K, Within(r, j),
         NEW s, Increasing(s), Range(s) = MetIn(K[j], r), NEW node \in Range(s)
  PROVE  /\ \A p \in Previous(s, node) :
              Before(p, node) /\ ~\E b \in UNION Range(K) : Before(p, b) /\ Before(b, node)
         /\ Previous(s, node) = {} => ~\E b \in UNION Range(K) : Before(b, node) /\ Overlaps(b, r)
<1>1. /\ Len(s) \in Nat /\ DOMAIN s = 1..Len(s)
      /\ \A n \in DOMAIN s : s[n] \in Block /\ n \in Nat /\ s[n].start \in Nat /\ s[n].end \in Nat /\ s[n].start <= s[n].end
      /\ \A m, n \in DOMAIN s : m < n => s[m].start < s[n].start /\ s[m].end <= s[n].start /\ Before(s[m], s[n])
  BY OrderedSeq DEF Increasing, Ordered
<1>2. \A n \in DOMAIN s : s[n] \in K[j] /\ Overlaps(r, s[n]) /\ Within(s[n], j)
  BY DEF Range, MetIn, NodeSet
<1>3. ASSUME NEW b \in UNION Range(K)
      PROVE  /\ b \in Block
             /\ b \in K[j] \/ \E i \in DOMAIN K : Within(b, i) /\ (i.end < j.start \/ j.end < i.start)
  <2>1. PICK i \in DOMAIN K : b \in K[i]
    BY DEF Range
  <2>2. b \in Block /\ Within(b, i)
    BY <2>1 DEF NodeSet
  <2>3. i \in Block /\ j \in Block
    OBVIOUS
  <2>4. i = j \/ ~Overlaps(i, j)
    OBVIOUS
  <2>5. ~Overlaps(i, j) => i.end < j.start \/ j.end < i.start
    BY <2>3 DEF Overlaps, Block
  <2> QED BY <2>1, <2>2, <2>4, <2>5
<1>4. ASSUME NEW b \in K[j] PROVE Overlaps(r, b) => \E m \in DOMAIN s : b = s[m]
  BY <1>4 DEF Range, MetIn
<1>5. \A b \in K[j] : b \in Block
  BY DEF NodeSet
<1>6. \A a, b \in K[j] : a # b => (a.end <= b.start \/ b.end <= a.start) /\ a.start # b.start
  BY DEF NodeSet, Apart, StartsDiffer
<1>7. /\ j \in Block /\ j.start \in Nat /\ j.end \in Nat
      /\ r.start \in Nat /\ r.end \in Nat /\ r.start <= r.end /\ j.start <= r.start /\ r.end <= j.end
  BY DEF Within, Block
<1>8. PICK n \in DOMAIN s : node = s[n]
  BY DEF Range
<1>9. ASSUME NEW p \in Previous(s, node)
      PROVE  Before(p, node) /\ ~\E b \in UNION Range(K) : Before(p, b) /\ Before(b, node)
  <2>1. PICK l \in 2..Len(s) : s[l] = node /\ p = s[l - 1]
    BY <1>9 DEF Previous
  <2>2. l \in DOMAIN s /\ l - 1 \in DOMAIN s /\ l - 1 < l
    BY <1>1
  <2>3. Before(p, node)
    BY <1>1, <2>1, <2>2
  <2>4. ASSUME NEW b \in UNION Range(K), Before(p, b), Before(b, node) PROVE FALSE
    <3>1. /\ p \in Block /\ node \in Block /\ p \in K[j] /\ node \in K[j]
          /\ Within(p, j) /\ Within(node, j) /\ Overlaps(r, p) /\ Overlaps(r, node)
      BY <1>1, <1>2, <2>1, <2>2
    <3>2. b \in Block
      BY <1>3, <2>4
    <3>3. /\ p.start \in Nat /\ p.end \in Nat /\ p.start <= p.end
          /\ node.start \in Nat /\ node.end \in Nat /\ node.start <= node.end
          /\ b.start \in Nat /\ b.end \in Nat /\ b.start <= b.end
      BY <3>1, <3>2 DEF Block
    <3>4. p.start <= b.start /\ b.start <= node.start
      BY <2>4, <3>3 DEF Before
    <3>5. CASE b \in K[j]
      <4>1. b # p /\ b # node
        BY <2>4, <3>1, <3>2, BeforeIsOrder
      <4>2. p.start < b.start /\ b.start < node.start
        BY <1>6, <3>1, <3>3, <3>4, <3>5, <4>1
      <4>3. p.end <= b.start
        BY <1>6, <3>1, <3>3, <3>5, <4>1, <4>2
      <4>4. r.start <= p.end /\ node.start <= r.end
        BY <3>1 DEF Overlaps
      <4>5. Overlaps(r, b)
        BY <1>7, <3>3, <4>2, <4>3, <4>4 DEF Overlaps
      <4>6. PICK m \in DOMAIN s : b = s[m]
        BY <1>4, <3>5, <4>5
      <4>7. ~(m < l - 1) /\ m # l - 1
        BY <1>1, <2>1, <2>2, <3>3, <4>2, <4>6
      <4>8. ~(l < m) /\ m # l
        BY <1>1, <2>1, <2>2, <3>3, <4>2, <4>6
      <4> QED BY <1>1, <2>2, <4>7, <4>8
    <3>6. ASSUME NEW i \in DOMAIN K, Within(b, i), i.end < j.start \/ j.end < i.start PROVE FALSE
      <4>1. i \in Block
        OBVIOUS
      <4> QED BY <1>7, <3>1, <3>3, <3>4, <3>6, <4>1 DEF Within, Block
    <3> QED BY <1>3, <2>4, <3>5, <3>6
  <2> QED BY <2>3, <2>4
<1>10. ASSUME Previous(s, node) = {}, NEW b \in UNION Range(K), Before(b, node), Overlaps(b, r) PROVE FALSE
  <2>1. n = 1
    <3> SUFFICES ASSUME n # 1 PROVE FALSE
      OBVIOUS
    <3>1. n \in {m \in 2..Len(s) : s[m] = node}
      BY <1>1, <1>8
    <3>2. s[n - 1] \in Previous(s, node)
      BY <3>1 DEF Previous
    <3> QED BY <1>10, <3>2
  <2>2. b \in Block
    BY <1>3, <1>10
  <2>3. CASE b \in K[j]
    <3>1. Overlaps(r, b)
      BY <1>7, <1>10, <2>2 DEF Overlaps, Block
    <3>2. PICK m \in DOMAIN s : b = s[m]
      BY <1>4, <2>3, <3>1
    <3>3. m = 1 \/ 1 < m
      BY <1>1, <3>2
    <3>4. m = 1 => b = node
      BY <1>8, <2>1, <3>2
    <3>5. 1 < m => Before(node, b)
      BY <1>1, <1>8, <2>1, <3>2
    <3>6. node \in Block
      BY <1>1, <1>8
    <3>7. Before(b, b)
      BY <1>10, <2>2, <3>3, <3>4, <3>5, <3>6, BeforeIsOrder
    <3> QED BY <2>2, <3>7, BeforeIsOrder
  <2>4. ASSUME NEW i \in DOMAIN K, Within(b, i), i.end < j.start \/ j.end < i.start PROVE FALSE
    <3>1. i \in Block
      OBVIOUS
    <3> QED BY <1>7, <1>10, <2>2, <2>4, <3>1 DEF Within, Overlaps, Block
  <2> QED BY <1>3, <1>10, <2>3, <2>4
<1> QED BY <1>9, <1>10

(* Each range that is joined, for each feature                             *)
LEMMA JoinedParts ==
  ASSUME NEW N, DOMAIN N # {}, Joinable(N), ~CannotPrune(JoinRanges(N)), NEW r \in DOMAIN JoinRanges(N)
  PROVE  /\ r \in Block /\ DOMAIN JoinRanges(N)[r] = DOMAIN N
         /\ \A f \in DOMAIN N :
              /\ Increasing(JoinRanges(N)[r][f])
              /\ \E j \in DOMAIN N[f] : Within(r, j) /\ Range(JoinRanges(N)[r][f]) = MetIn(N[f][j], r)
         /\ JoinBlocksFit(JoinRanges(N)[r], JoinBlocks(JoinRanges(N)[r]))
<1> DEFINE ranges == JoinRanges(N)
<1>1. JoinRangesFit(N, ranges)
  BY JoinedRanges
<1> HIDE DEF ranges
<1>2. r \in DOMAIN ranges
  BY DEF ranges
<1>3. r \in Block /\ DOMAIN ranges[r] = DOMAIN N
  BY <1>1, <1>2 DEF JoinRangesFit
<1>4. ASSUME NEW f \in DOMAIN N
      PROVE  /\ Increasing(ranges[r][f])
             /\ \E j \in DOMAIN N[f] : Within(r, j) /\ Range(ranges[r][f]) = MetIn(N[f][j], r)
  <2>1. PICK j \in DOMAIN N[f] : Within(r, j) /\ ranges[r][f] = InOrder(MetIn(N[f][j], r))
    BY <1>1, <1>2, <1>4 DEF JoinRangesFit
  <2> DEFINE S == N[f][j]
             M == MetIn(S, r)
  <2>2. NodeSet(S, j) /\ StartsDiffer(S)
    BY <1>4 DEF Joinable
  <2> HIDE DEF S
  <2>3. M \subseteq S
    BY DEF MetIn
  <2>4. M \in SUBSET Block /\ IsFiniteSet(M) /\ Apart(M) /\ StartsDiffer(M)
    <3> HIDE DEF M
    <3> QED BY <2>2, <2>3, FS_Subset DEF NodeSet, Apart, StartsDiffer
  <2> HIDE DEF M
  <2>5. Increasing(InOrder(M)) /\ Range(InOrder(M)) = M
    BY <2>4, FeatureIncreasing
  <2> QED BY <2>1, <2>5 DEF M, S
<1> DEFINE P == ranges[r]
<1>5. DOMAIN P # {} /\ \A f \in DOMAIN P : Increasing(P[f])
  BY <1>3, <1>4
<1>6. JoinBlocksFit(P, JoinBlocks(P))
  <2> HIDE DEF P
  <2> QED BY <1>5, JoinedBlocks
<1> QED BY <1>3, <1>4, <1>6 DEF ranges

LEMMA InvJoinedNodesFit == Inv => JoinedNodesFit
<1> SUFFICES ASSUME Inv PROVE JoinedNodesFit
  OBVIOUS
<1>1. CASE status # "joined"
  <2>1. DOMAIN joined = {}
    BY <1>1 DEF Inv, JoinInv
  <2> QED BY <2>1 DEF JoinedNodesFit
<1>2. CASE status = "joined"
  <2> DEFINE N == NodesOf
             ranges == JoinRanges(N)
  <2>1. ~Unjoinable(requested, label, dag) /\ ~CannotPrune(ranges) /\ joined = JoinOf(ranges)
    BY <1>2 DEF Inv, JoinInv, NodesOf
  <2>2. Joinable(N) /\ DOMAIN N # {}
    BY <2>1, NodesAreJoinable DEF NodesOf
  <2> SUFFICES ASSUME NEW r \in DOMAIN joined, NEW i \in DOMAIN joined[r], NEW f \in DOMAIN joined[r][i]
               PROVE  LET node == joined[r][i][f].node
                          prev == joined[r][i][f].prev
                      IN  /\ node \in Blocks(f) /\ Within(i, node)
                          /\ \A p \in prev :
                               Before(p, node) /\ ~\E b \in Blocks(f) : Before(p, b) /\ Before(b, node)
                          /\ prev = {} => ~\E b \in Blocks(f) : Before(b, node) /\ Overlaps(b, r)
    BY DEF JoinedNodesFit
  <2> HIDE DEF N
  <2>3. r \in DOMAIN ranges /\ joined[r] = JoinBlocks(ranges[r])
    BY <2>1 DEF JoinOf
  <2>4. /\ r \in Block /\ DOMAIN ranges[r] = DOMAIN N
        /\ \A x \in DOMAIN N :
             /\ Increasing(ranges[r][x])
             /\ \E j \in DOMAIN N[x] : Within(r, j) /\ Range(ranges[r][x]) = MetIn(N[x][j], r)
        /\ JoinBlocksFit(ranges[r], JoinBlocks(ranges[r]))
    BY <2>1, <2>2, <2>3, JoinedParts
  <2> HIDE DEF ranges
  <2> DEFINE node == joined[r][i][f].node
             prev == joined[r][i][f].prev
             s == ranges[r][f]
             K == N[f]
  <2>5. f \in DOMAIN N /\ node \in Range(s) /\ Within(i, node) /\ prev = Previous(s, node)
    BY <2>3, <2>4 DEF JoinBlocksFit
  <2>6. PICK j \in DOMAIN K : Within(r, j) /\ Range(s) = MetIn(K[j], r)
    BY <2>4, <2>5
  <2>7. Increasing(s)
    BY <2>4, <2>5
  <2>8. /\ DOMAIN K \in SUBSET Block /\ \A x, y \in DOMAIN K : Overlaps(x, y) => x = y
        /\ \A x \in DOMAIN K : NodeSet(K[x], x) /\ StartsDiffer(K[x])
    BY <2>2, <2>5 DEF Joinable
  <2>9. Blocks(f) = UNION Range(K)
    BY DEF Blocks, N
  <2> HIDE DEF node, prev, s, K
  <2>10. /\ \A p \in Previous(s, node) :
              Before(p, node) /\ ~\E b \in UNION Range(K) : Before(p, b) /\ Before(b, node)
         /\ Previous(s, node) = {} => ~\E b \in UNION Range(K) : Before(b, node) /\ Overlaps(b, r)
    BY <2>4, <2>5, <2>6, <2>7, <2>8, NothingBetween
  <2>11. node \in UNION Range(K)
    BY <2>5, <2>6 DEF MetIn, Range
  <2>12. /\ node \in Blocks(f) /\ Within(i, node)
         /\ \A p \in prev : Before(p, node) /\ ~\E b \in Blocks(f) : Before(p, b) /\ Before(b, node)
         /\ prev = {} => ~\E b \in Blocks(f) : Before(b, node) /\ Overlaps(b, r)
    BY <2>5, <2>9, <2>10, <2>11
  <2> QED BY <2>12 DEF node, prev
<1> QED BY <1>1, <1>2

(* What is joined at an interval are the nodes that have it, each with the   *)
(* one right before it among all the nodes of the feature, whatever was      *)
(* asked for and whatever blocks the sources have.                           *)
THEOREM WhatIsJoinedFits == Spec => []JoinedNodesFit
BY GraphIsConsistent, InvJoinedNodesFit, PTL

LEMMA InvJoinCoversWhatIsCommon == Inv => JoinCoversWhatIsCommon
<1> SUFFICES ASSUME Inv, status = "joined"
             PROVE  Covered(UNION {DOMAIN joined[r] : r \in DOMAIN joined})
                      = {c \in Covered(Blocks(requested[1])) : \A f \in DOMAIN NodesOf : c \in Covered(Blocks(f))}
  BY DEF JoinCoversWhatIsCommon
<1> DEFINE N == NodesOf
           ranges == JoinRanges(N)
           keys == UNION {DOMAIN joined[r] : r \in DOMAIN joined}
<1>1. ~Unjoinable(requested, label, dag) /\ ~CannotPrune(ranges) /\ joined = JoinOf(ranges)
  BY DEF Inv, JoinInv, NodesOf
<1>2. Joinable(N) /\ requested[1] \in DOMAIN N /\ DOMAIN N # {}
  BY <1>1, NodesAreJoinable DEF NodesOf
<1>3. \A f : Blocks(f) = UNION Range(N[f])
  BY DEF Blocks
<1> HIDE DEF N
<1>4. DOMAIN joined = DOMAIN ranges /\ \A r \in DOMAIN ranges : joined[r] = JoinBlocks(ranges[r])
  BY <1>1 DEF JoinOf
<1>5. ASSUME NEW r \in DOMAIN ranges
      PROVE  /\ r \in Block /\ DOMAIN ranges[r] = DOMAIN N
             /\ \A x \in DOMAIN N :
                  /\ Increasing(ranges[r][x])
                  /\ \E j \in DOMAIN N[x] : Within(r, j) /\ Range(ranges[r][x]) = MetIn(N[x][j], r)
             /\ JoinBlocksFit(ranges[r], joined[r])
  <2>1. /\ r \in Block /\ DOMAIN ranges[r] = DOMAIN N
        /\ \A x \in DOMAIN N :
             /\ Increasing(ranges[r][x])
             /\ \E j \in DOMAIN N[x] : Within(r, j) /\ Range(ranges[r][x]) = MetIn(N[x][j], r)
        /\ JoinBlocksFit(ranges[r], JoinBlocks(ranges[r]))
    BY <1>1, <1>2, <1>5, JoinedParts
  <2> QED BY <1>4, <1>5, <2>1
<1>6. JoinRangesCover(N, ranges)
  BY <1>2, RangesCover
<1> HIDE DEF ranges
<1>7. ASSUME NEW c \in Covered(keys), NEW f \in DOMAIN N PROVE c \in Covered(Blocks(f))
  <2>1. PICK i \in keys : c \in Cells(i)
    BY <1>7 DEF Covered
  <2>2. PICK r \in DOMAIN ranges : i \in DOMAIN joined[r]
    BY <1>4, <2>1
  <2> DEFINE node == joined[r][i][f].node
             s == ranges[r][f]
  <2>3. i \in Block /\ node \in Range(s) /\ Within(i, node)
    BY <1>5, <1>7, <2>2 DEF JoinBlocksFit
  <2>4. PICK j \in DOMAIN N[f] : Range(s) = MetIn(N[f][j], r)
    BY <1>5, <1>7, <2>2
  <2>5. node \in N[f][j]
    BY <2>3, <2>4 DEF MetIn
  <2>6. node \in Block
    BY <1>2, <1>7, <2>5 DEF Joinable, NodeSet
  <2>7. node \in Blocks(f)
    BY <1>3, <2>5 DEF Range
  <2> HIDE DEF node
  <2>8. c \in Cells(node)
    BY <2>1, <2>3, <2>6, WithinCells
  <2> QED BY <2>7, <2>8 DEF Covered
<1>8. ASSUME NEW c, \A f \in DOMAIN N : c \in Covered(Blocks(f)) PROVE c \in Covered(keys)
  <2>1. \A f \in DOMAIN N : \E j \in DOMAIN N[f] : \E b \in N[f][j] :
          /\ c \in Cells(b) /\ b \in Block /\ j \in Block /\ c \in Cells(j)
    <3> TAKE f \in DOMAIN N
    <3>1. PICK b \in UNION Range(N[f]) : c \in Cells(b)
      BY <1>3, <1>8 DEF Covered
    <3>2. PICK j \in DOMAIN N[f] : b \in N[f][j]
      BY <3>1 DEF Range
    <3>3. b \in Block /\ j \in Block /\ Within(b, j)
      BY <1>2, <3>2 DEF Joinable, NodeSet
    <3>4. c \in Cells(j)
      BY <3>1, <3>3, WithinCells
    <3> QED BY <3>1, <3>2, <3>3, <3>4
  <2>2. \A f \in DOMAIN N : \E j \in DOMAIN N[f] : c \in Cells(j)
    BY <2>1
  <2>3. PICK r \in DOMAIN ranges :
          /\ r \in Block /\ c \in Cells(r)
          /\ \A f \in DOMAIN N : \A j \in DOMAIN N[f] :
               c \in Cells(j) => f \in DOMAIN ranges[r] /\ ranges[r][f] = InOrder(MetIn(N[f][j], r))
    BY <1>6, <2>2 DEF JoinRangesCover
  <2>4. ASSUME NEW f \in DOMAIN N PROVE \E b \in Range(ranges[r][f]) : c \in Cells(b)
    <3>1. PICK j \in DOMAIN N[f] : \E b \in N[f][j] : c \in Cells(b) /\ b \in Block /\ c \in Cells(j)
      BY <2>1, <2>4
    <3>2. PICK b \in N[f][j] : c \in Cells(b) /\ b \in Block /\ c \in Cells(j)
      BY <3>1
    <3> DEFINE S == N[f][j]
               M == MetIn(S, r)
    <3>3. ranges[r][f] = InOrder(M)
      BY <2>3, <2>4, <3>2
    <3>4. NodeSet(S, j) /\ b \in S
      BY <1>2, <2>4, <3>2 DEF Joinable
    <3> HIDE DEF S
    <3>5. b \in M
      <4>1. Overlaps(r, b)
        BY <2>3, <3>2, SharedCellOverlaps
      <4> QED BY <3>4, <4>1 DEF MetIn
    <3>6. M \in SUBSET Block /\ IsFiniteSet(M)
      <4>1. M \subseteq S
        BY DEF MetIn
      <4> HIDE DEF M
      <4> QED BY <3>4, <4>1, FS_Subset DEF NodeSet
    <3> HIDE DEF M
    <3>7. Range(InOrder(M)) = M
      BY <3>6, InOrderOrdered
    <3> QED BY <3>2, <3>3, <3>5, <3>7
  <2>5. \A f \in DOMAIN ranges[r] : \E b \in Range(ranges[r][f]) : c \in Cells(b)
    BY <1>5, <2>4
  <2>6. PICK i \in DOMAIN joined[r] : c \in Cells(i)
    BY <1>5, <2>5 DEF JoinBlocksFit
  <2>7. i \in keys
    BY <1>4
  <2> QED BY <2>6, <2>7 DEF Covered
<1> HIDE DEF keys
<1>9. Covered(keys) \subseteq {c \in Covered(Blocks(requested[1])) : \A f \in DOMAIN N : c \in Covered(Blocks(f))}
  BY <1>2, <1>7
<1>10. {c \in Covered(Blocks(requested[1])) : \A f \in DOMAIN N : c \in Covered(Blocks(f))} \subseteq Covered(keys)
  BY <1>8
<1> QED BY <1>9, <1>10 DEF keys, N

(* The join has a node for every moment that all the features and the label  *)
(* have a block for, and for no other, whatever was asked for.               *)
THEOREM JoinIsComplete == Spec => []JoinCoversWhatIsCommon
BY GraphIsConsistent, InvJoinCoversWhatIsCommon, PTL

=============================================================================
