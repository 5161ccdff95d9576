-------------------------- MODULE SuccessionProofs ---------------------------
(***************************************************************************)
(* What the proofs about searches rest on: induction over numbers and over *)
(* the subsets of a finite set, and what is reached from a member of a     *)
(* set (Succession).                                                       *)
(***************************************************************************)
EXTENDS Succession, FiniteSetsExt, FiniteSetTheorems, WellFoundedInduction, TLAPS

(* Some numbers have a least one.                                          *)
LEMMA LeastNumber ==
  ASSUME NEW T \in SUBSET Nat, T # {}
  PROVE  \E n \in T : \A m \in T : n <= m
<1>1. IsWellFoundedOn(OpToRel(<, Nat), Nat)
  BY NatLessThanWellFounded
<1>2. PICK n \in T : \A m \in T : <<m, n>> \notin OpToRel(<, Nat)
  BY <1>1, WFMin
<1>3. ASSUME NEW m \in T PROVE n <= m
  <2>1. <<m, n>> \notin OpToRel(<, Nat)
    BY <1>2
  <2> QED
    BY <2>1 DEF OpToRel
<1> QED
  BY <1>3

(* The least of some numbers is one of them.                               *)
LEMMA MinIsLeast ==
  ASSUME NEW I \in SUBSET Nat, I # {}
  PROVE  Min(I) \in I /\ \A n \in I : Min(I) <= n
BY LeastNumber, Zenon DEF Min

(* Induction over the numbers up to N, for a set of them.                  *)
LEMMA InductionUpTo ==
  ASSUME NEW N \in Nat, NEW Good, 0 \in Good, \A n \in 0 .. N - 1 : n \in Good => n + 1 \in Good
  PROVE  \A n \in 0 .. N : n \in Good
<1> DEFINE Bad == {n \in 0 .. N : n \notin Good}
<1>1. Bad = {}
  <2> SUFFICES ASSUME Bad # {} PROVE FALSE
    OBVIOUS
  <2>1. Bad \in SUBSET Nat /\ Bad # {}
    OBVIOUS
  <2> HIDE DEF Bad
  <2>2. PICK n \in Bad : \A m \in Bad : n <= m
    BY <2>1, LeastNumber
  <2> USE DEF Bad
  <2>3. n \in 0 .. N /\ n \notin Good /\ n # 0
    BY <2>2
  <2>4. n - 1 \in 0 .. N - 1 /\ (n - 1) + 1 = n
    BY <2>3
  <2>5. n - 1 \in Good
    BY <2>2, <2>4
  <2> QED
    BY <2>3, <2>4, <2>5
<1> QED
  BY <1>1

(* Of a larger set less is left.                                           *)
LEMMA LessLeft ==
  ASSUME NEW D, IsFiniteSet(D), NEW s \in SUBSET D, NEW t \in SUBSET D, s \subseteq t, s # t
  PROVE  /\ Cardinality(D \ s) \in Nat /\ Cardinality(D \ t) \in Nat
         /\ Cardinality(D \ t) < Cardinality(D \ s)
<1>1. IsFiniteSet(D \ s) /\ IsFiniteSet(D \ t)
  BY FS_Subset
<1>2. D \ t \subseteq D \ s /\ D \ t # D \ s
  OBVIOUS
<1> QED
  BY <1>1, <1>2, FS_Subset, FS_CardinalityType

(* Induction over the subsets of a finite set, from all of it down.        *)
LEMMA InductionDown ==
  ASSUME NEW D, IsFiniteSet(D), NEW Good,
         \A s \in SUBSET D : (\A t \in SUBSET D : s \subseteq t /\ s # t => t \in Good) => s \in Good
  PROVE  SUBSET D \subseteq Good
<1> DEFINE Left(s) == Cardinality(D \ s)
           Bad   == {s \in SUBSET D : s \notin Good}
           Sizes == {Left(s) : s \in Bad}
<1>1. Bad = {}
  <2> SUFFICES ASSUME Bad # {} PROVE FALSE
    OBVIOUS
  <2>1. \A s \in Bad : Left(s) \in Nat
    BY FS_Subset, FS_CardinalityType
  <2> HIDE DEF Left, Bad
  <2>2. Sizes \in SUBSET Nat /\ Sizes # {}
    BY <2>1
  <2> HIDE DEF Sizes
  <2>3. PICK n \in Sizes : \A m \in Sizes : n <= m
    BY <2>2, LeastNumber
  <2>4. PICK s \in Bad : n = Left(s)
    BY <2>3 DEF Sizes
  <2>5. s \in SUBSET D /\ s \notin Good
    BY DEF Bad
  <2>6. ASSUME NEW t \in SUBSET D, s \subseteq t, s # t PROVE t \in Good
    <3>1. Left(t) < n /\ Left(t) \in Nat /\ n \in Nat
      BY <2>4, <2>5, <2>6, LessLeft DEF Left
    <3>2. Left(t) \notin Sizes
      BY <2>3, <3>1
    <3>3. t \notin Bad
      BY <3>2 DEF Sizes
    <3> QED
      BY <3>3 DEF Bad
  <2> QED
    BY <2>5, <2>6
<1> QED
  BY <1>1

(* The sets of which less than n is left.                                  *)
LeftLess(D, n) == {s \in SUBSET D : Cardinality(D \ s) < n}

(* Of no set is less than nothing left, of all less than one more than     *)
(* there is.                                                               *)
LEMMA LeftLessBounds ==
  ASSUME NEW D, IsFiniteSet(D)
  PROVE  /\ Cardinality(D) + 1 \in Nat /\ LeftLess(D, 0) = {}
         /\ LeftLess(D, Cardinality(D) + 1) = SUBSET D
<1>1. \A s \in SUBSET D : Cardinality(D \ s) \in Nat /\ Cardinality(D \ s) <= Cardinality(D)
  BY FS_Subset, FS_CardinalityType
<1>2. Cardinality(D) \in Nat
  BY FS_CardinalityType
<1> QED
  BY <1>1, <1>2 DEF LeftLess

(* Of a larger set than one of these one less is left.                     *)
LEMMA LeftLessAbove ==
  ASSUME NEW D, IsFiniteSet(D), NEW n \in Nat, NEW s \in LeftLess(D, n + 1), NEW t \in SUBSET D, s \subseteq t, s # t
  PROVE  t \in LeftLess(D, n) /\ t \in LeftLess(D, n + 1)
<1>1. s \in SUBSET D /\ Cardinality(D \ s) < n + 1
  BY DEF LeftLess
<1>2. Cardinality(D \ t) \in Nat /\ Cardinality(D \ s) \in Nat /\ Cardinality(D \ t) < Cardinality(D \ s)
  BY <1>1, LessLeft
<1> QED
  BY <1>1, <1>2 DEF LeftLess

-----------------------------------------------------------------------------
(* The values of a function on a finite set are finitely many.             *)
LEMMA FiniteImage ==
  ASSUME NEW S, IsFiniteSet(S), NEW f, f = [x \in S |-> f[x]]
  PROVE  IsFiniteSet({f[x] : x \in S})
<1>1. PICK T : T = {f[x] : x \in S}
  OBVIOUS
<1>2. f \in Surjection(S, T)
  BY <1>1 DEF Surjection
<1> QED
  BY <1>1, <1>2, FS_Surjection

-----------------------------------------------------------------------------
(* What members of a set name is in the set.                               *)
IsSuccession(next) == \A x \in DOMAIN next : Successors(next, x) \subseteq DOMAIN next

(* What is reached from x is the least closed set that has what x names,   *)
(* and is such a set itself.                                               *)
LEMMA ReachedIsClosed ==
  ASSUME NEW next, IsSuccession(next), NEW x \in DOMAIN next
  PROVE  /\ Successors(next, x) \subseteq Reached(next, x) /\ ClosedUnder(next, Reached(next, x))
         /\ Reached(next, x) \subseteq DOMAIN next
<1>1. Successors(next, x) \subseteq Reached(next, x)
  BY DEF Reached, IsSuccession
<1>2. ASSUME NEW y \in Reached(next, x), NEW z \in Successors(next, y) PROVE z \in Reached(next, x)
  <2>1. y \in DOMAIN next /\ z \in DOMAIN next
    BY DEF Reached, IsSuccession
  <2>2. ASSUME NEW S \in SUBSET DOMAIN next, Successors(next, x) \subseteq S, ClosedUnder(next, S) PROVE z \in S
    <3>1. y \in S
      BY <2>2 DEF Reached
    <3> QED
      BY <2>2, <3>1 DEF ClosedUnder
  <2> QED
    BY <2>1, <2>2 DEF Reached
<1> QED
  BY <1>1, <1>2 DEF ClosedUnder, Reached

(* It is the least such set.                                               *)
LEMMA ReachedIsLeast ==
  ASSUME NEW next, NEW x \in DOMAIN next,
         NEW S \in SUBSET DOMAIN next, Successors(next, x) \subseteq S, ClosedUnder(next, S)
  PROVE  Reached(next, x) \subseteq S
BY DEF Reached

(* What is reached from something reached is reached.                      *)
LEMMA ReachedIsTransitive ==
  ASSUME NEW next, IsSuccession(next), NEW x \in DOMAIN next, NEW y \in Reached(next, x)
  PROVE  Reached(next, y) \subseteq Reached(next, x)
<1>1. y \in DOMAIN next /\ Successors(next, y) \subseteq Reached(next, x)
  BY ReachedIsClosed DEF ClosedUnder
<1> QED
  BY <1>1, ReachedIsClosed, ReachedIsLeast

(* It is what x names and what is reached from there.                      *)
LEMMA ReachedUnfolds ==
  ASSUME NEW next, IsSuccession(next), NEW x \in DOMAIN next
  PROVE  Reached(next, x) = UNION {{y} \union Reached(next, y) : y \in Successors(next, x)}
<1> DEFINE S == UNION {{y} \union Reached(next, y) : y \in Successors(next, x)}
<1>1. Successors(next, x) \subseteq DOMAIN next /\ Successors(next, x) \subseteq Reached(next, x)
  BY ReachedIsClosed DEF IsSuccession
<1>2. S \subseteq Reached(next, x)
  BY <1>1, ReachedIsTransitive
<1>3. Successors(next, x) \subseteq S
  OBVIOUS
<1>4. ASSUME NEW y \in S, NEW z \in Successors(next, y) PROVE z \in S
  <2>1. PICK u \in Successors(next, x) : y \in {u} \union Reached(next, u)
    OBVIOUS
  <2>2. z \in Reached(next, u)
    BY <1>1, <2>1, ReachedIsClosed DEF ClosedUnder
  <2> QED
    BY <2>2
<1>5. S \in SUBSET DOMAIN next
  BY <1>2, ReachedIsClosed
<1> HIDE DEF S
<1>6. ClosedUnder(next, S)
  BY <1>4 DEF ClosedUnder
<1>7. Reached(next, x) \subseteq S
  BY <1>3, <1>5, <1>6, ReachedIsLeast
<1> QED
  BY <1>2, <1>7 DEF S

(* Something on the way, or x, names what is reached.                      *)
LEMMA ReachedIsNamed ==
  ASSUME NEW next, IsSuccession(next), NEW x \in DOMAIN next, NEW z \in Reached(next, x)
  PROVE  \E y \in Reached(next, x) \union {x} : z \in Successors(next, y)
<1> DEFINE S == {u \in Reached(next, x) : \E y \in Reached(next, x) \union {x} : u \in Successors(next, y)}
<1>1. Successors(next, x) \subseteq S
  BY ReachedIsClosed
<1>2. ASSUME NEW y \in S, NEW u \in Successors(next, y) PROVE u \in S
  BY ReachedIsClosed DEF ClosedUnder
<1>3. ClosedUnder(next, S)
  BY <1>2 DEF ClosedUnder
<1>4. S \in SUBSET DOMAIN next
  BY ReachedIsClosed
<1> HIDE DEF S
<1>5. Reached(next, x) \subseteq S
  BY <1>1, <1>3, <1>4, ReachedIsLeast
<1> QED
  BY <1>5 DEF S

(* In a tree nothing is reached from itself.                               *)
LEMMA TreesHaveNoCycles ==
  ASSUME NEW next, IsSuccession(next), NEW x \in DOMAIN next, ReachesTree(next, x)
  PROVE  \A y \in Reached(next, x) \union {x} : y \notin Reached(next, y)
<1> DEFINE S == {y \in Reached(next, x) : y \notin Reached(next, y)}
<1>1. ASSUME NEW y \in Reached(next, x) \union {x}, NEW z \in Reached(next, x) \union {x},
             NEW u \in Successors(next, y), u \in Successors(next, z)
      PROVE  y = z
  BY <1>1 DEF ReachesTree, Successors
<1>2. x \notin Reached(next, x)
  BY DEF ReachesTree
<1>3. ASSUME NEW y \in S \union {x}, NEW z \in Successors(next, y), z \in Reached(next, z) PROVE FALSE
  <2>1. y \in Reached(next, x) \union {x} /\ y \in DOMAIN next /\ y \notin Reached(next, y)
    BY <1>2, ReachedIsClosed
  <2>2. z \in Reached(next, y) /\ z \in Reached(next, x) /\ z \in DOMAIN next
    BY <2>1, ReachedIsClosed, ReachedIsTransitive
  <2>3. PICK u \in Reached(next, z) \union {z} : z \in Successors(next, u)
    BY <1>3, <2>2, ReachedIsNamed
  <2>4. u \in Reached(next, z)
    BY <1>3, <2>3
  <2>5. u \in Reached(next, x) /\ u \in Reached(next, y)
    BY <2>1, <2>2, <2>4, ReachedIsTransitive
  <2>6. u = y
    BY <1>1, <2>1, <2>3, <2>5
  <2> QED
    BY <2>1, <2>5, <2>6
<1>4. Successors(next, x) \subseteq S /\ ClosedUnder(next, S)
  <2>1. \A y \in S \union {x} : Successors(next, y) \subseteq Reached(next, x)
    BY ReachedIsClosed DEF ClosedUnder
  <2> QED
    BY <1>3, <2>1 DEF ClosedUnder
<1>5. S \in SUBSET DOMAIN next
  BY ReachedIsClosed
<1> HIDE DEF S
<1>6. Reached(next, x) \subseteq S
  BY <1>4, <1>5, ReachedIsLeast
<1> QED
  BY <1>2, <1>6 DEF S

(* What is reached from x, with x.                                         *)
Under(next, x) == Reached(next, x) \union {x}

(* What is reached from x forms a tree exactly if what is reached from     *)
(* each thing it names does, if these have nothing in common, and if x is  *)
(* not in them.                                                            *)
ReachesTrees(next, x) ==
  /\ \A k \in DOMAIN next[x] : ReachesTree(next, next[x][k]) /\ x \notin Under(next, next[x][k])
  /\ \A k, l \in DOMAIN next[x] : k # l => Under(next, next[x][k]) \intersect Under(next, next[x][l]) = {}

(* What the member where a tree starts names reaches a tree without it.    *)
LEMMA SubtreesAreTrees ==
  ASSUME NEW next, IsSuccession(next), NEW x \in DOMAIN next, ReachesTree(next, x), NEW k \in DOMAIN next[x]
  PROVE  ReachesTree(next, next[x][k]) /\ x \notin Under(next, next[x][k])
<1> DEFINE y == next[x][k]
<1>1. y \in Successors(next, x) /\ y \in Reached(next, x) /\ y \in DOMAIN next
  BY ReachedIsClosed DEF Successors
<1>2. y \notin Reached(next, y) /\ x \notin Reached(next, x)
  BY <1>1, TreesHaveNoCycles
<1>3. Reached(next, y) \subseteq Reached(next, x)
  BY <1>1, ReachedIsTransitive
<1>4. Under(next, y) \subseteq Reached(next, x)
  BY <1>1, <1>3 DEF Under
<1> HIDE DEF y
<1>5. ReachesTree(next, y)
  <2>1. ASSUME NEW v \in Reached(next, y) \union {y}, NEW w \in Reached(next, y) \union {y},
               NEW i \in DOMAIN next[v], NEW j \in DOMAIN next[w], next[v][i] = next[w][j]
        PROVE  v = w /\ i = j
    BY <1>1, <1>3, <2>1 DEF ReachesTree
  <2> QED
    BY <1>2, <2>1 DEF ReachesTree
<1>6. x \notin Under(next, y)
  BY <1>2, <1>4
<1> QED
  BY <1>5, <1>6 DEF y

(* What is named at two places of the member where a tree starts has       *)
(* nothing below it in common.                                             *)
LEMMA SubtreesAreApart ==
  ASSUME NEW next, IsSuccession(next), NEW x \in DOMAIN next, ReachesTree(next, x),
         NEW k \in DOMAIN next[x], NEW l \in DOMAIN next[x], k # l
  PROVE  Under(next, next[x][k]) \intersect Under(next, next[x][l]) = {}
<1>1. PICK y, z : y = next[x][k] /\ z = next[x][l]
  OBVIOUS
<1>2. /\ y \in Successors(next, x) /\ y \in Reached(next, x) /\ y \in DOMAIN next
      /\ z \in Successors(next, x) /\ z \in Reached(next, x) /\ z \in DOMAIN next
  BY <1>1, ReachedIsClosed DEF Successors
<1>3. y # z
  BY <1>1, <1>2 DEF ReachesTree
<1>4. Under(next, y) \subseteq Reached(next, x) /\ Under(next, z) \subseteq Reached(next, x)
  BY <1>2, ReachedIsTransitive DEF Under
<1>5. ASSUME NEW v \in Under(next, y) \union {x}, NEW w \in Under(next, z) \union {x},
             NEW u \in Successors(next, v), u \in Successors(next, w)
      PROVE  v = w
  BY <1>4, <1>5 DEF ReachesTree, Successors
<1>6. x \notin Under(next, y) /\ x \notin Under(next, z)
  BY <1>1, SubtreesAreTrees
<1>7. ASSUME NEW v \in Under(next, y) \union {x}, v \notin Under(next, z), NEW u \in Successors(next, v),
             u \in Under(next, z), v = x => u = y
      PROVE  FALSE
  <2>1. CASE u = z
    <3>1. v = x
      BY <1>2, <1>5, <2>1
    <3> QED
      BY <1>3, <1>7, <2>1, <3>1
  <2>2. CASE u \in Reached(next, z)
    <3>1. PICK w \in Under(next, z) : u \in Successors(next, w)
      BY <1>2, <2>2, ReachedIsNamed DEF Under
    <3>2. v = w
      BY <1>5, <3>1
    <3> QED
      BY <1>7, <3>1, <3>2
  <2> QED
    BY <1>7, <2>1, <2>2 DEF Under
<1> DEFINE S == {u \in Reached(next, y) : u \notin Under(next, z)}
<1>8. y \notin Under(next, z)
  BY <1>2, <1>6, <1>7
<1>9. Successors(next, y) \subseteq S
  BY <1>2, <1>7, <1>8, <1>6, ReachedIsClosed DEF Under
<1>10. ClosedUnder(next, S)
  BY <1>2, <1>7, <1>6, ReachedIsClosed DEF Under, ClosedUnder
<1>11. S \in SUBSET DOMAIN next
  BY <1>2, ReachedIsClosed
<1> HIDE DEF S
<1>12. Reached(next, y) \subseteq S
  BY <1>2, <1>9, <1>10, <1>11, ReachedIsLeast
<1>13. Under(next, y) \intersect Under(next, z) = {}
  BY <1>8, <1>12 DEF S, Under
<1> QED
  BY <1>1, <1>13

(* The other way round, trees that are apart form a tree with what names   *)
(* them.                                                                   *)
LEMMA TreeOfTrees ==
  ASSUME NEW next, IsSuccession(next), NEW x \in DOMAIN next, ReachesTrees(next, x)
  PROVE  ReachesTree(next, x)
<1>1. \A k \in DOMAIN next[x] : next[x][k] \in Successors(next, x) /\ next[x][k] \in DOMAIN next
  BY DEF Successors, IsSuccession
<1>2. ASSUME NEW y \in Reached(next, x) PROVE \E k \in DOMAIN next[x] : y \in Under(next, next[x][k])
  BY ReachedUnfolds DEF Under, Successors
<1>3. x \notin Reached(next, x)
  BY <1>2 DEF ReachesTrees
<1>4. ASSUME NEW y \in Reached(next, x), NEW m \in DOMAIN next[x], NEW l \in DOMAIN next[y], next[y][l] \in Under(next, next[x][m])
      PROVE  y \in Under(next, next[x][m]) /\ next[y][l] \in Reached(next, next[x][m])
  <2>1. PICK k \in DOMAIN next[x] : y \in Under(next, next[x][k])
    BY <1>2
  <2>2. next[y][l] \in Successors(next, y) /\ y \in DOMAIN next
    BY ReachedIsClosed DEF Successors
  <2>3. next[y][l] \in Reached(next, next[x][k])
    BY <1>1, <2>1, <2>2, ReachedIsClosed DEF Under, ClosedUnder
  <2>4. k = m
    BY <1>4, <2>3 DEF ReachesTrees, Under
  <2> QED
    BY <2>1, <2>3, <2>4
<1>5. ASSUME NEW y \in Reached(next, x) \union {x}, NEW z \in Reached(next, x) \union {x},
             NEW k \in DOMAIN next[y], NEW l \in DOMAIN next[z], next[y][k] = next[z][l]
      PROVE  y = z /\ k = l
  <2>1. ASSUME NEW m \in DOMAIN next[x], NEW u \in Reached(next, x), NEW i \in DOMAIN next[u], next[u][i] = next[x][m]
        PROVE  FALSE
    <3>1. next[x][m] \in Reached(next, next[x][m])
      BY <1>4, <2>1 DEF Under
    <3> QED
      BY <3>1 DEF ReachesTrees, ReachesTree
  <2>2. CASE y = x /\ z = x
    BY <1>5, <2>2 DEF ReachesTrees, Under
  <2>3. CASE y = x /\ z # x
    BY <1>5, <2>1, <2>3
  <2>4. CASE y # x /\ z = x
    BY <1>5, <2>1, <2>4
  <2>5. CASE y # x /\ z # x
    <3>1. y \in DOMAIN next /\ next[y][k] \in Reached(next, x)
      BY <2>5, ReachedIsClosed DEF ClosedUnder, Successors
    <3>2. PICK m \in DOMAIN next[x] : next[y][k] \in Under(next, next[x][m])
      BY <1>2, <3>1
    <3>3. y \in Under(next, next[x][m]) /\ z \in Under(next, next[x][m])
      BY <1>4, <1>5, <2>5, <3>2
    <3>4. ReachesTree(next, next[x][m])
      BY DEF ReachesTrees
    <3> QED
      BY <1>5, <3>3, <3>4 DEF ReachesTree, Under
  <2> QED
    BY <2>2, <2>3, <2>4, <2>5
<1> QED
  BY <1>3, <1>5 DEF ReachesTree

=============================================================================
