---------------------------- MODULE ComposeProofs ----------------------------
(***************************************************************************)
(* Theorems about Compose files.  The search for the files that a file     *)
(* includes, and the parent values that are shown for the attributes of a  *)
(* service, for any number of files and services (dockerComposeDocument.go,*)
(* inlayHint.go).  Formatting a file keeps its tree (formatting.go), for   *)
(* every file and tab size.                                                *)
(***************************************************************************)
EXTENDS ComposeProject, ComposeFormatting, SuccessionProofs, SequenceTheorems

(* Two searches that return the same for more than s.                      *)
SameAbove(D, g, h, s) == \A t \in SUBSET D : s \subseteq t /\ s # t => g[t] = h[t]

(* It is about larger sets of searched files only.                         *)
LEMMA SearchedGrows ==
  ASSUME NEW files, NEW remote, NEW s \in SUBSET DOMAIN files, NEW f \in DOMAIN files, NEW g, NEW h,
         SameAbove(DOMAIN files, g, h, s)
  PROVE  Searched(files, remote, g, s, f) = Searched(files, remote, h, s, f)
<1> DEFINE paths     == IncludedPaths(files[f])
           followed  == Followed(files, remote, f)
           before(k) == SearchedBefore(files, remote, s, f, k)
           new(k)    == paths[k] \notin before(k)
           N(k)      == g[before(k) \union {paths[k]}][paths[k]]
           M(k)      == h[before(k) \union {paths[k]}][paths[k]]
<1>1. ASSUME NEW k \in followed, new(k) PROVE N(k) = M(k)
  <2>1. \A i \in followed : paths[i] \in DOMAIN files
    BY DEF Followed
  <2>2. before(k) \in SUBSET DOMAIN files /\ s \subseteq before(k)
    BY <2>1 DEF SearchedBefore
  <2>3. PICK t : t = before(k) \union {paths[k]}
    OBVIOUS
  <2>4. t \in SUBSET DOMAIN files /\ s \subseteq t /\ s # t
    BY <1>1, <2>1, <2>2, <2>3
  <2>5. g[t] = h[t]
    BY <2>4 DEF SameAbove
  <2> QED
    BY <2>3, <2>5
<1> HIDE DEF N, M, new
<1>2. (\A k \in followed : new(k) /\ N(k).resolvable) <=> \A k \in followed : new(k) /\ M(k).resolvable
  BY <1>1
<1>3. ASSUME \A k \in followed : new(k)
      PROVE  UNION {{paths[k]} \union N(k).files : k \in followed} = UNION {{paths[k]} \union M(k).files : k \in followed}
  <2> HIDE DEF followed, paths
  <2> QED
    BY <1>1, <1>3
<1> DEFINE Result(ok, all) == IF ok THEN [files |-> all, resolvable |-> TRUE] ELSE Unresolvable
<1>4. Searched(files, remote, g, s, f)
        = Result(\A k \in followed : new(k) /\ N(k).resolvable, UNION {{paths[k]} \union N(k).files : k \in followed})
  BY Zenon DEF Searched, N, new
<1>5. Searched(files, remote, h, s, f)
        = Result(\A k \in followed : new(k) /\ M(k).resolvable, UNION {{paths[k]} \union M(k).files : k \in followed})
  BY Zenon DEF Searched, M, new
<1>6. CASE \A k \in followed : new(k)
  <2> HIDE DEF Result, followed, paths
  <2>1. PICK a, b : a = UNION {{paths[k]} \union N(k).files : k \in followed}
                    /\ b = UNION {{paths[k]} \union M(k).files : k \in followed}
    OBVIOUS
  <2>2. a = b
    BY <1>3, <1>6, <2>1
  <2>3. Searched(files, remote, g, s, f) = Result(\A k \in followed : new(k) /\ N(k).resolvable, a)
    BY <1>4, <2>1
  <2>4. Searched(files, remote, h, s, f) = Result(\A k \in followed : new(k) /\ M(k).resolvable, a)
    BY <1>5, <2>1, <2>2
  <2> USE DEF Result
  <2> QED
    BY <1>2, <2>3, <2>4
<1>7. CASE ~\A k \in followed : new(k)
  <2>1. ~(\A k \in followed : new(k) /\ N(k).resolvable) /\ ~(\A k \in followed : new(k) /\ M(k).resolvable)
    BY <1>7
  <2> QED
    BY <1>4, <1>5, <2>1, Zenon
<1> QED
  BY <1>6, <1>7

(* The search is defined for all sets.                                     *)
LEMMA SearchDefined ==
  ASSUME NEW files, NEW remote, IsFiniteSet(DOMAIN files)
  PROVE  \A s \in SUBSET DOMAIN files : \A f \in DOMAIN files :
           SearchForIncludedFiles(files, remote)[s][f]
             = Searched(files, remote, SearchForIncludedFiles(files, remote), s, f)
<1> DEFINE D          == DOMAIN files
           Row(g, s)  == [f \in D |-> Searched(files, remote, g, s, f)]
           From(g, n) == [s \in LeftLess(D, n) |-> Row(g, s)]
           N          == Cardinality(D) + 1
           Defined    == {n \in 0 .. N : \E g : g = From(g, n)}
<1>1. N \in Nat /\ LeftLess(D, 0) = {} /\ LeftLess(D, N) = SUBSET D
  BY LeftLessBounds
<1>2. \A n \in 0 .. N : n \in Defined
  <2>1. 0 \in Defined
    <3> HIDE DEF Row
    <3>1. From(<<>>, 0) = From(From(<<>>, 0), 0)
      BY <1>1
    <3>2. 0 \in 0 .. N
      BY <1>1
    <3> HIDE DEF From
    <3> QED
      BY <3>1, <3>2
  <2>2. ASSUME NEW n \in 0 .. N - 1, n \in Defined PROVE n + 1 \in Defined
    <3>1. PICK g : g = From(g, n)
      BY <2>2
    <3>2. PICK h : h = From(g, n + 1)
      OBVIOUS
    <3>3. n \in Nat /\ n + 1 \in 0 .. N
      BY <1>1
    <3>4. ASSUME NEW s \in LeftLess(D, n + 1) PROVE Row(g, s) = Row(h, s)
      <4>1. s \in SUBSET D
        BY DEF LeftLess
      <4>2. ASSUME NEW t \in SUBSET D, s \subseteq t, s # t PROVE g[t] = h[t]
        <5>1. t \in LeftLess(D, n) /\ t \in LeftLess(D, n + 1)
          <6>1. IsFiniteSet(D)
            OBVIOUS
          <6> HIDE DEF D
          <6> QED
            BY <3>3, <4>2, <6>1, LeftLessAbove
        <5> HIDE DEF Row
        <5>2. g[t] = Row(g, t)
          BY <3>1, <5>1, Zenon
        <5>3. h[t] = Row(g, t)
          BY <3>2, <5>1
        <5> QED
          BY <5>2, <5>3
      <4>3. SameAbove(D, g, h, s)
        BY <4>2 DEF SameAbove
      <4>4. \A f \in D : Searched(files, remote, g, s, f) = Searched(files, remote, h, s, f)
        BY <4>1, <4>3, SearchedGrows
      <4> QED
        BY <4>4
    <3> HIDE DEF Row
    <3>5. h = From(h, n + 1)
      BY <3>2, <3>4
    <3> HIDE DEF From
    <3> QED
      BY <3>3, <3>5
  <2> HIDE DEF Defined
  <2> QED
    BY <1>1, <2>1, <2>2, InductionUpTo
<1>3. PICK g : g = From(g, N)
  <2>1. N \in 0 .. N
    BY <1>1
  <2> HIDE DEF From, N
  <2> QED
    BY <1>2, <2>1
<1>4. PICK u : u = SearchForIncludedFiles(files, remote)
  OBVIOUS
<1>5. u = [s \in SUBSET D |-> Row(u, s)]
  <2>1. g = [s \in SUBSET D |-> Row(g, s)]
    BY <1>1, <1>3
  <2> QED
    BY <1>4, <2>1, Zenon DEF SearchForIncludedFiles
<1>6. ASSUME NEW s \in SUBSET D, NEW f \in D PROVE u[s][f] = Searched(files, remote, u, s, f)
  <2>1. u[s] = Row(u, s)
    <3> HIDE DEF Row
    <3> QED
      BY <1>5
  <2> QED
    BY <2>1
<1> QED
  BY <1>4, <1>6

-----------------------------------------------------------------------------
(* What is below a file, by the lemmas about what is reached.              *)
LEMMA IncludesAreFiles ==
  /\ DOMAIN Includes = DOMAIN compose /\ IsSuccession(Includes)
  /\ \A f \in DOMAIN compose :
        /\ DOMAIN Includes[f] = Followed(compose, Remote, f)
        /\ \A k \in Followed(compose, Remote, f) : Includes[f][k] = IncludedPaths(compose[f])[k]
        /\ Included(f) = {IncludedPaths(compose[f])[k] : k \in Followed(compose, Remote, f)}
<1>1. DOMAIN Includes = DOMAIN compose
  BY DEF Includes
<1>2. ASSUME NEW f \in DOMAIN compose
      PROVE  /\ DOMAIN Includes[f] = Followed(compose, Remote, f)
             /\ \A k \in Followed(compose, Remote, f) : Includes[f][k] = IncludedPaths(compose[f])[k]
  BY DEF Includes
<1>3. ASSUME NEW f \in DOMAIN compose
      PROVE  Included(f) = {IncludedPaths(compose[f])[k] : k \in Followed(compose, Remote, f)}
  BY <1>2 DEF Included, Successors
<1>4. IsSuccession(Includes)
  BY <1>1, <1>3 DEF IsSuccession, Included, Followed
<1> QED
  BY <1>1, <1>2, <1>3, <1>4

(* Below a file are its included files and what is below these, all of     *)
(* them files.                                                             *)
LEMMA BelowFile ==
  ASSUME NEW f \in DOMAIN compose
  PROVE  /\ Included(f) \subseteq Below(f) /\ Below(f) \subseteq DOMAIN compose
         /\ \A g \in Below(f) : Below(g) \subseteq Below(f)
         /\ Below(f) = UNION {{g} \union Below(g) : g \in Included(f)}
         /\ \A h \in Below(f) : \E g \in Below(f) \union {f} : h \in Included(g)
BY IncludesAreFiles, ReachedIsClosed, ReachedIsTransitive, ReachedUnfolds, ReachedIsNamed DEF Below, Included

-----------------------------------------------------------------------------
(* An answer of the search of f, where s was searched before, has what is  *)
(* below f; none of that was searched, and none of it is below itself.     *)
Answers(s, f) ==
  LET found == SearchForIncludedFiles(compose, Remote)[s][f]
  IN  found.resolvable => /\ found.files = Below(f) /\ Below(f) \intersect s = {}
                          /\ \A g \in Below(f) : g \notin Below(g)

(* So every search with an answer, by induction from all files searched    *)
(* down to none.                                                           *)
LEMMA SearchAnswers ==
  ASSUME IsFiniteSet(DOMAIN compose)
  PROVE  \A s \in SUBSET DOMAIN compose : \A f \in DOMAIN compose : Answers(s, f)
<1> DEFINE D    == DOMAIN compose
           Good == {s \in SUBSET D : \A f \in D : Answers(s, f)}
<1>1. PICK search : search = SearchForIncludedFiles(compose, Remote)
  OBVIOUS
<1>2. ASSUME NEW s \in SUBSET D, \A t \in SUBSET D : s \subseteq t /\ s # t => t \in Good,
             NEW f \in D, search[s][f].resolvable
      PROVE  search[s][f].files = Below(f) /\ Below(f) \intersect s = {} /\ \A g \in Below(f) : g \notin Below(g)
  <2> DEFINE paths     == IncludedPaths(compose[f])
             followed  == Followed(compose, Remote, f)
             before(k) == SearchedBefore(compose, Remote, s, f, k)
             N(k)      == search[before(k) \union {paths[k]}][paths[k]]
  <2>1. search[s][f] = Searched(compose, Remote, search, s, f)
    BY <1>1, SearchDefined
  <2>2. /\ \A k \in followed : paths[k] \notin before(k) /\ N(k).resolvable
        /\ search[s][f].files = UNION {{paths[k]} \union N(k).files : k \in followed}
    <3> DEFINE ok  == \A k \in followed : paths[k] \notin before(k) /\ N(k).resolvable
               all == UNION {{paths[k]} \union N(k).files : k \in followed}
    <3>1. search[s][f] = IF ok THEN [files |-> all, resolvable |-> TRUE] ELSE Unresolvable
      BY <2>1, Zenon DEF Searched
    <3> HIDE DEF ok, all
    <3>2. ok /\ search[s][f].files = all
      BY <1>2, <3>1 DEF Unresolvable
    <3> QED
      BY <3>2 DEF ok, all
  <2>3. \A k \in followed : paths[k] \in D
    BY DEF Followed
  <2>4. ASSUME NEW k \in followed
        PROVE  /\ N(k).files = Below(paths[k]) /\ paths[k] \notin s /\ Below(paths[k]) \intersect s = {}
               /\ paths[k] \notin Below(paths[k]) /\ \A g \in Below(paths[k]) : g \notin Below(g)
    <3>1. before(k) \in SUBSET D /\ s \subseteq before(k)
      BY <2>3 DEF SearchedBefore
    <3> HIDE DEF before, paths, followed
    <3>2. PICK t : t = before(k) \union {paths[k]}
      OBVIOUS
    <3>3. t \in SUBSET D /\ s \subseteq t /\ s # t /\ paths[k] \in t /\ paths[k] \notin s
      BY <2>2, <2>3, <3>1, <3>2
    <3>4. Answers(t, paths[k]) /\ search[t][paths[k]].resolvable
      BY <1>2, <2>2, <2>3, <3>2, <3>3
    <3>5. /\ search[t][paths[k]].files = Below(paths[k]) /\ Below(paths[k]) \intersect t = {}
          /\ \A g \in Below(paths[k]) : g \notin Below(g)
      BY <1>1, <3>4 DEF Answers
    <3> QED
      BY <3>2, <3>3, <3>5
  <2>5. Included(f) = {paths[k] : k \in followed}
    BY IncludesAreFiles
  <2> HIDE DEF paths, followed, N
  <2>6. search[s][f].files = UNION {{g} \union Below(g) : g \in Included(f)}
    BY <2>2, <2>4, <2>5
  <2>7. \A g \in Included(f) : /\ g \notin s /\ Below(g) \intersect s = {} /\ g \notin Below(g)
                              /\ \A h \in Below(g) : h \notin Below(h)
    BY <2>4, <2>5
  <2>8. \A h \in Below(f) : \E g \in Included(f) : h \in {g} \union Below(g)
    BY BelowFile
  <2> QED
    BY <2>6, <2>7, <2>8, BelowFile
<1>3. ASSUME NEW s \in SUBSET D, \A t \in SUBSET D : s \subseteq t /\ s # t => t \in Good PROVE s \in Good
  BY <1>1, <1>2, <1>3 DEF Answers
<1> HIDE DEF Good
<1>4. SUBSET D \subseteq Good
  <2> HIDE DEF D
  <2>1. IsFiniteSet(D)
    BY DEF D
  <2> QED
    BY <1>3, <2>1, InductionDown
<1> QED
  BY <1>4 DEF Good

-----------------------------------------------------------------------------
(* Then the search of f, and of what is below f, has an answer if nothing  *)
(* below was searched.                                                     *)
HasAnswer(f, s) ==
  \A g \in Below(f) \union {f} :
     s \intersect Below(g) = {} => SearchForIncludedFiles(compose, Remote)[s][g].resolvable

(* The paths of the files are numbered.                                    *)
PathsAreNumbered == \A g \in DOMAIN compose : DOMAIN IncludedPaths(compose[g]) \subseteq Nat

(* So every file whose inclusion is a tree, by the same induction.         *)
LEMMA TreesAreSearched ==
  ASSUME IsFiniteSet(DOMAIN compose), PathsAreNumbered, NEW f \in DOMAIN compose, ReachesTree(Includes, f)
  PROVE  \A s \in SUBSET DOMAIN compose : HasAnswer(f, s)
<1> DEFINE D    == DOMAIN compose
           Good == {s \in SUBSET D : HasAnswer(f, s)}
<1>1. PICK search : search = SearchForIncludedFiles(compose, Remote)
  OBVIOUS
<1>2. ASSUME NEW s \in SUBSET D, \A t \in SUBSET D : s \subseteq t /\ s # t => t \in Good,
             NEW g \in Below(f) \union {f}, s \intersect Below(g) = {}
      PROVE  search[s][g].resolvable
  <2> DEFINE paths     == IncludedPaths(compose[g])
             followed  == Followed(compose, Remote, g)
             before(k) == SearchedBefore(compose, Remote, s, g, k)
             N(k)      == search[before(k) \union {paths[k]}][paths[k]]
  <2>1. g \in D /\ Below(g) \subseteq Below(f)
    BY BelowFile
  <2>2. search[s][g] = Searched(compose, Remote, search, s, g)
    BY <1>1, <2>1, SearchDefined
  <2>3. ASSUME NEW k \in followed PROVE paths[k] \in Included(g) /\ paths[k] \in Below(g) /\ paths[k] \in D /\ k \in Nat
    BY <2>1, BelowFile, IncludesAreFiles DEF Followed, PathsAreNumbered
  <2>4. ASSUME NEW e \in Below(f) \union {f}, NEW k \in followed, NEW l \in Followed(compose, Remote, e),
               paths[k] = IncludedPaths(compose[e])[l]
        PROVE  e = g /\ l = k
    BY <2>1, <2>4, BelowFile, IncludesAreFiles DEF ReachesTree, Below
  <2>5. ASSUME NEW k \in followed PROVE paths[k] \notin before(k) /\ N(k).resolvable
    <3>1. ASSUME NEW i \in followed, i < k PROVE paths[i] # paths[k]
      BY <2>3, <2>4, <3>1
    <3>2. before(k) = s \union {paths[i] : i \in {i \in followed : i < k}}
      BY DEF SearchedBefore
    <3>3. paths[k] \notin s
      BY <1>2, <2>3
    <3>4. ASSUME NEW i \in followed PROVE paths[i] \notin Below(paths[k])
      <4> SUFFICES ASSUME paths[i] \in Below(paths[k]) PROVE FALSE
        OBVIOUS
      <4>1. PICK e \in Below(paths[k]) \union {paths[k]} : paths[i] \in Included(e)
        BY <2>3, BelowFile
      <4>2. e \in Below(g) /\ e \in Below(f)
        BY <2>1, <2>3, <4>1, BelowFile
      <4>3. PICK l \in Followed(compose, Remote, e) : paths[i] = IncludedPaths(compose[e])[l]
        <5>1. e \in DOMAIN compose
          BY <2>1, <4>2, BelowFile
        <5>2. Included(e) = {IncludedPaths(compose[e])[l] : l \in Followed(compose, Remote, e)}
          BY <5>1, IncludesAreFiles
        <5> QED
          BY <4>1, <5>2
      <4>4. e = g
        BY <2>4, <4>2, <4>3
      <4> QED
        BY <4>2, <4>4, IncludesAreFiles, TreesHaveNoCycles DEF Below
    <3>5. Below(paths[k]) \subseteq Below(g) /\ paths[k] \in Below(f)
      BY <2>1, <2>3, BelowFile
    <3>6. PICK t : t = before(k) \union {paths[k]}
      OBVIOUS
    <3> HIDE DEF paths, followed, before
    <3>7. paths[k] \notin before(k)
      BY <3>1, <3>2, <3>3
    <3>8. t \in SUBSET D /\ s \subseteq t /\ s # t
      BY <2>3, <3>2, <3>3, <3>6
    <3>9. t \intersect Below(paths[k]) = {}
      BY <1>2, <3>2, <3>4, <3>5, <3>6
    <3>10. HasAnswer(f, t)
      BY <1>2, <3>8
    <3>11. search[t][paths[k]].resolvable
      BY <1>1, <3>5, <3>9, <3>10 DEF HasAnswer
    <3> QED
      BY <3>6, <3>7, <3>11
  <2>6. \A k \in followed : paths[k] \notin before(k) /\ N(k).resolvable
    BY <2>5
  <2>7. search[s][g] = [files |-> UNION {{paths[k]} \union N(k).files : k \in followed}, resolvable |-> TRUE]
    BY <2>2, <2>6, Zenon DEF Searched
  <2> QED
    BY <2>7
<1>3. ASSUME NEW s \in SUBSET D, \A t \in SUBSET D : s \subseteq t /\ s # t => t \in Good PROVE s \in Good
  BY <1>1, <1>2, <1>3 DEF HasAnswer
<1> HIDE DEF Good
<1>4. SUBSET D \subseteq Good
  <2> HIDE DEF D
  <2>1. IsFiniteSet(D)
    BY DEF D
  <2> QED
    BY <1>3, <2>1, InductionDown
<1> QED
  BY <1>4 DEF Good

(* So the search finds what is there.                                      *)
LEMMA SearchIsComplete ==
  ASSUME IsFiniteSet(DOMAIN compose), PathsAreNumbered, NEW f \in DOMAIN compose
  PROVE  SearchFindsAll(f)
<1>1. PICK found : found = IncludedFiles(compose, Remote, f)
  OBVIOUS
<1>2. found = SearchForIncludedFiles(compose, Remote)[{f}][f]
  BY <1>1 DEF IncludedFiles
<1>3. Answers({f}, f)
  BY SearchAnswers
<1>4. found.resolvable => found.files = Below(f) /\ \A g \in Below(f) \union {f} : g \notin Below(g)
  BY <1>2, <1>3 DEF Answers
<1>5. ASSUME ReachesTree(Includes, f) PROVE found.resolvable
  <2>1. HasAnswer(f, {f}) /\ f \notin Below(f)
    BY <1>5, TreesAreSearched DEF ReachesTree, Below
  <2> QED
    BY <1>2, <2>1 DEF HasAnswer
<1> QED
  BY <1>1, <1>4, <1>5 DEF SearchFindsAll

-----------------------------------------------------------------------------
(* The trees of each depth are made of those one less deep.                *)
LEMMA TreeDefined ==
  \A n \in 0 .. Depth : Tree[n] = TreesOver(IF n = 0 THEN {} ELSE Tree[n - 1])
<1> DEFINE From(g, n) == [d \in 0 .. n |-> TreesOver(IF d = 0 THEN {} ELSE g[d - 1])]
           Defined    == {n \in 0 .. Depth : \E g : g = From(g, n)}
<1>1. Depth \in Nat
  BY FilesAssumption
<1>2. \A n \in 0 .. Depth : n \in Defined
  <2>1. 0 \in Defined
    <3>1. From(<<>>, 0) = From(From(<<>>, 0), 0)
      OBVIOUS
    <3>2. 0 \in 0 .. Depth
      BY <1>1
    <3> HIDE DEF From
    <3> QED
      BY <3>1, <3>2
  <2>2. ASSUME NEW n \in 0 .. Depth - 1, n \in Defined PROVE n + 1 \in Defined
    <3>1. PICK g : g = From(g, n)
      BY <2>2
    <3>2. n \in Nat /\ n + 1 \in 0 .. Depth
      BY <1>1
    <3>3. PICK h : h = From(g, n + 1)
      OBVIOUS
    <3>4. ASSUME NEW d \in 0 .. n + 1, d # 0 PROVE g[d - 1] = h[d - 1]
      <4>1. d - 1 \in 0 .. n /\ d - 1 \in 0 .. n + 1
        BY <3>2, <3>4
      <4> QED
        BY <3>1, <3>3, <4>1
    <3>5. \A d \in 0 .. n + 1 : TreesOver(IF d = 0 THEN {} ELSE g[d - 1]) = TreesOver(IF d = 0 THEN {} ELSE h[d - 1])
      BY <3>4
    <3>6. h = From(h, n + 1)
      BY <3>3, <3>5
    <3> HIDE DEF From
    <3> QED
      BY <3>2, <3>6
  <2> HIDE DEF Defined
  <2> QED
    BY <1>1, <2>1, <2>2, InductionUpTo
<1>3. PICK g : g = From(g, Depth)
  <2>1. Depth \in 0 .. Depth
    BY <1>1
  <2> HIDE DEF From
  <2> QED
    BY <1>2, <2>1
<1>4. Tree = From(Tree, Depth)
  BY <1>3, Zenon DEF Tree
<1> QED
  BY <1>4

IsTree(x) == \E n \in 0 .. Depth : x \in Tree[n]

(* What the nodes of a tree are.                                           *)
LEMMA TreeNodes ==
  ASSUME NEW x, IsTree(x)
  PROVE  /\ x.kind = "string" => x.value \in STRING
         /\ x.kind = "list" => /\ Len(x.items) \in Nat /\ DOMAIN x.items = 1 .. Len(x.items)
                               /\ \A i \in DOMAIN x.items : IsTree(x.items[i])
         /\ x.kind = "map" => /\ Len(x.entries) \in Nat /\ DOMAIN x.entries = 1 .. Len(x.entries)
                              /\ \A i \in DOMAIN x.entries : IsTree(x.entries[i].key) /\ IsTree(x.entries[i].value)
<1>1. PICK n \in 0 .. Depth : x \in Tree[n]
  BY DEF IsTree
<1>2. PICK below : below = IF n = 0 THEN {} ELSE Tree[n - 1]
  OBVIOUS
<1>3. x \in TreesOver(below)
  BY <1>1, <1>2, TreeDefined
<1>4. \A y \in below : IsTree(y)
  <2>1. n # 0 => n - 1 \in 0 .. Depth
    BY FilesAssumption
  <2> QED
    BY <1>2, <2>1 DEF IsTree
<1>5. x.kind = "string" => x.value \in STRING
  BY <1>3 DEF TreesOver
<1>6. x.kind = "list" => x.items \in Seq(below)
  BY <1>3 DEF TreesOver
<1>7. x.kind = "map" => x.entries \in Seq([key : below, value : below])
  BY <1>3 DEF TreesOver
<1>8. ASSUME x.kind = "list"
      PROVE  /\ Len(x.items) \in Nat /\ DOMAIN x.items = 1 .. Len(x.items)
             /\ \A i \in DOMAIN x.items : IsTree(x.items[i])
  BY <1>4, <1>6, <1>8
<1>9. ASSUME x.kind = "map"
      PROVE  /\ Len(x.entries) \in Nat /\ DOMAIN x.entries = 1 .. Len(x.entries)
             /\ \A i \in DOMAIN x.entries : IsTree(x.entries[i].key) /\ IsTree(x.entries[i].value)
  <2>1. PICK es : es = x.entries
    OBVIOUS
  <2>2. es \in Seq([key : below, value : below])
    BY <1>7, <1>9, <2>1
  <2>3. Len(es) \in Nat /\ DOMAIN es = 1 .. Len(es)
    BY <2>2
  <2>4. ASSUME NEW i \in DOMAIN es PROVE es[i].key \in below /\ es[i].value \in below
    <3>1. PICK E : E = [key : below, value : below]
      OBVIOUS
    <3>2. es \in Seq(E)
      BY <2>2, <3>1
    <3>3. es[i] \in E
      BY <3>2
    <3> QED
      BY <3>1, <3>3
  <2> QED
    BY <1>4, <2>1, <2>3, <2>4
<1> QED
  BY <1>5, <1>8, <1>9

-----------------------------------------------------------------------------
(* The items of a flattened sequence are those of the sequences in it.     *)
LEMMA FlattenedItems ==
  ASSUME NEW T, NEW ss \in Seq(Seq(T))
  PROVE  /\ FlattenSeq(ss) \in Seq(T)
         /\ \A k \in DOMAIN FlattenSeq(ss) : \E i \in DOMAIN ss : \E j \in DOMAIN ss[i] : FlattenSeq(ss)[k] = ss[i][j]
<1> DEFINE N          == Len(ss)
           From(g, n) == [i \in 1 .. n |-> IF i = 1 THEN ss[i] ELSE g[i - 1] \o ss[i]]
           OfSome(s)  == \A k \in DOMAIN s : \E i \in DOMAIN ss : \E j \in DOMAIN ss[i] : s[k] = ss[i][j]
           Defined    == {n \in 0 .. N : \E g : g = From(g, n)}
<1>1. N \in Nat
  OBVIOUS
<1>2. CASE N = 0
  BY <1>2 DEF FlattenSeq
<1>3. CASE N # 0
  <2>1. \A n \in 0 .. N : n \in Defined
    <3>1. 0 \in Defined
      <4>1. From(<<>>, 0) = From(From(<<>>, 0), 0)
        OBVIOUS
      <4>2. 0 \in 0 .. N
        BY <1>1
      <4> HIDE DEF From
      <4> QED
        BY <4>1, <4>2
    <3>2. ASSUME NEW n \in 0 .. N - 1, n \in Defined PROVE n + 1 \in Defined
      <4>1. PICK g : g = From(g, n)
        BY <3>2
      <4>2. n \in Nat /\ n + 1 \in 0 .. N
        BY <1>1
      <4>3. PICK h : h = From(g, n + 1)
        OBVIOUS
      <4>4. ASSUME NEW i \in 1 .. n + 1, i # 1 PROVE g[i - 1] = h[i - 1]
        <5>1. i - 1 \in 1 .. n /\ i - 1 \in 1 .. n + 1
          BY <4>2, <4>4
        <5> QED
          BY <4>1, <4>3, <5>1
      <4>5. \A i \in 1 .. n + 1 : (IF i = 1 THEN ss[i] ELSE g[i - 1] \o ss[i]) = IF i = 1 THEN ss[i] ELSE h[i - 1] \o ss[i]
        BY <4>4
      <4>6. h = From(h, n + 1)
        BY <4>3, <4>5
      <4> HIDE DEF From
      <4> QED
        BY <4>2, <4>6
    <3> HIDE DEF Defined
    <3> QED
      BY <1>1, <3>1, <3>2, InductionUpTo
  <2>2. PICK g : g = From(g, N)
    <3>1. N \in 0 .. N
      BY <1>1
    <3> HIDE DEF From, N
    <3> QED
      BY <2>1, <3>1
  <2>3. PICK u : u = From(u, N) /\ FlattenSeq(ss) = u[N]
    BY <1>3, <2>2, Zenon DEF FlattenSeq
  <2> DEFINE Good == {n \in 0 .. N : n # 0 => u[n] \in Seq(T) /\ OfSome(u[n])}
  <2>4. ASSUME NEW n \in 0 .. N - 1, n \in Good PROVE n + 1 \in Good
    <3>1. n + 1 \in 1 .. N /\ ss[n + 1] \in Seq(T) /\ n + 1 \in DOMAIN ss
      BY <1>1
    <3>2. CASE n = 0
      <4>1. u[1] = ss[1]
        BY <2>3, <3>1, <3>2
      <4> QED
        BY <3>1, <3>2, <4>1
    <3>3. CASE n # 0
      <4>1. n + 1 # 1 /\ (n + 1) - 1 = n
        BY <3>3
      <4>2. u[n + 1] = u[n] \o ss[n + 1]
        BY <2>3, <3>1, <4>1
      <4>3. u[n] \in Seq(T) /\ OfSome(u[n])
        BY <2>4, <3>3
      <4>4. PICK a, b : a = u[n] /\ b = ss[n + 1]
        OBVIOUS
      <4>5. ASSUME NEW k \in DOMAIN (a \o b) PROVE (k \in DOMAIN a /\ (a \o b)[k] = a[k])
                                                 \/ \E j \in DOMAIN b : (a \o b)[k] = b[j]
        <5>1. a \in Seq(T) /\ b \in Seq(T)
          BY <3>1, <4>3, <4>4
        <5>2. k \in 1 .. Len(a) + Len(b)
          BY <5>1, <4>5
        <5>3. CASE k <= Len(a)
          BY <5>1, <5>2, <5>3
        <5>4. CASE k > Len(a)
          <6>1. k - Len(a) \in DOMAIN b /\ (a \o b)[k] = b[k - Len(a)]
            BY <5>1, <5>2, <5>4
          <6> QED
            BY <6>1
        <5> QED
          BY <5>1, <5>2, <5>3, <5>4
      <4>6. PICK c : c = a \o b
        OBVIOUS
      <4>7. ASSUME NEW k \in DOMAIN c PROVE \E i \in DOMAIN ss : \E j \in DOMAIN ss[i] : c[k] = ss[i][j]
        <5>1. CASE k \in DOMAIN a /\ c[k] = a[k]
          BY <4>3, <4>4, <5>1
        <5>2. CASE \E j \in DOMAIN b : c[k] = b[j]
          BY <3>1, <4>4, <5>2
        <5> QED
          BY <4>5, <4>6, <4>7, <5>1, <5>2
      <4>8. c \in Seq(T)
        BY <3>1, <4>3, <4>4, <4>6
      <4>9. u[n + 1] = c /\ n + 1 \in 0 .. N
        BY <3>1, <4>2, <4>4, <4>6
      <4>10. OfSome(c)
        BY <4>7
      <4> HIDE DEF OfSome
      <4> QED
        BY <4>8, <4>9, <4>10
    <3> QED
      BY <3>2, <3>3
  <2>5. 0 \in Good
    BY <1>1
  <2> HIDE DEF Good
  <2>6. \A n \in 0 .. N : n \in Good
    BY <1>1, <2>4, <2>5, InductionUpTo
  <2>7. u[N] \in Seq(T) /\ OfSome(u[N])
    BY <1>1, <1>3, <2>6 DEF Good
  <2>8. FlattenSeq(ss) \in Seq(T) /\ OfSome(FlattenSeq(ss))
    <3> HIDE DEF OfSome
    <3> QED
      BY <2>3, <2>7
  <2> QED
    BY <2>8
<1> QED
  BY <1>2, <1>3

-----------------------------------------------------------------------------
(* What the paths in a node, in an item of a list and in a file come from. *)
NamedBy(node, path) ==
  \/ node.kind = "string" /\ node.value = path
  \/ node.kind = "list" /\ \E m \in DOMAIN node.items : node.items[m].kind = "string" /\ node.items[m].value = path

NamedByItem(item, path) ==
  \/ item.kind = "string" /\ item.value = path
  \/ item.kind = "map" /\ \E i \in DOMAIN item.entries : /\ item.entries[i].key = Str("path")
                                                        /\ NamedBy(item.entries[i].value, path)

NamedByFile(file, path) ==
  file.kind = "map" /\ \E i \in DOMAIN file.entries :
                          /\ file.entries[i].key = Str("include") /\ file.entries[i].value.kind = "list"
                          /\ \E m \in DOMAIN file.entries[i].value.items :
                               NamedByItem(file.entries[i].value.items[m], path)

(* The strings of a value are named by it.                                 *)
LEMMA StringsAreNamed ==
  ASSUME NEW node, IsTree(node)
  PROVE  StringsOf(node) \in Seq(STRING) /\ \A j \in DOMAIN StringsOf(node) : NamedBy(node, StringsOf(node)[j])
<1>1. CASE node.kind = "string"
  <2>1. StringsOf(node) = <<node.value>>
    BY <1>1 DEF StringsOf
  <2>2. node.value \in STRING
    BY <1>1, TreeNodes
  <2>3. \A j \in DOMAIN <<node.value>> : <<node.value>>[j] = node.value
    OBVIOUS
  <2> QED
    BY <1>1, <2>1, <2>2, <2>3 DEF NamedBy
<1>2. CASE node.kind = "list"
  <2> DEFINE One(m) == IF node.items[m].kind = "string" THEN <<node.items[m].value>> ELSE <<>>
             ss     == [m \in DOMAIN node.items |-> One(m)]
  <2>1. /\ Len(node.items) \in Nat /\ DOMAIN node.items = 1 .. Len(node.items)
        /\ \A m \in DOMAIN node.items : IsTree(node.items[m])
    BY <1>2, TreeNodes
  <2>2. ASSUME NEW m \in DOMAIN node.items
        PROVE  One(m) \in Seq(STRING) /\ \A j \in DOMAIN One(m) : node.items[m].kind = "string" /\ One(m)[j] = node.items[m].value
    <3>1. CASE node.items[m].kind = "string"
      <4>1. node.items[m].value \in STRING
        BY <2>1, <3>1, TreeNodes
      <4> QED
        BY <3>1, <4>1
    <3>2. CASE node.items[m].kind # "string"
      BY <3>2
    <3> QED
      BY <3>1, <3>2
  <2>3. StringsOf(node) = FlattenSeq(ss)
    BY <1>2 DEF StringsOf
  <2> HIDE DEF One
  <2>4. ss \in Seq(Seq(STRING))
    BY <2>1, <2>2
  <2>5. /\ FlattenSeq(ss) \in Seq(STRING)
        /\ \A j \in DOMAIN FlattenSeq(ss) : \E m \in DOMAIN ss : \E k \in DOMAIN ss[m] : FlattenSeq(ss)[j] = ss[m][k]
    <3> HIDE DEF ss
    <3> QED
      BY <2>4, FlattenedItems
  <2>6. ASSUME NEW j \in DOMAIN FlattenSeq(ss) PROVE NamedBy(node, FlattenSeq(ss)[j])
    <3>1. PICK m \in DOMAIN node.items : \E k \in DOMAIN One(m) : FlattenSeq(ss)[j] = One(m)[k]
      BY <2>5
    <3> QED
      BY <1>2, <2>2, <3>1 DEF NamedBy
  <2> QED
    BY <2>3, <2>5, <2>6
<1>3. CASE node.kind \notin {"string", "list"}
  <2>1. StringsOf(node) = <<>>
    BY <1>3 DEF StringsOf
  <2> QED
    BY <2>1
<1> QED
  BY <1>1, <1>2, <1>3

(* The paths of one item are named by it.                                  *)
LEMMA PathsAreNamed ==
  ASSUME NEW item, IsTree(item)
  PROVE  PathsOf(item) \in Seq(STRING) /\ \A j \in DOMAIN PathsOf(item) : NamedByItem(item, PathsOf(item)[j])
<1>1. CASE item.kind = "string"
  <2>1. PathsOf(item) = <<item.value>>
    BY <1>1 DEF PathsOf
  <2>2. item.value \in STRING
    BY <1>1, TreeNodes
  <2>3. \A j \in DOMAIN <<item.value>> : <<item.value>>[j] = item.value
    OBVIOUS
  <2> QED
    BY <1>1, <2>1, <2>2, <2>3 DEF NamedByItem
<1>2. CASE item.kind = "map"
  <2> DEFINE I == {i \in 1 .. Len(item.entries) : item.entries[i].key = Str("path")}
             i == IF I # {} THEN Min(I) ELSE 0
  <2>1. /\ Len(item.entries) \in Nat /\ DOMAIN item.entries = 1 .. Len(item.entries)
        /\ \A n \in DOMAIN item.entries : IsTree(item.entries[n].key) /\ IsTree(item.entries[n].value)
    BY <1>2, TreeNodes
  <2>2. PathsOf(item) = IF i = 0 THEN <<>> ELSE StringsOf(item.entries[i].value)
    BY <1>2 DEF PathsOf, SelectInSeq
  <2>3. CASE i = 0
    BY <2>2, <2>3
  <2>4. CASE i # 0
    <3>1. I \in SUBSET Nat /\ I # {} /\ i = Min(I)
      BY <2>4
    <3> HIDE DEF I, i
    <3>2. i \in I
      BY <3>1, MinIsLeast
    <3>3. i \in DOMAIN item.entries /\ item.entries[i].key = Str("path")
      BY <2>1, <3>2 DEF I
    <3>4. PathsOf(item) = StringsOf(item.entries[i].value)
      BY <2>2, <2>4
    <3> QED
      BY <1>2, <2>1, <3>3, <3>4, StringsAreNamed DEF NamedByItem
  <2> QED
    BY <2>3, <2>4
<1>3. CASE item.kind \notin {"string", "map"}
  <2>1. PathsOf(item) = <<>>
    BY <1>3 DEF PathsOf
  <2> QED
    BY <2>1
<1> QED
  BY <1>1, <1>2, <1>3

(* What is followed from a file is named by it.                            *)
LEMMA IncludesAreNamed ==
  ASSUME NEW file, IsTree(file)
  PROVE  /\ IncludedPaths(file) \in Seq(STRING)
         /\ \A j \in DOMAIN IncludedPaths(file) : NamedByFile(file, IncludedPaths(file)[j])
<1> DEFINE I == {i \in 1 .. Len(file.entries) : file.entries[i].key = Str("include")}
           i == IF file.kind = "map" THEN IF I # {} THEN Min(I) ELSE 0 ELSE 0
           ss == [k \in DOMAIN file.entries[i].value.items |-> PathsOf(file.entries[i].value.items[k])]
<1>1. IncludedPaths(file) = IF i = 0 \/ file.entries[i].value.kind # "list" THEN <<>> ELSE FlattenSeq(ss)
  BY DEF IncludedPaths, SelectInSeq
<1>2. CASE i = 0 \/ file.entries[i].value.kind # "list"
  <2>1. IncludedPaths(file) = <<>>
    <3> HIDE DEF i, ss
    <3> QED
      BY <1>1, <1>2
  <2> QED
    BY <2>1
<1>3. CASE i # 0 /\ file.entries[i].value.kind = "list"
  <2>1. file.kind = "map" /\ I \in SUBSET Nat /\ I # {} /\ i = Min(I)
    BY <1>3
  <2>2. /\ Len(file.entries) \in Nat /\ DOMAIN file.entries = 1 .. Len(file.entries)
        /\ \A n \in DOMAIN file.entries : IsTree(file.entries[n].key) /\ IsTree(file.entries[n].value)
    BY <2>1, TreeNodes
  <2> HIDE DEF I, i
  <2>3. i \in I
    BY <2>1, MinIsLeast
  <2>4. i \in DOMAIN file.entries /\ file.entries[i].key = Str("include")
    BY <2>2, <2>3 DEF I
  <2>5. PICK items : items = file.entries[i].value.items
    OBVIOUS
  <2>6. Len(items) \in Nat /\ DOMAIN items = 1 .. Len(items) /\ \A k \in DOMAIN items : IsTree(items[k])
    BY <1>3, <2>2, <2>4, <2>5, TreeNodes
  <2>7. ss = [k \in 1 .. Len(items) |-> PathsOf(items[k])]
    BY <2>5, <2>6
  <2>8. \A k \in DOMAIN items : PathsOf(items[k]) \in Seq(STRING)
    BY <2>6, PathsAreNamed
  <2>9. ss \in Seq(Seq(STRING))
    BY <2>6, <2>7, <2>8
  <2>10. /\ FlattenSeq(ss) \in Seq(STRING)
         /\ \A j \in DOMAIN FlattenSeq(ss) : \E m \in DOMAIN ss : \E k \in DOMAIN ss[m] : FlattenSeq(ss)[j] = ss[m][k]
    <3> HIDE DEF ss
    <3> QED
      BY <2>9, FlattenedItems
  <2>11. ASSUME NEW j \in DOMAIN FlattenSeq(ss) PROVE NamedByFile(file, FlattenSeq(ss)[j])
    <3>1. PICK m \in DOMAIN items : \E k \in DOMAIN PathsOf(items[m]) : FlattenSeq(ss)[j] = PathsOf(items[m])[k]
      <4>1. PICK m \in DOMAIN ss : \E k \in DOMAIN ss[m] : FlattenSeq(ss)[j] = ss[m][k]
        BY <2>10
      <4>2. DOMAIN ss = DOMAIN items /\ ss[m] = PathsOf(items[m])
        BY <2>6, <2>7, <4>1
      <4> HIDE DEF ss
      <4> QED
        BY <4>1, <4>2
    <3>2. NamedByItem(items[m], FlattenSeq(ss)[j])
      BY <2>6, <3>1, PathsAreNamed
    <3> QED
      BY <1>3, <2>1, <2>4, <2>5, <3>2 DEF NamedByFile
  <2>12. IncludedPaths(file) = FlattenSeq(ss)
    BY <1>1, <1>3
  <2> QED
    BY <2>10, <2>11, <2>12
<1> QED
  BY <1>2, <1>3

-----------------------------------------------------------------------------
(* The values of the entries of a map, and the items of a list.            *)
LEMMA ValueOfEntry ==
  ASSUME NEW x, x.node.kind = "map", NEW i \in DOMAIN x.node.entries, NEW key, x.node.entries[i].key = Str(key),
         x.node.entries[i].value.kind # "anchor"
  PROVE  /\ At(x.node.entries[i].value, Append(x.path, 2 * i)) \in RawValues(x, key)
         /\ At(x.node.entries[i].value, Append(x.path, 2 * i)) \in Values(x, key)
<1>1. PICK k, v : k = At(Str(key), Append(x.path, 2 * i - 1)) /\ v = At(x.node.entries[i].value, Append(x.path, 2 * i))
  OBVIOUS
<1>2. [key |-> k, value |-> v] \in RawEntries(x)
  BY <1>1 DEF RawEntries
<1>3. Text(k) = key /\ ResolveAnchor(k) = k /\ ResolveAnchor(v) = v
  BY <1>1 DEF At, Str, Text, ResolveAnchor
<1>4. [key |-> k, value |-> v] \in Entries(x)
  BY <1>2, <1>3 DEF Entries
<1>5. v \in RawValues(x, key)
  BY <1>2, <1>3 DEF RawValues
<1>6. v \in Values(x, key)
  BY <1>3, <1>4 DEF Values
<1> QED
  BY <1>1, <1>5, <1>6

(* An item of a list is found where it is.                                 *)
LEMMA ItemOfList ==
  ASSUME NEW x, x.node.kind = "list", NEW i \in DOMAIN x.node.items, x.node.items[i].kind # "anchor"
  PROVE  At(x.node.items[i], Append(x.path, i)) \in RawItems(x) /\ At(x.node.items[i], Append(x.path, i)) \in Items(x)
<1>1. PICK v : v = At(x.node.items[i], Append(x.path, i))
  OBVIOUS
<1>2. v \in RawItems(x)
  BY <1>1 DEF RawItems
<1>3. ResolveAnchor(v) = v
  BY <1>1 DEF At, ResolveAnchor
<1> QED
  BY <1>1, <1>2, <1>3 DEF Items

(* A place that is linked to a path and that is in the outline.            *)
ShownAt(file, x, path) ==
  /\ x.node.kind = "string" /\ x.node.value = path
  /\ FileLink(ResolveAnchor(x)) \in ComposeLinks(file) /\ TokenOf(x) \in ComposeSymbols(file)

(* What a file includes has a link and is in the outline.                  *)
LEMMA NamedIsShown ==
  ASSUME NEW file, NEW path, NamedByFile(file, path)
  PROVE  \E x : ShownAt(file, x, path)
<1>1. PICK i \in DOMAIN file.entries :
        /\ file.entries[i].key = Str("include") /\ file.entries[i].value.kind = "list"
        /\ \E m \in DOMAIN file.entries[i].value.items : NamedByItem(file.entries[i].value.items[m], path)
  BY DEF NamedByFile
<1>2. PICK v : v = At(file.entries[i].value, Append(<<>>, 2 * i))
  OBVIOUS
<1>3. v \in RawValues(Root(file), "include") /\ v \in Values(Root(file), "include") /\ v.node.kind = "list"
  <2>1. Root(file).node = file /\ Root(file).path = <<>>
    BY DEF Root, At
  <2>2. file.kind = "map"
    BY DEF NamedByFile
  <2>3. v.node = file.entries[i].value
    BY <1>2 DEF At
  <2> QED
    BY <1>1, <1>2, <2>1, <2>2, <2>3, ValueOfEntry
<1>4. PICK m \in DOMAIN v.node.items : NamedByItem(v.node.items[m], path)
  BY <1>1, <1>2 DEF At
<1>5. PICK item : item = At(v.node.items[m], Append(v.path, m))
  OBVIOUS
<1>6. item \in Items(v) /\ NamedByItem(item.node, path)
  <2>1. v.node.items[m].kind # "anchor" /\ item.node = v.node.items[m]
    BY <1>4, <1>5 DEF NamedByItem, At
  <2> QED
    BY <1>3, <1>4, <1>5, <2>1, ItemOfList
<1>7. item \in IncludeItems(file)
  BY <1>3, <1>6 DEF IncludeItems
<1>8. IncludedSymbols(IncludeItems(file)) \subseteq ComposeSymbols(file)
  BY DEF ComposeSymbols
<1>9. CASE item.node.kind = "string"
  <2>1. item.node.value = path
    BY <1>6, <1>9 DEF NamedByItem
  <2>2. ResolveAnchor(item) = item /\ IsString(item)
    BY <1>9 DEF ResolveAnchor, IsString
  <2>3. FileLink(item) \in IncludeLinks(file)
    BY <1>3, <1>6, <2>2 DEF IncludeLinks, FileLinks, Strings
  <2>4. TokenOf(item) \in ComposeSymbols(file)
    BY <1>7, <1>8, <2>2 DEF IncludedSymbols, Strings
  <2>5. FileLink(item) \in ComposeLinks(file)
    BY <2>3 DEF ComposeLinks
  <2> QED
    BY <1>9, <2>1, <2>2, <2>4, <2>5 DEF ShownAt
<1>10. CASE item.node.kind = "map"
  <2>1. PICK j \in DOMAIN item.node.entries : /\ item.node.entries[j].key = Str("path")
                                              /\ NamedBy(item.node.entries[j].value, path)
    BY <1>6, <1>10 DEF NamedByItem
  <2>2. PICK w : w = At(item.node.entries[j].value, Append(item.path, 2 * j))
    OBVIOUS
  <2>3. w.node = item.node.entries[j].value
    BY <2>2 DEF At
  <2>4. w.node.kind \in {"string", "list"} /\ NamedBy(w.node, path)
    BY <2>1, <2>3 DEF NamedBy
  <2>5. PICK e \in RawEntries(item) : e.value = w /\ Text(ResolveAnchor(e.key)) = "path"
    <3>1. PICK k : k = At(Str("path"), Append(item.path, 2 * j - 1))
      OBVIOUS
    <3>2. [key |-> k, value |-> w] \in RawEntries(item)
      BY <1>10, <2>1, <2>2, <3>1 DEF RawEntries
    <3>3. Text(ResolveAnchor(k)) = "path"
      BY <3>1 DEF At, Str, Text, ResolveAnchor
    <3> QED
      BY <3>2, <3>3
  <2>6. w \in Values(item, "path")
    BY <1>10, <2>1, <2>2, <2>3, <2>4, ValueOfEntry
  <2>7. CASE w.node.kind = "string"
    <3>1. w.node.value = path /\ ResolveAnchor(w) = w
      BY <2>4, <2>7 DEF NamedBy, ResolveAnchor
    <3>2. FileLink(ResolveAnchor(w)) \in IncludeLinks(file)
      BY <1>3, <1>6, <2>5, <2>7, <3>1 DEF IncludeLinks
    <3>3. TokenOf(w) \in ComposeSymbols(file)
      BY <1>7, <1>8, <2>6, <2>7 DEF IncludedSymbols
    <3> QED
      BY <2>7, <3>1, <3>2, <3>3 DEF ShownAt, ComposeLinks
  <2>8. CASE w.node.kind = "list"
    <3>1. PICK n \in DOMAIN w.node.items : w.node.items[n].kind = "string" /\ w.node.items[n].value = path
      BY <2>4, <2>8 DEF NamedBy
    <3>2. PICK x : x = At(w.node.items[n], Append(w.path, n))
      OBVIOUS
    <3>3. x.node = w.node.items[n]
      BY <3>2 DEF At
    <3>4. x \in RawItems(w) /\ x \in Items(w)
      BY <2>8, <3>1, <3>2, ItemOfList
    <3>5. FileLink(ResolveAnchor(x)) \in IncludeLinks(file)
      <4>1. ResolveAnchor(w) = w
        BY <2>8 DEF ResolveAnchor
      <4> QED
        BY <1>3, <1>6, <2>5, <2>8, <3>1, <3>3, <3>4, <4>1 DEF IncludeLinks
    <3>6. TokenOf(x) \in ComposeSymbols(file)
      BY <1>7, <1>8, <2>6, <2>8, <3>4 DEF IncludedSymbols
    <3> QED
      BY <3>1, <3>3, <3>5, <3>6 DEF ShownAt, ComposeLinks
  <2> QED
    BY <2>4, <2>7, <2>8
<1> QED
  BY <1>6, <1>9, <1>10 DEF NamedByItem

(* What is included has a link and a symbol.                               *)
LEMMA IncludedIsShown ==
  ASSUME NEW f \in DOMAIN compose, IsTree(compose[f])
  PROVE  IncludesAreShown(f)
<1>1. ASSUME NEW g \in Included(f)
      PROVE  \E l \in ComposeLinks(compose[f]) : /\ l.to = "file" /\ l.target = g
                                               /\ \E s \in ComposeSymbols(compose[f]) : s.path = l.path
  <2>1. NamedByFile(compose[f], g)
    BY IncludesAreFiles, IncludesAreNamed DEF Followed
  <2>2. PICK x : ShownAt(compose[f], x, g)
    BY <2>1, NamedIsShown
  <2>3. ResolveAnchor(x) = x /\ Text(x) = g
    BY <2>2 DEF ShownAt, ResolveAnchor, Text
  <2>4. FileLink(x).to = "file" /\ FileLink(x).target = g /\ FileLink(x).path = x.path /\ TokenOf(x).path = x.path
    BY <2>3 DEF FileLink, TokenOf
  <2> QED
    BY <2>2, <2>3, <2>4 DEF ShownAt
<1> QED
  BY <1>1 DEF IncludesAreShown

-----------------------------------------------------------------------------
(* The files are trees, however they are edited.                           *)
FilesTyped == DOMAIN compose = DOMAIN InitialCompose /\ FilesAreTrees

(* This is an invariant of every edit.                                     *)
LEMMA FilesStayTrees == SpecFiles => []FilesTyped
<1>1. InitFiles => FilesTyped
  BY FilesAssumption DEF InitFiles, FilesTyped, FilesAreTrees
<1>2. FilesTyped /\ [NextFiles]_compose => FilesTyped'
  <2> SUFFICES ASSUME FilesTyped, [NextFiles]_compose PROVE FilesTyped'
    OBVIOUS
  <2>1. ASSUME NEW file \in DOMAIN compose, NEW node \in Tree[Depth], ReplaceFile(file, node) PROVE FilesTyped'
    BY <2>1 DEF ReplaceFile, FilesTyped, FilesAreTrees
  <2>2. CASE UNCHANGED compose
    BY <2>2 DEF FilesTyped, FilesAreTrees
  <2> QED
    BY <2>1, <2>2 DEF NextFiles
<1> QED
  BY <1>1, <1>2, PTL DEF SpecFiles

(* What the types say of the files.                                        *)
LEMMA FilesAreTyped ==
  ASSUME FilesTyped
  PROVE  IsFiniteSet(DOMAIN compose) /\ PathsAreNumbered /\ \A f \in DOMAIN compose : IsTree(compose[f])
<1>1. IsFiniteSet(DOMAIN compose)
  BY FilesAssumption DEF FilesTyped
<1>2. \A f \in DOMAIN compose : IsTree(compose[f])
  BY FilesAssumption DEF FilesTyped, FilesAreTrees, IsTree
<1>3. ASSUME NEW f \in DOMAIN compose PROVE DOMAIN IncludedPaths(compose[f]) \subseteq Nat
  <2>1. PICK paths : paths = IncludedPaths(compose[f])
    OBVIOUS
  <2>2. paths \in Seq(STRING)
    BY <1>2, <2>1, IncludesAreNamed
  <2> QED
    BY <2>1, <2>2
<1> QED
  BY <1>1, <1>2, <1>3 DEF PathsAreNumbered

(* The search for included files, of whichever files include each other,   *)
(* ends; it has an answer if each file is included at one place, and none  *)
(* if it comes to a file that includes itself; what it finds is all that   *)
(* is reached, and what is included has a link and is in the outline.      *)
THEOREM FollowsIncludes == SpecFiles => []IncludesAreFollowed
<1>1. FilesTyped => IncludesAreFollowed
  BY FilesAreTyped, SearchIsComplete, IncludedIsShown DEF IncludesAreFollowed, FilesTyped
<1> QED
  BY <1>1, FilesStayTrees, PTL

-----------------------------------------------------------------------------
(* What the attributes of a service are looked up in, for services above   *)
(* it, depends on larger sets of services only.                            *)
LEMMA PropertiesGrow ==
  ASSUME NEW props, NEW s \in SUBSET DOMAIN props, NEW x \in DOMAIN props, NEW g, NEW h,
         SameAbove(DOMAIN props, g, h, s)
  PROVE  PropertiesUpTo(props, g, s, x) = PropertiesUpTo(props, h, s, x)
<1>1. CASE x \in s
  BY <1>1 DEF PropertiesUpTo
<1>2. CASE x \notin s
  <2>1. PICK t : t = s \union {x}
    OBVIOUS
  <2>2. g[t] = h[t]
    BY <1>2, <2>1 DEF SameAbove
  <2> QED
    BY <2>1, <2>2 DEF PropertiesUpTo
<1> QED
  BY <1>1, <1>2

(* The hierarchy is defined for all sets of services.                      *)
LEMMA HierarchyDefined ==
  ASSUME NEW props, IsFiniteSet(DOMAIN props)
  PROVE  \A s \in SUBSET DOMAIN props : \A x \in DOMAIN props :
           HierarchyProperties(props)[s][x] = PropertiesUpTo(props, HierarchyProperties(props), s, x)
<1> DEFINE D          == DOMAIN props
           Row(g, s)  == [x \in D |-> PropertiesUpTo(props, g, s, x)]
           From(g, n) == [s \in LeftLess(D, n) |-> Row(g, s)]
           N          == Cardinality(D) + 1
           Defined    == {n \in 0 .. N : \E g : g = From(g, n)}
<1>1. N \in Nat /\ LeftLess(D, 0) = {} /\ LeftLess(D, N) = SUBSET D
  BY LeftLessBounds
<1>2. \A n \in 0 .. N : n \in Defined
  <2>1. 0 \in Defined
    <3> HIDE DEF Row
    <3>1. From(<<>>, 0) = From(From(<<>>, 0), 0)
      BY <1>1
    <3>2. 0 \in 0 .. N
      BY <1>1
    <3> HIDE DEF From
    <3> QED
      BY <3>1, <3>2
  <2>2. ASSUME NEW n \in 0 .. N - 1, n \in Defined PROVE n + 1 \in Defined
    <3>1. PICK g : g = From(g, n)
      BY <2>2
    <3>2. PICK h : h = From(g, n + 1)
      OBVIOUS
    <3>3. n \in Nat /\ n + 1 \in 0 .. N
      BY <1>1
    <3>4. ASSUME NEW s \in LeftLess(D, n + 1) PROVE Row(g, s) = Row(h, s)
      <4>1. s \in SUBSET D
        BY DEF LeftLess
      <4>2. ASSUME NEW t \in SUBSET D, s \subseteq t, s # t PROVE g[t] = h[t]
        <5>1. t \in LeftLess(D, n) /\ t \in LeftLess(D, n + 1)
          <6>1. IsFiniteSet(D)
            OBVIOUS
          <6> HIDE DEF D
          <6> QED
            BY <3>3, <4>2, <6>1, LeftLessAbove
        <5> HIDE DEF Row
        <5>2. g[t] = Row(g, t)
          BY <3>1, <5>1, Zenon
        <5>3. h[t] = Row(g, t)
          BY <3>2, <5>1
        <5> QED
          BY <5>2, <5>3
      <4>3. SameAbove(D, g, h, s)
        BY <4>2 DEF SameAbove
      <4>4. \A x \in D : PropertiesUpTo(props, g, s, x) = PropertiesUpTo(props, h, s, x)
        BY <4>1, <4>3, PropertiesGrow
      <4> QED
        BY <4>4
    <3> HIDE DEF Row
    <3>5. h = From(h, n + 1)
      BY <3>2, <3>4
    <3> HIDE DEF From
    <3> QED
      BY <3>3, <3>5
  <2> HIDE DEF Defined
  <2> QED
    BY <1>1, <2>1, <2>2, InductionUpTo
<1>3. PICK g : g = From(g, N)
  <2>1. N \in 0 .. N
    BY <1>1
  <2> HIDE DEF From, N
  <2> QED
    BY <1>2, <2>1
<1>4. PICK u : u = HierarchyProperties(props)
  OBVIOUS
<1>5. u = [s \in SUBSET D |-> Row(u, s)]
  <2>1. g = [s \in SUBSET D |-> Row(g, s)]
    BY <1>1, <1>3
  <2> QED
    BY <1>4, <2>1, Zenon DEF HierarchyProperties
<1>6. ASSUME NEW s \in SUBSET D, NEW x \in D PROVE u[s][x] = PropertiesUpTo(props, u, s, x)
  <2>1. u[s] = Row(u, s)
    <3> HIDE DEF Row
    <3> QED
      BY <1>5
  <2> QED
    BY <2>1
<1> QED
  BY <1>4, <1>6

-----------------------------------------------------------------------------
(* A service extends at most one.                                          *)
LEMMA ParentIsOne ==
  ASSUME NEW props, NEW s
  PROVE  Parent(props, s) = <<>> \/ \E x : Parent(props, s) = <<x>>
<1>1. Extended(s, props[s]) = <<>> \/ \E x : Extended(s, props[s]) = <<x>>
  <2>1. PICK v : v = props[s]["extends"]
    OBVIOUS
  <2>2. CASE "extends" \notin DOMAIN props[s]
    BY <2>2 DEF Extended
  <2>3. CASE "extends" \in DOMAIN props[s] /\ IsString(v)
    <3>1. Extended(s, props[s]) = IF Text(v) = s THEN <<>> ELSE <<Text(v)>>
      BY <2>1, <2>3 DEF Extended, IsString
    <3> QED
      BY <3>1
  <2>4. CASE /\ "extends" \in DOMAIN props[s] /\ ~IsString(v)
             /\ v.node.kind = "map" /\ RawValues(v, "file") = {} /\ RawValues(v, "service") # {}
    BY <2>1, <2>4 DEF Extended
  <2>5. CASE /\ "extends" \in DOMAIN props[s] /\ ~IsString(v)
             /\ ~(v.node.kind = "map" /\ RawValues(v, "file") = {} /\ RawValues(v, "service") # {})
    BY <2>1, <2>5 DEF Extended
  <2> QED
    BY <2>2, <2>3, <2>4, <2>5
<1> QED
  BY <1>1 DEF Parent

(* The services up the chain of a service, of up to N.                     *)
Linked(props, service, chain, N) ==
  /\ chain[0] = <<service>>
  /\ \A n \in 0 .. N : chain[n] # <<>> => \E x : chain[n] = <<x>>
  /\ \A n \in 0 .. N : n # 0 => chain[n] = IF chain[n - 1] = <<>> THEN <<>> ELSE Parent(props, chain[n - 1][1])

(* The chain of a service is defined for any number of steps.              *)
LEMMA ChainDefined ==
  ASSUME NEW props, NEW service, IsFiniteSet(DOMAIN props)
  PROVE  /\ DOMAIN Chain(props, service) = 0 .. Cardinality(DOMAIN props) + 1
         /\ Linked(props, service, Chain(props, service), Cardinality(DOMAIN props) + 1)
<1> DEFINE N          == Cardinality(DOMAIN props) + 1
           Next(g, n) == IF g[n - 1] = <<>> THEN <<>> ELSE Parent(props, g[n - 1][1])
           From(g, m) == [n \in 0 .. m |-> IF n = 0 THEN <<service>> ELSE Next(g, n)]
           Defined    == {n \in 0 .. N : \E g : g = From(g, n)}
<1>1. N \in Nat
  BY FS_CardinalityType
<1> HIDE DEF N
<1>2. \A n \in 0 .. N : n \in Defined
  <2>1. 0 \in Defined
    <3> HIDE DEF Next
    <3>1. From(<<>>, 0) = From(From(<<>>, 0), 0)
      OBVIOUS
    <3>2. 0 \in 0 .. N
      BY <1>1
    <3> HIDE DEF From
    <3> QED
      BY <3>1, <3>2
  <2>2. ASSUME NEW n \in 0 .. N - 1, n \in Defined PROVE n + 1 \in Defined
    <3>1. PICK g : g = From(g, n)
      BY <2>2
    <3>2. n \in Nat /\ n + 1 \in 0 .. N
      BY <1>1
    <3>3. PICK h : h = From(g, n + 1)
      OBVIOUS
    <3>4. ASSUME NEW d \in 0 .. n + 1, d # 0 PROVE g[d - 1] = h[d - 1]
      <4>1. d - 1 \in 0 .. n /\ d - 1 \in 0 .. n + 1
        BY <3>2, <3>4
      <4> HIDE DEF Next
      <4> QED
        BY <3>1, <3>3, <4>1
    <3>5. \A d \in 0 .. n + 1 : (IF d = 0 THEN <<service>> ELSE Next(g, d)) = IF d = 0 THEN <<service>> ELSE Next(h, d)
      BY <3>4
    <3> HIDE DEF Next
    <3>6. h = From(h, n + 1)
      BY <3>3, <3>5
    <3> HIDE DEF From
    <3> QED
      BY <3>2, <3>6
  <2> HIDE DEF Defined
  <2> QED
    BY <1>1, <2>1, <2>2, InductionUpTo
<1>3. PICK g : g = From(g, N)
  <2>1. N \in 0 .. N
    BY <1>1
  <2> HIDE DEF From
  <2> QED
    BY <1>2, <2>1
<1>4. PICK u : u = Chain(props, service)
  OBVIOUS
<1>5. u = From(u, N)
  BY <1>3, <1>4, Zenon DEF Chain, N
<1>6. DOMAIN u = 0 .. N
  BY <1>5
<1>7. u[0] = <<service>>
  BY <1>1, <1>5
<1>8. ASSUME NEW n \in 0 .. N, n # 0 PROVE u[n] = Next(u, n)
  <2> HIDE DEF Next
  <2> QED
    BY <1>5, <1>8
<1>9. \A n \in 0 .. N : u[n] # <<>> => \E x : u[n] = <<x>>
  BY <1>7, <1>8, ParentIsOne
<1> QED
  BY <1>4, <1>6, <1>7, <1>8, <1>9 DEF Linked, N

(* A chain that does not come back to where it was comes to an end.        *)
NotBack(chain, N) == \A n, m \in 0 .. N : n # m /\ chain[n] # <<>> => chain[n] # chain[m]

Ends(chain, L, N) ==
  L \in 1 .. N /\ (\A n \in 0 .. L - 1 : chain[n] # <<>>) /\ \A n \in L .. N : chain[n] = <<>>

(* By the pigeonhole principle it ends before it is longer than there are  *)
(* services.                                                               *)
LEMMA ChainEnds ==
  ASSUME NEW props, NEW service, NEW chain, IsFiniteSet(DOMAIN props), NEW N, N = Cardinality(DOMAIN props) + 1,
         Linked(props, service, chain, N), NotBack(chain, N)
  PROVE  \E L : Ends(chain, L, N)
<1> DEFINE D == DOMAIN props
           T == {n \in 0 .. N : chain[n] = <<>>}
<1>1. N \in Nat /\ N - 1 \in Nat /\ Cardinality(D) = N - 1
  BY FS_CardinalityType
<1>2. T # {}
  <2> SUFFICES ASSUME T = {} PROVE FALSE
    OBVIOUS
  <2>1. ASSUME NEW n \in 0 .. N - 1 PROVE chain[n][1] \in D
    <3>1. n + 1 \in 0 .. N /\ n + 1 # 0 /\ (n + 1) - 1 = n
      BY <1>1
    <3>2. chain[n + 1] # <<>>
      BY <3>1
    <3>3. chain[n + 1] = IF chain[n] = <<>> THEN <<>> ELSE Parent(props, chain[n][1])
      BY <3>1 DEF Linked
    <3> QED
      BY <3>2, <3>3 DEF Parent
  <2>2. PICK S : S = 0 .. N - 1
    OBVIOUS
  <2>3. IsFiniteSet(S) /\ Cardinality(S) = N
    BY <1>1, <2>2, FS_Interval
  <2>4. PICK f : f = [n \in S |-> chain[n][1]]
    OBVIOUS
  <2>5. f \in [S -> D]
    BY <2>1, <2>2, <2>4
  <2>6. PICK n, m \in S : n # m /\ f[n] = f[m]
    <3> HIDE DEF D
    <3>1. IsFiniteSet(D) /\ Cardinality(D) < Cardinality(S)
      BY <1>1, <2>3 DEF D
    <3> QED
      BY <2>3, <2>5, <3>1, FS_PigeonHole
  <2>7. n \in 0 .. N /\ m \in 0 .. N /\ chain[n] # <<>> /\ chain[m] # <<>>
    BY <1>1, <2>2
  <2>8. chain[n] = <<chain[n][1]>> /\ chain[m] = <<chain[m][1]>>
    BY <2>7 DEF Linked
  <2> QED
    BY <2>4, <2>6, <2>7, <2>8 DEF NotBack
<1>3. T \in SUBSET Nat
  OBVIOUS
<1> HIDE DEF T
<1>4. PICK L \in T : \A n \in T : L <= n
  BY <1>2, <1>3, LeastNumber
<1> USE DEF T
<1>5. L \in 1 .. N /\ chain[L] = <<>> /\ L \in Nat
  <2>1. L \in 0 .. N /\ chain[L] = <<>>
    OBVIOUS
  <2>2. chain[0] # <<>>
    BY DEF Linked
  <2> HIDE DEF T
  <2> QED
    BY <1>1, <2>1, <2>2
<1>6. ASSUME NEW n \in 0 .. L - 1 PROVE chain[n] # <<>>
  <2>1. n \in 0 .. N /\ ~(L <= n)
    BY <1>1, <1>5
  <2> QED
    BY <1>4, <2>1
<1> DEFINE Good == {n \in 0 .. N : L <= n => chain[n] = <<>>}
<1>7. ASSUME NEW n \in 0 .. N - 1, n \in Good PROVE n + 1 \in Good
  <2>1. n + 1 \in 0 .. N /\ n + 1 # 0 /\ (n + 1) - 1 = n
    BY <1>1
  <2>2. CASE L <= n
    BY <1>7, <2>1, <2>2 DEF Linked
  <2>3. CASE ~(L <= n)
    <3>1. L <= n + 1 => n + 1 = L
      BY <1>5, <2>3
    <3> QED
      BY <1>5, <2>1, <3>1
  <2> QED
    BY <2>2, <2>3
<1>8. 0 \in Good
  BY <1>1, <1>5
<1> HIDE DEF Good
<1>9. \A n \in 0 .. N : n \in Good
  BY <1>1, <1>7, <1>8, InductionUpTo
<1>10. \A n \in L .. N : chain[n] = <<>>
  BY <1>1, <1>5, <1>9 DEF Good
<1> QED
  BY <1>5, <1>6, <1>10 DEF Ends

(* The attributes of the n-th service up the chain.                        *)
Own(props, chain, n) == IF chain[n][1] \in DOMAIN props THEN props[chain[n][1]] ELSE NoAttributes

(* Below the n-th.                                                         *)
Walked(chain, n) == {chain[m][1] : m \in 0 .. n - 1}

(* From the n-th on, that is n services before the end, the hierarchy has  *)
(* the attributes of the services of the chain, the last first.            *)
Climbs(props, chain, L, n) ==
  chain[n][1] \in DOMAIN props
    => HierarchyProperties(props)[Walked(chain, n)][chain[n][1]] = [j \in 1 .. L - n |-> Own(props, chain, L - j)]

(* So it is for each service of the chain, by induction from its end.      *)
LEMMA HierarchyIsChain ==
  ASSUME NEW props, NEW service \in DOMAIN props, NEW chain, IsFiniteSet(DOMAIN props), NEW N \in Nat,
         Linked(props, service, chain, N), NotBack(chain, N), NEW L, Ends(chain, L, N)
  PROVE  HierarchyProperties(props)[{}][service] = [j \in 1 .. L |-> Own(props, chain, L - j)]
<1> DEFINE D == DOMAIN props
           Good == {d \in 0 .. L - 1 : Climbs(props, chain, L, L - 1 - d)}
<1>1. L \in Nat /\ L # 0 /\ L <= N /\ L - 1 \in Nat
  BY DEF Ends
<1>2. ASSUME NEW n \in 0 .. L - 1
      PROVE  /\ n \in 0 .. N /\ n + 1 \in 0 .. N /\ chain[n] = <<chain[n][1]>>
             /\ chain[n + 1] = Parent(props, chain[n][1])
  <2>1. n \in 0 .. N /\ n + 1 \in 0 .. N /\ n + 1 # 0 /\ (n + 1) - 1 = n
    BY <1>1
  <2>2. chain[n] # <<>>
    BY DEF Ends
  <2>3. PICK x : chain[n] = <<x>>
    BY <2>1, <2>2 DEF Linked
  <2>4. chain[n + 1] = IF chain[n] = <<>> THEN <<>> ELSE Parent(props, chain[n][1])
    BY <2>1 DEF Linked
  <2> QED
    BY <2>1, <2>2, <2>3, <2>4
<1>3. ASSUME NEW n \in 0 .. L - 1, NEW m \in 0 .. L - 1, chain[n][1] = chain[m][1] PROVE n = m
  <2>1. chain[n] = chain[m] /\ chain[n] # <<>> /\ n \in 0 .. N /\ m \in 0 .. N
    BY <1>2, <1>3 DEF Ends
  <2> QED
    BY <2>1 DEF NotBack
<1>4. ASSUME NEW n \in 0 .. L - 1, chain[n][1] \in D, n < L - 1 => Climbs(props, chain, L, n + 1)
      PROVE  Climbs(props, chain, L, n)
  <2>1. PICK H : H = HierarchyProperties(props)
    OBVIOUS
  <2>2. PICK x : x = chain[n][1]
    OBVIOUS
  <2>3. PICK W : W = Walked(chain, n)
    OBVIOUS
  <2>4. x \notin W
    <3>1. \A m \in 0 .. n - 1 : m \in 0 .. L - 1 /\ m # n
      BY <1>1
    <3> QED
      BY <1>3, <2>2, <2>3, <3>1 DEF Walked
  <2>5. W \union {x} = Walked(chain, n + 1)
    <3>1. 0 .. (n + 1) - 1 = (0 .. n - 1) \union {n}
      BY <1>1
    <3> QED
      BY <2>2, <2>3, <3>1 DEF Walked
  <2>6. W \in SUBSET D
    <3>1. ASSUME NEW m \in 0 .. n - 1 PROVE chain[m][1] \in D
      <4>1. m \in 0 .. L - 1 /\ m + 1 \in 0 .. L - 1
        BY <1>1
      <4>2. chain[m + 1] # <<>>
        BY <4>1 DEF Ends
      <4> QED
        BY <1>2, <4>1, <4>2 DEF Parent
    <3> QED
      BY <2>3, <3>1 DEF Walked
  <2>7. H[W][x] = PropertiesUpTo(props, H, W, x)
    BY <1>4, <2>1, <2>2, <2>6, HierarchyDefined
  <2>8. Extended(x, props[x]) = chain[n + 1]
    BY <1>2, <1>4, <2>2 DEF Parent
  <2>9. Own(props, chain, n) = props[x]
    BY <1>4, <2>2 DEF Own
  <2>10. PICK other : other = chain[n + 1][1]
    OBVIOUS
  <2>11. PICK above : above = IF chain[n + 1] = <<>> THEN <<>>
                              ELSE IF other \in D THEN H[W \union {x}][other] ELSE <<NoAttributes>>
    OBVIOUS
  <2>12. H[W][x] = Append(above, props[x])
    BY <2>4, <2>7, <2>8, <2>10, <2>11, Zenon DEF PropertiesUpTo
  <2>13. above = [j \in 1 .. L - n - 1 |-> Own(props, chain, L - j)]
    <3>1. CASE n = L - 1
      <4>1. chain[n + 1] = <<>>
        BY <1>1, <3>1 DEF Ends
      <4>2. 1 .. L - n - 1 = {}
        BY <1>1, <3>1
      <4> QED
        BY <2>11, <4>1, <4>2
    <3>2. CASE n < L - 1
      <4>1. n + 1 \in 0 .. L - 1
        BY <1>1, <3>2
      <4>2. chain[n + 1] # <<>>
        BY <4>1 DEF Ends
      <4>3. CASE other \in D
        <5>1. HierarchyProperties(props)[Walked(chain, n + 1)][chain[n + 1][1]]
                = [j \in 1 .. L - (n + 1) |-> Own(props, chain, L - j)]
          BY <1>4, <2>10, <3>2, <4>3 DEF Climbs
        <5>2. L - (n + 1) = L - n - 1
          BY <1>1
        <5> QED
          BY <2>1, <2>5, <2>10, <2>11, <4>2, <4>3, <5>1, <5>2
      <4>4. CASE other \notin D
        <5>1. chain[(n + 1) + 1] = <<>>
          BY <1>2, <2>10, <4>1, <4>4 DEF Parent
        <5>2. n + 1 = L - 1
          <6> SUFFICES ASSUME n + 1 # L - 1 PROVE FALSE
            OBVIOUS
          <6>1. (n + 1) + 1 \in 0 .. L - 1
            BY <1>1, <4>1
          <6> QED
            BY <5>1, <6>1 DEF Ends
        <5>3. above = <<NoAttributes>>
          BY <2>11, <4>2, <4>4
        <5>4. Own(props, chain, L - 1) = NoAttributes
          BY <2>10, <4>4, <5>2 DEF Own
        <5>5. L - n - 1 = 1
          BY <1>1, <5>2
        <5>6. [j \in 1 .. 1 |-> Own(props, chain, L - j)] = <<Own(props, chain, L - 1)>>
          OBVIOUS
        <5> QED
          BY <5>3, <5>4, <5>5, <5>6
      <4> QED
        BY <4>3, <4>4
    <3> QED
      BY <1>1, <3>1, <3>2
  <2>14. Append(above, props[x]) = [j \in 1 .. L - n |-> Own(props, chain, L - j)]
    <3>1. L - n - 1 \in Nat /\ L - n = (L - n - 1) + 1 /\ L - (L - n) = n
      BY <1>1
    <3>2. PICK M : M = L - n - 1
      OBVIOUS
    <3> DEFINE O(j) == Own(props, chain, L - j)
    <3>3. O(M + 1) = props[x]
      BY <2>9, <3>1, <3>2
    <3> HIDE DEF O
    <3>4. above = [j \in 1 .. M |-> O(j)] /\ M \in Nat
      BY <2>13, <3>1, <3>2 DEF O
    <3>5. Append(above, O(M + 1)) = [j \in 1 .. M + 1 |-> O(j)]
      BY <3>4
    <3> QED
      BY <3>1, <3>2, <3>3, <3>5 DEF O
  <2> QED
    BY <2>1, <2>2, <2>3, <2>12, <2>14 DEF Climbs
<1>5. 0 \in Good
  <2>1. L - 1 - 0 = L - 1 /\ L - 1 \in 0 .. L - 1 /\ ~(L - 1 < L - 1)
    BY <1>1
  <2>2. Climbs(props, chain, L, L - 1)
    BY <1>4, <2>1 DEF Climbs
  <2> QED
    BY <1>1, <2>1, <2>2
<1>6. ASSUME NEW d \in 0 .. (L - 1) - 1, d \in Good PROVE d + 1 \in Good
  <2>1. PICK n : n = L - 1 - (d + 1)
    OBVIOUS
  <2>2. n \in 0 .. L - 1 /\ n + 1 = L - 1 - d /\ d + 1 \in 0 .. L - 1
    BY <1>1, <2>1
  <2>3. Climbs(props, chain, L, n + 1)
    BY <1>6, <2>2
  <2>4. Climbs(props, chain, L, n)
    BY <1>4, <2>2, <2>3 DEF Climbs
  <2> QED
    BY <2>1, <2>2, <2>4
<1> HIDE DEF Good
<1>7. \A d \in 0 .. L - 1 : d \in Good
  BY <1>1, <1>5, <1>6, InductionUpTo
<1>8. Climbs(props, chain, L, 0)
  <2>1. L - 1 \in 0 .. L - 1 /\ L - 1 - (L - 1) = 0
    BY <1>1
  <2> QED
    BY <1>7, <2>1 DEF Good
<1>9. chain[0][1] = service /\ Walked(chain, 0) = {} /\ L - 0 = L
  <2>1. chain[0] = <<service>>
    BY DEF Linked
  <2>2. 0 .. 0 - 1 = {}
    OBVIOUS
  <2> QED
    BY <1>1, <2>1, <2>2 DEF Walked
<1> QED
  BY <1>8, <1>9 DEF Climbs

(* What is looked up for a service are the attributes of those above it,   *)
(* the nearest first.                                                      *)
LEMMA ParentsAreChain ==
  ASSUME NEW props, NEW service \in DOMAIN props, NEW chain, IsFiniteSet(DOMAIN props), NEW N \in Nat,
         Linked(props, service, chain, N), NotBack(chain, N), NEW L, Ends(chain, L, N)
  PROVE  ParentProperties(service, props) = [n \in 1 .. L - 1 |-> Own(props, chain, n)]
<1>1. L \in Nat /\ L # 0 /\ L - 1 \in Nat
  BY DEF Ends
<1> DEFINE O(n) == Own(props, chain, n)
<1>2. HierarchyProperties(props)[{}][service] = [j \in 1 .. L |-> O(L - j)]
  BY HierarchyIsChain
<1> HIDE DEF O
<1>3. PICK h : h = [j \in 1 .. L |-> O(L - j)]
  OBVIOUS
<1>4. Len(h) = L
  BY <1>1, <1>3
<1>5. \A i \in 1 .. L : h[(L - i) + 1] = O(i - 1)
  <2> SUFFICES ASSUME NEW i \in 1 .. L PROVE h[(L - i) + 1] = O(i - 1)
    OBVIOUS
  <2>1. (L - i) + 1 \in 1 .. L /\ L - ((L - i) + 1) = i - 1
    BY <1>1
  <2> QED
    BY <1>3, <2>1
<1>6. PICK r : r = Reverse(h)
  OBVIOUS
<1>7. r = [i \in 1 .. L |-> O(i - 1)]
  BY <1>4, <1>5, <1>6 DEF Reverse
<1>8. Tail(r) = [n \in 1 .. L - 1 |-> O(n)]
  <2>1. Len(r) = L
    BY <1>1, <1>7
  <2>2. Tail(r) = [i \in 1 .. L - 1 |-> r[i + 1]]
    BY <1>1, <1>7, <2>1
  <2>3. ASSUME NEW i \in 1 .. L - 1 PROVE r[i + 1] = O(i)
    <3>1. i + 1 \in 1 .. L /\ (i + 1) - 1 = i
      BY <1>1
    <3> QED
      BY <1>7, <3>1
  <2> QED
    BY <2>2, <2>3
<1> QED
  BY <1>2, <1>3, <1>6, <1>8 DEF ParentProperties, O

-----------------------------------------------------------------------------
(* A file has finitely many services.                                      *)
LEMMA ServicesAreFinite ==
  ASSUME NEW file, IsTree(file)
  PROVE  IsFiniteSet(DOMAIN AllServiceProperties(file))
<1>1. ASSUME NEW x, x.node.kind = "map" => IsTree(x.node)
      PROVE  IsFiniteSet(RawEntries(x)) /\ \A e \in RawEntries(x) : IsTree(e.value.node)
  <2>1. CASE x.node.kind # "map"
    BY <2>1, FS_EmptySet DEF RawEntries
  <2>2. CASE x.node.kind = "map"
    <3> DEFINE E(i) == [key   |-> At(x.node.entries[i].key, Append(x.path, 2 * i - 1)),
                        value |-> At(x.node.entries[i].value, Append(x.path, 2 * i))]
    <3>1. PICK n \in Nat : DOMAIN x.node.entries = 1 .. n
      BY <1>1, <2>2, TreeNodes
    <3>2. RawEntries(x) = {E(i) : i \in 1 .. n}
      BY <2>2, <3>1 DEF RawEntries
    <3>3. \A i \in 1 .. n : IsTree(E(i).value.node)
      BY <1>1, <2>2, <3>1, TreeNodes DEF At
    <3> HIDE DEF E
    <3>4. PICK f : f = [i \in 1 .. n |-> E(i)]
      OBVIOUS
    <3>5. IsFiniteSet(1 .. n)
      BY FS_Interval
    <3>6. IsFiniteSet({f[i] : i \in 1 .. n})
      BY <3>4, <3>5, FiniteImage
    <3>7. {f[i] : i \in 1 .. n} = RawEntries(x)
      BY <3>2, <3>4
    <3> QED
      BY <3>2, <3>3, <3>6, <3>7
  <2> QED
    BY <2>1, <2>2
<1>2. PICK es : es = RawEntries(Root(file))
  OBVIOUS
<1>3. IsFiniteSet(es) /\ \A e \in es : IsTree(e.value.node)
  BY <1>1, <1>2 DEF Root, At
<1>4. PICK fs : fs = {e \in es : Text(e.key) = "services"}
  OBVIOUS
<1>5. IsFiniteSet(fs)
  BY <1>3, <1>4, FS_Subset
<1>6. PICK g : g = [e \in fs |-> RawEntries(e.value)]
  OBVIOUS
<1>7. IsFiniteSet({g[e] : e \in fs}) /\ \A T \in {g[e] : e \in fs} : IsFiniteSet(T)
  <2>1. \A e \in fs : IsFiniteSet(RawEntries(e.value))
    BY <1>1, <1>3, <1>4
  <2>2. IsFiniteSet({g[e] : e \in fs})
    BY <1>5, <1>6, FiniteImage
  <2> QED
    BY <1>6, <2>1, <2>2
<1>8. PICK all : all = UNION {g[e] : e \in fs}
  OBVIOUS
<1>9. IsFiniteSet(all)
  BY <1>7, <1>8, FS_UNION
<1>10. PICK services : services = {e \in UNION {RawEntries(o) : o \in RawValues(Root(file), "services")} :
                                     e.value.node.kind = "map"}
  OBVIOUS
<1>11. services \subseteq all
  BY <1>2, <1>4, <1>6, <1>8, <1>10 DEF RawValues
<1>12. IsFiniteSet(services)
  BY <1>9, <1>11, FS_Subset
<1>13. PICK names : names = [s \in services |-> Text(s.key)]
  OBVIOUS
<1>14. IsFiniteSet({names[s] : s \in services})
  BY <1>12, <1>13, FiniteImage
<1>15. DOMAIN AllServiceProperties(file) = {Text(s.key) : s \in services}
  BY <1>10 DEF AllServiceProperties
<1> QED
  BY <1>13, <1>14, <1>15

(* The hints of an attribute of a service are those of the file.           *)
LEMMA HintsOfAttribute ==
  ASSUME NEW file, NEW props, props = AllServiceProperties(file), NEW service \in DOMAIN props,
         NEW a \in DOMAIN props[service] \ {"extends"}, props[service][a].node.kind # "map"
  PROVE  {h \in ComposeHints(file) : h.service = service /\ h.attribute = a} = AttributeHints(props, service, a)
<1>1. ASSUME NEW s, NEW b, NEW h \in AttributeHints(props, s, b) PROVE h.service = s /\ h.attribute = b
  BY DEF AttributeHints
<1>2. ComposeHints(file)
        = UNION {UNION {AttributeHints(props, s, b) : b \in HintedAttributes(props, s)} : s \in DOMAIN props}
  BY DEF ComposeHints
<1>3. AttributeHints(props, service, a) \subseteq ComposeHints(file)
  <2>1. a \in HintedAttributes(props, service)
    BY DEF HintedAttributes
  <2> QED
    BY <1>2, <2>1
<1>4. \A h \in ComposeHints(file) : \E s, b : h \in AttributeHints(props, s, b)
  BY <1>2
<1> QED
  BY <1>1, <1>3, <1>4

(* The value of the nearest service up the chain that has the attribute    *)
(* is the one that is shown.                                               *)
LEMMA ParentIsShown ==
  ASSUME NEW file, IsTree(file), NEW service \in DOMAIN AllServiceProperties(file),
         NEW a \in DOMAIN AllServiceProperties(file)[service] \ {"extends"}
  PROVE  ParentValueIsInherited(file, service, a)
<1>1. PICK props : props = AllServiceProperties(file)
  OBVIOUS
<1>2. PICK chain : chain = Chain(props, service)
  OBVIOUS
<1>3. PICK N : N = Cardinality(DOMAIN props) + 1
  OBVIOUS
<1>4. IsFiniteSet(DOMAIN props) /\ N \in Nat /\ DOMAIN chain = 0 .. N /\ Linked(props, service, chain, N)
  BY <1>1, <1>2, <1>3, ServicesAreFinite, ChainDefined, FS_CardinalityType
<1>5. PICK having : having = Having(props, chain, a)
  OBVIOUS
<1> DEFINE Value(n) == props[chain[n][1]][a]
           shown    == {h.parent : h \in {h \in ComposeHints(file) : h.service = service /\ h.attribute = a}}
           nearest  == {n \in having : \A m \in having : n <= m}
<1>6. ASSUME NotBack(chain, N), \A n \in having \union {0} : Value(n).node.kind # "map"
      PROVE  shown = {Text(Value(n)) : n \in nearest}
  <2>1. PICK L : Ends(chain, L, N)
    BY <1>3, <1>4, <1>6, ChainEnds
  <2>2. PICK above : above = ParentProperties(service, props)
    OBVIOUS
  <2>3. above = [n \in 1 .. L - 1 |-> Own(props, chain, n)]
    BY <1>1, <1>4, <1>6, <2>1, <2>2, ParentsAreChain
  <2>4. L \in Nat /\ L - 1 \in Nat /\ L <= N
    BY <1>4, <2>1 DEF Ends
  <2>5. Len(above) = L - 1
    BY <2>3, <2>4
  <2>6. ASSUME NEW n \in 1 .. L - 1
        PROVE  /\ n \in having <=> a \in DOMAIN above[n]
               /\ n \in having => above[n] = props[chain[n][1]]
    <3>1. n \in 0 .. N /\ n > 0 /\ n \in 0 .. L - 1
      BY <1>4, <2>4
    <3>2. chain[n] # <<>>
      BY <2>1, <3>1 DEF Ends
    <3>3. above[n] = Own(props, chain, n)
      BY <2>3
    <3>4. DOMAIN NoAttributes = {}
      BY DEF NoAttributes
    <3> QED
      BY <1>4, <1>5, <3>1, <3>2, <3>3, <3>4 DEF Having, Own
  <2>7. ASSUME NEW n \in having PROVE n \in 1 .. L - 1
    <3>1. n \in 0 .. N /\ n > 0 /\ chain[n] # <<>>
      BY <1>4, <1>5 DEF Having
    <3>2. n \notin L .. N
      BY <2>1, <3>1 DEF Ends
    <3> QED
      BY <1>4, <2>4, <3>1, <3>2
  <2>8. PICK I : I = {i \in 1 .. Len(above) : a \in DOMAIN above[i] /\ above[i][a].node.kind # "map"}
    OBVIOUS
  <2>9. I = having
    <3>1. ASSUME NEW n \in 1 .. L - 1 PROVE n \in I <=> n \in having
      BY <1>6, <2>5, <2>6, <2>8
    <3>2. I \subseteq 1 .. L - 1
      BY <2>5, <2>8
    <3> QED
      BY <2>7, <3>1, <3>2
  <2>10. PICK i : i = IF I # {} THEN Min(I) ELSE 0
    OBVIOUS
  <2>11. AttributeHints(props, service, a)
           = IF i = 0 THEN {}
             ELSE {[service |-> service, attribute |-> a, path |-> props[service][a].path, parent |-> Text(above[i][a])]}
    BY <2>2, <2>8, <2>10 DEF AttributeHints, SelectInSeq
  <2>12. shown = {h.parent : h \in AttributeHints(props, service, a)}
    <3>1. chain[0][1] = service
      <4>1. chain[0] = <<service>>
        BY <1>4 DEF Linked
      <4> QED
        BY <4>1
    <3>2. props[service][a].node.kind # "map"
      BY <1>6, <3>1
    <3>3. {h \in ComposeHints(file) : h.service = service /\ h.attribute = a} = AttributeHints(props, service, a)
      BY <1>1, <3>2, HintsOfAttribute
    <3> QED
      BY <3>3
  <2>13. CASE having = {}
    <3>1. i = 0
      BY <2>9, <2>10, <2>13
    <3> QED
      BY <2>11, <2>12, <2>13, <3>1
  <2>14. CASE having # {}
    <3>1. having \in SUBSET Nat
      BY <2>7
    <3>2. i = Min(having)
      BY <2>9, <2>10, <2>14
    <3>3. i \in having /\ \A n \in having : i <= n
      BY <2>14, <3>1, <3>2, MinIsLeast
    <3>4. nearest = {i}
      <4>1. \A n \in having : n \in Nat
        BY <3>1
      <4> QED
        BY <3>3, <4>1
    <3>5. i # 0 /\ above[i] = props[chain[i][1]]
      <4>1. i \in 1 .. L - 1
        BY <2>7, <3>3
      <4> QED
        BY <2>4, <2>6, <3>3, <4>1
    <3>6. shown = {Text(above[i][a])}
      <4>1. PICK hint : hint = [service |-> service, attribute |-> a, path |-> props[service][a].path,
                                parent |-> Text(above[i][a])]
        OBVIOUS
      <4>2. AttributeHints(props, service, a) = {hint}
        BY <2>11, <3>5, <4>1
      <4>3. hint.parent = Text(above[i][a])
        BY <4>1
      <4> QED
        BY <2>12, <4>2, <4>3
    <3> QED
      BY <3>4, <3>5, <3>6
  <2> QED
    BY <2>13, <2>14
<1>7. ASSUME \A n, m \in DOMAIN chain : n # m /\ chain[n] # <<>> => chain[n] # chain[m] PROVE NotBack(chain, N)
  BY <1>4, <1>7 DEF NotBack
<1> QED
  BY <1>1, <1>2, <1>5, <1>6, <1>7, Zenon DEF ParentValueIsInherited

(* For an attribute of a service the server shows the value of the nearest *)
(* service up the chain of extends, of whichever length, that has one.     *)
THEOREM InheritsParentValues == SpecFiles => []ParentValuesAreInherited
<1>1. FilesTyped => ParentValuesAreInherited
  BY FilesAreTyped, ParentIsShown DEF ParentValuesAreInherited
<1> QED
  BY <1>1, FilesStayTrees, PTL

-----------------------------------------------------------------------------
(* Formatting.  The induction is over the lines: the levels that the       *)
(* formatter knows and the columns that the parser has open are, in the    *)
(* formatted file, those of the file moved to where its lines go, in the   *)
(* same order (Alike, Joint).                                              *)

(* The lines of a file.                                                    *)
LEMMA LineTypes ==
  ASSUME NEW ls, AreLines(ls)
  PROVE  /\ Len(ls) \in Nat /\ DOMAIN ls = 1 .. Len(ls)
         /\ \A k \in 1 .. Len(ls) :
              /\ ls[k] \in Line /\ ls[k].indent \in Nat /\ ls[k].dash \in Nat
              /\ ls[k].kind \in {"node", "comment", "blank", "separator"}
              /\ ls[k].kind # "node" => ls[k].dash = 0
              /\ ls[k].kind = "separator" => ls[k].indent = 0
<1>1. ls \in Seq(Line) /\ \A k \in 1 .. Len(ls) : ls[k] \in Line
  BY DEF AreLines
<1> QED
  BY <1>1 DEF AreLines, Line

(* The recursive definitions define what they say.                         *)
LEMMA IndentationsDefined ==
  ASSUME NEW ls, NEW tab, AreLines(ls)
  PROVE  /\ Indentations(ls, tab)[0] = NothingFound(ls)
         /\ \A k \in 1 .. Len(ls) :
              Indentations(ls, tab)[k] = FormatLine(ls[k], tab, Indentations(ls, tab)[k - 1], k)
<1> DEFINE Step(g, k) == FormatLine(ls[k], tab, g[k - 1], k)
           From(g, n) == [k \in 0 .. n |-> IF k = 0 THEN NothingFound(ls) ELSE Step(g, k)]
           Defined    == {n \in 0 .. Len(ls) : \E g : g = From(g, n)}
<1>1. \A n \in 0 .. Len(ls) : n \in Defined
  <2>1. 0 \in Defined
    <3> HIDE DEF Step
    <3>1. From(<<>>, 0) = From(From(<<>>, 0), 0)
      OBVIOUS
    <3>2. 0 \in 0 .. Len(ls)
      BY LineTypes
    <3> HIDE DEF From
    <3> QED
      BY <3>1, <3>2
  <2>2. ASSUME NEW n \in 0 .. Len(ls) - 1, n \in Defined PROVE n + 1 \in Defined
    <3> HIDE DEF Step
    <3>1. PICK g : g = From(g, n)
      BY <2>2
    <3>2. n \in Nat /\ n + 1 \in 0 .. Len(ls)
      BY LineTypes
    <3>3. ASSUME NEW k \in 1 .. n + 1 PROVE g[k - 1] = From(g, n + 1)[k - 1]
      <4>1. k - 1 \in 0 .. n /\ k - 1 \in 0 .. n + 1
        BY <3>2
      <4> QED
        BY <3>1, <4>1
    <3>4. \A k \in 1 .. n + 1 : Step(g, k) = Step(From(g, n + 1), k)
      BY <3>3 DEF Step
    <3>5. From(g, n + 1) = From(From(g, n + 1), n + 1)
      BY <3>4
    <3> QED
      BY <3>2, <3>5
  <2> HIDE DEF Defined
  <2> QED
    BY <2>1, <2>2, LineTypes, InductionUpTo
<1>2. PICK g : g = From(g, Len(ls))
  <2>1. Len(ls) \in 0 .. Len(ls)
    BY LineTypes
  <2> HIDE DEF From
  <2> QED
    BY <1>1, <2>1
<1>3. Indentations(ls, tab) = From(Indentations(ls, tab), Len(ls))
  BY <1>2, Zenon DEF Indentations
<1> HIDE DEF Step
<1>4. /\ Indentations(ls, tab)[0] = NothingFound(ls)
      /\ \A k \in 1 .. Len(ls) : Indentations(ls, tab)[k] = Step(Indentations(ls, tab), k)
  <2>1. PICK u : u = Indentations(ls, tab)
    OBVIOUS
  <2>2. u = From(u, Len(ls)) /\ Len(ls) \in Nat
    BY <1>3, <2>1, LineTypes
  <2>3. u[0] = NothingFound(ls)
    BY <2>2
  <2>4. ASSUME NEW k \in 1 .. Len(ls) PROVE u[k] = Step(u, k)
    <3>1. k \in 0 .. Len(ls) /\ k # 0
      BY <2>2
    <3>2. u[k] = IF k = 0 THEN NothingFound(ls) ELSE Step(u, k)
      BY <2>2, <3>1, Zenon
    <3> QED
      BY <3>1, <3>2
  <2> QED
    BY <2>1, <2>3, <2>4
<1> QED
  BY <1>4 DEF Step

(* The columns that are open to the parser are those of the definition.    *)
LEMMA OpenColumnsDefined ==
  ASSUME NEW ls, AreLines(ls)
  PROVE  /\ OpenColumns(ls)[0] = {}
         /\ \A k \in 1 .. Len(ls) : OpenColumns(ls)[k] = OpenAfter(ls[k], OpenColumns(ls)[k - 1])
<1> DEFINE Step(g, k) == OpenAfter(ls[k], g[k - 1])
           From(g, n) == [k \in 0 .. n |-> IF k = 0 THEN {} ELSE Step(g, k)]
           Defined    == {n \in 0 .. Len(ls) : \E g : g = From(g, n)}
<1>1. \A n \in 0 .. Len(ls) : n \in Defined
  <2>1. 0 \in Defined
    <3> HIDE DEF Step
    <3>1. From(<<>>, 0) = From(From(<<>>, 0), 0)
      OBVIOUS
    <3>2. 0 \in 0 .. Len(ls)
      BY LineTypes
    <3> HIDE DEF From
    <3> QED
      BY <3>1, <3>2
  <2>2. ASSUME NEW n \in 0 .. Len(ls) - 1, n \in Defined PROVE n + 1 \in Defined
    <3> HIDE DEF Step
    <3>1. PICK g : g = From(g, n)
      BY <2>2
    <3>2. n \in Nat /\ n + 1 \in 0 .. Len(ls)
      BY LineTypes
    <3>3. ASSUME NEW k \in 1 .. n + 1 PROVE g[k - 1] = From(g, n + 1)[k - 1]
      <4>1. k - 1 \in 0 .. n /\ k - 1 \in 0 .. n + 1
        BY <3>2
      <4> QED
        BY <3>1, <4>1
    <3>4. \A k \in 1 .. n + 1 : Step(g, k) = Step(From(g, n + 1), k)
      BY <3>3 DEF Step
    <3>5. From(g, n + 1) = From(From(g, n + 1), n + 1)
      BY <3>4
    <3> QED
      BY <3>2, <3>5
  <2> HIDE DEF Defined
  <2> QED
    BY <2>1, <2>2, LineTypes, InductionUpTo
<1>2. PICK g : g = From(g, Len(ls))
  <2>1. Len(ls) \in 0 .. Len(ls)
    BY LineTypes
  <2> HIDE DEF From
  <2> QED
    BY <1>1, <2>1
<1>3. OpenColumns(ls) = From(OpenColumns(ls), Len(ls))
  BY <1>2, Zenon DEF OpenColumns
<1> HIDE DEF Step
<1>4. /\ OpenColumns(ls)[0] = {}
      /\ \A k \in 1 .. Len(ls) : OpenColumns(ls)[k] = Step(OpenColumns(ls), k)
  <2>1. PICK u : u = OpenColumns(ls)
    OBVIOUS
  <2>2. u = From(u, Len(ls)) /\ Len(ls) \in Nat
    BY <1>3, <2>1, LineTypes
  <2>3. u[0] = {}
    BY <2>2
  <2>4. ASSUME NEW k \in 1 .. Len(ls) PROVE u[k] = Step(u, k)
    <3>1. k \in 0 .. Len(ls) /\ k # 0
      BY <2>2
    <3>2. u[k] = IF k = 0 THEN {} ELSE Step(u, k)
      BY <2>2, <3>1, Zenon
    <3> QED
      BY <3>1, <3>2
  <2> QED
    BY <2>1, <2>3, <2>4
<1> QED
  BY <1>4 DEF Step

-----------------------------------------------------------------------------
(* Levels are in the order of their indentations, and what is wanted of    *)
(* one is at least a tab more than of the one before.                      *)
IsLevels(s, t) ==
  /\ s \in Seq([original : Nat \ {0}, desired : Nat])
  /\ \A i, j \in 1 .. Len(s) :
        i < j => s[i].original < s[j].original /\ s[i].desired + t <= s[j].desired
  /\ s # <<>> => s[1].desired \in {0, t}

(* The indentations that are known, with what is wanted of them; the left  *)
(* margin is one of them unless the top level is indented.                 *)
Columns(s) ==
  {<<s[i].original, s[i].desired>> : i \in 1 .. Len(s)} \union
  (IF s = <<>> \/ s[1].desired # 0 THEN {<<0, 0>>} ELSE {})

LastColumn(s) == IF s = <<>> THEN <<0, 0>> ELSE <<s[Len(s)].original, s[Len(s)].desired>>

InOrder(R, t) ==
  \A p, q \in R : /\ p = <<p[1], p[2]>> /\ p[1] \in Nat /\ p[2] \in Nat
                  /\ p[1] < q[1] => p[2] + t <= q[2]
                  /\ p[1] = q[1] => p = q

(* Levels are a sequence, of numbers.                                      *)
LEMMA LevelTypes ==
  ASSUME NEW t \in Nat \ {0}, NEW s, IsLevels(s, t)
  PROVE  /\ Len(s) \in Nat /\ DOMAIN s = 1 .. Len(s) /\ (s = <<>> <=> Len(s) = 0)
         /\ \A i \in 1 .. Len(s) : /\ s[i] \in [original : Nat \ {0}, desired : Nat]
                                   /\ s[i].original \in Nat \ {0} /\ s[i].desired \in Nat
<1>1. s \in Seq([original : Nat \ {0}, desired : Nat])
  BY DEF IsLevels
<1>2. \A i \in 1 .. Len(s) : s[i] \in [original : Nat \ {0}, desired : Nat]
  <2>1. \A S : s \in Seq(S) => \A i \in 1 .. Len(s) : s[i] \in S
    OBVIOUS
  <2> QED
    BY <1>1, <2>1
<1> QED
  BY <1>1, <1>2

(* The known indentations are in the order of what is wanted of them, and  *)
(* the last level is the one furthest to the right.                        *)
LEMMA ColumnsInOrder ==
  ASSUME NEW t \in Nat \ {0}, NEW s, IsLevels(s, t)
  PROVE  /\ InOrder(Columns(s), t) /\ LastColumn(s) \in Columns(s)
         /\ \A p \in Columns(s) : p[1] <= LastColumn(s)[1]
<1> DEFINE C(i) == <<s[i].original, s[i].desired>>
<1>1. /\ Len(s) \in Nat /\ (s = <<>> <=> Len(s) = 0)
      /\ \A i \in 1 .. Len(s) : s[i].original \in Nat \ {0} /\ s[i].desired \in Nat
  BY LevelTypes
<1>2. \A i, j \in 1 .. Len(s) : i < j => s[i].original < s[j].original /\ s[i].desired + t <= s[j].desired
  BY DEF IsLevels
<1>3. \A p \in Columns(s) : \/ \E i \in 1 .. Len(s) : p = C(i)
                            \/ p = <<0, 0>> /\ (s = <<>> \/ s[1].desired # 0)
  BY DEF Columns
<1>4. ASSUME NEW p \in Columns(s), NEW q \in Columns(s)
      PROVE  /\ p = <<p[1], p[2]>> /\ p[1] \in Nat /\ p[2] \in Nat
             /\ p[1] < q[1] => p[2] + t <= q[2]
             /\ p[1] = q[1] => p = q
  <2>1. ASSUME NEW i \in 1 .. Len(s), p = C(i), NEW j \in 1 .. Len(s), q = C(j)
        PROVE  (p[1] < q[1] => p[2] + t <= q[2]) /\ (p[1] = q[1] => p = q)
    <3>1. i < j \/ i = j \/ j < i
      BY <1>1
    <3> QED
      BY <1>1, <1>2, <2>1, <3>1
  <2>2. ASSUME NEW j \in 1 .. Len(s), q = C(j), p = <<0, 0>>, s = <<>> \/ s[1].desired # 0
        PROVE  p[2] + t <= q[2] /\ p[1] < q[1]
    <3>1. 1 \in 1 .. Len(s) /\ s[1].desired = t
      BY <1>1, <2>2 DEF IsLevels
    <3>2. j = 1 \/ 1 < j
      BY <1>1
    <3> QED
      BY <1>1, <1>2, <2>2, <3>1, <3>2
  <2>3. ASSUME NEW j \in 1 .. Len(s), p = C(j), q = <<0, 0>>
        PROVE  q[1] < p[1]
    BY <1>1, <2>3
  <2> QED
    BY <1>1, <1>3, <2>1, <2>2, <2>3
<1>5. LastColumn(s) \in Columns(s)
  BY <1>1 DEF LastColumn, Columns
<1>6. ASSUME NEW p \in Columns(s) PROVE p[1] <= LastColumn(s)[1]
  <2>1. CASE s = <<>>
    BY <1>1, <1>3, <2>1 DEF LastColumn
  <2>2. CASE s # <<>>
    <3>1. Len(s) \in 1 .. Len(s) /\ LastColumn(s)[1] = s[Len(s)].original
      BY <1>1, <2>2 DEF LastColumn
    <3>2. \A i \in 1 .. Len(s) : i = Len(s) \/ i < Len(s)
      BY <1>1
    <3> QED
      BY <1>1, <1>2, <1>3, <3>1, <3>2
  <2> QED
    BY <2>1, <2>2
<1> QED
  BY <1>4, <1>5, <1>6 DEF InOrder


-----------------------------------------------------------------------------
(* A known indentation cuts the levels after it.                           *)
LEMMA UpdateKnown ==
  ASSUME NEW t \in Nat \ {0}, NEW s, IsLevels(s, t), NEW d \in Nat \ {0}, NEW w, NEW x, <<d, w>> \in Columns(s)
  PROVE  /\ IsLevels(UpdateIndentation(s, d, x), t)
         /\ Last(UpdateIndentation(s, d, x)).desired = w
         /\ LastColumn(UpdateIndentation(s, d, x)) = <<d, w>>
         /\ Columns(UpdateIndentation(s, d, x)) = {q \in Columns(s) : q[1] <= d}
<1> DEFINE known == {i \in DOMAIN s : s[i].original = d}
           u     == UpdateIndentation(s, d, x)
<1>0. s \in Seq([original : Nat \ {0}, desired : Nat]) /\ DOMAIN s = 1 .. Len(s)
  BY LevelTypes DEF IsLevels
<1>1. /\ Len(s) \in Nat /\ (s = <<>> <=> Len(s) = 0)
      /\ \A i \in 1 .. Len(s) : s[i].original \in Nat \ {0} /\ s[i].desired \in Nat
  BY LevelTypes
<1>2. \A i, j \in 1 .. Len(s) : i < j => s[i].original < s[j].original /\ s[i].desired + t <= s[j].desired
  BY DEF IsLevels
<1>3. PICK i \in 1 .. Len(s) : s[i].original = d /\ s[i].desired = w
  BY DEF Columns
<1>4. known = {i}
  <2>1. \A j \in 1 .. Len(s) : j < i \/ i = j \/ i < j
    BY <1>1
  <2>2. ASSUME NEW j \in known PROVE j = i
    <3>1. j \in 1 .. Len(s) /\ s[j].original = s[i].original /\ i \in 1 .. Len(s)
      BY <1>0, <1>3
    <3>2. ~(s[j].original < s[i].original) /\ ~(s[i].original < s[j].original)
      BY <1>1, <3>1
    <3> QED
      BY <1>2, <2>1, <3>1, <3>2
  <2> QED
    BY <1>0, <1>3, <2>2
<1>5. (CHOOSE j \in known : \A h \in known : j <= h) = i
  BY <1>1, <1>4
<1>6. u = SubSeq(s, 1, i)
  BY <1>4, <1>5, Zenon DEF UpdateIndentation
<1>7. Len(u) = i /\ u \in Seq([original : Nat \ {0}, desired : Nat]) /\ \A j \in 1 .. i : u[j] = s[j]
  <2>1. i \in Nat /\ 1 <= i /\ i <= Len(s)
    BY <1>1
  <2>2. \A S : s \in Seq(S) => SubSeq(s, 1, i) \in Seq(S) /\ Len(SubSeq(s, 1, i)) = i
                                   /\ \A j \in 1 .. i : SubSeq(s, 1, i)[j] = s[j]
    BY <2>1
  <2> QED
    BY <1>0, <1>6, <2>2
<1> HIDE DEF u, known
<1>8. u # <<>> /\ u[1] = s[1] /\ i \in Nat /\ i >= 1 /\ u[i] = s[i]
  BY <1>1, <1>7
<1>9. IsLevels(u, t)
  <2>1. \A j \in 1 .. Len(u) : j \in 1 .. Len(s) /\ u[j] = s[j]
    BY <1>1, <1>7, <1>8
  <2>2. \A j, h \in 1 .. Len(u) : j < h => u[j].original < u[h].original /\ u[j].desired + t <= u[h].desired
    BY <1>2, <2>1
  <2>3. u[1].desired \in {0, t}
    BY <1>1, <1>3, <1>8 DEF IsLevels
  <2> QED
    BY <1>7, <2>2, <2>3 DEF IsLevels
<1>10. LastColumn(u) = <<d, w>> /\ Last(u).desired = w
  BY <1>3, <1>7, <1>8 DEF LastColumn, Last
<1>11. Columns(u) = {q \in Columns(s) : q[1] <= d}
  <2>1. \A j \in 1 .. Len(s) : s[j].original <= d <=> j \in 1 .. i
    <3>1. \A j \in 1 .. Len(s) : j < i \/ i = j \/ i < j
      BY <1>1
    <3>2. \A j \in 1 .. Len(s) : (j < i => s[j].original < d) /\ (i < j => d < s[j].original)
      BY <1>2, <1>3
    <3>3. \A j \in 1 .. Len(s) : s[j].original <= d <=> j <= i
      BY <1>1, <1>3, <3>1, <3>2
    <3> QED
      BY <1>1, <3>3
  <2>2. s # <<>> /\ \A j \in 1 .. i : j \in 1 .. Len(s)
    BY <1>1, <1>3
  <2> DEFINE C(j) == <<s[j].original, s[j].desired>>
  <2>3. Columns(u) = {C(j) : j \in 1 .. i} \union (IF s[1].desired # 0 THEN {<<0, 0>>} ELSE {})
    <3>1. {<<u[j].original, u[j].desired>> : j \in 1 .. Len(u)} = {C(j) : j \in 1 .. i}
      BY <1>7
    <3> QED
      BY <1>8, <3>1 DEF Columns
  <2>4. Columns(s) = {C(j) : j \in 1 .. Len(s)} \union (IF s[1].desired # 0 THEN {<<0, 0>>} ELSE {})
    BY <2>2 DEF Columns
  <2>5. \A j \in 1 .. Len(s) : C(j)[1] <= d <=> j \in 1 .. i
    BY <2>1
  <2>6. <<0, 0>>[1] <= d
    OBVIOUS
  <2> HIDE DEF C
  <2> QED
    BY <2>2, <2>3, <2>4, <2>5, <2>6
<1> QED
  BY <1>9, <1>10, <1>11 DEF u

(* One to the right of all of them is a new level.                         *)
LEMMA UpdateNew ==
  ASSUME NEW t \in Nat \ {0}, NEW s, IsLevels(s, t), NEW d \in Nat \ {0}, d > LastColumn(s)[1]
  PROVE  /\ IsLevels(UpdateIndentation(s, d, t), t)
         /\ Last(UpdateIndentation(s, d, t)).desired = LastColumn(s)[2] + t
         /\ LastColumn(UpdateIndentation(s, d, t)) = <<d, LastColumn(s)[2] + t>>
         /\ Columns(UpdateIndentation(s, d, t)) = Columns(s) \union {<<d, LastColumn(s)[2] + t>>}
<1> DEFINE known == {i \in DOMAIN s : s[i].original = d}
           u     == UpdateIndentation(s, d, t)
           v     == LastColumn(s)[2] + t
<1>0. s \in Seq([original : Nat \ {0}, desired : Nat]) /\ DOMAIN s = 1 .. Len(s)
  BY LevelTypes DEF IsLevels
<1>1. /\ Len(s) \in Nat /\ (s = <<>> <=> Len(s) = 0)
      /\ \A i \in 1 .. Len(s) : s[i].original \in Nat \ {0} /\ s[i].desired \in Nat
  BY LevelTypes
<1>2. \A i, j \in 1 .. Len(s) : i < j => s[i].original < s[j].original /\ s[i].desired + t <= s[j].desired
  BY DEF IsLevels
<1>3. LastColumn(s)[2] \in Nat /\ v \in Nat
  BY <1>1 DEF LastColumn
<1>4. \A i \in 1 .. Len(s) : s[i].original < d /\ s[i].desired + t <= v
  <2>1. \A i \in 1 .. Len(s) : i < Len(s) \/ i = Len(s)
    BY <1>1
  <2>2. ASSUME NEW i \in 1 .. Len(s) PROVE s[i].original < d /\ s[i].desired + t <= v
    <3> DEFINE m == Len(s)
    <3>1. m \in 1 .. m
      BY <1>1, <2>2
    <3>2. s[m].desired + t = v /\ s[m].original < d
      BY <1>1, <3>1 DEF LastColumn
    <3>3. CASE i = m
      BY <1>3, <3>2, <3>3
    <3>4. CASE i < m
      <4>1. s[i].original < s[m].original /\ s[i].desired + t <= s[m].desired
        BY <1>2, <3>1, <3>4
      <4>2. s[i].original \in Nat /\ s[m].original \in Nat /\ s[i].desired \in Nat /\ s[m].desired \in Nat
        BY <1>1, <3>1
      <4>3. \A x, y \in Nat : x < y /\ y < d => x < d
        OBVIOUS
      <4>4. \A x, y \in Nat : x + t <= y /\ y + t = v => x + t <= v
        BY <1>3
      <4> HIDE DEF m, v
      <4> QED
        BY <3>2, <4>1, <4>2, <4>3, <4>4
    <3> QED
      BY <2>1, <3>3, <3>4
  <2> QED
    BY <2>2
<1>5. known = {}
  <2>1. \A i \in 1 .. Len(s) : s[i].original # d
    BY <1>1, <1>4
  <2> QED
    BY <1>0, <2>1
<1>6. (IF s = <<>> THEN t ELSE Last(s).desired + t) = v
  BY <1>1 DEF LastColumn, Last
<1>7. u = Append(s, [original |-> d, desired |-> v])
  <2> HIDE DEF v
  <2> QED
    BY <1>5, <1>6, Zenon DEF UpdateIndentation
<1> HIDE DEF v
<1>8. /\ Len(u) = Len(s) + 1 /\ u \in Seq([original : Nat \ {0}, desired : Nat])
      /\ \A j \in 1 .. Len(s) : u[j] = s[j]
      /\ u[Len(s) + 1] = [original |-> d, desired |-> v]
  <2>1. [original |-> d, desired |-> v] \in [original : Nat \ {0}, desired : Nat]
    BY <1>3
  <2>2. \A S, e : s \in Seq(S) /\ e \in S =>
          /\ Append(s, e) \in Seq(S) /\ Len(Append(s, e)) = Len(s) + 1
          /\ \A j \in 1 .. Len(s) : Append(s, e)[j] = s[j]
          /\ Append(s, e)[Len(s) + 1] = e
    OBVIOUS
  <2> QED
    BY <1>0, <1>7, <2>1, <2>2
<1> HIDE DEF u, known
<1>9. /\ u # <<>> /\ u[Len(s) + 1].original = d /\ u[Len(s) + 1].desired = v
      /\ \A j \in 1 .. Len(u) : j \in 1 .. Len(s) \/ j = Len(s) + 1
  BY <1>1, <1>8
<1>10. IsLevels(u, t)
  <2>1. ASSUME NEW i \in 1 .. Len(u), NEW j \in 1 .. Len(u), i < j
        PROVE  u[i].original < u[j].original /\ u[i].desired + t <= u[j].desired
    <3>1. i \in 1 .. Len(s)
      BY <1>1, <1>8, <1>9, <2>1
    <3> QED
      BY <1>2, <1>4, <1>8, <1>9, <2>1, <3>1
  <2>2. u[1].desired \in {0, t}
    <3>1. CASE s = <<>>
      <4>1. v = t
        BY <3>1 DEF v, LastColumn
      <4> QED
        BY <1>1, <1>9, <3>1, <4>1
    <3>2. CASE s # <<>>
      <4>1. 1 \in 1 .. Len(s) /\ s[1].desired \in {0, t}
        BY <1>1, <3>2 DEF IsLevels
      <4> QED
        BY <1>8, <4>1
    <3> QED
      BY <3>1, <3>2
  <2> QED
    BY <1>8, <2>1, <2>2 DEF IsLevels
<1>11. LastColumn(u) = <<d, v>> /\ Last(u).desired = v
  BY <1>8, <1>9 DEF LastColumn, Last
<1>12. Columns(u) = Columns(s) \union {<<d, v>>}
  <2>1. (u[1].desired # 0) <=> (s = <<>> \/ s[1].desired # 0)
    <3>1. CASE s = <<>>
      BY <1>1, <1>9, <3>1 DEF v, LastColumn
    <3>2. CASE s # <<>>
      <4>1. 1 \in 1 .. Len(s)
        BY <1>1, <3>2
      <4> QED
        BY <1>8, <3>2, <4>1
    <3> QED
      BY <3>1, <3>2
  <2>2. {<<u[i].original, u[i].desired>> : i \in 1 .. Len(u)} =
        {<<s[i].original, s[i].desired>> : i \in 1 .. Len(s)} \union {<<d, v>>}
    <3>1. \A i \in 1 .. Len(s) : i \in 1 .. Len(u)
      BY <1>1, <1>8
    <3>2. Len(s) + 1 \in 1 .. Len(u)
      BY <1>1, <1>8
    <3> QED
      BY <1>8, <1>9, <3>1, <3>2
  <2> QED
    BY <1>9, <2>1, <2>2 DEF Columns
<1> QED
  BY <1>10, <1>11, <1>12 DEF u, v


(* A line at d is placed: its indentation is known, or it is to the right  *)
(* of the last level.                                                      *)
Placed(s, top, d, t) ==
  /\ IsLevels(s, t) /\ top \in BOOLEAN /\ (~top => s = <<>>)
  /\ top => (\E w : <<d, w>> \in Columns(s)) \/ d > LastColumn(s)[1]

(* Where it goes: the first line after a separator to the margin, another  *)
(* to where its indentation is known to go, or a tab to the right of the   *)
(* last level.                                                             *)
Place(s, top, d, t) ==
  IF ~top THEN 0
  ELSE IF \E w : <<d, w>> \in Columns(s) THEN CHOOSE w : <<d, w>> \in Columns(s)
  ELSE LastColumn(s)[2] + t

Formats(line, t, f, k, s) ==
  LET v == Place(f.levels, f.top, line.indent, t)
  IN  /\ FormatLine(line, t, f, k) = Settle(f, k, v, s, TRUE)
      /\ IsLevels(s, t) /\ LastColumn(s) = <<line.indent, v>>
      /\ Columns(s) = {q \in IF f.top THEN Columns(f.levels) ELSE {} : q[1] <= line.indent}
                      \union {<<line.indent, v>>}

(* Formatting puts a line with content there, and knows after it the       *)
(* indentations up to its own.                                             *)
LEMMA NodeFormatted ==
  ASSUME NEW t \in Nat \ {0}, NEW line \in Line, line.kind = "node", NEW k, NEW f,
         Placed(f.levels, f.top, line.indent, t)
  PROVE  \E s : Formats(line, t, f, k, s)
<1> DEFINE d == line.indent
           v == Place(f.levels, f.top, d, t)
<1>1. d \in Nat
  BY DEF Line
<1>2. CASE ~f.top /\ d > 0
  <2> DEFINE s == <<[original |-> d, desired |-> 0]>>
  <2>1. v = 0 /\ f.levels = <<>>
    BY <1>2 DEF Placed, Place
  <2>2. UpdateIndentation(<<>>, d, 0) = s
    <3>1. {i \in DOMAIN <<>> : <<>>[i].original = d} = {}
      OBVIOUS
    <3> QED
      BY <3>1 DEF UpdateIndentation
  <2>3. Append(<<>>, Last(s)) = s
    BY DEF Last
  <2>4. UpdateIndentation(s, d, t) = s
    <3>1. {i \in DOMAIN s : s[i].original = d} = {1}
      OBVIOUS
    <3>2. (CHOOSE i \in {1} : \A h \in {1} : i <= h) = 1
      OBVIOUS
    <3>3. SubSeq(s, 1, 1) = s
      <4>1. s \in Seq({[original |-> d, desired |-> 0]}) /\ Len(s) = 1
        OBVIOUS
      <4> HIDE DEF s
      <4> QED
        BY <4>1, SubSeqFull
    <3> HIDE DEF s
    <3> QED
      BY <3>1, <3>2, <3>3, Zenon DEF UpdateIndentation
  <2>5. Last(s).desired = 0
    BY DEF Last
  <2>6. IsLevels(s, t) /\ LastColumn(s) = <<d, 0>>
    BY <1>1, <1>2 DEF IsLevels, LastColumn
  <2>7. Columns(s) = {<<d, 0>>}
    BY DEF Columns
  <2> HIDE DEF s
  <2>8. FormatLine(line, t, f, k) = Settle(f, k, 0, s, TRUE)
    <3>1. f.top = FALSE
      BY <1>2 DEF Placed
    <3> DEFINE first  == line.kind = "node" /\ ~f.top
               levels == IF first /\ line.indent > 0
                         THEN Append(f.levels, Last(UpdateIndentation(f.levels, line.indent, 0)))
                         ELSE f.levels
               after  == UpdateIndentation(levels, line.indent, t)
    <3>2. levels = s
      BY <1>2, <2>1, <2>2, <2>3, <3>1
    <3>3. after = s
      BY <2>4, <3>2
    <3> HIDE DEF after
    <3>4. FormatLine(line, t, f, k) = Settle(f, k, Last(after).desired, after, f.top \/ line.kind = "node")
      <4> DEFINE a == line.kind = "comment"
                 b == line.kind = "separator"
                 c == line.kind \in {"node", "blank"} /\ line.indent > 0
                 e == line.kind = "node" /\ line.indent = 0
                 A == [f EXCEPT !.comments = f.comments \union {k}]
                 B == Settle(f, k, 0, <<>>, FALSE)
                 C == Settle(f, k, Last(after).desired, after, f.top \/ line.kind = "node")
                 E == Settle(f, k, 0, <<>>, TRUE)
      <4>1. FormatLine(line, t, f, k) = CASE a -> A [] b -> B [] c -> C [] e -> E [] OTHER -> f
        BY DEF FormatLine, after
      <4>2. ~a /\ ~b /\ c /\ ~e
        BY <1>2
      <4> HIDE DEF a, b, c, e, A, B, C, E
      <4>3. FormatLine(line, t, f, k) = C
        BY <4>1, <4>2
      <4> QED
        BY <4>3 DEF C
    <3>5. (f.top \/ line.kind = "node") = TRUE
      OBVIOUS
    <3> QED
      BY <2>5, <3>3, <3>4, <3>5
  <2> QED
    BY <1>2, <2>1, <2>6, <2>7, <2>8 DEF Formats
<1>3. CASE d = 0
  <2>1. v = 0
    <3>1. CASE f.top
      <4>1. <<0, 0>> \in Columns(f.levels) /\ InOrder(Columns(f.levels), t)
        <5>1. InOrder(Columns(f.levels), t) /\ LastColumn(f.levels) \in Columns(f.levels)
          BY ColumnsInOrder DEF Placed
        <5>2. \E w : <<0, w>> \in Columns(f.levels)
          <6>1. ~(0 > LastColumn(f.levels)[1])
            BY <5>1 DEF InOrder
          <6> QED
            BY <1>3, <3>1, <6>1 DEF Placed
        <5>3. \A i \in 1 .. Len(f.levels) : f.levels[i].original # 0
          BY LevelTypes DEF Placed
        <5> QED
          BY <5>1, <5>2, <5>3 DEF Columns
      <4>2. \A w : <<0, w>> \in Columns(f.levels) => w = 0
        BY <4>1 DEF InOrder
      <4> QED
        BY <1>3, <3>1, <4>1, <4>2 DEF Place
    <3>2. CASE ~f.top
      BY <3>2 DEF Place
    <3> QED
      BY <3>1, <3>2
  <2>2. IsLevels(<<>>, t) /\ LastColumn(<<>>) = <<0, 0>> /\ Columns(<<>>) = {<<0, 0>>}
    BY DEF IsLevels, LastColumn, Columns
  <2>3. FormatLine(line, t, f, k) = Settle(f, k, 0, <<>>, TRUE)
    BY <1>3 DEF FormatLine
  <2>4. {q \in IF f.top THEN Columns(f.levels) ELSE {} : q[1] <= 0} \union {<<0, 0>>} = {<<0, 0>>}
    <3>1. \A q \in Columns(f.levels) : q[1] <= 0 => q = <<0, 0>>
      BY LevelTypes DEF Columns, Placed
    <3> QED
      BY <3>1
  <2> QED
    BY <1>3, <2>1, <2>2, <2>3, <2>4 DEF Formats
<1>4. CASE f.top /\ d > 0
  <2> DEFINE s == UpdateIndentation(f.levels, d, t)
  <2>1. IsLevels(f.levels, t)
    BY DEF Placed
  <2>2. InOrder(Columns(f.levels), t) /\ \A p \in Columns(f.levels) : p[1] <= LastColumn(f.levels)[1]
    BY <2>1, ColumnsInOrder
  <2>3. /\ IsLevels(s, t) /\ Last(s).desired = v /\ LastColumn(s) = <<d, v>>
        /\ Columns(s) = {q \in Columns(f.levels) : q[1] <= d} \union {<<d, v>>}
    <3>1. CASE \E w : <<d, w>> \in Columns(f.levels)
      <4>1. <<d, v>> \in Columns(f.levels)
        BY <1>4, <3>1 DEF Place
      <4> HIDE DEF v
      <4>2. <<d, v>>[1] <= d
        BY <1>1
      <4> QED
        BY <1>1, <1>4, <2>1, <4>1, <4>2, UpdateKnown
    <3>2. CASE ~\E w : <<d, w>> \in Columns(f.levels)
      <4>1. v = LastColumn(f.levels)[2] + t /\ d > LastColumn(f.levels)[1]
        BY <1>4, <3>2 DEF Place, Placed
      <4> HIDE DEF v
      <4>2. LastColumn(f.levels)[1] \in Nat
        BY <2>1, <2>2, ColumnsInOrder DEF InOrder
      <4>3. Columns(f.levels) = {q \in Columns(f.levels) : q[1] <= d}
        BY <1>1, <2>2, <4>1, <4>2 DEF InOrder
      <4> QED
        BY <1>1, <1>4, <2>1, <4>1, <4>3, UpdateNew
    <3> QED
      BY <3>1, <3>2
  <2> HIDE DEF s, v
  <2>4. FormatLine(line, t, f, k) = Settle(f, k, v, s, TRUE)
    <3>1. f.top = TRUE
      BY <1>4 DEF Placed
    <3> DEFINE first  == line.kind = "node" /\ ~f.top
               levels == IF first /\ line.indent > 0
                         THEN Append(f.levels, Last(UpdateIndentation(f.levels, line.indent, 0)))
                         ELSE f.levels
               after  == UpdateIndentation(levels, line.indent, t)
    <3>2. levels = f.levels
      BY <3>1
    <3>3. after = s
      BY <3>2 DEF s
    <3> HIDE DEF after
    <3>4. FormatLine(line, t, f, k) = Settle(f, k, Last(after).desired, after, f.top \/ line.kind = "node")
      <4> DEFINE a == line.kind = "comment"
                 b == line.kind = "separator"
                 c == line.kind \in {"node", "blank"} /\ line.indent > 0
                 e == line.kind = "node" /\ line.indent = 0
                 A == [f EXCEPT !.comments = f.comments \union {k}]
                 B == Settle(f, k, 0, <<>>, FALSE)
                 C == Settle(f, k, Last(after).desired, after, f.top \/ line.kind = "node")
                 E == Settle(f, k, 0, <<>>, TRUE)
      <4>1. FormatLine(line, t, f, k) = CASE a -> A [] b -> B [] c -> C [] e -> E [] OTHER -> f
        BY DEF FormatLine, after
      <4>2. ~a /\ ~b /\ c /\ ~e
        BY <1>4
      <4> HIDE DEF a, b, c, e, A, B, C, E
      <4>3. FormatLine(line, t, f, k) = C
        BY <4>1, <4>2
      <4> QED
        BY <4>3 DEF C
    <3>5. (f.top \/ line.kind = "node") = TRUE
      OBVIOUS
    <3> QED
      BY <2>3, <3>3, <3>4, <3>5
  <2> QED
    BY <1>4, <2>3, <2>4 DEF v, Formats
<1>5. d = 0 \/ d > 0
  BY <1>1
<1> QED
  BY <1>2, <1>3, <1>4, <1>5

-----------------------------------------------------------------------------
(* The file and the formatted one are alike after a line a with content    *)
(* that goes to w: the columns of one are those of the other, moved.  The  *)
(* column of the content of an item is open before a line is at it.        *)
Pending(a, w) == IF a.dash > 0 THEN {<<a.indent + a.dash, w + a.dash>>} ELSE {}

MovedBy(R, o, q) ==
  /\ \A c \in o : \E p \in R : c = <<p[1], c[2]>> /\ <<p[2], c[2]>> \in q
  /\ \A c \in q : \E p \in R : c = <<p[2], c[2]>> /\ <<p[1], c[2]>> \in o
  /\ \A p \in R : \E c \in o : c[1] = p[1]

Alike(f, g, o, q, a, w, t) ==
  /\ IsLevels(f, t) /\ LastColumn(f) = <<a.indent, w>>
  /\ IsLevels(g, t) /\ LastColumn(g) = <<w, w>>
  /\ Columns(g) = {<<p[2], p[2]>> : p \in Columns(f)}
  /\ InOrder(Columns(f) \union Pending(a, w), t)
  /\ MovedBy(Columns(f) \union Pending(a, w), o, q)

(* A line with content that keeps the order of the columns leaves the two  *)
(* files alike.                                                            *)
LEMMA AlikeAfter ==
  ASSUME NEW t \in Nat \ {0}, NEW R, NEW o, NEW q, NEW v \in Nat,
         NEW b \in Line, b.kind = "node", b.dash \in {0, t},
         InOrder(R \union {<<b.indent, v>>}, t), MovedBy(R, o, q),
         NEW f, IsLevels(f, t), LastColumn(f) = <<b.indent, v>>,
         Columns(f) = {p \in R : p[1] <= b.indent} \union {<<b.indent, v>>},
         NEW g, IsLevels(g, t), LastColumn(g) = <<v, v>>,
         Columns(g) = {<<p[2], p[2]>> : p \in Columns(f)}
  PROVE  Alike(f, g, OpenAfter(b, o), OpenAfter([b EXCEPT !.indent = v], q), b, v, t)
<1> DEFINE d  == b.indent
           R2 == Columns(f) \union Pending(b, v)
           e  == [b EXCEPT !.indent = v]
           o2 == {c \in o : c[1] <= d} \union Opened(b)
           q2 == {c \in q : c[1] <= v} \union Opened(e)
<1>1. d \in Nat /\ e.kind = "node" /\ e.indent = v /\ e.dash = b.dash
  BY DEF Line
<1>2. OpenAfter(b, o) = o2 /\ OpenAfter(e, q) = q2
  BY <1>1 DEF OpenAfter
<1>3. \A p \in R : /\ p = <<p[1], p[2]>> /\ p[1] \in Nat /\ p[2] \in Nat
                   /\ p[1] < d => p[2] + t <= v
                   /\ p[1] > d => v + t <= p[2]
                   /\ p[1] = d => p[2] = v
  BY <1>1 DEF InOrder
<1>4. \A p \in R : p[1] <= d <=> p[2] <= v
  BY <1>1, <1>3
<1>5. \A p \in R2 : \/ p \in R /\ p[1] <= d
                    \/ p = <<d, v>>
                    \/ b.dash > 0 /\ p = <<d + b.dash, v + b.dash>>
  BY DEF Pending
<1>6. InOrder(R2, t)
  <2>1. \A p, r \in R : (p[1] < r[1] => p[2] + t <= r[2]) /\ (p[1] = r[1] => p = r)
    BY DEF InOrder
  <2>2. b.dash \in Nat /\ (b.dash > 0 => b.dash = t)
    OBVIOUS
  <2>3. \A p \in R2 : p = <<p[1], p[2]>> /\ p[1] \in Nat /\ p[2] \in Nat
    BY <1>1, <1>3, <1>5, <2>2
  <2>4. ASSUME NEW p \in R2, NEW r \in R2 PROVE p[1] < r[1] => p[2] + t <= r[2]
    BY <1>1, <1>3, <1>5, <2>1, <2>2
  <2>5. ASSUME NEW p \in R2, NEW r \in R2 PROVE p[1] = r[1] => p = r
    BY <1>1, <1>3, <1>5, <2>1, <2>2
  <2> QED
    BY <2>3, <2>4, <2>5 DEF InOrder
<1>7. \A p \in R : p[1] <= d => p \in R2
  OBVIOUS
<1>8. <<d, v>> \in R2 /\ (b.dash > 0 => <<d + b.dash, v + b.dash>> \in R2)
  BY DEF Pending
<1>9. Opened(b) = IF b.dash = 0 THEN {<<d, "content">>} ELSE {<<d, "items">>, <<d + b.dash, "content">>}
  BY DEF Opened
<1>10. Opened(e) = IF b.dash = 0 THEN {<<v, "content">>} ELSE {<<v, "items">>, <<v + b.dash, "content">>}
  BY <1>1 DEF Opened
<1>11. b.dash = 0 \/ b.dash > 0
  OBVIOUS
<1> HIDE DEF R2, e
<1>12. MovedBy(R2, o2, q2)
  <2>1. ASSUME NEW c \in o2 PROVE \E p \in R2 : c = <<p[1], c[2]>> /\ <<p[2], c[2]>> \in q2
    <3>1. CASE c \in o /\ c[1] <= d
      <4>1. PICK p \in R : c = <<p[1], c[2]>> /\ <<p[2], c[2]>> \in q
        BY <3>1 DEF MovedBy
      <4>2. p[1] <= d /\ p[2] <= v
        BY <1>4, <3>1, <4>1
      <4> QED
        BY <1>7, <4>1, <4>2
    <3>2. CASE c \in Opened(b)
      BY <1>8, <1>9, <1>10, <1>11, <3>2
    <3> QED
      BY <2>1, <3>1, <3>2
  <2>2. ASSUME NEW c \in q2 PROVE \E p \in R2 : c = <<p[2], c[2]>> /\ <<p[1], c[2]>> \in o2
    <3>1. CASE c \in q /\ c[1] <= v
      <4>1. PICK p \in R : c = <<p[2], c[2]>> /\ <<p[1], c[2]>> \in o
        BY <3>1 DEF MovedBy
      <4>2. p[1] <= d /\ p[2] <= v
        BY <1>4, <3>1, <4>1
      <4> QED
        BY <1>7, <4>1, <4>2
    <3>2. CASE c \in Opened(e)
      BY <1>8, <1>9, <1>10, <1>11, <3>2
    <3> QED
      BY <2>2, <3>1, <3>2
  <2>3. ASSUME NEW p \in R2 PROVE \E c \in o2 : c[1] = p[1]
    <3>1. CASE p \in R /\ p[1] <= d
      BY <3>1 DEF MovedBy
    <3>2. CASE p = <<d, v>>
      BY <1>9, <1>11, <3>2
    <3>3. CASE b.dash > 0 /\ p = <<d + b.dash, v + b.dash>>
      <4>1. <<d + b.dash, "content">> \in Opened(b) /\ p[1] = d + b.dash
        BY <1>9, <3>3
      <4> QED
        BY <4>1
    <3> QED
      BY <1>5, <3>1, <3>2, <3>3
  <2> QED
    BY <2>1, <2>2, <2>3 DEF MovedBy
<1> QED
  BY <1>2, <1>6, <1>12 DEF Alike, R2, e


(* The next line b is placed in both files, at the column that it has in   *)
(* the formatted one, where the parser accepts it.                         *)
Continues(f, g, q, a, w, b, t) ==
  LET v == Place(f, TRUE, b.indent, t)
      R == Columns(f) \union Pending(a, w)
  IN  /\ v \in Nat /\ Placed(f, TRUE, b.indent, t)
      /\ Placed(g, TRUE, v, t) /\ Place(g, TRUE, v, t) = v
      /\ Fits([b EXCEPT !.indent = v], q)
      /\ InOrder(R \union {<<b.indent, v>>}, t)
      /\ {p \in Columns(f) : p[1] <= b.indent} \union {<<b.indent, v>>} =
         {p \in R : p[1] <= b.indent} \union {<<b.indent, v>>}

(* A line that the parser accepts after a line a continues both files.     *)
LEMMA NodePlaced ==
  ASSUME NEW t \in Nat \ {0}, NEW f, NEW g, NEW o, NEW q, NEW a \in Line, NEW w, a.dash \in {0, t},
         Alike(f, g, o, q, a, w, t),
         NEW b \in Line, b.kind = "node", b.dash \in {0, t}, Fits(b, o),
         a.dash > 0 => b.indent <= a.indent + a.dash
  PROVE  Continues(f, g, q, a, w, b, t)
<1> DEFINE d == b.indent
           v == Place(f, TRUE, d, t)
           R == Columns(f) \union Pending(a, w)
           e == [b EXCEPT !.indent = v]
<1>1. d \in Nat /\ a.indent \in Nat /\ b.dash \in Nat /\ e.indent = v /\ e.dash = b.dash
  BY DEF Line
<1>2. /\ IsLevels(f, t) /\ LastColumn(f) = <<a.indent, w>>
      /\ IsLevels(g, t) /\ LastColumn(g) = <<w, w>>
      /\ Columns(g) = {<<p[2], p[2]>> : p \in Columns(f)}
      /\ InOrder(R, t) /\ MovedBy(R, o, q)
  BY DEF Alike
<1>3. \A p \in R : p = <<p[1], p[2]>> /\ p[1] \in Nat /\ p[2] \in Nat
  BY <1>2 DEF InOrder
<1>4. \A p, r \in R : (p[1] < r[1] => p[2] + t <= r[2]) /\ (p[1] = r[1] => p = r)
  BY <1>2 DEF InOrder
<1>5. <<a.indent, w>> \in Columns(f) /\ \A p \in Columns(f) : p[1] <= a.indent
  BY <1>2, ColumnsInOrder
<1>6. \A p \in R : p \in Columns(f) \/ (a.dash = t /\ p = <<a.indent + t, w + t>>)
  BY DEF Pending
<1>7. w \in Nat
  BY <1>3, <1>5
<1>8. a.dash > 0 => <<a.indent + t, w + t>> \in R
  BY DEF Pending
<1> HIDE DEF R
<1>9. Columns(f) \in SUBSET R
  BY DEF R
<1>10. CASE \E x : <<d, x>> \in Columns(f)
  <2>1. <<d, v>> \in Columns(f)
    BY <1>10 DEF Place
  <2>2. v \in Nat /\ <<d, v>> \in R
    BY <1>3, <1>9, <2>1
  <2>3. Placed(f, TRUE, d, t)
    BY <1>2, <2>1 DEF Placed
  <2> HIDE DEF v
  <2>4. Placed(g, TRUE, v, t) /\ Place(g, TRUE, v, t) = v
    <3>1. <<v, v>> \in Columns(g)
      BY <1>2, <2>1
    <3>2. \A x : <<v, x>> \in Columns(g) => x = v
      BY <1>2
    <3> QED
      BY <1>2, <3>1, <3>2 DEF Placed, Place
  <2>5. Fits(e, q)
    <3>1. \A c \in o : c[1] = d => <<v, c[2]>> \in q
      <4> SUFFICES ASSUME NEW c \in o, c[1] = d PROVE <<v, c[2]>> \in q
        OBVIOUS
      <4>1. PICK p \in R : c = <<p[1], c[2]>> /\ <<p[2], c[2]>> \in q
        BY <1>2 DEF MovedBy
      <4>2. p[1] = <<d, v>>[1]
        BY <4>1
      <4>3. p = <<d, v>>
        BY <1>4, <2>2, <4>2
      <4> QED
        BY <4>1, <4>3
    <3>2. \E c \in o : c[1] = d
      BY <1>2, <2>2 DEF MovedBy
    <3>3. <<d, "content">> \in o \/ (b.dash > 0 /\ <<d, "items">> \in o)
      <4>1. ~(d < d)
        BY <1>1
      <4>2. ~\A c \in o : c[1] < d
        BY <3>2, <4>1
      <4> QED
        BY <4>2, Zenon DEF Fits
    <3> QED
      BY <1>1, <3>1, <3>3 DEF Fits
  <2>6. R \union {<<d, v>>} = R
    BY <2>2
  <2>7. {p \in Columns(f) : p[1] <= d} \union {<<d, v>>} = {p \in R : p[1] <= d} \union {<<d, v>>}
    <3>1. \A p \in R : p[1] <= d => p \in Columns(f)
      <4>1. d <= a.indent
        BY <1>5, <2>1
      <4> QED
        BY <1>1, <1>6, <4>1
    <3> QED
      BY <1>9, <3>1
  <2> QED
    BY <1>2, <2>2, <2>3, <2>4, <2>5, <2>6, <2>7 DEF v, R, Continues
<1>11. CASE ~\E x : <<d, x>> \in Columns(f)
  <2>1. v = w + t
    BY <1>2, <1>11 DEF Place
  <2> HIDE DEF v
  <2>2. \/ a.dash = t /\ d = a.indent + t /\ <<d, v>> \in R
        \/ a.dash = 0 /\ d > a.indent /\ \A c \in o : c[1] < d
    <3>1. CASE \E c \in o : c[1] = d
      <4>1. PICK c \in o : c[1] = d
        BY <3>1
      <4>2. PICK p \in R : c = <<p[1], c[2]>>
        BY <1>2 DEF MovedBy
      <4>3. p[1] = d /\ p = <<p[1], p[2]>>
        BY <1>3, <4>1, <4>2
      <4>4. p \notin Columns(f)
        BY <1>11, <4>3
      <4>5. a.dash = t /\ p = <<a.indent + t, w + t>>
        BY <1>6, <4>4
      <4> QED
        BY <2>1, <4>3, <4>5
    <3>2. CASE ~\E c \in o : c[1] = d
      <4>1. \A c \in o : c[1] < d
        BY <3>2 DEF Fits
      <4>2. \A p \in R : p[1] < d
        BY <1>2, <4>1 DEF MovedBy
      <4>3. a.indent < d
        BY <1>5, <1>9, <4>2
      <4>4. a.dash = 0
        BY <1>1, <1>8, <4>2
      <4> QED
        BY <4>1, <4>3, <4>4
    <3> QED
      BY <3>1, <3>2
  <2>3. v \in Nat /\ d > a.indent /\ v > w
    BY <1>1, <1>7, <2>1, <2>2
  <2>4. Placed(f, TRUE, d, t)
    BY <1>2, <2>3 DEF Placed
  <2>5. Placed(g, TRUE, v, t) /\ Place(g, TRUE, v, t) = v
    <3>1. \A p \in Columns(g) : p[1] <= w
      BY <1>2, ColumnsInOrder
    <3>2. ~\E x : <<v, x>> \in Columns(g)
      <4>1. ~(v <= w)
        BY <1>7, <2>3
      <4>2. \A x : <<v, x>>[1] = v
        OBVIOUS
      <4> QED
        BY <3>1, <4>1, <4>2
    <3> QED
      BY <1>2, <2>1, <2>3, <3>2 DEF Placed, Place
  <2>6. InOrder(R \union {<<d, v>>}, t)
    <3>1. CASE <<d, v>> \in R
      <4>1. R \union {<<d, v>>} = R
        BY <3>1
      <4> QED
        BY <1>2, <4>1
    <3>2. CASE a.dash = 0
      <4>1. \A p \in R : p[1] < d /\ p[2] + t <= v
        <5>1. \A p \in R : p[1] <= a.indent
          BY <1>5, <1>6, <3>2
        <5>2. \A p \in R : p[1] = a.indent => p[2] = w
          BY <1>4, <1>5, <1>9
        <5>3. \A p \in R : p[1] < a.indent => p[2] + t <= w
          BY <1>4, <1>5, <1>9
        <5> QED
          BY <1>1, <1>3, <1>7, <2>1, <2>3, <5>1, <5>2, <5>3
      <4> QED
        BY <1>1, <1>3, <1>4, <2>3, <4>1 DEF InOrder
    <3> QED
      BY <2>2, <3>1, <3>2
  <2>7. Fits(e, q)
    <3>1. CASE a.dash = t /\ d = a.indent + t /\ <<d, v>> \in R
      <4>1. \A c \in o : c[1] = d => <<v, c[2]>> \in q
        <5> SUFFICES ASSUME NEW c \in o, c[1] = d PROVE <<v, c[2]>> \in q
          OBVIOUS
        <5>1. PICK p \in R : c = <<p[1], c[2]>> /\ <<p[2], c[2]>> \in q
          BY <1>2 DEF MovedBy
        <5>2. p[1] = <<d, v>>[1]
          BY <5>1
        <5>3. p = <<d, v>>
          BY <1>4, <3>1, <5>2
        <5> QED
          BY <5>1, <5>3
      <4>2. \E c \in o : c[1] = d
        BY <1>2, <3>1 DEF MovedBy
      <4>3. <<d, "content">> \in o \/ (b.dash > 0 /\ <<d, "items">> \in o)
        <5>1. ~(d < d)
          BY <1>1
        <5>2. ~\A c \in o : c[1] < d
          BY <4>2, <5>1
        <5> QED
          BY <5>2, Zenon DEF Fits
      <4> QED
        BY <1>1, <4>1, <4>3 DEF Fits
    <3>2. CASE a.dash = 0
      <4>1. \A p \in R : p[2] < v
        <5>1. \A p \in R : p \in Columns(f) /\ p[1] < d
          BY <1>1, <1>3, <1>5, <1>6, <1>9, <2>3, <3>2
        <5>2. \A p \in R : p[2] + t <= v
          <6>1. <<d, v>> \in R \union {<<d, v>>} /\ <<d, v>>[1] = d /\ <<d, v>>[2] = v
            OBVIOUS
          <6>2. \A p \in R : p[1] < <<d, v>>[1] => p[2] + t <= <<d, v>>[2]
            BY <2>6, <6>1 DEF InOrder
          <6> QED
            BY <5>1, <6>1, <6>2
        <5> QED
          BY <1>3, <2>3, <5>2
      <4>2. \A c \in q : c[1] < v
        <5> SUFFICES ASSUME NEW c \in q PROVE c[1] < v
          OBVIOUS
        <5>1. PICK p \in R : c = <<p[2], c[2]>>
          BY <1>2 DEF MovedBy
        <5>2. c[1] = p[2]
          BY <5>1
        <5> QED
          BY <4>1, <5>2
      <4> QED
        BY <1>1, <4>2 DEF Fits
    <3> QED
      BY <2>2, <3>1, <3>2
  <2>8. {p \in Columns(f) : p[1] <= d} \union {<<d, v>>} = {p \in R : p[1] <= d} \union {<<d, v>>}
    <3>1. \A p \in R : p[1] <= d => p \in Columns(f) \/ p = <<d, v>>
      BY <1>6, <2>1, <2>2
    <3> QED
      BY <1>9, <3>1
  <2> QED
    BY <2>3, <2>4, <2>5, <2>6, <2>7, <2>8 DEF v, R, Continues
<1> QED
  BY <1>10, <1>11

(* Line k, b, goes to v, where the formatted file has it already, and the  *)
(* two files are alike after it.                                           *)
GoesTo(b, t, f, g, k, o, q, R, v, s, u) ==
  LET e == [b EXCEPT !.indent = v]
  IN  /\ v \in Nat
      /\ FormatLine(b, t, f, k) = Settle(f, k, v, s, TRUE)
      /\ FormatLine(e, t, g, k) = Settle(g, k, v, u, TRUE)
      /\ Fits(e, q) /\ Alike(s, u, OpenAfter(b, o), OpenAfter(e, q), b, v, t)
      /\ InOrder(R \union {<<b.indent, v>>}, t) /\ {p \in R : p[1] <= b.indent} \subseteq Columns(s)

Reach(s, a, w) == Columns(s) \union Pending(a, w)

Meets(t, f, g, o, q, a, w, b) ==
  /\ t \in Nat \ {0} /\ a \in Line /\ a.dash \in {0, t}
  /\ f.top = TRUE /\ g.top = TRUE /\ Alike(f.levels, g.levels, o, q, a, w, t)
  /\ b \in Line /\ b.kind = "node" /\ b.dash \in {0, t} /\ Fits(b, o)
  /\ a.dash > 0 => b.indent <= a.indent + a.dash

(* So does a line that the parser accepts below one that the files are     *)
(* alike after.                                                            *)
LEMMA NextAlike ==
  ASSUME NEW t, NEW f, NEW g, NEW o, NEW q, NEW a, NEW w, NEW b, NEW k, NEW R,
         Meets(t, f, g, o, q, a, w, b), R = Reach(f.levels, a, w)
  PROVE  \E v, s, u : GoesTo(b, t, f, g, k, o, q, R, v, s, u)
<1> DEFINE v == Place(f.levels, TRUE, b.indent, t)
           e == [b EXCEPT !.indent = v]
<1>b. R = Columns(f.levels) \union Pending(a, w)
  BY DEF Reach
<1>a. /\ t \in Nat \ {0} /\ a \in Line /\ a.dash \in {0, t}
      /\ f.top = TRUE /\ g.top = TRUE /\ Alike(f.levels, g.levels, o, q, a, w, t)
      /\ b \in Line /\ b.kind = "node" /\ b.dash \in {0, t} /\ Fits(b, o)
      /\ a.dash > 0 => b.indent <= a.indent + a.dash
  BY DEF Meets
<1>1. /\ v \in Nat /\ Placed(f.levels, TRUE, b.indent, t)
      /\ Placed(g.levels, TRUE, v, t) /\ Place(g.levels, TRUE, v, t) = v
      /\ Fits(e, q)
      /\ InOrder(R \union {<<b.indent, v>>}, t)
      /\ {p \in Columns(f.levels) : p[1] <= b.indent} \union {<<b.indent, v>>} =
         {p \in R : p[1] <= b.indent} \union {<<b.indent, v>>}
  <2>1. Continues(f.levels, g.levels, q, a, w, b, t)
    BY <1>a, NodePlaced
  <2> QED
    BY <1>b, <2>1 DEF Continues
<1>2. e \in Line /\ e.kind = "node" /\ e.indent = v
  BY <1>a, <1>1 DEF Line
<1>3. PICK s : /\ FormatLine(b, t, f, k) = Settle(f, k, v, s, TRUE)
               /\ IsLevels(s, t) /\ LastColumn(s) = <<b.indent, v>>
               /\ Columns(s) = {p \in Columns(f.levels) : p[1] <= b.indent} \union {<<b.indent, v>>}
  <2>1. v = Place(f.levels, f.top, b.indent, t) /\ Placed(f.levels, f.top, b.indent, t)
    BY <1>a, <1>1
  <2> HIDE DEF v
  <2>2. \E s : Formats(b, t, f, k, s)
    BY <1>a, <2>1, NodeFormatted
  <2> QED
    BY <1>a, <2>1, <2>2 DEF Formats
<1> HIDE DEF e
<1>4. PICK u : /\ FormatLine(e, t, g, k) = Settle(g, k, v, u, TRUE)
               /\ IsLevels(u, t) /\ LastColumn(u) = <<v, v>>
               /\ Columns(u) = {p \in Columns(g.levels) : p[1] <= v} \union {<<v, v>>}
  <2> HIDE DEF v
  <2>1. v = Place(g.levels, g.top, e.indent, t) /\ Placed(g.levels, g.top, e.indent, t)
    BY <1>a, <1>1, <1>2
  <2>2. \E x : Formats(e, t, g, k, x)
    BY <1>a, <1>2, <2>1, NodeFormatted
  <2> QED
    BY <1>a, <1>2, <2>1, <2>2 DEF Formats
<1> HIDE DEF v
<1>5. Columns(u) = {<<p[2], p[2]>> : p \in Columns(s)}
  <2>1. Columns(g.levels) = {<<p[2], p[2]>> : p \in Columns(f.levels)}
    BY <1>a DEF Alike
  <2>2. \A p \in Columns(f.levels) : p[1] <= b.indent <=> p[2] <= v
    <3> SUFFICES ASSUME NEW p \in Columns(f.levels) PROVE p[1] <= b.indent <=> p[2] <= v
      OBVIOUS
    <3> DEFINE r == <<b.indent, v>>
    <3>1. p \in R \union {r} /\ r \in R \union {r} /\ r[1] = b.indent /\ r[2] = v
      BY <1>b
    <3> HIDE DEF r
    <3>2. /\ p[1] \in Nat /\ p[2] \in Nat /\ b.indent \in Nat
          /\ p[1] < r[1] => p[2] + t <= r[2]
          /\ r[1] < p[1] => r[2] + t <= p[2]
          /\ p[1] = r[1] => p = r
      BY <1>1, <3>1 DEF InOrder, Line, r
    <3> QED
      BY <1>a, <1>1, <3>1, <3>2
  <2> QED
    BY <1>3, <1>4, <2>1, <2>2
<1>6. MovedBy(R, o, q)
  BY <1>a, <1>b DEF Alike
<1>7. Columns(s) = {p \in R : p[1] <= b.indent} \union {<<b.indent, v>>}
  BY <1>1, <1>3
<1>8. Alike(s, u, OpenAfter(b, o), OpenAfter(e, q), b, v, t)
  BY <1>a, <1>1, <1>3, <1>4, <1>5, <1>6, <1>7, AlikeAfter DEF e
<1>9. GoesTo(b, t, f, g, k, o, q, R, v, s, u)
  BY <1>1, <1>3, <1>4, <1>7, <1>8 DEF e, GoesTo
<1> QED
  BY <1>1, <1>9

(* So does the first line with content, to the margin.                     *)
LEMMA FirstAlike ==
  ASSUME NEW t \in Nat \ {0}, NEW f, NEW g, f.top = FALSE, g.top = FALSE, f.levels = <<>>, g.levels = <<>>,
         NEW b \in Line, b.kind = "node", b.dash \in {0, t}, NEW k
  PROVE  \E s, u : GoesTo(b, t, f, g, k, {}, {}, {}, 0, s, u)
<1> DEFINE e == [b EXCEPT !.indent = 0]
<1>1. b.indent \in Nat /\ e \in Line /\ e.kind = "node" /\ e.indent = 0
  BY DEF Line
<1>2. IsLevels(<<>>, t)
  BY DEF IsLevels
<1>3. PICK s : /\ FormatLine(b, t, f, k) = Settle(f, k, 0, s, TRUE)
               /\ IsLevels(s, t) /\ LastColumn(s) = <<b.indent, 0>> /\ Columns(s) = {<<b.indent, 0>>}
  <2>1. Placed(f.levels, f.top, b.indent, t) /\ Place(f.levels, f.top, b.indent, t) = 0
    BY <1>2 DEF Placed, Place
  <2>2. \E s : Formats(b, t, f, k, s)
    BY <1>1, <2>1, NodeFormatted
  <2> QED
    BY <1>1, <2>1, <2>2 DEF Formats
<1> HIDE DEF e
<1>4. PICK u : /\ FormatLine(e, t, g, k) = Settle(g, k, 0, u, TRUE)
               /\ IsLevels(u, t) /\ LastColumn(u) = <<0, 0>> /\ Columns(u) = {<<0, 0>>}
  <2>1. Placed(g.levels, g.top, e.indent, t) /\ Place(g.levels, g.top, e.indent, t) = 0
    BY <1>2 DEF Placed, Place
  <2>2. \E x : Formats(e, t, g, k, x)
    BY <1>1, <2>1, NodeFormatted
  <2> QED
    BY <1>1, <2>1, <2>2 DEF Formats
<1>5. Columns(u) = {<<p[2], p[2]>> : p \in Columns(s)}
  BY <1>3, <1>4
<1>6. MovedBy({}, {}, {}) /\ InOrder({} \union {<<b.indent, 0>>}, t)
  BY <1>1 DEF MovedBy, InOrder
<1>7. Columns(s) = {p \in {} : p[1] <= b.indent} \union {<<b.indent, 0>>}
  BY <1>3
<1>8. Alike(s, u, OpenAfter(b, {}), OpenAfter(e, {}), b, 0, t)
  <2>1. 0 \in Nat
    OBVIOUS
  <2> QED
    BY <1>3, <1>4, <1>5, <1>6, <1>7, <2>1, AlikeAfter DEF e
<1>9. Fits(e, {})
  BY DEF Fits
<1>10. GoesTo(b, t, f, g, k, {}, {}, {}, 0, s, u)
  BY <1>3, <1>4, <1>6, <1>8, <1>9 DEF e, GoesTo
<1> QED
  BY <1>10

-----------------------------------------------------------------------------
(* What is found of any file: a number for each line.                      *)
Level == [original : Nat, desired : Nat]

Found(n, k) ==
  [levels : Seq(Level), comments : SUBSET (1 .. k), top : BOOLEAN, wanted : [1 .. n -> Nat]]

(* There is a last level, a number wanted of it, after any indentation.    *)
LEMMA UpdateTypes ==
  ASSUME NEW s \in Seq(Level), NEW d \in Nat, NEW x \in Nat
  PROVE  /\ UpdateIndentation(s, d, x) \in Seq(Level)
         /\ Last(UpdateIndentation(s, d, x)) \in Level
<1> DEFINE known == {i \in DOMAIN s : s[i].original = d}
           v     == IF s = <<>> THEN x ELSE Last(s).desired + x
           u     == UpdateIndentation(s, d, x)
<1>1. Len(s) \in Nat /\ DOMAIN s = 1 .. Len(s) /\ \A i \in 1 .. Len(s) : s[i] \in Level
  OBVIOUS
<1>2. CASE known # {}
  <2>1. known \in SUBSET Nat
    BY <1>1
  <2> HIDE DEF known
  <2>2. \E i \in known : \A h \in known : i <= h
    BY <1>2, <2>1, LeastNumber
  <2>3. PICK m : m = CHOOSE i \in known : \A h \in known : i <= h
    OBVIOUS
  <2>4. m \in known
    BY <2>2, <2>3
  <2>5. m \in 1 .. Len(s)
    BY <1>1, <2>4 DEF known
  <2>6. u = SubSeq(s, 1, m)
    BY <1>2, <2>3, Zenon DEF UpdateIndentation, known
  <2>7. \A S : s \in Seq(S) => SubSeq(s, 1, m) \in Seq(S) /\ Len(SubSeq(s, 1, m)) = m
                               /\ SubSeq(s, 1, m)[m] = s[m]
    <3>1. m \in Nat /\ 1 <= m /\ m <= Len(s)
      BY <1>1, <2>5
    <3> QED
      BY <3>1
  <2> QED
    BY <1>1, <2>5, <2>6, <2>7 DEF Last
<1>3. CASE known = {}
  <2>1. v \in Nat
    <3>1. CASE s = <<>>
      BY <3>1
    <3>2. CASE s # <<>>
      <4>1. Len(s) \in 1 .. Len(s)
        BY <1>1, <3>2
      <4>2. s[Len(s)].desired \in Nat
        BY <1>1, <4>1 DEF Level
      <4> QED
        BY <3>2, <4>2 DEF Last
    <3> QED
      BY <3>1, <3>2
  <2>2. u = Append(s, [original |-> d, desired |-> v])
    <3> HIDE DEF v
    <3> QED
      BY <1>3, Zenon DEF UpdateIndentation, v
  <2>3. PICK e : e = [original |-> d, desired |-> v]
    OBVIOUS
  <2>4. e \in Level
    BY <2>1, <2>3 DEF Level
  <2>5. \A S : s \in Seq(S) /\ e \in S =>
          Append(s, e) \in Seq(S) /\ Len(Append(s, e)) = Len(s) + 1 /\ Append(s, e)[Len(s) + 1] = e
    OBVIOUS
  <2>6. u = Append(s, e)
    BY <2>2, <2>3
  <2> QED
    BY <2>4, <2>5, <2>6 DEF Last
<1> QED
  BY <1>2, <1>3

(* A line is a comment that waits, says nothing, or settles those waiting. *)
AfterLine(line, f, k, r) ==
  \/ line.kind = "comment" /\ r = [f EXCEPT !.comments = f.comments \union {k}]
  \/ line.kind = "blank" /\ r = f
  \/ /\ line.kind # "comment"
     /\ \E v \in Nat, s \in Seq(Level), top \in BOOLEAN :
          /\ r = Settle(f, k, v, s, top)
          /\ line.kind = "separator" => v = 0 /\ s = <<>> /\ top = FALSE

(* These are all that formatting a line may do.                            *)
LEMMA LineFormatted ==
  ASSUME NEW t \in Nat \ {0}, NEW line \in Line, NEW n \in Nat, NEW k \in 1 .. n, NEW f \in Found(n, k - 1)
  PROVE  AfterLine(line, f, k, FormatLine(line, t, f, k))
<1> DEFINE first  == line.kind = "node" /\ ~f.top
           levels == IF first /\ line.indent > 0
                     THEN Append(f.levels, Last(UpdateIndentation(f.levels, line.indent, 0)))
                     ELSE f.levels
           after  == UpdateIndentation(levels, line.indent, t)
           a == line.kind = "comment"
           b == line.kind = "separator"
           c == line.kind \in {"node", "blank"} /\ line.indent > 0
           e == line.kind = "node" /\ line.indent = 0
           A == [f EXCEPT !.comments = f.comments \union {k}]
           B == Settle(f, k, 0, <<>>, FALSE)
           C == Settle(f, k, Last(after).desired, after, f.top \/ line.kind = "node")
           E == Settle(f, k, 0, <<>>, TRUE)
<1>1. FormatLine(line, t, f, k) = CASE a -> A [] b -> B [] c -> C [] e -> E [] OTHER -> f
  BY DEF FormatLine
<1>2. /\ line.indent \in Nat /\ line.kind \in {"node", "comment", "blank", "separator"}
      /\ f.levels \in Seq(Level) /\ f.top \in BOOLEAN
  BY DEF Line, Found
<1>3. levels \in Seq(Level)
  <2>1. Last(UpdateIndentation(f.levels, line.indent, 0)) \in Level
    BY <1>2, UpdateTypes
  <2> QED
    BY <1>2, <2>1
<1> HIDE DEF levels
<1>4. after \in Seq(Level) /\ Last(after) \in Level
  BY <1>2, <1>3, UpdateTypes
<1> HIDE DEF after
<1>5. Last(after).desired \in Nat
  BY <1>4 DEF Level
<1>6. (a => ~b /\ ~c /\ ~e) /\ (b => ~a /\ ~c /\ ~e) /\ (c => ~a /\ ~b /\ ~e) /\ (e => ~a /\ ~b /\ ~c)
  BY <1>2
<1>7. CASE a
  <2>1. FormatLine(line, t, f, k) = A
    <3> HIDE DEF A, B, C, E, a, b, c, e
    <3> QED
      BY <1>1, <1>6, <1>7
  <2> QED
    BY <1>7, <2>1 DEF AfterLine
<1>8. CASE b
  <2>1. FormatLine(line, t, f, k) = B
    <3> HIDE DEF A, B, C, E, a, b, c, e
    <3> QED
      BY <1>1, <1>6, <1>8
  <2>2. 0 \in Nat /\ <<>> \in Seq(Level) /\ FALSE \in BOOLEAN
    OBVIOUS
  <2> QED
    BY <1>8, <2>1, <2>2, Zenon DEF AfterLine
<1>9. CASE c
  <2>1. FormatLine(line, t, f, k) = C
    <3> HIDE DEF A, B, C, E, a, b, c, e
    <3> QED
      BY <1>1, <1>6, <1>9
  <2>2. (f.top \/ line.kind = "node") \in BOOLEAN
    BY <1>2
  <2> QED
    BY <1>4, <1>5, <1>9, <2>1, <2>2 DEF AfterLine
<1>10. CASE e
  <2>1. FormatLine(line, t, f, k) = E
    <3> HIDE DEF A, B, C, E, a, b, c, e
    <3> QED
      BY <1>1, <1>6, <1>10
  <2>2. 0 \in Nat /\ <<>> \in Seq(Level) /\ TRUE \in BOOLEAN
    OBVIOUS
  <2> QED
    BY <1>10, <2>1, <2>2, Zenon DEF AfterLine
<1>11. CASE ~a /\ ~b /\ ~c /\ ~e
  <2>1. FormatLine(line, t, f, k) = f
    <3> HIDE DEF A, B, C, E, a, b, c, e
    <3> QED
      BY <1>1, <1>11
  <2>2. line.kind = "blank"
    BY <1>2, <1>11
  <2> QED
    BY <2>1, <2>2 DEF AfterLine
<1> QED
  BY <1>7, <1>8, <1>9, <1>10, <1>11

(* Only comments wait, and separators stay at the margin.                  *)
LEMMA FoundTypes ==
  ASSUME NEW ls, AreLines(ls), NEW t \in Nat \ {0}, NEW k \in 0 .. Len(ls)
  PROVE  /\ Indentations(ls, t)[k] \in Found(Len(ls), k)
         /\ \A l \in Indentations(ls, t)[k].comments : ls[l].kind = "comment"
         /\ \A l \in 1 .. Len(ls) : ls[l].kind = "separator" => Indentations(ls, t)[k].wanted[l] = 0
<1> DEFINE n == Len(ls)
           F == Indentations(ls, t)
           Typed(f, m) == /\ f \in Found(n, m)
                          /\ \A l \in f.comments : ls[l].kind = "comment"
                          /\ \A l \in 1 .. n : ls[l].kind = "separator" => f.wanted[l] = 0
           Good == {m \in 0 .. n : Typed(F[m], m)}
<1>1. /\ n \in Nat /\ DOMAIN ls = 1 .. n
      /\ \A l \in 1 .. n : ls[l] \in Line /\ ls[l].indent \in Nat /\ (ls[l].kind = "separator" => ls[l].indent = 0)
  BY LineTypes
<1>2. F[0] = NothingFound(ls) /\ \A m \in 1 .. n : F[m] = FormatLine(ls[m], t, F[m - 1], m)
  BY IndentationsDefined
<1> HIDE DEF F, n
<1>3. 0 \in Good
  <2>1. Typed(NothingFound(ls), 0)
    <3>1. [l \in DOMAIN ls |-> ls[l].indent] \in [1 .. n -> Nat]
      BY <1>1
    <3>2. \A l \in 1 .. n : ls[l].kind = "separator" => [h \in DOMAIN ls |-> ls[h].indent][l] = 0
      BY <1>1
    <3>3. <<>> \in Seq(Level)
      OBVIOUS
    <3> QED
      BY <3>1, <3>2, <3>3 DEF NothingFound, Found
  <2> QED
    BY <1>1, <1>2, <2>1
<1>4. ASSUME NEW m \in 0 .. n - 1, m \in Good PROVE m + 1 \in Good
  <2>1. PICK f : f = F[m]
    OBVIOUS
  <2>2. Typed(f, m) /\ m + 1 \in 1 .. n /\ (m + 1) - 1 = m /\ m \in Nat
    BY <1>1, <1>4, <2>1
  <2>3. F[m + 1] = FormatLine(ls[m + 1], t, f, m + 1)
    BY <1>2, <2>1, <2>2
  <2>4. PICK line : line = ls[m + 1]
    OBVIOUS
  <2>5. line \in Line /\ f \in Found(n, (m + 1) - 1)
    BY <1>1, <2>2, <2>4
  <2>6. 1 .. m \subseteq 1 .. m + 1 /\ m + 1 \in 1 .. m + 1
    BY <2>2
  <2>7. Typed(FormatLine(line, t, f, m + 1), m + 1)
    <3>1. CASE line.kind = "comment" /\ FormatLine(line, t, f, m + 1) = [f EXCEPT !.comments = f.comments \union {m + 1}]
      <4>1. PICK c : c = f.comments \union {m + 1}
        OBVIOUS
      <4>2. c \in SUBSET (1 .. m + 1) /\ \A l \in c : ls[l].kind = "comment"
        BY <2>2, <2>4, <2>6, <3>1, <4>1 DEF Found
      <4>3. FormatLine(line, t, f, m + 1) = [f EXCEPT !.comments = c]
        BY <3>1, <4>1
      <4> QED
        BY <2>2, <4>2, <4>3 DEF Found
    <3>2. CASE line.kind = "blank" /\ FormatLine(line, t, f, m + 1) = f
      BY <2>2, <2>6, <3>2 DEF Found
    <3>3. CASE line.kind # "comment" /\ \E v \in Nat, s \in Seq(Level), top \in BOOLEAN :
                 /\ FormatLine(line, t, f, m + 1) = Settle(f, m + 1, v, s, top)
                 /\ line.kind = "separator" => v = 0 /\ s = <<>> /\ top = FALSE
      <4>1. PICK v \in Nat, s \in Seq(Level), top \in BOOLEAN :
              /\ FormatLine(line, t, f, m + 1) = Settle(f, m + 1, v, s, top)
              /\ line.kind = "separator" => v = 0 /\ s = <<>> /\ top = FALSE
        BY <3>3
      <4> DEFINE W == [l \in DOMAIN f.wanted |-> IF l = m + 1 \/ l \in f.comments THEN v ELSE f.wanted[l]]
      <4>2. f.wanted \in [1 .. n -> Nat] /\ DOMAIN f.wanted = 1 .. n
        BY <2>2 DEF Found
      <4>3. W \in [1 .. n -> Nat]
        BY <4>2
      <4>4. \A l \in 1 .. n : ls[l].kind = "separator" => W[l] = 0
        BY <2>2, <2>4, <4>1, <4>2
      <4> HIDE DEF W
      <4>5. Settle(f, m + 1, v, s, top) = [levels |-> s, comments |-> {}, top |-> top, wanted |-> W]
        BY DEF Settle, W
      <4>6. Typed([levels |-> s, comments |-> {}, top |-> top, wanted |-> W], m + 1)
        BY <4>3, <4>4 DEF Found
      <4> QED
        BY <4>1, <4>5, <4>6
    <3>4. AfterLine(line, f, m + 1, FormatLine(line, t, f, m + 1))
      BY <1>1, <2>2, <2>5, LineFormatted
    <3> HIDE DEF Typed
    <3> QED
      BY <3>1, <3>2, <3>3, <3>4 DEF AfterLine
  <2> HIDE DEF Typed
  <2> QED
    BY <1>1, <2>2, <2>3, <2>4, <2>7
<1>5. \A m \in 0 .. n : m \in Good
  <2> HIDE DEF Good
  <2> QED
    BY <1>1, <1>3, <1>4, InductionUpTo
<1> QED
  BY <1>5 DEF F, n

(* What is wanted of a line is settled once it does not wait.              *)
LEMMA Settled ==
  ASSUME NEW ls, AreLines(ls), NEW t \in Nat \ {0}, NEW k \in 0 .. Len(ls), NEW l \in 1 .. k,
         l \notin Indentations(ls, t)[k].comments
  PROVE  Indentations(ls, t)[Len(ls)].wanted[l] = Indentations(ls, t)[k].wanted[l]
<1> DEFINE n == Len(ls)
           F == Indentations(ls, t)
           Kept(f) == l \notin f.comments /\ f.wanted[l] = F[k].wanted[l]
           Good == {m \in 0 .. n : k <= m => Kept(F[m])}
<1>1. n \in Nat /\ \A h \in 1 .. n : ls[h] \in Line
  BY LineTypes
<1>2. \A m \in 1 .. n : F[m] = FormatLine(ls[m], t, F[m - 1], m)
  BY IndentationsDefined
<1>3. \A m \in 0 .. n : F[m] \in Found(n, m)
  BY FoundTypes
<1>4. l \notin F[k].comments /\ k \in 0 .. n /\ l \in 1 .. n
  BY <1>1
<1> HIDE DEF F, n
<1>5. 0 \in Good
  <2>1. k <= 0 => FALSE
    BY <1>1, <1>4
  <2> QED
    BY <1>1, <2>1
<1>6. ASSUME NEW m \in 0 .. n - 1, m \in Good PROVE m + 1 \in Good
  <2>1. m + 1 \in 1 .. n /\ (m + 1) - 1 = m /\ m \in 0 .. n
    BY <1>1
  <2>2. CASE k <= m
    <3>1. PICK f : f = F[m]
      OBVIOUS
    <3>2. Kept(f) /\ f \in Found(n, (m + 1) - 1) /\ F[m + 1] = FormatLine(ls[m + 1], t, f, m + 1)
      BY <1>2, <1>3, <1>6, <2>1, <2>2, <3>1
    <3>3. PICK line : line = ls[m + 1]
      OBVIOUS
    <3>4. line \in Line /\ l # m + 1
      BY <1>1, <1>4, <2>1, <2>2, <3>3
    <3>5. Kept(FormatLine(line, t, f, m + 1))
      <4>1. CASE line.kind = "comment" /\ FormatLine(line, t, f, m + 1) = [f EXCEPT !.comments = f.comments \union {m + 1}]
        <5>1. PICK c : c = f.comments \union {m + 1}
          OBVIOUS
        <5>2. FormatLine(line, t, f, m + 1) = [f EXCEPT !.comments = c]
          BY <4>1, <5>1
        <5> QED
          BY <3>2, <3>4, <5>1, <5>2 DEF Found
      <4>2. CASE FormatLine(line, t, f, m + 1) = f
        BY <3>2, <4>2
      <4>3. CASE \E v \in Nat, s \in Seq(Level), top \in BOOLEAN :
                   FormatLine(line, t, f, m + 1) = Settle(f, m + 1, v, s, top)
        <5>1. PICK v, s, top : FormatLine(line, t, f, m + 1) = Settle(f, m + 1, v, s, top)
          BY <4>3
        <5>2. l \in DOMAIN f.wanted
          BY <1>4, <3>2 DEF Found
        <5>3. Settle(f, m + 1, v, s, top).comments = {}
          BY DEF Settle
        <5>4. Settle(f, m + 1, v, s, top).wanted[l] = f.wanted[l]
          BY <3>2, <3>4, <5>2 DEF Settle
        <5> QED
          BY <3>2, <5>1, <5>3, <5>4
      <4>4. AfterLine(line, f, m + 1, FormatLine(line, t, f, m + 1))
        BY <1>1, <2>1, <3>2, <3>4, LineFormatted
      <4> HIDE DEF Kept
      <4> QED
        BY <4>1, <4>2, <4>3, <4>4 DEF AfterLine
    <3> HIDE DEF Kept
    <3> QED
      BY <1>1, <2>1, <3>2, <3>3, <3>5
  <2>3. CASE ~(k <= m)
    <3>1. k <= m + 1 => k = m + 1
      BY <1>4, <2>1, <2>3
    <3>2. Kept(F[k])
      BY <1>4
    <3> HIDE DEF Kept
    <3> QED
      BY <1>1, <2>1, <3>1, <3>2
  <2> QED
    BY <2>2, <2>3
<1>7. \A m \in 0 .. n : m \in Good
  <2> HIDE DEF Good
  <2> QED
    BY <1>1, <1>5, <1>6, InductionUpTo
<1>8. n \in Good /\ k <= n
  BY <1>1, <1>4, <1>7
<1> QED
  BY <1>8 DEF F, n

(* The formatted lines are the lines, where they are wanted.               *)
LEMMA FormattedAsWanted ==
  ASSUME NEW ls, AreLines(ls), NEW t \in Nat \ {0}
  PROVE  LET W == Indentations(ls, t)[Len(ls)].wanted
         IN  /\ W \in [1 .. Len(ls) -> Nat]
             /\ AreLines(FormattedLines(ls, t)) /\ Len(FormattedLines(ls, t)) = Len(ls)
             /\ \A k \in 1 .. Len(ls) : FormattedLines(ls, t)[k] = [ls[k] EXCEPT !.indent = W[k]]
<1> DEFINE n == Len(ls)
           W == Indentations(ls, t)[n].wanted
           new == FormattedLines(ls, t)
           EditsOf(k) == {e \in LineEdits(ls, t) : e.line = k}
           Moved(k) == IF EditsOf(k) = {} THEN ls[k]
                       ELSE [ls[k] EXCEPT !.indent = (CHOOSE e \in EditsOf(k) : TRUE).indent]
<1>1. /\ n \in Nat /\ DOMAIN ls = 1 .. n
      /\ \A k \in 1 .. n : ls[k] \in Line /\ (ls[k].kind # "node" => ls[k].dash = 0)
  BY LineTypes
<1>2. W \in [1 .. n -> Nat] /\ \A k \in 1 .. n : ls[k].kind = "separator" => W[k] = 0
  BY <1>1, FoundTypes DEF Found
<1>3. LineEdits(ls, t) = {[line |-> k, indent |-> W[k]] : k \in {k \in 1 .. n : W[k] # ls[k].indent}}
  BY <1>1 DEF LineEdits
<1>4. new = [k \in 1 .. n |-> Moved(k)]
  BY <1>1 DEF FormattedLines
<1> HIDE DEF W, n, new
<1>5. ASSUME NEW k \in 1 .. n PROVE Moved(k) = [ls[k] EXCEPT !.indent = W[k]]
  <2>1. PICK line : line = ls[k]
    OBVIOUS
  <2>2. line \in Line
    BY <1>1, <2>1
  <2>3. CASE W[k] = line.indent
    <3>1. EditsOf(k) = {}
      <4> SUFFICES ASSUME NEW e \in LineEdits(ls, t), e.line = k PROVE FALSE
        OBVIOUS
      <4>1. PICK h \in 1 .. n : W[h] # ls[h].indent /\ e = [line |-> h, indent |-> W[h]]
        BY <1>3
      <4> QED
        BY <2>1, <2>3, <4>1
    <3>2. Moved(k) = line
      BY <2>1, <3>1
    <3>3. [line EXCEPT !.indent = line.indent] = line
      BY <2>2 DEF Line
    <3> HIDE DEF Moved
    <3> QED
      BY <2>1, <2>3, <3>2, <3>3
  <2>4. CASE W[k] # line.indent
    <3>1. PICK e : e = [line |-> k, indent |-> W[k]]
      OBVIOUS
    <3>2. EditsOf(k) = {e}
      <4>1. e \in LineEdits(ls, t) /\ e.line = k
        BY <1>3, <2>1, <2>4, <3>1
      <4>2. \A r \in LineEdits(ls, t) : r.line = k => r = e
        <5> SUFFICES ASSUME NEW r \in LineEdits(ls, t), r.line = k PROVE r = e
          OBVIOUS
        <5>1. PICK h \in 1 .. n : r = [line |-> h, indent |-> W[h]]
          BY <1>3
        <5> QED
          BY <3>1, <5>1
      <4> QED
        BY <4>1, <4>2
    <3>3. (CHOOSE r \in EditsOf(k) : TRUE) = e
      <4> HIDE DEF EditsOf
      <4> QED
        BY <3>2
    <3>4. EditsOf(k) # {} /\ e.indent = W[k]
      BY <3>1, <3>2
    <3> HIDE DEF EditsOf
    <3> QED
      BY <3>3, <3>4
  <2> QED
    BY <2>3, <2>4
<1>6. \A k \in 1 .. n : new[k] = [ls[k] EXCEPT !.indent = W[k]]
  <2> HIDE DEF Moved
  <2> QED
    BY <1>4, <1>5
<1>7. \A k \in 1 .. n : /\ new[k] \in Line /\ new[k].kind = ls[k].kind /\ new[k].dash = ls[k].dash
                        /\ new[k].indent = W[k]
  <2> SUFFICES ASSUME NEW k \in 1 .. n
               PROVE  /\ new[k] \in Line /\ new[k].kind = ls[k].kind /\ new[k].dash = ls[k].dash
                      /\ new[k].indent = W[k]
    OBVIOUS
  <2>1. PICK line : line = ls[k]
    OBVIOUS
  <2>2. line \in Line /\ W[k] \in Nat /\ new[k] = [line EXCEPT !.indent = W[k]]
    BY <1>1, <1>2, <1>6, <2>1
  <2> QED
    BY <2>1, <2>2 DEF Line
<1>8. new \in Seq(Line) /\ Len(new) = n
  <2>1. DOMAIN new = 1 .. n /\ new = [k \in 1 .. n |-> new[k]]
    BY <1>4
  <2>2. new \in [1 .. n -> Line]
    BY <1>7, <2>1
  <2> QED
    BY <1>1, <2>2
<1>9. AreLines(new)
  <2>1. DOMAIN new = 1 .. n
    BY <1>4
  <2> QED
    BY <1>1, <1>2, <1>7, <1>8, <2>1 DEF AreLines
<1> QED
  BY <1>2, <1>6, <1>8, <1>9 DEF W, n, new

-----------------------------------------------------------------------------
(* Line j is still above what line k + 1 may be below.                     *)
Active(ls, j, k) ==
  /\ IsContent(ls, j)
  /\ \A i \in j .. k : ls[i].kind # "separator"
  /\ \A i \in j + 1 .. k : IsContent(ls, i) => ls[i].indent > ls[j].indent

(* A line a that goes to w, and one at d that goes to v.                   *)
Points(a, w) == {<<a.indent, w>>} \union Pending(a, w)

SameOrder(a, w, d, v) ==
  /\ d < a.indent <=> v < w
  /\ d = a.indent <=> v = w
  /\ d < a.indent + a.dash <=> v < w + a.dash
  /\ d = a.indent + a.dash <=> v = w + a.dash

InPlace(a, w, d, v) ==
  SameOrder(a, w, d, v) /\ (d > a.indent => \A p \in Points(a, w) : p[1] <= d)

(* In columns that are in order a line and one above it, or its item, are  *)
(* on the same side of each other in both files.                           *)
LEMMA PointsInOrder ==
  ASSUME NEW t \in Nat \ {0}, NEW R, InOrder(R, t), NEW d \in Nat, NEW v \in Nat, <<d, v>> \in R,
         NEW a \in Line, NEW w, a.dash \in {0, t}, Points(a, w) \subseteq R
  PROVE  InPlace(a, w, d, v)
<1> DEFINE r == <<d, v>>
           p == <<a.indent, w>>
           h == <<a.indent + a.dash, w + a.dash>>
<1>1. a.indent \in Nat /\ a.dash \in Nat
  BY DEF Line
<1>2. Points(a, w) = IF a.dash > 0 THEN {p, h} ELSE {p}
  BY DEF Points, Pending
<1>3. p \in R /\ r \in R /\ (a.dash > 0 => h \in R)
  BY <1>2
<1>4. p[1] = a.indent /\ p[2] = w /\ r[1] = d /\ r[2] = v /\ h[1] = a.indent + a.dash /\ h[2] = w + a.dash
  OBVIOUS
<1> DEFINE Apart(x, y) == /\ x[1] \in Nat /\ x[2] \in Nat
                          /\ x[1] < y[1] => x[2] + t <= y[2]
                          /\ x[1] = y[1] => x = y
<1>5. ASSUME NEW x \in R, NEW y \in R PROVE Apart(x, y)
  BY DEF InOrder
<1>6. Apart(p, r) /\ Apart(r, p) /\ (a.dash > 0 => Apart(h, r) /\ Apart(r, h))
  <2> HIDE DEF p, r, h, Apart
  <2> QED
    BY <1>3, <1>5
<1> HIDE DEF p, r, h
<1>7. w \in Nat
  BY <1>4, <1>6
<1>9. /\ d > a.indent => w + t <= v
      /\ d < a.indent => v + t <= w
      /\ d = a.indent => w = v
  BY <1>4, <1>6
<1>10. a.dash > 0 => /\ d > a.indent + a.dash => (w + a.dash) + t <= v
                     /\ d < a.indent + a.dash => v + t <= w + a.dash
                     /\ d = a.indent + a.dash => w + a.dash = v
  BY <1>4, <1>6
<1>11. SameOrder(a, w, d, v)
  BY <1>1, <1>7, <1>9, <1>10 DEF SameOrder
<1>12. d > a.indent => a.indent + a.dash <= d
  BY <1>1, <1>7, <1>9, <1>10
<1> QED
  BY <1>1, <1>2, <1>4, <1>11, <1>12 DEF InPlace

(* After line k of the file and of the formatted one: no line of the       *)
(* second has moved, and unless a separator was the last, the two are      *)
(* alike after the last line with content, and the lines that the next may *)
(* be below are at columns known there.                                    *)
Joint(ls, W, t, f, g, o, q, k) ==
  /\ f.top = g.top /\ f.comments = g.comments /\ g.wanted = W
  /\ ~f.top => /\ f.levels = <<>> /\ g.levels = <<>> /\ o = {} /\ q = {}
               /\ \A j \in 1 .. k : ~Active(ls, j, k)
  /\ f.top => \E a \in 1 .. k :
       /\ IsContent(ls, a) /\ \A i \in a + 1 .. k : ls[i].kind = "comment"
       /\ Alike(f.levels, g.levels, o, q, ls[a], W[a], t)
       /\ \A j \in 1 .. k :
            Active(ls, j, k) => Points(ls[j], W[j]) \subseteq Columns(f.levels) \union Pending(ls[a], W[a])

(* Lines that are settled at one place are settled in both files.          *)
SettlesAt(f, k, W, v, s, top) == \A l \in f.comments \union {k} : Settle(f, k, v, s, top).wanted[l] = W[l]

SettleBoth(f, g, k, W, v, s, u, top) ==
  /\ W[k] = v
  /\ Settle(f, k, v, s, top).levels = s /\ Settle(f, k, v, s, top).comments = {}
  /\ Settle(f, k, v, s, top).top = top
  /\ Settle(g, k, v, u, top) = [levels |-> u, comments |-> {}, top |-> top, wanted |-> W]

(* A line whose place is the wanted one settles those that wait in both    *)
(* files, and moves none of the formatted one.                             *)
LEMMA SettledAlike ==
  ASSUME NEW n \in Nat, NEW k \in 1 .. n, NEW f \in Found(n, k - 1), NEW g \in Found(n, k - 1), NEW W,
         f.comments = g.comments, g.wanted = W, NEW v, NEW s, NEW u, NEW top, SettlesAt(f, k, W, v, s, top)
  PROVE  SettleBoth(f, g, k, W, v, s, u, top)
<1>1. /\ DOMAIN f.wanted = 1 .. n /\ W = [l \in 1 .. n |-> W[l]] /\ DOMAIN g.wanted = 1 .. n
      /\ \A l \in f.comments : l \in 1 .. n
  BY DEF Found
<1> DEFINE Now(x) == [l \in 1 .. n |-> IF l = k \/ l \in x.comments THEN v ELSE x.wanted[l]]
<1>2. Settle(f, k, v, s, top) = [levels |-> s, comments |-> {}, top |-> top, wanted |-> Now(f)]
  BY <1>1 DEF Settle
<1>3. Settle(g, k, v, u, top) = [levels |-> u, comments |-> {}, top |-> top, wanted |-> Now(g)]
  BY <1>1 DEF Settle
<1>4. \A l \in f.comments \union {k} : Now(f)[l] = v /\ W[l] = v
  <2>1. \A l \in f.comments \union {k} : Now(f)[l] = v
    BY <1>1
  <2> HIDE DEF Now
  <2>2. Settle(f, k, v, s, top).wanted = Now(f)
    BY <1>2
  <2> QED
    BY <2>1, <2>2 DEF SettlesAt
<1>5. Now(g) = W
  <2>1. \A l \in 1 .. n : (IF l = k \/ l \in g.comments THEN v ELSE g.wanted[l]) = W[l]
    BY <1>4
  <2> QED
    BY <1>1, <2>1
<1> HIDE DEF Now
<1> QED
  BY <1>2, <1>3, <1>4, <1>5 DEF SettleBoth

(* Line k fits where it goes, in the order that it was in with the lines   *)
(* it may be below.                                                        *)
Fitted(ls, W, q, k) ==
  IsContent(ls, k) =>
    /\ Fits([ls[k] EXCEPT !.indent = W[k]], q)
    /\ \A j \in 1 .. k - 1 : Active(ls, j, k - 1) => SameOrder(ls[j], W[j], ls[k].indent, W[k])

(* One more line keeps the files alike, and it fits.                       *)
LEMMA JointStep ==
  ASSUME NEW ls, AreLines(ls), NEW t \in Nat \ {0}, Regular(ls, t), NEW k \in 1 .. Len(ls),
         NEW W \in [1 .. Len(ls) -> Nat],
         NEW f \in Found(Len(ls), k - 1), NEW g \in Found(Len(ls), k - 1), NEW o, NEW q,
         Joint(ls, W, t, f, g, o, q, k - 1),
         IsContent(ls, k) => Fits(ls[k], o),
         ls[k].kind # "comment" => \A l \in f.comments \union {k} : FormatLine(ls[k], t, f, k).wanted[l] = W[l]
  PROVE  LET e == [ls[k] EXCEPT !.indent = W[k]]
         IN  /\ Joint(ls, W, t, FormatLine(ls[k], t, f, k), FormatLine(e, t, g, k),
                      OpenAfter(ls[k], o), OpenAfter(e, q), k)
             /\ Fitted(ls, W, q, k)
<1> DEFINE n == Len(ls)
<1>1. /\ n \in Nat /\ DOMAIN ls = 1 .. n
      /\ \A l \in 1 .. n : ls[l] \in Line /\ (ls[l].kind \in {"node", "comment", "blank", "separator"})
  BY LineTypes
<1>2. \A l \in 1 .. n : ls[l].kind # "blank" /\ ls[l].dash \in {0, t}
  BY <1>1 DEF Regular
<1>3. \A j, h \in 1 .. n : Follows(ls, j, h) /\ ls[j].dash > 0 /\ IsContent(ls, h) =>
                              ls[h].indent <= ls[j].indent + ls[j].dash
  BY <1>1 DEF Regular
<1>4. PICK b : b = ls[k]
  OBVIOUS
<1>5. PICK e : e = [b EXCEPT !.indent = W[k]]
  OBVIOUS
<1>6. /\ b \in Line /\ b.kind \in {"node", "comment", "separator"} /\ b.indent \in Nat /\ b.dash \in {0, t}
      /\ W[k] \in Nat /\ e \in Line /\ e.kind = b.kind /\ e.indent = W[k] /\ k \in Nat /\ k >= 1
  BY <1>1, <1>2, <1>4, <1>5 DEF Line
<1>7. /\ f.top = g.top /\ f.comments = g.comments /\ g.wanted = W
      /\ ~f.top => /\ f.levels = <<>> /\ g.levels = <<>> /\ o = {} /\ q = {}
                   /\ \A j \in 1 .. k - 1 : ~Active(ls, j, k - 1)
  BY DEF Joint
<1>8. f.top => \E a \in 1 .. k - 1 :
        /\ IsContent(ls, a) /\ \A i \in a + 1 .. k - 1 : ls[i].kind = "comment"
        /\ Alike(f.levels, g.levels, o, q, ls[a], W[a], t)
        /\ \A j \in 1 .. k - 1 :
             Active(ls, j, k - 1) => Points(ls[j], W[j]) \subseteq Columns(f.levels) \union Pending(ls[a], W[a])
  BY DEF Joint
<1>9. ASSUME NEW j \in 1 .. k, Active(ls, j, k)
      PROVE  \/ j = k
             \/ /\ j \in 1 .. k - 1 /\ Active(ls, j, k - 1)
                /\ IsContent(ls, k) => ls[k].indent > ls[j].indent
  <2>1. ASSUME j # k PROVE j \in 1 .. k - 1 /\ j .. k - 1 \subseteq j .. k /\ k \in j + 1 .. k
                           /\ j + 1 .. k - 1 \subseteq j + 1 .. k
    BY <1>6, <2>1
  <2> QED
    BY <1>9, <2>1 DEF Active
<1> HIDE DEF n
<1>10. CASE b.kind = "comment"
  <2>1. PICK c : c = f.comments \union {k}
    OBVIOUS
  <2>2. FormatLine(b, t, f, k) = [f EXCEPT !.comments = c] /\ FormatLine(e, t, g, k) = [g EXCEPT !.comments = c]
    BY <1>6, <1>7, <1>10, <2>1 DEF FormatLine
  <2>3. PICK x : x = FormatLine(b, t, f, k)
    OBVIOUS
  <2>4. PICK y : y = FormatLine(e, t, g, k)
    OBVIOUS
  <2>5. /\ x.top = f.top /\ x.comments = c /\ x.levels = f.levels
        /\ y.top = g.top /\ y.comments = c /\ y.levels = g.levels /\ y.wanted = g.wanted
    BY <2>2, <2>3, <2>4 DEF Found
  <2>6. OpenAfter(b, o) = o /\ OpenAfter(e, q) = q
    BY <1>6, <1>10 DEF OpenAfter
  <2>7. \A j \in 1 .. k : Active(ls, j, k) => j \in 1 .. k - 1 /\ Active(ls, j, k - 1)
    BY <1>4, <1>9, <1>10 DEF Active, IsContent
  <2>8. f.top => \E a \in 1 .. k :
          /\ IsContent(ls, a) /\ \A i \in a + 1 .. k : ls[i].kind = "comment"
          /\ Alike(f.levels, g.levels, o, q, ls[a], W[a], t)
          /\ \A j \in 1 .. k :
               Active(ls, j, k) => Points(ls[j], W[j]) \subseteq Columns(f.levels) \union Pending(ls[a], W[a])
    <3> SUFFICES ASSUME f.top PROVE \E a \in 1 .. k :
          /\ IsContent(ls, a) /\ \A i \in a + 1 .. k : ls[i].kind = "comment"
          /\ Alike(f.levels, g.levels, o, q, ls[a], W[a], t)
          /\ \A j \in 1 .. k :
               Active(ls, j, k) => Points(ls[j], W[j]) \subseteq Columns(f.levels) \union Pending(ls[a], W[a])
      OBVIOUS
    <3>1. PICK a \in 1 .. k - 1 :
            /\ IsContent(ls, a) /\ \A i \in a + 1 .. k - 1 : ls[i].kind = "comment"
            /\ Alike(f.levels, g.levels, o, q, ls[a], W[a], t)
            /\ \A j \in 1 .. k - 1 :
                 Active(ls, j, k - 1) => Points(ls[j], W[j]) \subseteq Columns(f.levels) \union Pending(ls[a], W[a])
      BY <1>8
    <3>2. a \in 1 .. k /\ \A i \in a + 1 .. k : i = k \/ i \in a + 1 .. k - 1
      BY <1>6
    <3>3. \A i \in a + 1 .. k : ls[i].kind = "comment"
      BY <1>4, <1>10, <3>1, <3>2
    <3> QED
      BY <2>7, <3>1, <3>2, <3>3
  <2>9. Joint(ls, W, t, x, y, o, q, k)
    BY <1>7, <2>5, <2>7, <2>8 DEF Joint
  <2>10. Fitted(ls, W, q, k)
    BY <1>4, <1>10 DEF Fitted, IsContent
  <2> QED
    BY <1>4, <1>5, <2>3, <2>4, <2>6, <2>9, <2>10
<1>11. CASE b.kind = "separator"
  <2>1. FormatLine(b, t, f, k) = Settle(f, k, 0, <<>>, FALSE) /\ FormatLine(e, t, g, k) = Settle(g, k, 0, <<>>, FALSE)
    BY <1>6, <1>11 DEF FormatLine
  <2>2. SettleBoth(f, g, k, W, 0, <<>>, <<>>, FALSE)
    <3>1. SettlesAt(f, k, W, 0, <<>>, FALSE)
      BY <1>4, <1>11, <2>1 DEF SettlesAt
    <3> QED
      BY <1>1, <1>7, <3>1, SettledAlike DEF n
  <2>3. PICK x : x = Settle(f, k, 0, <<>>, FALSE)
    OBVIOUS
  <2>4. PICK y : y = Settle(g, k, 0, <<>>, FALSE)
    OBVIOUS
  <2>5. /\ x.levels = <<>> /\ x.comments = {} /\ x.top = FALSE
        /\ y = [levels |-> <<>>, comments |-> {}, top |-> FALSE, wanted |-> W]
    BY <2>2, <2>3, <2>4 DEF SettleBoth
  <2>6. OpenAfter(b, o) = {} /\ OpenAfter(e, q) = {}
    BY <1>6, <1>11 DEF OpenAfter
  <2>7. \A j \in 1 .. k : ~Active(ls, j, k)
    <3>1. \A j \in 1 .. k : k \in j .. k
      BY <1>6
    <3> QED
      BY <1>4, <1>11, <3>1 DEF Active
  <2>8. Joint(ls, W, t, x, y, {}, {}, k)
    BY <2>5, <2>7 DEF Joint
  <2>9. Fitted(ls, W, q, k)
    BY <1>4, <1>11 DEF Fitted, IsContent
  <2> QED
    BY <1>4, <1>5, <2>1, <2>3, <2>4, <2>6, <2>8, <2>9
<1>12. CASE b.kind = "node" /\ f.top
  <2>1. PICK i \in 1 .. k - 1 :
          /\ IsContent(ls, i) /\ \A h \in i + 1 .. k - 1 : ls[h].kind = "comment"
          /\ Alike(f.levels, g.levels, o, q, ls[i], W[i], t)
          /\ \A j \in 1 .. k - 1 :
               Active(ls, j, k - 1) => Points(ls[j], W[j]) \subseteq Columns(f.levels) \union Pending(ls[i], W[i])
    BY <1>8, <1>12
  <2>2. PICK a : a = ls[i]
    OBVIOUS
  <2>3. i \in 1 .. n /\ k \in 1 .. n /\ i < k
    BY <1>1, <1>6 DEF n
  <2>4. Follows(ls, i, k) /\ IsContent(ls, k)
    BY <1>4, <1>12, <2>1, <2>3 DEF Follows, IsContent
  <2>5. a \in Line /\ a.dash \in {0, t} /\ (a.dash > 0 => b.indent <= a.indent + a.dash)
    BY <1>1, <1>2, <1>3, <1>4, <2>2, <2>3, <2>4
  <2>6. f.top = TRUE /\ g.top = TRUE
    BY <1>7, <1>12 DEF Found
  <2> DEFINE R == Columns(f.levels) \union Pending(a, W[i])
  <2>7. PICK v, s, u : GoesTo(b, t, f, g, k, o, q, R, v, s, u)
    <3>1. Alike(f.levels, g.levels, o, q, a, W[i], t) /\ Fits(b, o)
      BY <1>4, <2>1, <2>2, <2>4
    <3>2. PICK w : w = W[i]
      OBVIOUS
    <3>3. Alike(f.levels, g.levels, o, q, a, w, t)
      BY <3>1, <3>2
    <3>4. PICK r : r = Reach(f.levels, a, w)
      OBVIOUS
    <3>5. \E v, s, u : GoesTo(b, t, f, g, k, o, q, r, v, s, u)
      <4>1. Meets(t, f, g, o, q, a, w, b)
        BY <1>6, <1>12, <2>5, <2>6, <3>1, <3>3 DEF Meets
      <4> QED
        BY <3>4, <4>1, NextAlike
    <3> QED
      BY <3>2, <3>4, <3>5 DEF Reach
  <2>8. SettleBoth(f, g, k, W, v, s, u, TRUE)
    <3>1. SettlesAt(f, k, W, v, s, TRUE)
      BY <1>4, <1>12, <2>7 DEF SettlesAt, GoesTo
    <3> QED
      BY <1>1, <1>7, <3>1, SettledAlike DEF n
  <2>9. PICK x : x = Settle(f, k, v, s, TRUE)
    OBVIOUS
  <2>10. PICK y : y = Settle(g, k, v, u, TRUE)
    OBVIOUS
  <2>11. /\ W[k] = v /\ x.levels = s /\ x.comments = {} /\ x.top = TRUE
         /\ y = [levels |-> u, comments |-> {}, top |-> TRUE, wanted |-> W]
    BY <2>8, <2>9, <2>10 DEF SettleBoth
  <2>12. /\ FormatLine(b, t, f, k) = Settle(f, k, v, s, TRUE)
         /\ FormatLine(e, t, g, k) = Settle(g, k, v, u, TRUE)
         /\ Fits(e, q) /\ Alike(s, u, OpenAfter(b, o), OpenAfter(e, q), b, v, t)
         /\ {p \in R : p[1] <= b.indent} \subseteq Columns(s)
    BY <1>5, <2>7, <2>11 DEF GoesTo
  <2> HIDE DEF R
  <2>13. ASSUME NEW j \in 1 .. k - 1, Active(ls, j, k - 1)
         PROVE  /\ SameOrder(ls[j], W[j], b.indent, v) /\ Points(ls[j], W[j]) \subseteq R
                /\ b.indent > ls[j].indent => \A p \in Points(ls[j], W[j]) : p[1] <= b.indent
    <3>1. j \in 1 .. n
      BY <1>1, <1>6 DEF n
    <3>2. PICK c : c = ls[j]
      OBVIOUS
    <3>3. PICK w : w = W[j]
      OBVIOUS
    <3>4. c \in Line /\ c.dash \in {0, t} /\ Points(c, w) \subseteq R
      BY <1>1, <1>2, <2>1, <2>2, <2>13, <3>1, <3>2, <3>3 DEF R
    <3>5. v \in Nat /\ InOrder(R \union {<<b.indent, v>>}, t)
      BY <2>7 DEF GoesTo
    <3>6. InPlace(c, w, b.indent, v)
      <4>1. PICK S : S = R \union {<<b.indent, v>>}
        OBVIOUS
      <4>2. InOrder(S, t) /\ <<b.indent, v>> \in S /\ Points(c, w) \subseteq S
        BY <3>4, <3>5, <4>1
      <4> QED
        BY <1>6, <3>4, <3>5, <4>2, PointsInOrder
    <3> QED
      BY <3>2, <3>3, <3>4, <3>6 DEF InPlace
  <2>14. Fitted(ls, W, q, k)
    BY <1>4, <1>5, <2>11, <2>12, <2>13 DEF Fitted
  <2>15. <<b.indent, v>> \in Columns(s)
    BY <2>12, ColumnsInOrder DEF Alike
  <2>16. ASSUME NEW j \in 1 .. k, Active(ls, j, k)
         PROVE  Points(ls[j], W[j]) \subseteq Columns(s) \union Pending(b, v)
    <3>1. CASE j = k
      BY <1>4, <2>11, <2>15, <3>1 DEF Points
    <3>2. CASE j # k
      <4>1. j \in 1 .. k - 1 /\ Active(ls, j, k - 1) /\ b.indent > ls[j].indent
        BY <1>4, <1>9, <2>4, <2>16, <3>2
      <4>2. Points(ls[j], W[j]) \subseteq {p \in R : p[1] <= b.indent}
        BY <2>13, <4>1
      <4> QED
        BY <2>12, <4>2
    <3> QED
      BY <3>1, <3>2
  <2>17. k \in 1 .. k /\ \A h \in k + 1 .. k : ls[h].kind = "comment"
    BY <1>6
  <2>18. Joint(ls, W, t, x, y, OpenAfter(b, o), OpenAfter(e, q), k)
    BY <1>4, <2>4, <2>11, <2>12, <2>16, <2>17 DEF Joint
  <2> QED
    BY <1>4, <1>5, <2>9, <2>10, <2>12, <2>14, <2>18
<1>13. CASE b.kind = "node" /\ ~f.top
  <2>1. f.top = FALSE /\ g.top = FALSE /\ IsContent(ls, k)
    BY <1>4, <1>7, <1>13 DEF Found, IsContent
  <2>2. PICK s, u : GoesTo(b, t, f, g, k, {}, {}, {}, 0, s, u)
    BY <1>6, <1>7, <1>13, <2>1, FirstAlike
  <2>3. SettleBoth(f, g, k, W, 0, s, u, TRUE)
    <3>1. SettlesAt(f, k, W, 0, s, TRUE)
      BY <1>4, <1>13, <2>2 DEF SettlesAt, GoesTo
    <3> QED
      BY <1>1, <1>7, <3>1, SettledAlike DEF n
  <2>4. PICK x : x = Settle(f, k, 0, s, TRUE)
    OBVIOUS
  <2>5. PICK y : y = Settle(g, k, 0, u, TRUE)
    OBVIOUS
  <2>6. /\ W[k] = 0 /\ x.levels = s /\ x.comments = {} /\ x.top = TRUE
        /\ y = [levels |-> u, comments |-> {}, top |-> TRUE, wanted |-> W]
    BY <2>3, <2>4, <2>5 DEF SettleBoth
  <2>7. /\ FormatLine(b, t, f, k) = Settle(f, k, 0, s, TRUE)
        /\ FormatLine(e, t, g, k) = Settle(g, k, 0, u, TRUE)
        /\ Fits(e, q) /\ Alike(s, u, OpenAfter(b, o), OpenAfter(e, q), b, 0, t)
    BY <1>5, <1>7, <1>13, <2>2, <2>6 DEF GoesTo
  <2>8. Fitted(ls, W, q, k)
    BY <1>4, <1>5, <1>7, <1>13, <2>7 DEF Fitted
  <2>9. <<b.indent, 0>> \in Columns(s)
    BY <2>7, ColumnsInOrder DEF Alike
  <2>10. ASSUME NEW j \in 1 .. k, Active(ls, j, k)
         PROVE  Points(ls[j], W[j]) \subseteq Columns(s) \union Pending(b, 0)
    <3>1. j = k
      BY <1>7, <1>9, <1>13, <2>10
    <3> QED
      BY <1>4, <2>6, <2>9, <3>1 DEF Points
  <2>11. k \in 1 .. k /\ \A h \in k + 1 .. k : ls[h].kind = "comment"
    BY <1>6
  <2>12. Joint(ls, W, t, x, y, OpenAfter(b, o), OpenAfter(e, q), k)
    BY <1>4, <2>1, <2>6, <2>7, <2>10, <2>11 DEF Joint
  <2> QED
    BY <1>4, <1>5, <2>4, <2>5, <2>7, <2>8, <2>12
<1> QED
  BY <1>6, <1>10, <1>11, <1>12, <1>13

(* So all lines do, from the first on.                                     *)
LEMMA JointAlways ==
  ASSUME NEW ls, AreLines(ls), NEW t \in Nat \ {0}, Regular(ls, t), Parses(ls), NEW new, new = FormattedLines(ls, t),
         NEW W, W = Indentations(ls, t)[Len(ls)].wanted, NEW k \in 0 .. Len(ls)
  PROVE  /\ Joint(ls, W, t, Indentations(ls, t)[k], Indentations(new, t)[k], OpenColumns(ls)[k], OpenColumns(new)[k], k)
         /\ k > 0 => Fitted(ls, W, OpenColumns(new)[k - 1], k)
<1> DEFINE n == Len(ls)
           F == Indentations(ls, t)
           G == Indentations(new, t)
           O == OpenColumns(ls)
           Q == OpenColumns(new)
           Good == {m \in 0 .. n : /\ Joint(ls, W, t, F[m], G[m], O[m], Q[m], m)
                                   /\ m > 0 => Fitted(ls, W, Q[m - 1], m)}
<1>1. /\ n \in Nat /\ DOMAIN ls = 1 .. n /\ \A l \in 1 .. n : ls[l] \in Line
      /\ \A l \in 1 .. n : ls[l].kind # "blank"
  BY LineTypes DEF Regular
<1>2. /\ W \in [1 .. n -> Nat] /\ AreLines(new) /\ Len(new) = n
      /\ \A l \in 1 .. n : new[l] = [ls[l] EXCEPT !.indent = W[l]]
  BY FormattedAsWanted
<1>3. /\ F[0] = NothingFound(ls) /\ \A m \in 1 .. n : F[m] = FormatLine(ls[m], t, F[m - 1], m)
      /\ O[0] = {} /\ \A m \in 1 .. n : O[m] = OpenAfter(ls[m], O[m - 1])
  BY IndentationsDefined, OpenColumnsDefined
<1>4. /\ G[0] = NothingFound(new) /\ \A m \in 1 .. n : G[m] = FormatLine(new[m], t, G[m - 1], m)
      /\ Q[0] = {} /\ \A m \in 1 .. n : Q[m] = OpenAfter(new[m], Q[m - 1])
  BY <1>2, IndentationsDefined, OpenColumnsDefined
<1>5. \A m \in 0 .. n : F[m] \in Found(n, m) /\ G[m] \in Found(n, m)
  BY <1>2, FoundTypes
<1>6. \A m \in 1 .. n : IsContent(ls, m) => Fits(ls[m], O[m - 1])
  BY <1>1 DEF Parses, IsContent
<1>7. \A m \in 1 .. n : \A l \in 1 .. m : l \notin F[m].comments => F[m].wanted[l] = W[l]
  BY <1>1, Settled
<1>8. DOMAIN new = 1 .. n
  BY <1>2, LineTypes
<1> HIDE DEF n, F, G, O, Q
<1>9. 0 \in Good
  <2>1. [l \in DOMAIN new |-> new[l].indent] = W
    <3>1. \A l \in 1 .. n : new[l].indent = W[l]
      <4> SUFFICES ASSUME NEW l \in 1 .. n PROVE new[l].indent = W[l]
        OBVIOUS
      <4>1. PICK line : line = ls[l]
        OBVIOUS
      <4> QED
        BY <1>1, <1>2, <4>1 DEF Line
    <3>2. [l \in 1 .. n |-> new[l].indent] = [l \in 1 .. n |-> W[l]]
      BY <3>1
    <3> QED
      BY <1>2, <1>8, <3>2
  <2>2. Joint(ls, W, t, NothingFound(ls), NothingFound(new), {}, {}, 0)
    <3>1. NothingFound(new) = [levels |-> <<>>, comments |-> {}, top |-> FALSE, wanted |-> W]
      BY <2>1, Zenon DEF NothingFound
    <3>2. PICK x : x = NothingFound(ls)
      OBVIOUS
    <3>3. x.levels = <<>> /\ x.comments = {} /\ x.top = FALSE
      BY <3>2 DEF NothingFound
    <3>4. PICK y : y = NothingFound(new)
      OBVIOUS
    <3>5. y.levels = <<>> /\ y.comments = {} /\ y.top = FALSE /\ y.wanted = W
      BY <3>1, <3>4
    <3>6. Joint(ls, W, t, x, y, {}, {}, 0)
      <4>1. ~x.top /\ x.top = y.top
        BY <3>3, <3>5
      <4>2. \A j : j \notin 1 .. 0
        OBVIOUS
      <4> QED
        BY <3>3, <3>5, <4>1, <4>2 DEF Joint
    <3> QED
      BY <3>2, <3>4, <3>6
  <2>3. 0 \in 0 .. n /\ ~(0 > 0)
    BY <1>1
  <2>4. Joint(ls, W, t, F[0], G[0], O[0], Q[0], 0)
    BY <1>3, <1>4, <2>2
  <2> QED
    BY <2>3, <2>4
<1>10. ASSUME NEW i \in 0 .. n - 1, i \in Good PROVE i + 1 \in Good
  <2>1. PICK m : m = i + 1
    OBVIOUS
  <2>2. m \in 1 .. n /\ m \in 0 .. n /\ m - 1 = i /\ m - 1 \in 0 .. n
    BY <1>1, <2>1
  <2>3. PICK f : f = F[m - 1]
    OBVIOUS
  <2>4. PICK g : g = G[m - 1]
    OBVIOUS
  <2>5. f \in Found(n, m - 1) /\ g \in Found(n, m - 1) /\ Joint(ls, W, t, f, g, O[m - 1], Q[m - 1], m - 1)
    BY <1>5, <1>10, <2>2, <2>3, <2>4
  <2>6. /\ F[m] = FormatLine(ls[m], t, f, m) /\ G[m] = FormatLine(new[m], t, g, m)
        /\ O[m] = OpenAfter(ls[m], O[m - 1]) /\ Q[m] = OpenAfter(new[m], Q[m - 1])
        /\ new[m] = [ls[m] EXCEPT !.indent = W[m]]
    BY <1>2, <1>3, <1>4, <2>2, <2>3, <2>4
  <2>7. ASSUME ls[m].kind # "comment", NEW l \in f.comments \union {m}
        PROVE  FormatLine(ls[m], t, f, m).wanted[l] = W[l]
    <3>1. AfterLine(ls[m], f, m, FormatLine(ls[m], t, f, m))
      BY <1>1, <2>2, <2>5, LineFormatted
    <3>2. PICK v, s, top : F[m] = Settle(f, m, v, s, top)
      BY <1>1, <2>2, <2>6, <2>7, <3>1 DEF AfterLine
    <3>3. F[m].comments = {}
      BY <3>2 DEF Settle
    <3>4. l \in 1 .. m
      BY <2>2, <2>5 DEF Found
    <3> QED
      BY <1>7, <2>2, <2>6, <3>3, <3>4
  <2>8. PICK o : o = O[m - 1]
    OBVIOUS
  <2>9. PICK q : q = Q[m - 1]
    OBVIOUS
  <2>10. PICK e : e = [ls[m] EXCEPT !.indent = W[m]]
    OBVIOUS
  <2>11. /\ Joint(ls, W, t, FormatLine(ls[m], t, f, m), FormatLine(e, t, g, m), OpenAfter(ls[m], o), OpenAfter(e, q), m)
         /\ Fitted(ls, W, q, m)
    <3>1. W \in [1 .. Len(ls) -> Nat] /\ m \in 1 .. Len(ls) /\ f \in Found(Len(ls), m - 1) /\ g \in Found(Len(ls), m - 1)
      BY <1>2, <2>2, <2>5 DEF n
    <3>2. Joint(ls, W, t, f, g, o, q, m - 1) /\ (IsContent(ls, m) => Fits(ls[m], o))
      BY <1>6, <2>2, <2>5, <2>8, <2>9
    <3> QED
      BY <2>7, <2>10, <3>1, <3>2, JointStep
  <2> QED
    BY <1>1, <2>1, <2>2, <2>6, <2>8, <2>9, <2>10, <2>11
<1>11. \A m \in 0 .. n : m \in Good
  <2> HIDE DEF Good
  <2> QED
    BY <1>1, <1>9, <1>10, InductionUpTo
<1> QED
  BY <1>11 DEF n, F, G, O, Q

-----------------------------------------------------------------------------
(* Formatting a file whose items are regular keeps its tree.               *)
LEMMA FormattedKeepsTheTree ==
  ASSUME NEW ls, AreLines(ls), NEW t \in Nat \ {0}, Regular(ls, t), Parses(ls)
  PROVE  /\ Parses(FormattedLines(ls, t)) /\ LineEdits(FormattedLines(ls, t), t) = {}
         /\ KeepsTree(ls, FormattedLines(ls, t))
<1> DEFINE n == Len(ls)
<1>1. PICK new : new = FormattedLines(ls, t)
  OBVIOUS
<1>2. PICK W : W = Indentations(ls, t)[Len(ls)].wanted
  OBVIOUS
<1>3. /\ n \in Nat /\ DOMAIN ls = 1 .. n /\ \A k \in 1 .. n : ls[k] \in Line
  BY LineTypes
<1>4. /\ W \in [1 .. n -> Nat] /\ AreLines(new) /\ Len(new) = n
      /\ \A k \in 1 .. n : new[k] = [ls[k] EXCEPT !.indent = W[k]]
  BY <1>1, <1>2, FormattedAsWanted
<1>5. DOMAIN new = 1 .. n
  BY <1>4, LineTypes
<1>6. \A k \in 1 .. n : new[k].kind = ls[k].kind /\ new[k].dash = ls[k].dash /\ new[k].indent = W[k]
  <2> SUFFICES ASSUME NEW k \in 1 .. n
               PROVE  new[k].kind = ls[k].kind /\ new[k].dash = ls[k].dash /\ new[k].indent = W[k]
    OBVIOUS
  <2>1. PICK line : line = ls[k]
    OBVIOUS
  <2> QED
    BY <1>3, <1>4, <2>1 DEF Line
<1>7. /\ Joint(ls, W, t, Indentations(ls, t)[n], Indentations(new, t)[n], OpenColumns(ls)[n], OpenColumns(new)[n], n)
      /\ \A k \in 1 .. n : Fitted(ls, W, OpenColumns(new)[k - 1], k)
  <2>1. n \in 0 .. n /\ \A k \in 1 .. n : k \in 0 .. n /\ k > 0
    BY <1>3
  <2> QED
    BY <1>1, <1>2, <2>1, JointAlways
<1> HIDE DEF n
<1>8. Parses(new)
  <2> SUFFICES ASSUME NEW k \in 1 .. n, new[k].kind = "node" PROVE Fits(new[k], OpenColumns(new)[k - 1])
    BY <1>5 DEF Parses
  <2>1. IsContent(ls, k)
    BY <1>6 DEF IsContent
  <2> QED
    BY <1>4, <1>7, <2>1 DEF Fitted
<1>9. LineEdits(new, t) = {}
  <2>1. Indentations(new, t)[n].wanted = W
    BY <1>7 DEF Joint
  <2>2. {k \in 1 .. n : W[k] # new[k].indent} = {}
    BY <1>6
  <2> QED
    BY <1>4, <1>5, <2>1, <2>2 DEF LineEdits
<1>10. KeepsTree(ls, new)
  <2> SUFFICES ASSUME NEW j \in 1 .. n, NEW k \in 1 .. n,
                      IsContent(ls, j), IsContent(ls, k), Related(ls, j, k)
               PROVE  Order(ls, j, k) = Order(new, j, k)
    BY <1>3 DEF KeepsTree
  <2>1. j \in 1 .. k - 1 /\ j .. k - 1 \subseteq j .. k
    BY <1>3 DEF Related
  <2>2. Active(ls, j, k - 1)
    BY <2>1 DEF Related, Active
  <2>3. SameOrder(ls[j], W[j], ls[k].indent, W[k])
    BY <1>7, <2>1, <2>2 DEF Fitted
  <2> QED
    BY <1>6, <2>3 DEF SameOrder, Order
<1> QED
  BY <1>1, <1>8, <1>9, <1>10

IsLayout(l) == l = [lines |-> l.lines, tab |-> l.tab] /\ AreLines(l.lines) /\ l.tab \in Nat \ {0}

(* What is formatted is lines and a tab size, and stays so (formatting.go  *)
(* returns edits of lines).                                                *)
LEMMA LayoutStays == SpecLines => []IsLayout(lines)
<1>1. InitLines => IsLayout(lines)
  BY LinesAssumption DEF InitLines, IsLayout
<1>2. IsLayout(lines) /\ [FormatFile]_lines => IsLayout(lines)'
  <2> SUFFICES ASSUME IsLayout(lines), [FormatFile]_lines PROVE IsLayout(lines')
    OBVIOUS
  <2>1. CASE FormatFile
    <3>1. PICK ls : ls = FormattedLines(lines.lines, lines.tab)
      OBVIOUS
    <3>2. AreLines(ls) /\ lines.tab \in Nat \ {0}
      BY <3>1, FormattedAsWanted DEF IsLayout
    <3>3. lines' = [lines |-> ls, tab |-> lines.tab]
      BY <2>1, <3>1 DEF FormatFile
    <3> QED
      BY <3>2, <3>3 DEF IsLayout
  <2>2. CASE UNCHANGED lines
    BY <2>2 DEF IsLayout
  <2> QED
    BY <2>1, <2>2
<1> QED
  BY <1>1, <1>2, PTL DEF SpecLines

(* Formatting keeps the tree of every file whose items are regular: what   *)
(* compose/formatting.go wants of a line leaves it below the same lines,   *)
(* the parser accepts the result, and formatting it again moves nothing.   *)
THEOREM FormattingKeepsTheTreeAlways == SpecLines => []FormattingKeepsTheTree
<1>1. IsLayout(lines) => FormattingKeepsTheTree
  BY FormattedKeepsTheTree DEF IsLayout, FormattingKeepsTheTree
<1> QED
  BY <1>1, LayoutStays, PTL

=============================================================================
