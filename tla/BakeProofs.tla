------------------------------ MODULE BakeProofs -----------------------------
(***************************************************************************)
(* Theorems about Bake files.  The search for the parents of a target      *)
(* finds its ancestors, for any number of targets (bakeDocument.go).       *)
(* Formatting a block settles, for every layout: any number of lines and   *)
(* of items (bake/hcl/formatting.go).                                      *)
(***************************************************************************)
EXTENDS BakeAnswers, BakeFormatting, SuccessionProofs, SequenceTheorems

(* The blocks of a document, and the lists of parents in them.             *)
LEMMA DocumentTypes ==
  ASSUME IsDocument(doc)
  PROVE  /\ Len(doc) \in Nat /\ DOMAIN doc = 1 .. Len(doc)
         /\ \A i \in DOMAIN doc : doc[i].labels \in Seq(STRING)
         /\ IsFiniteSet(Targets)
<1>1. \A S : doc \in Seq(S) => Len(doc) \in Nat /\ DOMAIN doc = 1 .. Len(doc)
  OBVIOUS
<1>2. Len(doc) \in Nat /\ DOMAIN doc = 1 .. Len(doc)
  BY <1>1 DEF IsDocument
<1>3. PICK S : S = {i \in DOMAIN doc : doc[i].type = "target" /\ doc[i].labels # <<>>}
  OBVIOUS
<1>4. IsFiniteSet(S)
  <2>1. IsFiniteSet(1 .. Len(doc))
    BY <1>2, FS_Interval
  <2> QED
    BY <1>2, <1>3, <2>1, FS_Subset
<1>5. PICK f : f = [i \in S |-> doc[i].labels[1]]
  OBVIOUS
<1>6. Targets = {f[i] : i \in S}
  BY <1>3, <1>5 DEF Targets, TargetLabels
<1>7. IsFiniteSet(Targets)
  BY <1>4, <1>5, <1>6, FiniteImage
<1> QED
  BY <1>2, <1>7 DEF IsDocument

(* A target has a block.                                                   *)
LEMMA TargetsHaveBlocks ==
  ASSUME IsDocument(doc), NEW t \in Targets
  PROVE  FirstBlock(doc, "target", t) \in DOMAIN doc /\ FirstBlock(doc, "target", t) # 0
<1>1. PICK I : I = {i \in 1 .. Len(doc) : doc[i].type = "target" /\ Labelled(doc[i], t)}
  OBVIOUS
<1>2. PICK i \in DOMAIN doc : doc[i].type = "target" /\ doc[i].labels # <<>> /\ doc[i].labels[1] = t
  BY DEF Targets, TargetLabels
<1>3. i \in 1 .. Len(doc) /\ Len(doc[i].labels) > 0 /\ Len(doc) \in Nat
  BY <1>2, DocumentTypes
<1>4. I \in SUBSET Nat /\ i \in I
  BY <1>1, <1>2, <1>3 DEF Labelled
<1>5. Min(I) \in I
  BY <1>4, MinIsLeast
<1>6. FirstBlock(doc, "target", t) = Min(I)
  BY <1>1, <1>4 DEF FirstBlock, SelectInSeq
<1> QED
  BY <1>1, <1>5, <1>6, DocumentTypes

(* The list of what a target inherits from is a sequence of entries.       *)
LEMMA EntriesTypes ==
  ASSUME IsDocument(doc), NEW t \in Targets
  PROVE  /\ Len(InheritsEntries(t)) \in Nat /\ DOMAIN InheritsEntries(t) = 1 .. Len(InheritsEntries(t))
         /\ ~Has(BlockOf(t), "inherits") => InheritsEntries(t) = <<>>
<1>1. PICK i : i = FirstBlock(doc, "target", t)
  OBVIOUS
<1>2. i \in DOMAIN doc
  BY <1>1, TargetsHaveBlocks
<1>3. CASE Has(BlockOf(t), "inherits") /\ BlockOf(t).attrs["inherits"].kind = "tuple"
  <2>1. PICK e : e = doc[i].attrs["inherits"]
    OBVIOUS
  <2>2. e.children \in Seq(ToSet(e.children))
    BY <1>1, <1>2, <1>3, <2>1 DEF IsDocument, BlockOf, Has
  <2>3. InheritsEntries(t) = e.children
    BY <1>1, <1>3, <2>1 DEF InheritsEntries, BlockOf
  <2>4. \A S : e.children \in Seq(S) => Len(e.children) \in Nat /\ DOMAIN e.children = 1 .. Len(e.children)
    OBVIOUS
  <2> QED
    BY <1>3, <2>2, <2>3, <2>4
<1>4. CASE ~(Has(BlockOf(t), "inherits") /\ BlockOf(t).attrs["inherits"].kind = "tuple")
  <2>1. InheritsEntries(t) = <<>>
    BY <1>4 DEF InheritsEntries
  <2> QED
    BY <2>1
<1> QED
  BY <1>3, <1>4

-----------------------------------------------------------------------------
(* The visits of the entries of a list are defined.                        *)
LEMMA VisitsDefined ==
  ASSUME NEW g, NEW s, NEW entries, Len(entries) \in Nat
  PROVE  /\ VisitEntries(doc, g, s, entries)[0] = Resolved(s)
         /\ \A k \in 1 .. Len(entries) :
              VisitEntries(doc, g, s, entries)[k]
                = VisitEntry(doc, g, VisitEntries(doc, g, s, entries)[k - 1], entries[k])
<1> DEFINE N          == Len(entries)
           Next(f, n) == VisitEntry(doc, g, f[n - 1], entries[n])
           Layer(f, m) == [n \in 0 .. m |-> IF n = 0 THEN Resolved(s) ELSE Next(f, n)]
           Defined    == {n \in 0 .. N : \E f : f = Layer(f, n)}
<1>1. N \in Nat
  OBVIOUS
<1> HIDE DEF N
<1>2. \A n \in 0 .. N : n \in Defined
  <2>1. 0 \in Defined
    <3> HIDE DEF Next
    <3>1. Layer(<<>>, 0) = Layer(Layer(<<>>, 0), 0)
      OBVIOUS
    <3>2. 0 \in 0 .. N
      BY <1>1
    <3> HIDE DEF Layer
    <3> QED
      BY <3>1, <3>2
  <2>2. ASSUME NEW n \in 0 .. N - 1, n \in Defined PROVE n + 1 \in Defined
    <3>1. PICK f : f = Layer(f, n)
      BY <2>2
    <3>2. n \in Nat /\ n + 1 \in 0 .. N
      BY <1>1
    <3>3. PICK h : h = Layer(f, n + 1)
      OBVIOUS
    <3>4. ASSUME NEW d \in 0 .. n + 1, d # 0 PROVE f[d - 1] = h[d - 1]
      <4>1. d - 1 \in 0 .. n /\ d - 1 \in 0 .. n + 1
        BY <3>2, <3>4
      <4> HIDE DEF Next
      <4> QED
        BY <3>1, <3>3, <4>1
    <3>5. \A d \in 0 .. n + 1 : (IF d = 0 THEN Resolved(s) ELSE Next(f, d)) = IF d = 0 THEN Resolved(s) ELSE Next(h, d)
      BY <3>4
    <3> HIDE DEF Next
    <3>6. h = Layer(h, n + 1)
      BY <3>3, <3>5
    <3> HIDE DEF Layer
    <3> QED
      BY <3>2, <3>6
  <2> HIDE DEF Defined
  <2> QED
    BY <1>1, <2>1, <2>2, InductionUpTo
<1>3. PICK f : f = Layer(f, N)
  <2>1. N \in 0 .. N
    BY <1>1
  <2> HIDE DEF Layer
  <2> QED
    BY <1>2, <2>1
<1>4. PICK u : u = VisitEntries(doc, g, s, entries)
  OBVIOUS
<1>5. u = Layer(u, N)
  BY <1>3, <1>4, Zenon DEF VisitEntries, N
<1>6. u[0] = Resolved(s)
  BY <1>1, <1>5
<1>7. ASSUME NEW n \in 1 .. N PROVE u[n] = Next(u, n)
  <2>1. n \in 0 .. N /\ n # 0
    BY <1>1
  <2> HIDE DEF Next
  <2> QED
    BY <1>5, <2>1
<1> QED
  BY <1>4, <1>6, <1>7 DEF N

(* Two searches that return the same when more than S has been found, and  *)
(* that then return at least what was found.                               *)
More(S, u) == u \in Seq(Targets) /\ S \subseteq ToSet(u) /\ S # ToSet(u)

Adds(u, found) == found.ok => found.targets \in Seq(Targets) /\ ToSet(u) \subseteq ToSet(found.targets)

AgreeAbove(g, h, S) == \A u : More(S, u) => g[u] = h[u] /\ \A t \in Targets : Adds(u, g[u][t])

(* Searches that agree on all longer lists of what was found agree on      *)
(* what visiting the entries finds, which only adds to the list.           *)
LEMMA VisitsAgree ==
  ASSUME NEW g, NEW h, NEW S, AgreeAbove(g, h, S), NEW u, More(S, u), NEW entries, Len(entries) \in Nat
  PROVE  \A k \in 0 .. Len(entries) :
           /\ VisitEntries(doc, g, u, entries)[k] = VisitEntries(doc, h, u, entries)[k]
           /\ Adds(u, VisitEntries(doc, g, u, entries)[k])
<1>1. PICK N \in Nat : N = Len(entries)
  OBVIOUS
<1>2. PICK v, w : v = VisitEntries(doc, g, u, entries) /\ w = VisitEntries(doc, h, u, entries)
  OBVIOUS
<1>3. /\ v[0] = Resolved(u) /\ \A k \in 1 .. N : v[k] = VisitEntry(doc, g, v[k - 1], entries[k])
      /\ w[0] = Resolved(u) /\ \A k \in 1 .. N : w[k] = VisitEntry(doc, h, w[k - 1], entries[k])
  BY <1>1, <1>2, VisitsDefined
<1> DEFINE Good == {k \in 0 .. N : v[k] = w[k] /\ Adds(u, v[k])}
<1>4. 0 \in Good
  BY <1>3 DEF Adds, Resolved, More
<1>5. ASSUME NEW n \in 0 .. N - 1, n \in Good PROVE n + 1 \in Good
  <2>1. n \in 0 .. N /\ n + 1 \in 1 .. N /\ (n + 1) - 1 = n /\ n + 1 \in 0 .. N
    BY <1>1
  <2>2. v[n + 1] = VisitEntry(doc, g, v[n], entries[n + 1]) /\ w[n + 1] = VisitEntry(doc, h, v[n], entries[n + 1])
    BY <1>3, <1>5, <2>1
  <2>3. CASE v[n].ok /\ entries[n + 1].kind = "literal" /\ entries[n + 1].text \in Targets
    <3>1. More(S, v[n].targets) /\ ToSet(u) \subseteq ToSet(v[n].targets)
      BY <1>5, <2>3 DEF Adds, More
    <3>2. /\ g[v[n].targets] = h[v[n].targets]
          /\ Adds(v[n].targets, g[v[n].targets][entries[n + 1].text])
      BY <2>3, <3>1 DEF AgreeAbove
    <3>3. v[n + 1] = g[v[n].targets][entries[n + 1].text] /\ w[n + 1] = h[v[n].targets][entries[n + 1].text]
      BY <2>2, <2>3 DEF VisitEntry, Targets
    <3>4. Adds(u, v[n + 1])
      BY <3>1, <3>2, <3>3 DEF Adds
    <3> QED
      BY <2>1, <3>2, <3>3, <3>4
  <2>4. CASE ~(v[n].ok /\ entries[n + 1].kind = "literal" /\ entries[n + 1].text \in Targets)
    <3>1. v[n + 1] = Unresolved /\ w[n + 1] = Unresolved
      BY <2>2, <2>4 DEF VisitEntry, Targets
    <3> QED
      BY <2>1, <3>1 DEF Adds, Unresolved
  <2> QED
    BY <2>3, <2>4
<1> HIDE DEF Good
<1>6. \A k \in 0 .. N : k \in Good
  BY <1>4, <1>5, InductionUpTo
<1> QED
  BY <1>1, <1>2, <1>6 DEF Good

(* A target is added to what was found.                                    *)
LEMMA AppendTypes ==
  ASSUME NEW T, NEW s \in Seq(T), NEW t \in T
  PROVE  /\ Append(s, t) \in Seq(T) /\ ToSet(Append(s, t)) = ToSet(s) \union {t}
         /\ Contains(s, t) <=> t \in ToSet(s)
         /\ Len(Append(s, t)) = Len(s) + 1 /\ Len(s) \in Nat /\ DOMAIN s = 1 .. Len(s)
         /\ \A i \in 1 .. Len(s) : Append(s, t)[i] = s[i]
         /\ Append(s, t)[Len(s) + 1] = t
<1>1. /\ Append(s, t) \in Seq(T) /\ Len(Append(s, t)) = Len(s) + 1 /\ Len(s) \in Nat /\ DOMAIN s = 1 .. Len(s)
      /\ DOMAIN Append(s, t) = 1 .. Len(s) + 1
      /\ (\A i \in 1 .. Len(s) : Append(s, t)[i] = s[i]) /\ Append(s, t)[Len(s) + 1] = t
  OBVIOUS
<1>2. ToSet(Append(s, t)) = ToSet(s) \union {t}
  <2>1. PICK a : a = Append(s, t)
    OBVIOUS
  <2>2. DOMAIN a = DOMAIN s \union {Len(s) + 1}
    BY <1>1, <2>1
  <2> QED
    BY <1>1, <2>1, <2>2 DEF ToSet
<1>3. Contains(s, t) <=> t \in ToSet(s)
  BY <1>1 DEF Contains, ToSet
<1> QED
  BY <1>1, <1>2, <1>3

(* The cases of a search.                                                  *)
LEMMA SearchedFromCases ==
  ASSUME IsDocument(doc), NEW g, NEW s \in Seq(Targets), NEW t \in Targets
  PROVE  SearchedFrom(doc, g, s, t) =
           IF t \in ToSet(s) \/ (Has(BlockOf(t), "inherits") /\ BlockOf(t).attrs["inherits"].kind # "tuple")
           THEN Unresolved
           ELSE VisitEntries(doc, g, Append(s, t), InheritsEntries(t))[Len(InheritsEntries(t))]
<1>1. Contains(s, t) <=> t \in ToSet(s)
  BY AppendTypes
<1>2. ASSUME ~Has(BlockOf(t), "inherits")
      PROVE  VisitEntries(doc, g, Append(s, t), InheritsEntries(t))[Len(InheritsEntries(t))] = Resolved(Append(s, t))
  <2>1. Len(InheritsEntries(t)) = 0
    BY <1>2, EntriesTypes
  <2> QED
    BY <2>1, VisitsDefined
<1>3. ASSUME Has(BlockOf(t), "inherits"), BlockOf(t).attrs["inherits"].kind = "tuple"
      PROVE  InheritsEntries(t) = BlockOf(t).attrs["inherits"].children
  BY <1>3 DEF InheritsEntries
<1>4. BlockOf(t) = doc[FirstBlock(doc, "target", t)]
  BY DEF BlockOf
<1> QED
  BY <1>1, <1>2, <1>3, <1>4, Zenon DEF SearchedFrom

(* And so they agree on the search from a target.                          *)
LEMMA SearchedFromAgrees ==
  ASSUME IsDocument(doc), NEW g, NEW h, NEW s \in Seq(Targets), AgreeAbove(g, h, ToSet(s)), NEW t \in Targets
  PROVE  /\ SearchedFrom(doc, g, s, t) = SearchedFrom(doc, h, s, t)
         /\ Adds(s, SearchedFrom(doc, g, s, t))
<1>1. PICK n \in Nat : n = Len(InheritsEntries(t))
  BY EntriesTypes
<1>2. CASE t \in ToSet(s) \/ (Has(BlockOf(t), "inherits") /\ BlockOf(t).attrs["inherits"].kind # "tuple")
  <2>1. SearchedFrom(doc, g, s, t) = Unresolved /\ SearchedFrom(doc, h, s, t) = Unresolved
    BY <1>2, SearchedFromCases, Zenon
  <2> QED
    BY <2>1 DEF Adds, Unresolved
<1>3. CASE ~(t \in ToSet(s) \/ (Has(BlockOf(t), "inherits") /\ BlockOf(t).attrs["inherits"].kind # "tuple"))
  <2>1. PICK u : u = Append(s, t)
    OBVIOUS
  <2>2. More(ToSet(s), u) /\ ToSet(s) \subseteq ToSet(u)
    BY <1>3, <2>1, AppendTypes DEF More
  <2>3. n \in 0 .. n
    OBVIOUS
  <2>4. /\ VisitEntries(doc, g, u, InheritsEntries(t))[n] = VisitEntries(doc, h, u, InheritsEntries(t))[n]
        /\ Adds(u, VisitEntries(doc, g, u, InheritsEntries(t))[n])
    BY <1>1, <2>2, <2>3, VisitsAgree
  <2> QED
    BY <1>1, <1>3, <2>1, <2>2, <2>4, SearchedFromCases DEF Adds
<1> QED
  BY <1>2, <1>3

(* The search is defined, whatever has been found.                         *)
LEMMA FindDefined ==
  ASSUME IsDocument(doc)
  PROVE  \A s \in Seq(Targets) : \A t \in Targets :
           FindParentTargets(doc)[s][t] = SearchedFrom(doc, FindParentTargets(doc), s, t)
<1> DEFINE Known(n)   == {s \in Seq(Targets) : ToSet(s) \in LeftLess(Targets, n)}
           Row(g, s)  == [t \in Targets |-> SearchedFrom(doc, g, s, t)]
           Layer(g, n) == [s \in Known(n) |-> Row(g, s)]
           Grows(g, n) == \A s \in Known(n) : \A t \in Targets : Adds(s, g[s][t])
           N          == Cardinality(Targets) + 1
           Defined    == {n \in 0 .. N : \E g : g = Layer(g, n) /\ Grows(g, n)}
<1>1. IsFiniteSet(Targets)
  BY DocumentTypes
<1>2. N \in Nat /\ LeftLess(Targets, 0) = {} /\ LeftLess(Targets, N) = SUBSET Targets
  BY <1>1, LeftLessBounds
<1> HIDE DEF N
<1>3. Known(0) = {} /\ Known(N) = Seq(Targets)
  BY <1>2 DEF ToSet
<1>4. \A n \in 0 .. N : n \in Defined
  <2>1. 0 \in Defined
    <3> HIDE DEF Row, Known
    <3>1. Layer(<<>>, 0) = Layer(Layer(<<>>, 0), 0) /\ Grows(Layer(<<>>, 0), 0)
      BY <1>3
    <3>2. 0 \in 0 .. N
      BY <1>2
    <3> HIDE DEF Layer, Grows
    <3> QED
      BY <3>1, <3>2
  <2>2. ASSUME NEW n \in 0 .. N - 1, n \in Defined PROVE n + 1 \in Defined
    <3>1. PICK g : g = Layer(g, n) /\ Grows(g, n)
      BY <2>2
    <3>2. PICK h : h = Layer(g, n + 1)
      OBVIOUS
    <3>3. n \in Nat /\ n + 1 \in 0 .. N
      BY <1>2
    <3>4. ASSUME NEW s \in Known(n + 1)
          PROVE  Row(g, s) = Row(h, s) /\ \A t \in Targets : Adds(s, Row(g, s)[t])
      <4>1. s \in Seq(Targets) /\ ToSet(s) \in LeftLess(Targets, n + 1)
        OBVIOUS
      <4>2. ASSUME NEW u, More(ToSet(s), u) PROVE g[u] = h[u] /\ \A t \in Targets : Adds(u, g[u][t])
        <5>1. u \in Seq(Targets) /\ ToSet(u) \in SUBSET Targets
          BY <4>2 DEF More, ToSet
        <5>2. ToSet(u) \in LeftLess(Targets, n) /\ ToSet(u) \in LeftLess(Targets, n + 1)
          BY <1>1, <3>3, <4>1, <4>2, <5>1, LeftLessAbove DEF More
        <5>3. u \in Known(n) /\ u \in Known(n + 1)
          BY <5>1, <5>2
        <5> HIDE DEF Row, Known
        <5>4. g[u] = Row(g, u)
          BY <3>1, <5>3, Zenon
        <5>5. h[u] = Row(g, u)
          BY <3>2, <5>3
        <5> QED
          BY <3>1, <5>3, <5>4, <5>5
      <4>3. AgreeAbove(g, h, ToSet(s))
        BY <4>2 DEF AgreeAbove
      <4>4. \A t \in Targets : /\ SearchedFrom(doc, g, s, t) = SearchedFrom(doc, h, s, t)
                               /\ Adds(s, SearchedFrom(doc, g, s, t))
        BY <4>1, <4>3, SearchedFromAgrees
      <4> QED
        BY <4>4
    <3> HIDE DEF Row, Known
    <3>5. h = Layer(h, n + 1)
      BY <3>2, <3>4
    <3>6. Grows(h, n + 1)
      BY <3>2, <3>4
    <3> HIDE DEF Layer, Grows
    <3> QED
      BY <3>3, <3>5, <3>6
  <2> HIDE DEF Defined
  <2> QED
    BY <1>2, <2>1, <2>2, InductionUpTo
<1>5. PICK g : g = Layer(g, N)
  <2>1. N \in 0 .. N
    BY <1>2
  <2> HIDE DEF Layer, Grows
  <2> QED
    BY <1>4, <2>1
<1>6. PICK u : u = FindParentTargets(doc)
  OBVIOUS
<1>7. u = [s \in Seq(Targets) |-> Row(u, s)]
  <2>1. g = [s \in Seq(Targets) |-> Row(g, s)]
    BY <1>3, <1>5
  <2> QED
    BY <1>6, <2>1, Zenon DEF FindParentTargets, Targets
<1>8. ASSUME NEW s \in Seq(Targets), NEW t \in Targets PROVE u[s][t] = SearchedFrom(doc, u, s, t)
  <2>1. u[s] = Row(u, s)
    <3> HIDE DEF Row
    <3> QED
      BY <1>7
  <2> QED
    BY <2>1
<1> QED
  BY <1>6, <1>8

-----------------------------------------------------------------------------
(* The lists of parents as a succession.                                   *)
LEMMA InheritsIsSuccession ==
  /\ DOMAIN Inherits = Targets /\ IsSuccession(Inherits)
  /\ \A t \in Targets :
        /\ DOMAIN Inherits[t] = {k \in DOMAIN InheritsEntries(t) : NamesTarget(InheritsEntries(t)[k])}
        /\ \A k \in DOMAIN Inherits[t] : Inherits[t][k] = InheritsEntries(t)[k].text
<1>1. DOMAIN Inherits = Targets
  BY DEF Inherits
<1>2. ASSUME NEW t \in Targets
      PROVE  /\ DOMAIN Inherits[t] = {k \in DOMAIN InheritsEntries(t) : NamesTarget(InheritsEntries(t)[k])}
             /\ \A k \in DOMAIN Inherits[t] : Inherits[t][k] = InheritsEntries(t)[k].text
  BY DEF Inherits
<1>3. IsSuccession(Inherits)
  BY <1>1, <1>2 DEF IsSuccession, Successors, NamesTarget
<1> QED
  BY <1>1, <1>2, <1>3

(* The n-th entry of a list, and what is reached from it.                  *)
Entry(t, k) == InheritsEntries(t)[k].text

UnderEntry(t, k) == Under(Inherits, Entry(t, k))

(* A plain list has nothing but names of targets.                          *)
LEMMA PlainEntries ==
  ASSUME IsDocument(doc), NEW t \in Targets, PlainInherits(t)
  PROVE  /\ DOMAIN Inherits[t] = 1 .. Len(InheritsEntries(t))
         /\ \A k \in 1 .. Len(InheritsEntries(t)) : Entry(t, k) \in Targets /\ Inherits[t][k] = Entry(t, k)
         /\ Under(Inherits, t) = {t} \union UNION {UnderEntry(t, k) : k \in 1 .. Len(InheritsEntries(t))}
<1>1. DOMAIN InheritsEntries(t) = 1 .. Len(InheritsEntries(t))
  BY EntriesTypes
<1>2. \A k \in 1 .. Len(InheritsEntries(t)) : NamesTarget(InheritsEntries(t)[k])
  <2>1. CASE Has(BlockOf(t), "inherits")
    BY <1>1, <2>1 DEF PlainInherits
  <2>2. CASE ~Has(BlockOf(t), "inherits")
    <3>1. Len(InheritsEntries(t)) = 0
      BY <2>2, EntriesTypes
    <3> QED
      BY <3>1
  <2> QED
    BY <2>1, <2>2
<1>3. DOMAIN Inherits[t] = 1 .. Len(InheritsEntries(t))
  BY <1>1, <1>2, InheritsIsSuccession
<1>4. \A k \in 1 .. Len(InheritsEntries(t)) : Entry(t, k) \in Targets /\ Inherits[t][k] = Entry(t, k)
  BY <1>2, <1>3, InheritsIsSuccession DEF Entry, NamesTarget
<1>5. Reached(Inherits, t) = UNION {{y} \union Reached(Inherits, y) : y \in Successors(Inherits, t)}
  BY InheritsIsSuccession, ReachedUnfolds
<1>6. Successors(Inherits, t) = {Entry(t, k) : k \in 1 .. Len(InheritsEntries(t))}
  BY <1>3, <1>4 DEF Successors
<1>7. Reached(Inherits, t) = UNION {UnderEntry(t, k) : k \in 1 .. Len(InheritsEntries(t))}
  BY <1>5, <1>6 DEF UnderEntry, Under
<1> QED
  BY <1>3, <1>4, <1>7 DEF Under

(* Inheritance from a target is a tree exactly if it is one from each      *)
(* entry of its list, if these have nothing in common, and if the target   *)
(* is in none of them.                                                     *)
InheritsTrees(t) ==
  /\ PlainInherits(t)
  /\ \A k \in 1 .. Len(InheritsEntries(t)) : InheritsAsTree(Entry(t, k)) /\ t \notin UnderEntry(t, k)
  /\ \A k, l \in 1 .. Len(InheritsEntries(t)) : k # l => UnderEntry(t, k) \intersect UnderEntry(t, l) = {}

(* So it is: the tree of a target is put together of those of its          *)
(* entries.                                                                *)
LEMMA TreesOfTargets ==
  ASSUME IsDocument(doc), NEW t \in Targets
  PROVE  InheritsAsTree(t) <=> InheritsTrees(t)
<1>1. InheritsAsTree(t) => PlainInherits(t)
  BY DEF InheritsAsTree
<1>2. SUFFICES ASSUME PlainInherits(t) PROVE InheritsAsTree(t) <=> InheritsTrees(t)
  BY <1>1 DEF InheritsTrees
<1>3. PICK n \in Nat : n = Len(InheritsEntries(t))
  BY EntriesTypes
<1>4. /\ DOMAIN Inherits[t] = 1 .. n
      /\ \A k \in 1 .. n : Entry(t, k) \in Targets /\ Inherits[t][k] = Entry(t, k)
      /\ Under(Inherits, t) = {t} \union UNION {UnderEntry(t, k) : k \in 1 .. n}
  BY <1>2, <1>3, PlainEntries
<1>5. IsSuccession(Inherits) /\ t \in DOMAIN Inherits
  BY InheritsIsSuccession
<1>6. ASSUME InheritsAsTree(t) PROVE InheritsTrees(t)
  <2>1. ReachesTree(Inherits, t) /\ \A u \in Under(Inherits, t) : PlainInherits(u)
    BY <1>6 DEF InheritsAsTree, Ancestors, Under
  <2>2. ASSUME NEW k \in 1 .. n PROVE InheritsAsTree(Entry(t, k)) /\ t \notin UnderEntry(t, k)
    <3>1. ReachesTree(Inherits, Entry(t, k)) /\ t \notin UnderEntry(t, k)
      BY <1>4, <1>5, <2>1, SubtreesAreTrees DEF UnderEntry
    <3>2. \A u \in UnderEntry(t, k) : PlainInherits(u)
      BY <1>4, <2>1
    <3> QED
      BY <3>1, <3>2 DEF InheritsAsTree, Ancestors, UnderEntry, Under
  <2>3. ASSUME NEW k \in 1 .. n, NEW l \in 1 .. n, k # l
        PROVE  UnderEntry(t, k) \intersect UnderEntry(t, l) = {}
    BY <1>4, <1>5, <2>1, <2>3, SubtreesAreApart DEF UnderEntry
  <2> QED
    BY <1>2, <1>3, <2>2, <2>3 DEF InheritsTrees
<1>7. ASSUME InheritsTrees(t) PROVE InheritsAsTree(t)
  <2>1. \A k \in 1 .. n : InheritsAsTree(Entry(t, k)) /\ t \notin UnderEntry(t, k)
    BY <1>3, <1>7 DEF InheritsTrees
  <2>2. \A k, l \in 1 .. n : k # l => UnderEntry(t, k) \intersect UnderEntry(t, l) = {}
    BY <1>3, <1>7 DEF InheritsTrees
  <2>3. \A k \in 1 .. n : ReachesTree(Inherits, Inherits[t][k]) /\ t \notin Under(Inherits, Inherits[t][k])
    BY <1>4, <2>1 DEF InheritsAsTree, UnderEntry
  <2>4. \A k, l \in 1 .. n : k # l => Under(Inherits, Inherits[t][k]) \intersect Under(Inherits, Inherits[t][l]) = {}
    BY <1>4, <2>2 DEF UnderEntry
  <2>5. ReachesTree(Inherits, t)
    BY <1>4, <1>5, <2>3, <2>4, TreeOfTrees DEF ReachesTrees
  <2>6. ASSUME NEW u \in Under(Inherits, t) PROVE PlainInherits(u)
    <3>1. CASE u = t
      BY <1>2, <3>1
    <3>2. CASE u # t
      <4>1. PICK k \in 1 .. n : u \in UnderEntry(t, k)
        BY <1>4, <2>6, <3>2
      <4> QED
        BY <2>1, <4>1 DEF InheritsAsTree, Ancestors, UnderEntry, Under
    <3> QED
      BY <3>1, <3>2
  <2> QED
    BY <2>5, <2>6 DEF InheritsAsTree, Ancestors, Under
<1> QED
  BY <1>6, <1>7

-----------------------------------------------------------------------------
(* The search from t, when s has been found, succeeds exactly if           *)
(* inheritance from t is a tree that s has nothing of.  Then it has added  *)
(* that tree to s, each target once, and left the first one where it was.  *)
Once(s) == \A j, k \in DOMAIN s : s[j] = s[k] => j = k

HasFound(targets, first, S) ==
  targets \in Seq(Targets) /\ Once(targets) /\ ToSet(targets) = S /\ targets # <<>> /\ targets[1] = first

First(s, t) == IF s = <<>> THEN t ELSE s[1]

Finds(s, t) ==
  LET found == FindParentTargets(doc)[s][t]
  IN  /\ found.ok <=> InheritsAsTree(t) /\ Under(Inherits, t) \intersect ToSet(s) = {}
      /\ found.ok => HasFound(found.targets, First(s, t), ToSet(s) \union Under(Inherits, t))

(* What has been found when k entries were visited, and the entries that   *)
(* can be added.                                                           *)
FoundBefore(s, t, k) == ToSet(s) \union {t} \union UNION {UnderEntry(t, j) : j \in 1 .. k}

Fits(s, t, k) ==
  NamesTarget(InheritsEntries(t)[k]) /\ InheritsAsTree(Entry(t, k))
  /\ UnderEntry(t, k) \intersect FoundBefore(s, t, k - 1) = {}

Visited(s, t, k, found) ==
  /\ found.ok <=> \A j \in 1 .. k : Fits(s, t, j)
  /\ found.ok => HasFound(found.targets, First(s, t), FoundBefore(s, t, k))

(* If the search finds what it should whatever more has been found,        *)
(* visiting entry after entry does.                                        *)
LEMMA VisitsFind ==
  ASSUME IsDocument(doc), NEW s \in Seq(Targets), Once(s), NEW t \in Targets, t \notin ToSet(s),
         \A u \in Seq(Targets) : Once(u) /\ More(ToSet(s), u) => \A v \in Targets : Finds(u, v)
  PROVE  \A k \in 0 .. Len(InheritsEntries(t)) :
           Visited(s, t, k, VisitEntries(doc, FindParentTargets(doc), Append(s, t), InheritsEntries(t))[k])
<1>1. PICK n \in Nat : n = Len(InheritsEntries(t))
  BY EntriesTypes
<1>2. PICK u, find, entries, v : /\ u = Append(s, t) /\ find = FindParentTargets(doc) /\ entries = InheritsEntries(t)
                                 /\ v = VisitEntries(doc, find, u, entries)
  OBVIOUS
<1>3. v[0] = Resolved(u) /\ \A k \in 1 .. n : v[k] = VisitEntry(doc, find, v[k - 1], entries[k])
  BY <1>1, <1>2, VisitsDefined
<1> DEFINE Good == {k \in 0 .. n : Visited(s, t, k, v[k])}
<1>4. 0 \in Good
  <2>1. HasFound(u, First(s, t), ToSet(s) \union {t})
    <3>1. /\ u \in Seq(Targets) /\ ToSet(u) = ToSet(s) \union {t}
          /\ Len(u) = Len(s) + 1 /\ Len(s) \in Nat /\ DOMAIN s = 1 .. Len(s) /\ DOMAIN u = 1 .. Len(s) + 1
          /\ \A i \in 1 .. Len(s) : u[i] = s[i]
          /\ u[Len(s) + 1] = t
      BY <1>2, AppendTypes
    <3>2. \A i \in 1 .. Len(s) : s[i] # t
      BY <3>1 DEF ToSet
    <3>3. Once(u)
      <4>1. ASSUME NEW i \in DOMAIN u, NEW j \in DOMAIN u, u[i] = u[j] PROVE i = j
        <5>1. (i \in 1 .. Len(s) \/ i = Len(s) + 1) /\ (j \in 1 .. Len(s) \/ j = Len(s) + 1)
          BY <3>1
        <5> QED
          BY <3>1, <3>2, <4>1, <5>1 DEF Once
      <4> QED
        BY <4>1 DEF Once
    <3>4. u # <<>> /\ u[1] = First(s, t)
      <4>1. CASE s = <<>>
        BY <3>1, <4>1 DEF First
      <4>2. CASE s # <<>>
        <5>1. 1 \in 1 .. Len(s)
          BY <3>1, <4>2
        <5> QED
          BY <3>1, <4>2, <5>1 DEF First
      <4> QED
        BY <4>1, <4>2
    <3> QED
      BY <3>1, <3>3, <3>4 DEF HasFound
  <2>2. FoundBefore(s, t, 0) = ToSet(s) \union {t}
    BY DEF FoundBefore
  <2>3. v[0].ok = TRUE /\ v[0].targets = u
    BY <1>3 DEF Resolved
  <2>4. 0 \in 0 .. n /\ 1 .. 0 = {}
    OBVIOUS
  <2>5. Visited(s, t, 0, v[0])
    BY <2>1, <2>2, <2>3, <2>4 DEF Visited
  <2> QED
    BY <2>4, <2>5
<1>5. ASSUME NEW k \in 0 .. n - 1, k \in Good PROVE k + 1 \in Good
  <2>1. k \in 0 .. n /\ k + 1 \in 1 .. n /\ (k + 1) - 1 = k /\ k + 1 \in 0 .. n /\ 1 .. k + 1 = (1 .. k) \union {k + 1}
    BY <1>1
  <2>2. v[k + 1] = VisitEntry(doc, find, v[k], entries[k + 1])
    BY <1>3, <2>1
  <2>3. Visited(s, t, k, v[k])
    BY <1>5
  <2>4. FoundBefore(s, t, k + 1) = FoundBefore(s, t, k) \union UnderEntry(t, k + 1)
    BY <2>1 DEF FoundBefore
  <2>5. (\A j \in 1 .. k + 1 : Fits(s, t, j)) <=> v[k].ok /\ Fits(s, t, k + 1)
    BY <2>1, <2>3 DEF Visited
  <2>6. CASE v[k].ok /\ NamesTarget(entries[k + 1])
    <3>1. PICK w, e : w = v[k].targets /\ e = Entry(t, k + 1)
      OBVIOUS
    <3>2. HasFound(w, First(s, t), FoundBefore(s, t, k))
      BY <2>3, <2>6, <3>1 DEF Visited
    <3>3. e \in Targets /\ e = entries[k + 1].text
      BY <1>2, <2>6, <3>1 DEF Entry, NamesTarget
    <3>4. w \in Seq(Targets) /\ Once(w) /\ More(ToSet(s), w) /\ w # <<>> /\ w[1] = First(s, t)
      BY <3>2 DEF HasFound, More, FoundBefore
    <3>5. Finds(w, e)
      BY <3>3, <3>4
    <3>6. v[k + 1] = find[w][e]
      BY <2>2, <2>6, <3>1, <3>3 DEF VisitEntry, NamesTarget, Targets
    <3>7. ToSet(w) = FoundBefore(s, t, k) /\ First(w, e) = First(s, t)
      BY <3>2, <3>4 DEF HasFound, First
    <3>8. UnderEntry(t, k + 1) = Under(Inherits, e)
      BY <3>1 DEF UnderEntry
    <3>9. v[k + 1].ok <=> InheritsAsTree(e) /\ UnderEntry(t, k + 1) \intersect FoundBefore(s, t, k) = {}
      BY <1>2, <3>5, <3>6, <3>7, <3>8 DEF Finds
    <3>10. v[k + 1].ok => HasFound(v[k + 1].targets, First(s, t), FoundBefore(s, t, k + 1))
      BY <1>2, <2>4, <3>5, <3>6, <3>7, <3>8 DEF Finds
    <3>11. v[k + 1].ok <=> Fits(s, t, k + 1)
      BY <1>2, <2>1, <2>6, <3>1, <3>9 DEF Fits
    <3> QED
      BY <2>1, <2>5, <2>6, <3>10, <3>11 DEF Visited
  <2>7. CASE ~(v[k].ok /\ NamesTarget(entries[k + 1]))
    <3>1. v[k + 1] = Unresolved
      BY <2>2, <2>7 DEF VisitEntry, NamesTarget, Targets
    <3>2. v[k + 1].ok = FALSE
      BY <3>1 DEF Unresolved
    <3>3. ~\A j \in 1 .. k + 1 : Fits(s, t, j)
      BY <1>2, <2>5, <2>7 DEF Fits
    <3> QED
      BY <2>1, <3>2, <3>3 DEF Visited
  <2> QED
    BY <2>6, <2>7
<1> HIDE DEF Good
<1>6. \A k \in 0 .. n : k \in Good
  BY <1>4, <1>5, InductionUpTo
<1> QED
  BY <1>1, <1>2, <1>6 DEF Good

(* All entries can be added exactly if inheritance from the target is a    *)
(* tree that has nothing of what was found before; then all of the tree    *)
(* has been found.                                                         *)
LEMMA AllFit ==
  ASSUME IsDocument(doc), NEW s \in Seq(Targets), NEW t \in Targets, t \notin ToSet(s),
         Has(BlockOf(t), "inherits") => BlockOf(t).attrs["inherits"].kind = "tuple"
  PROVE  /\ (\A k \in 1 .. Len(InheritsEntries(t)) : Fits(s, t, k))
              <=> InheritsAsTree(t) /\ Under(Inherits, t) \intersect ToSet(s) = {}
         /\ InheritsAsTree(t) => FoundBefore(s, t, Len(InheritsEntries(t))) = ToSet(s) \union Under(Inherits, t)
<1>1. PICK n \in Nat : n = Len(InheritsEntries(t)) /\ DOMAIN InheritsEntries(t) = 1 .. n
  BY EntriesTypes
<1>2. ASSUME PlainInherits(t)
      PROVE  /\ Under(Inherits, t) = {t} \union UNION {UnderEntry(t, k) : k \in 1 .. n}
             /\ FoundBefore(s, t, n) = ToSet(s) \union Under(Inherits, t)
  BY <1>1, <1>2, PlainEntries DEF FoundBefore
<1>3. ASSUME \A k \in 1 .. n : Fits(s, t, k)
      PROVE  InheritsAsTree(t) /\ Under(Inherits, t) \intersect ToSet(s) = {}
  <2>1. PlainInherits(t)
    BY <1>1, <1>3 DEF PlainInherits, Fits
  <2>2. ASSUME NEW k \in 1 .. n
        PROVE  InheritsAsTree(Entry(t, k)) /\ t \notin UnderEntry(t, k) /\ UnderEntry(t, k) \intersect ToSet(s) = {}
    BY <1>3 DEF Fits, FoundBefore
  <2>3. ASSUME NEW k \in 1 .. n, NEW l \in 1 .. n, k < l PROVE UnderEntry(t, k) \intersect UnderEntry(t, l) = {}
    <3>1. k \in 1 .. l - 1
      BY <2>3
    <3>2. UnderEntry(t, l) \intersect FoundBefore(s, t, l - 1) = {}
      BY <1>3 DEF Fits
    <3> QED
      BY <3>1, <3>2 DEF FoundBefore
  <2>4. \A k, l \in 1 .. n : k # l => k < l \/ l < k
    OBVIOUS
  <2>5. \A k, l \in 1 .. n : k # l => UnderEntry(t, k) \intersect UnderEntry(t, l) = {}
    BY <2>3, <2>4
  <2>6. InheritsAsTree(t)
    BY <1>1, <2>1, <2>2, <2>5, TreesOfTargets DEF InheritsTrees
  <2> QED
    BY <1>2, <2>1, <2>2, <2>6
<1>4. ASSUME InheritsAsTree(t), Under(Inherits, t) \intersect ToSet(s) = {}, NEW k \in 1 .. n
      PROVE  Fits(s, t, k)
  <2>1. InheritsTrees(t) /\ PlainInherits(t)
    BY <1>4, TreesOfTargets DEF InheritsTrees
  <2>2. NamesTarget(InheritsEntries(t)[k]) /\ InheritsAsTree(Entry(t, k)) /\ t \notin UnderEntry(t, k)
    <3>1. k \in DOMAIN Inherits[t]
      BY <1>1, <2>1, PlainEntries
    <3> QED
      BY <1>1, <2>1, <3>1, InheritsIsSuccession DEF InheritsTrees
  <2>3. UnderEntry(t, k) \intersect ToSet(s) = {}
    BY <1>2, <1>4, <2>1
  <2>4. \A j \in 1 .. k - 1 : j \in 1 .. n /\ j # k
    BY <1>1
  <2>5. \A j \in 1 .. k - 1 : UnderEntry(t, k) \intersect UnderEntry(t, j) = {}
    BY <1>1, <2>1, <2>4 DEF InheritsTrees
  <2> QED
    BY <2>2, <2>3, <2>5 DEF Fits, FoundBefore
<1>5. InheritsAsTree(t) => PlainInherits(t)
  BY DEF InheritsAsTree
<1> QED
  BY <1>1, <1>2, <1>3, <1>4, <1>5

(* The search from any target finds what it should, by induction from all  *)
(* targets found down to none.                                             *)
LEMMA SearchFinds ==
  ASSUME IsDocument(doc)
  PROVE  \A s \in Seq(Targets) : Once(s) => \A t \in Targets : Finds(s, t)
<1> DEFINE Good == {S \in SUBSET Targets :
                      \A s \in Seq(Targets) : Once(s) /\ ToSet(s) = S => \A t \in Targets : Finds(s, t)}
<1>1. ASSUME NEW S \in SUBSET Targets, \A R \in SUBSET Targets : S \subseteq R /\ S # R => R \in Good,
             NEW s \in Seq(Targets), Once(s), ToSet(s) = S, NEW t \in Targets
      PROVE  Finds(s, t)
  <2>1. PICK n \in Nat : n = Len(InheritsEntries(t))
    BY EntriesTypes
  <2>2. PICK found : found = FindParentTargets(doc)[s][t]
    OBVIOUS
  <2>3. found = SearchedFrom(doc, FindParentTargets(doc), s, t)
    BY <2>2, FindDefined
  <2>4. t \in Under(Inherits, t)
    BY DEF Under
  <2>5. CASE t \in ToSet(s) \/ (Has(BlockOf(t), "inherits") /\ BlockOf(t).attrs["inherits"].kind # "tuple")
    <3>1. found = Unresolved
      BY <2>3, <2>5, SearchedFromCases, Zenon
    <3>2. ~(InheritsAsTree(t) /\ Under(Inherits, t) \intersect ToSet(s) = {})
      BY <2>4, <2>5 DEF InheritsAsTree, PlainInherits
    <3>3. found.ok = FALSE
      BY <3>1 DEF Unresolved
    <3> QED
      BY <2>2, <3>2, <3>3 DEF Finds
  <2>6. CASE ~(t \in ToSet(s) \/ (Has(BlockOf(t), "inherits") /\ BlockOf(t).attrs["inherits"].kind # "tuple"))
    <3>1. found = VisitEntries(doc, FindParentTargets(doc), Append(s, t), InheritsEntries(t))[n]
      BY <2>1, <2>3, <2>6, SearchedFromCases, Zenon
    <3>2. ASSUME NEW u \in Seq(Targets), Once(u), More(ToSet(s), u) PROVE \A v \in Targets : Finds(u, v)
      <4>1. ToSet(u) \in SUBSET Targets
        BY DEF ToSet
      <4>2. ToSet(u) \in Good
        BY <1>1, <3>2, <4>1 DEF More
      <4> QED
        BY <3>2, <4>2
    <3>3. n \in 0 .. n
      OBVIOUS
    <3> HIDE DEF Good
    <3>4. Visited(s, t, n, found)
      BY <1>1, <2>1, <2>6, <3>1, <3>2, <3>3, VisitsFind
    <3>5. /\ (\A k \in 1 .. n : Fits(s, t, k)) <=> InheritsAsTree(t) /\ Under(Inherits, t) \intersect ToSet(s) = {}
          /\ InheritsAsTree(t) => FoundBefore(s, t, n) = ToSet(s) \union Under(Inherits, t)
      BY <2>1, <2>6, AllFit
    <3> QED
      BY <2>2, <3>4, <3>5 DEF Visited, Finds
  <2> QED
    BY <2>5, <2>6
<1>2. IsFiniteSet(Targets)
  BY DocumentTypes
<1>3. \A S \in SUBSET Targets : (\A R \in SUBSET Targets : S \subseteq R /\ S # R => R \in Good) => S \in Good
  BY <1>1
<1> HIDE DEF Good
<1>4. SUBSET Targets \subseteq Good
  BY <1>2, <1>3, InductionDown
<1>5. \A s \in Seq(Targets) : ToSet(s) \in SUBSET Targets
  BY DEF ToSet
<1> QED
  BY <1>4, <1>5 DEF Good

(* The last takes the place of the first, and the list is cut by one.      *)
LEMMA FirstTakenOut ==
  ASSUME NEW T, NEW f \in Seq(T), f # <<>>, Once(f), NEW p, p = Front(<<Last(f)>> \o Tail(f))
  PROVE  Once(p) /\ ToSet(p) = ToSet(f) \ {f[1]}
<1>1. PICK n \in Nat \ {0} : n = Len(f) /\ DOMAIN f = 1 .. n
  OBVIOUS
<1>2. PICK q : q = <<Last(f)>> \o Tail(f)
  OBVIOUS
<1>3. Last(f) = f[n] /\ f[n] \in T
  BY <1>1 DEF Last
<1>4. Tail(f) \in Seq(T) /\ Len(Tail(f)) = n - 1 /\ \A i \in 1 .. n - 1 : Tail(f)[i] = f[i + 1]
  BY <1>1
<1>5. q \in Seq(T) /\ Len(q) = n /\ q[1] = f[n] /\ \A i \in 2 .. n : q[i] = f[i]
  <2>1. PICK a, b : a = <<Last(f)>> /\ b = Tail(f)
    OBVIOUS
  <2>2. a \in Seq(T) /\ Len(a) = 1 /\ a[1] = f[n]
    BY <1>3, <2>1
  <2>3. b \in Seq(T) /\ Len(b) = n - 1 /\ \A i \in 1 .. n - 1 : b[i] = f[i + 1]
    BY <1>4, <2>1
  <2>4. q = a \o b
    BY <1>2, <2>1
  <2>5. q \in Seq(T) /\ Len(q) = n /\ \A i \in 1 .. n : q[i] = IF i <= 1 THEN a[i] ELSE b[i - 1]
    <3>1. /\ a \o b \in Seq(T) /\ Len(a \o b) = Len(a) + Len(b)
          /\ \A i \in 1 .. Len(a) + Len(b) : (a \o b)[i] = IF i <= Len(a) THEN a[i] ELSE b[i - Len(a)]
      BY <2>2, <2>3, ConcatProperties
    <3>2. Len(a) = 1 /\ Len(a) + Len(b) = n
      BY <1>1, <2>2, <2>3
    <3> QED
      BY <2>4, <3>1, <3>2
  <2>6. ASSUME NEW i \in 2 .. n PROVE q[i] = f[i]
    <3>1. q[i] = b[i - 1]
      BY <2>5
    <3>2. i - 1 \in 1 .. n - 1 /\ (i - 1) + 1 = i
      OBVIOUS
    <3> QED
      BY <2>3, <3>1, <3>2
  <2> QED
    BY <2>2, <2>5, <2>6
<1>6. p = SubSeq(q, 1, n - 1)
  BY <1>2, <1>5 DEF Front
<1>7. DOMAIN p = 1 .. n - 1 /\ \A i \in 1 .. n - 1 : p[i] = q[i]
  BY <1>5, <1>6
<1>8. \A i \in 1 .. n - 1 : p[i] = IF i = 1 THEN f[n] ELSE f[i]
  BY <1>5, <1>7
<1>9. Once(p)
  <2>1. ASSUME NEW i \in 1 .. n, NEW j \in 1 .. n, f[i] = f[j] PROVE i = j
    BY <1>1, <2>1 DEF Once
  <2>2. ASSUME NEW i \in 1 .. n - 1, NEW j \in 1 .. n - 1, p[i] = p[j] PROVE i = j
    <3>1. i \in 1 .. n /\ j \in 1 .. n /\ n \in 1 .. n /\ i # n /\ j # n
      OBVIOUS
    <3> QED
      BY <1>8, <2>1, <2>2, <3>1
  <2> QED
    BY <1>7, <2>2 DEF Once
<1>10. ASSUME NEW x \in ToSet(p) PROVE x \in ToSet(f) \ {f[1]}
  <2>1. PICK i \in 1 .. n - 1 : x = p[i]
    BY <1>7 DEF ToSet
  <2> QED
    BY <1>1, <1>8, <2>1 DEF ToSet, Once
<1>11. ASSUME NEW x \in ToSet(f), x # f[1] PROVE x \in ToSet(p)
  <2>1. PICK i \in 1 .. n : x = f[i]
    BY <1>1 DEF ToSet
  <2>2. i # 1
    BY <1>11, <2>1
  <2>3. CASE i = n
    <3>1. 1 \in DOMAIN p /\ p[1] = x
      BY <1>7, <1>8, <2>1, <2>2, <2>3
    <3> QED
      BY <3>1 DEF ToSet
  <2>4. CASE i # n
    <3>1. i \in DOMAIN p /\ p[i] = x
      BY <1>7, <1>8, <2>1, <2>2, <2>4
    <3> QED
      BY <3>1 DEF ToSet
  <2> QED
    BY <2>3, <2>4
<1> QED
  BY <1>9, <1>10, <1>11

(* So the parents of a target are found.                                   *)
LEMMA ParentsAreFound ==
  ASSUME IsDocument(doc), NEW t \in Targets
  PROVE  ParentsFound(t)
<1>1. PICK i : i = FirstBlock(doc, "target", t)
  OBVIOUS
<1>2. i # 0 /\ BlockOf(t) = doc[i]
  BY <1>1, TargetsHaveBlocks DEF BlockOf
<1>3. PICK found : found = ParentTargets(doc, t)
  OBVIOUS
<1>4. CASE ~Has(BlockOf(t), "inherits")
  <2>1. found = Resolved(<<>>)
    BY <1>1, <1>2, <1>3, <1>4 DEF ParentTargets
  <2>2. PlainInherits(t) /\ Len(InheritsEntries(t)) = 0
    BY <1>4, EntriesTypes DEF PlainInherits
  <2>3. 1 .. 0 = {}
    OBVIOUS
  <2>4. InheritsAsTree(t)
    BY <2>2, <2>3, TreesOfTargets DEF InheritsTrees
  <2>5. Under(Inherits, t) = {t}
    BY <2>2, <2>3, PlainEntries
  <2>6. Ancestors(t) = {}
    BY <2>4, <2>5 DEF InheritsAsTree, ReachesTree, Ancestors, Under
  <2>7. found.ok = TRUE /\ found.targets = <<>>
    BY <2>1 DEF Resolved
  <2>8. ToSet(<<>>) = {} /\ DOMAIN <<>> = {}
    BY DEF ToSet
  <2> QED
    BY <1>3, <2>4, <2>6, <2>7, <2>8 DEF ParentsFound
<1>5. CASE Has(BlockOf(t), "inherits")
  <2>1. PICK r : r = FindParentTargets(doc)[<<>>][t]
    OBVIOUS
  <2>2. <<>> \in Seq(Targets) /\ Once(<<>>) /\ ToSet(<<>>) = {}
    BY DEF Once, ToSet
  <2>3. Finds(<<>>, t)
    BY <2>2, SearchFinds
  <2>4. /\ r.ok <=> InheritsAsTree(t)
        /\ r.ok => HasFound(r.targets, t, Under(Inherits, t))
    BY <2>1, <2>2, <2>3 DEF Finds, First
  <2>5. found = IF r.ok THEN Resolved(Front(<<Last(r.targets)>> \o Tail(r.targets))) ELSE Unresolved
    BY <1>1, <1>2, <1>3, <1>5, <2>1 DEF ParentTargets
  <2>6. CASE r.ok
    <3>1. PICK f, p : f = r.targets /\ p = Front(<<Last(f)>> \o Tail(f))
      OBVIOUS
    <3>2. f \in Seq(Targets) /\ f # <<>> /\ Once(f) /\ ToSet(f) = Under(Inherits, t) /\ f[1] = t
      BY <2>4, <2>6, <3>1 DEF HasFound
    <3>3. Once(p) /\ ToSet(p) = Under(Inherits, t) \ {t}
      BY <3>1, <3>2, FirstTakenOut
    <3>4. ToSet(p) = Ancestors(t)
      BY <2>4, <2>6, <3>3 DEF InheritsAsTree, ReachesTree, Ancestors, Under
    <3>5. found.ok = TRUE /\ found.targets = p
      BY <2>5, <2>6, <3>1 DEF Resolved
    <3> QED
      BY <1>3, <2>4, <2>6, <3>3, <3>4, <3>5 DEF ParentsFound, Once
  <2>7. CASE ~r.ok
    <3>1. found.ok = FALSE
      BY <2>5, <2>7 DEF Unresolved
    <3> QED
      BY <1>3, <2>4, <2>7, <3>1 DEF ParentsFound
  <2> QED
    BY <2>6, <2>7
<1> QED
  BY <1>4, <1>5

(* The parents of a Bake target are what one reaches along inherits, each  *)
(* once, and they can be listed exactly when inheritance from it is a tree *)
(* of names of targets, for any number of targets and lists of any length  *)
(* (bakeHCLDocument.ParentTargets).                                        *)
THEOREM ListsParents == SpecDocument => []ParentsAreAncestors
<1>1. InitDocument => IsDocument(doc)
  BY DocumentAssumption DEF InitDocument
<1>2. IsDocument(doc) /\ [ReplaceDocument]_doc => IsDocument(doc)'
  BY DEF ReplaceDocument, IsDocument, Has
<1>3. IsDocument(doc) => ParentsAreAncestors
  BY ParentsAreFound DEF ParentsAreAncestors
<1> QED
  BY <1>1, <1>2, <1>3, PTL DEF SpecDocument

-----------------------------------------------------------------------------
(* A block with labels has a first one.                                    *)
LEMMA LabelledBlocks ==
  ASSUME NEW labels \in Seq(STRING), labels # <<>>
  PROVE  Len(labels) > 0
BY EmptySeq

(* A block that is led to is of a target with the name asked for.          *)
LEMMA LocatedBlock ==
  ASSUME IsDocument(doc), NEW name, NEW location,
         location = CalculateBlockLocation(doc, Top, "target", name, FALSE), location.to = "block"
  PROVE  /\ location.block \in DOMAIN doc /\ doc[location.block].type = "target"
         /\ Labelled(doc[location.block], name)
<1>1. PICK I : I = {i \in 1 .. Len(doc) : doc[i].type = "target" /\ (doc[i].labels = <<>> \/ doc[i].labels[1] = name)}
  OBVIOUS
<1>2. PICK j : j = IF I # {} THEN Min(I) ELSE 0
  OBVIOUS
<1>3. location = CASE j # 0 /\ doc[j].labels = <<>> -> Panic
                   [] j # 0 /\ doc[j].labels # <<>> -> BlockLocation(j)
                   [] OTHER                         -> Nowhere
  BY <1>1, <1>2 DEF CalculateBlockLocation, SelectInSeq
<1>4. j # 0 /\ doc[j].labels # <<>> /\ location.block = j
  <2>1. Panic.to # "block" /\ Nowhere.to # "block" /\ BlockLocation(j).block = j
    BY DEF Panic, BlockLocation, Nowhere
  <2>2. CASE j = 0
    BY <1>3, <2>1, <2>2
  <2>3. CASE j # 0 /\ doc[j].labels = <<>>
    BY <1>3, <2>1, <2>3
  <2>4. CASE j # 0 /\ doc[j].labels # <<>>
    BY <1>3, <2>1, <2>4
  <2> QED
    BY <2>2, <2>3, <2>4
<1>5. I \in SUBSET Nat
  BY <1>1, DocumentTypes
<1>6. j \in I
  BY <1>2, <1>4, <1>5, MinIsLeast
<1>7. doc[j].labels \in Seq(STRING) /\ j \in DOMAIN doc
  BY <1>1, <1>6, DocumentTypes
<1>8. Len(doc[j].labels) > 0
  BY <1>4, <1>7, LabelledBlocks
<1> QED
  BY <1>1, <1>4, <1>6, <1>7, <1>8 DEF Labelled

(* The places that name a target.                                          *)
PlacesOf(t) ==
  {LabelCursor(i) : i \in {i \in DOMAIN doc : doc[i].type = "target" /\ Labelled(doc[i], t)}}
    \union UNION {{ExprCursor(i, "targets", <<k>>) :
                     k \in {k \in GroupEntries(doc, i) : EntryText(doc[i], "targets", k) = t}} : i \in DOMAIN doc}

(* They are highlighted from a cursor on one of them, and then the cursor  *)
(* and the definition are among them.                                      *)
LEMMA HighlightedAt ==
  ASSUME IsDocument(doc), NEW c \in NameCursors, HighlightedTarget(doc, c) # ""
  PROVE  /\ c \in PlacesOf(HighlightedTarget(doc, c))
         /\ Definition(doc, Top, files, c).to = "block" =>
              LabelCursor(Definition(doc, Top, files, c).block) \in PlacesOf(HighlightedTarget(doc, c))
<1>1. CASE \E i \in DOMAIN doc : doc[i].labels # <<>> /\ c = LabelCursor(i)
  <2>1. PICK i \in DOMAIN doc : doc[i].labels # <<>> /\ c = LabelCursor(i)
    BY <1>1
  <2>2. doc[i].type = "target" /\ HighlightedTarget(doc, c) = doc[i].labels[1]
    BY <2>1 DEF HighlightedTarget, LabelCursor
  <2>3. Len(doc[i].labels) > 0
    <3>1. doc[i].labels \in Seq(STRING) /\ doc[i].labels # <<>>
      BY <2>1, DocumentTypes
    <3> QED
      BY <3>1, LabelledBlocks
  <2>4. c \in PlacesOf(HighlightedTarget(doc, c))
    BY <2>1, <2>2, <2>3 DEF PlacesOf, Labelled
  <2>5. Definition(doc, Top, files, c).to # "block"
    BY <2>1 DEF Definition, LabelCursor, Nowhere
  <2> QED
    BY <2>4, <2>5
<1>2. CASE \E i \in DOMAIN doc : \E a \in DOMAIN doc[i].attrs :
              doc[i].attrs[a].kind = "tuple" /\ \E k \in DOMAIN doc[i].attrs[a].children : c = ExprCursor(i, a, <<k>>)
  <2>1. PICK i \in DOMAIN doc : \E a \in DOMAIN doc[i].attrs :
              doc[i].attrs[a].kind = "tuple" /\ \E k \in DOMAIN doc[i].attrs[a].children : c = ExprCursor(i, a, <<k>>)
    BY <1>2
  <2>2. PICK a \in DOMAIN doc[i].attrs :
              doc[i].attrs[a].kind = "tuple" /\ \E k \in DOMAIN doc[i].attrs[a].children : c = ExprCursor(i, a, <<k>>)
    BY <2>1
  <2>3. PICK k \in DOMAIN doc[i].attrs[a].children : c = ExprCursor(i, a, <<k>>)
    BY <2>2
  <2>4. /\ c.at = "value" /\ c.block = i /\ c.attribute = a /\ c.path # <<>> /\ c.path[1] = k
    BY <2>3 DEF ExprCursor
  <2>5. /\ doc[i].type = "group" /\ a = "targets" /\ k \in GroupEntries(doc, i)
        /\ HighlightedTarget(doc, c) = EntryText(doc[i], "targets", k)
    BY <2>4 DEF HighlightedTarget
  <2>6. c \in PlacesOf(HighlightedTarget(doc, c))
    <3>1. c \in {ExprCursor(i, "targets", <<m>>) :
                   m \in {m \in GroupEntries(doc, i) : EntryText(doc[i], "targets", m) = HighlightedTarget(doc, c)}}
      BY <2>3, <2>5
    <3> QED
      BY <3>1, Zenon DEF PlacesOf
  <2>7. doc[i].attrs[a].children[k].kind = "literal"
    BY <2>5 DEF GroupEntries, LiteralEntries
  <2>8. NamesTargets(doc[i], a)
    BY <2>5 DEF NamesTargets
  <2>9. Definition(doc, Top, files, c) =
          CalculateBlockLocation(doc, Top, "target", EntryText(doc[i], "targets", k), FALSE)
    BY <2>2, <2>4, <2>5, <2>7, <2>8 DEF Definition, EntryText
  <2> QED
    BY <2>5, <2>6, <2>9, LocatedBlock DEF PlacesOf
<1>3. \/ c \in {LabelCursor(i) : i \in {i \in DOMAIN doc : doc[i].labels # <<>>}}
      \/ c \in UNION {UNION {{ExprCursor(i, a, <<k>>) : k \in DOMAIN doc[i].attrs[a].children} :
                              a \in {a \in DOMAIN doc[i].attrs : doc[i].attrs[a].kind = "tuple"}} : i \in DOMAIN doc}
  BY Zenon DEF NameCursors
<1>4. CASE c \in {LabelCursor(i) : i \in {i \in DOMAIN doc : doc[i].labels # <<>>}}
  BY <1>1, <1>4
<1>5. CASE c \in UNION {UNION {{ExprCursor(i, a, <<k>>) : k \in DOMAIN doc[i].attrs[a].children} :
                              a \in {a \in DOMAIN doc[i].attrs : doc[i].attrs[a].kind = "tuple"}} : i \in DOMAIN doc}
  <2>1. PICK i \in DOMAIN doc :
          c \in UNION {{ExprCursor(i, a, <<k>>) : k \in DOMAIN doc[i].attrs[a].children} :
                        a \in {a \in DOMAIN doc[i].attrs : doc[i].attrs[a].kind = "tuple"}}
    BY <1>5
  <2> QED
    BY <1>2, <2>1
<1> QED
  BY <1>3, <1>4, <1>5

(* From each of the places of a target the same target is found.           *)
LEMMA PlacesNameOne ==
  ASSUME NEW t, NEW c \in PlacesOf(t)
  PROVE  HighlightedTarget(doc, c) = t
<1>1. CASE \E i \in DOMAIN doc : doc[i].type = "target" /\ Labelled(doc[i], t) /\ c = LabelCursor(i)
  <2>1. PICK i \in DOMAIN doc : doc[i].type = "target" /\ Labelled(doc[i], t) /\ c = LabelCursor(i)
    BY <1>1
  <2>2. c.at = "label" /\ c.block = i /\ doc[i].labels[1] = t
    BY <2>1 DEF LabelCursor, Labelled
  <2> QED
    BY <2>1, <2>2 DEF HighlightedTarget
<1>2. CASE \E i \in DOMAIN doc : \E k \in GroupEntries(doc, i) :
              EntryText(doc[i], "targets", k) = t /\ c = ExprCursor(i, "targets", <<k>>)
  <2>1. PICK i \in DOMAIN doc : \E k \in GroupEntries(doc, i) :
              EntryText(doc[i], "targets", k) = t /\ c = ExprCursor(i, "targets", <<k>>)
    BY <1>2
  <2>2. PICK k \in GroupEntries(doc, i) : EntryText(doc[i], "targets", k) = t /\ c = ExprCursor(i, "targets", <<k>>)
    BY <2>1
  <2>3. /\ c.at = "value" /\ c.block = i /\ c.attribute = "targets" /\ c.path # <<>> /\ c.path[1] = k
    BY <2>2 DEF ExprCursor
  <2>4. doc[i].type = "group"
    BY <2>2 DEF GroupEntries
  <2> QED
    BY <2>2, <2>3, <2>4 DEF HighlightedTarget
<1> QED
  BY <1>1, <1>2 DEF PlacesOf

(* The highlights of a target are the same from each of them, with the     *)
(* definition, in any document (DocumentHighlight, Definition).            *)
LEMMA HighlightsFit ==
  ASSUME IsDocument(doc)
  PROVE  HighlightsAreMutual
<1>1. \A c : DocumentHighlight(doc, c) =
               IF HighlightedTarget(doc, c) = "" THEN {} ELSE PlacesOf(HighlightedTarget(doc, c))
  BY DEF DocumentHighlight, PlacesOf
<1>2. ASSUME NEW c \in NameCursors, HighlightedTarget(doc, c) # ""
      PROVE  /\ DocumentHighlight(doc, c) = PlacesOf(HighlightedTarget(doc, c))
             /\ c \in DocumentHighlight(doc, c)
             /\ \A other \in DocumentHighlight(doc, c) : DocumentHighlight(doc, other) = DocumentHighlight(doc, c)
             /\ Definition(doc, Top, files, c).to = "block" =>
                  LabelCursor(Definition(doc, Top, files, c).block) \in DocumentHighlight(doc, c)
  <2>1. PICK t : t = HighlightedTarget(doc, c)
    OBVIOUS
  <2>2. DocumentHighlight(doc, c) = PlacesOf(t) /\ t # ""
    BY <1>1, <1>2, <2>1
  <2>3. \A other \in PlacesOf(t) : DocumentHighlight(doc, other) = PlacesOf(t)
    BY <1>1, <2>2, PlacesNameOne
  <2> QED
    BY <1>2, <2>1, <2>2, <2>3, HighlightedAt
<1>3. ASSUME NEW c \in NameCursors, HighlightedTarget(doc, c) = "" PROVE DocumentHighlight(doc, c) = {}
  BY <1>1, <1>3
<1> QED
  BY <1>2, <1>3 DEF HighlightsAreMutual

-----------------------------------------------------------------------------
(* The Dockerfile of the first block of a target.                          *)
LEMMA ContentOfFirst ==
  ASSUME IsDocument(doc), NEW i \in DOMAIN doc, IsTarget(doc[i]), i = FirstBlock(doc, "target", doc[i].labels[1])
  PROVE  DockerfileContent(doc, files, doc[i].labels[1]) = Nodes(files, DockerfileForTarget(doc, i))
<1>1. PICK t, F, I : /\ t = doc[i].labels[1]
                     /\ F = {j \in 1 .. Len(doc) : doc[j].type = "target" /\ Labelled(doc[j], t)}
                     /\ I = {j \in 1 .. Len(doc) : IsTarget(doc[j]) /\ doc[j].labels[1] = t}
  OBVIOUS
<1>2. I \subseteq F /\ F \in SUBSET Nat /\ i \in I
  BY <1>1, DocumentTypes DEF IsTarget, Labelled
<1>3. FirstBlock(doc, "target", t) = Min(F)
  BY <1>1, <1>2 DEF FirstBlock, SelectInSeq
<1>4. Min(F) = i /\ \A j \in F : i <= j
  BY <1>1, <1>2, <1>3, MinIsLeast
<1>5. Min(I) \in I /\ Min(I) <= i
  BY <1>2, MinIsLeast
<1>6. Min(I) = i
  <2>1. Min(I) \in F /\ Min(I) \in Nat /\ i \in Nat
    BY <1>2, <1>5
  <2>2. i <= Min(I)
    BY <1>4, <2>1
  <2> QED
    BY <1>5, <2>1, <2>2
<1> QED
  BY <1>1, <1>2, <1>6 DEF DockerfileContent, SelectInSeq

(* The names that a Dockerfile declares are those of its arguments.        *)
LEMMA DeclaredNames ==
  ASSUME NEW nodes, NEW name
  PROVE  name \in ARGs(nodes) <=>
           \E n \in DOMAIN nodes : nodes[n].op = "ARG" /\ \E m \in DOMAIN nodes[n].args : name = nodes[n].args[m].name
<1> DEFINE Names(n) == {nodes[n].args[m].name : m \in DOMAIN nodes[n].args}
<1>1. ARGs(nodes) = UNION {Names(n) : n \in {n \in DOMAIN nodes : nodes[n].op = "ARG"}}
  BY DEF ARGs
<1>2. \A n : name \in Names(n) <=> \E m \in DOMAIN nodes[n].args : name = nodes[n].args[m].name
  OBVIOUS
<1> HIDE DEF Names
<1> QED
  BY <1>1, <1>2

(* Whether a key leads to an instruction: whether the Dockerfile of its    *)
(* target declares it.                                                     *)
LEMMA KeyDefined ==
  ASSUME IsDocument(doc), NEW i \in DOMAIN doc, doc[i].type = "target", "args" \in DOMAIN doc[i].attrs,
         doc[i].attrs["args"].kind = "object", NEW k \in DOMAIN doc[i].attrs["args"].items
  PROVE  Definition(doc, Top, files, KeyCursor(i, k)).to = "instruction" <=>
           /\ DockerfileForTarget(doc, i) # ""
           /\ doc[i].attrs["args"].items[k].key \in ARGs(Nodes(files, DockerfileForTarget(doc, i)))
<1>1. PICK e, path, dockerfile, nodes : /\ e = doc[i].attrs["args"] /\ path = <<2 * k - 1>>
                                        /\ dockerfile = DockerfileForTarget(doc, i) /\ nodes = Nodes(files, dockerfile)
  OBVIOUS
<1>2. k \in Nat \ {0} /\ i # 0
  <2>1. e.items \in Seq(ToSet(e.items))
    BY <1>1 DEF IsDocument
  <2>2. \A S : e.items \in Seq(S) => DOMAIN e.items \subseteq Nat \ {0}
    OBVIOUS
  <2>3. i \in 1 .. Len(doc)
    BY DocumentTypes
  <2> QED
    BY <1>1, <2>1, <2>2, <2>3, DocumentTypes
<1>3. /\ path \in Seq(Nat) /\ Len(path) = 1 /\ path # <<>> /\ path[1] = 2 * k - 1
      /\ (path[1] + 1) \div 2 = k /\ path[1] % 2 # 0
  BY <1>1, <1>2
<1>4. Child(e, SubSeq(path, 1, Len(path))) = <<>>
  <2>1. SubSeq(path, 1, Len(path)) = path
    BY <1>3
  <2>2. e.kind = "object"
    BY <1>1
  <2> QED
    BY <1>3, <2>1, <2>2 DEF Child
<1>5. NodeAt(e, path).node = e /\ NodeAt(e, path).path = path
  <2> DEFINE Step(w) == [n \in 0 .. Len(path) |->
                           IF n = 0 THEN <<e>>
                           ELSE IF w[n - 1] = <<>> THEN <<>>
                           ELSE Child(w[n - 1][1], SubSeq(path, n, Len(path)))]
             way == CHOOSE w : w = Step(w)
             last == Max({n \in 0 .. Len(path) : way[n] # <<>>})
  <2>1. 0 .. Len(path) = {0, 1}
    BY <1>3
  <2>2. PICK w : w = [n \in 0 .. Len(path) |-> IF n = 0 THEN <<e>> ELSE <<>>]
    OBVIOUS
  <2>3. w = Step(w)
    BY <1>3, <1>4, <2>1, <2>2
  <2>4. way = Step(way)
    BY <2>3
  <2>5. way[0] = <<e>> /\ way[1] = <<>>
    <3>1. PICK v : v = way
      OBVIOUS
    <3> HIDE DEF way
    <3>2. v = Step(v)
      BY <2>4, <3>1
    <3>3. v[0] = <<e>>
      BY <2>1, <3>2
    <3>4. v[1] = <<>>
      BY <1>3, <1>4, <2>1, <3>2, <3>3
    <3> QED
      BY <3>1, <3>3, <3>4
  <2>6. {n \in 0 .. Len(path) : way[n] # <<>>} = {0}
    <3> HIDE DEF way
    <3>1. way[0] # <<>>
      BY <2>5
    <3> QED
      BY <2>1, <2>5, <3>1
  <2>7. last = 0
    BY <2>6 DEF Max
  <2>8. NodeAt(e, path) = [node |-> way[last][1], path |-> SubSeq(path, last + 1, Len(path))]
    BY DEF NodeAt
  <2>9. SubSeq(path, 1, Len(path)) = path
    BY <1>3
  <2> HIDE DEF way, last
  <2> QED
    BY <2>5, <2>7, <2>8, <2>9
<1>6. Definition(doc, Top, files, KeyCursor(i, k)) = ResolveExpression(doc, Top, files, i, "args", NodeAt(e, path))
  <2>1. /\ KeyCursor(i, k).at = "value" /\ KeyCursor(i, k).block = i /\ KeyCursor(i, k).attribute = "args"
        /\ KeyCursor(i, k).path = path
    BY <1>1 DEF KeyCursor, ExprCursor
  <2>2. e.kind = "object"
    BY <1>1
  <2> QED
    BY <1>1, <2>1, <2>2 DEF Definition
<1>7. ResolveExpression(doc, Top, files, i, "args", NodeAt(e, path)) = InstructionNamed(files, dockerfile, e, path)
  <2>1. e.kind = "object"
    BY <1>1
  <2> QED
    BY <1>1, <1>2, <1>3, <1>5, <2>1 DEF ResolveExpression
<1>8. \A n : <<nodes[n]>>[1] = nodes[n] /\ DOMAIN <<nodes[n]>> = {1}
  OBVIOUS
<1>9. e.items[k].key \in ARGs(nodes) <=> \E n \in DOMAIN nodes : e.items[k].key \in ARGs(<<nodes[n]>>)
  <2>1. ASSUME NEW n \in DOMAIN nodes
        PROVE  e.items[k].key \in ARGs(<<nodes[n]>>) <=>
                 nodes[n].op = "ARG" /\ \E m \in DOMAIN nodes[n].args : e.items[k].key = nodes[n].args[m].name
    <3>1. PICK one : one = <<nodes[n]>>
      OBVIOUS
    <3>2. one[1] = nodes[n] /\ DOMAIN one = {1}
      BY <1>8, <3>1
    <3>3. e.items[k].key \in ARGs(one) <=>
            \E j \in DOMAIN one : one[j].op = "ARG" /\ \E m \in DOMAIN one[j].args : e.items[k].key = one[j].args[m].name
      BY DeclaredNames
    <3> QED
      BY <3>1, <3>2, <3>3
  <2> QED
    BY <2>1, DeclaredNames
<1>10. InstructionNamed(files, dockerfile, e, path).to = "instruction" <=>
          dockerfile # "" /\ \E n \in DOMAIN nodes : e.items[k].key \in ARGs(<<nodes[n]>>)
  <2>1. e.kind = "object" /\ e.kind # "number"
    BY <1>1
  <2>2. \A n : InstructionLocation(dockerfile, n).to = "instruction"
    BY DEF InstructionLocation
  <2>3. Nowhere.to # "instruction"
    BY DEF Nowhere
  <2>4. CASE dockerfile = ""
    <3>1. InstructionNamed(files, dockerfile, e, path) = Nowhere
      BY <2>4 DEF InstructionNamed
    <3> QED
      BY <2>3, <2>4, <3>1
  <2>5. CASE dockerfile # "" /\ \E n \in DOMAIN nodes : e.items[k].key \in ARGs(<<nodes[n]>>)
    BY <1>1, <1>3, <2>1, <2>2, <2>5 DEF InstructionNamed
  <2>6. CASE dockerfile # "" /\ ~\E n \in DOMAIN nodes : e.items[k].key \in ARGs(<<nodes[n]>>)
    BY <1>1, <1>3, <2>1, <2>3, <2>6 DEF InstructionNamed
  <2> QED
    BY <2>4, <2>5, <2>6
<1> QED
  BY <1>1, <1>6, <1>7, <1>9, <1>10

(* Only an argument that the Dockerfile declares is shown a default.       *)
LEMMA HintedKeys ==
  ASSUME NEW i, NEW k, [block |-> i, item |-> k] \in InlayHints(doc, files)
  PROVE  doc[i].attrs["args"].items[k].key \in ARGs(Nodes(files, DockerfileForTarget(doc, i)))
<1>1. PICK nodes : nodes = Nodes(files, DockerfileForTarget(doc, i))
  OBVIOUS
<1> DEFINE Defaults(ns) ==
             {a.name : a \in {a \in UNION {ToSet(ns[n].args) : n \in {n \in DOMAIN ns : ns[n].op = "ARG"}} :
                                a.default # ""}}
           Hinted(j, names) == {[block |-> j, item |-> l] :
                                  l \in {l \in DOMAIN doc[j].attrs["args"].items :
                                           /\ ~doc[j].attrs["args"].items[l].quoted
                                           /\ doc[j].attrs["args"].items[l].key \in names}}
<1>2. \E j \in DOMAIN doc : [block |-> i, item |-> k] \in Hinted(j, Defaults(Nodes(files, DockerfileForTarget(doc, j))))
  BY DEF InlayHints
<1>3. \A j, names : [block |-> i, item |-> k] \in Hinted(j, names) =>
         i = j /\ doc[i].attrs["args"].items[k].key \in names
  OBVIOUS
<1>4. doc[i].attrs["args"].items[k].key \in Defaults(nodes)
  <2> HIDE DEF Defaults, Hinted
  <2> QED
    BY <1>1, <1>2, <1>3
<1>5. PICK n \in DOMAIN nodes : nodes[n].op = "ARG" /\ \E a \in ToSet(nodes[n].args) : a.name = doc[i].attrs["args"].items[k].key
  BY <1>4
<1>6. PICK m \in DOMAIN nodes[n].args : nodes[n].args[m].name = doc[i].attrs["args"].items[k].key
  BY <1>5 DEF ToSet
<1> QED
  BY <1>1, <1>5, <1>6, DeclaredNames

(* An argument is reported if the Dockerfile is known, and neither it nor  *)
(* BuildKit nor a target that inherits from this one declares it.          *)
LEMMA ReportedKeys ==
  ASSUME IsDocument(doc), NEW i \in DOMAIN doc, IsTarget(doc[i]), i = FirstBlock(doc, "target", doc[i].labels[1]),
         "args" \in DOMAIN doc[i].attrs, doc[i].attrs["args"].kind = "object",
         NEW k \in DOMAIN doc[i].attrs["args"].items
  PROVE  Diagnostic("arg", i, "args", k) \in Diagnostics <=>
           /\ DockerfileForTarget(doc, i) # ""
           /\ doc[i].attrs["args"].items[k].key \notin
                BuiltinArgs \union InheritingARGs(doc, files, i)
                  \union ARGs(Nodes(files, DockerfileForTarget(doc, i)))
<1> DEFINE d == Diagnostic("arg", i, "args", k)
           Compared(j) == LET nodes == DockerfileContent(doc, files, doc[j].labels[1])
                          IN  UnknownTarget(doc, nodes, j) \union UnknownArgs(doc, files, nodes, j)
           Found(j) == IF DockerfileForTarget(doc, j) = "" THEN {} ELSE Compared(j)
           Others(j) == IgnoredDockerfile(doc, j) \union VulnerableTags(doc, j, Vulnerable)
                          \union UnknownEntitlements(doc, j) \union UnknownNetwork(doc, j)
                          \union InvalidAnnotations(doc, j, Keyed)
<1>1. Diagnostics = UNION {Others(j) \union Found(j) : j \in {j \in DOMAIN doc : IsTarget(doc[j])}}
  BY DEF Diagnostics, CollectDiagnostics
<1>2. ASSUME NEW j PROVE d \notin Others(j)
  BY DEF IgnoredDockerfile, VulnerableTags, UnknownEntitlements, UnknownNetwork, InvalidAnnotations, Diagnostic
<1>3. ASSUME NEW j, NEW nodes PROVE d \notin UnknownTarget(doc, nodes, j)
  BY DEF UnknownTarget, Diagnostic
<1>4. ASSUME NEW j, j # i, NEW nodes PROVE d \notin UnknownArgs(doc, files, nodes, j)
  BY <1>4 DEF UnknownArgs, Diagnostic
<1>5. ASSUME NEW nodes
      PROVE  d \in UnknownArgs(doc, files, nodes, i) <=>
               doc[i].attrs["args"].items[k].key \notin
                 BuiltinArgs \union InheritingARGs(doc, files, i) \union ARGs(nodes)
  BY DEF UnknownArgs, Diagnostic, Has
<1>6. d \in Diagnostics <=> d \in Found(i)
  <2>1. \A j : j # i => d \notin Found(j)
    BY <1>3, <1>4
  <2> HIDE DEF Others, Found, d
  <2> QED
    BY <1>1, <1>2, <2>1
<1>7. d \in Found(i) <=>
        /\ DockerfileForTarget(doc, i) # ""
        /\ d \in UnknownArgs(doc, files, Nodes(files, DockerfileForTarget(doc, i)), i)
  BY <1>3, ContentOfFirst
<1> HIDE DEF Found, d
<1> QED
  BY <1>5, <1>6, <1>7 DEF d

(* So the answers about an argument fit, in any document and with any      *)
(* Dockerfiles.                                                            *)
LEMMA ArgumentsFit ==
  ASSUME IsDocument(doc)
  PROVE  ArgumentAnswersAgree
<1>1. ASSUME NEW item \in KeyItems
      PROVE  LET i == item[1]  k == item[2]
                 reported == Diagnostic("arg", i, "args", k) \in Diagnostics
                 defined == Definition(doc, Top, files, KeyCursor(i, k)).to = "instruction"
             IN  /\ reported => ~defined /\ [block |-> i, item |-> k] \notin InlayHints(doc, files)
                 /\ \/ reported \/ defined
                    \/ DockerfileForTarget(doc, i) = ""
                    \/ doc[i].attrs["args"].items[k].key \in BuiltinArgs \union InheritingARGs(doc, files, i)
  <2>1. PICK i \in DOMAIN doc :
               /\ IsTarget(doc[i]) /\ i = FirstBlock(doc, "target", doc[i].labels[1])
               /\ Has(doc[i], "args") /\ doc[i].attrs["args"].kind = "object"
               /\ \E k \in DOMAIN doc[i].attrs["args"].items : item = <<i, k>>
    BY DEF KeyItems
  <2>2. PICK k \in DOMAIN doc[i].attrs["args"].items : item = <<i, k>>
    BY <2>1
  <2>3. item[1] = i /\ item[2] = k /\ doc[i].type = "target" /\ "args" \in DOMAIN doc[i].attrs
    BY <2>1, <2>2 DEF IsTarget, Has
  <2> QED
    BY <2>1, <2>2, <2>3, KeyDefined, HintedKeys, ReportedKeys
<1> QED
  BY <1>1 DEF ArgumentAnswersAgree

-----------------------------------------------------------------------------
(* Two tables of merged values that are the same where one more target has *)
(* been visited lead to the same value for that target.                    *)
LEMMA MergedValueAgrees ==
  ASSUME NEW g, NEW h, NEW attribute, NEW visited, NEW t, g[visited \union {t}] = h[visited \union {t}]
  PROVE  MergedValue(doc, attribute, g, visited, t) = MergedValue(doc, attribute, h, visited, t)
  BY DEF MergedValue

(* The merged values are defined, whichever targets have been visited.     *)
LEMMA MergedDefined ==
  ASSUME IsDocument(doc), NEW attribute
  PROVE  \A visited \in SUBSET Targets : \A t \in Targets \ visited :
           Merged(doc, attribute)[visited][t] = MergedValue(doc, attribute, Merged(doc, attribute), visited, t)
<1> DEFINE Row(g, s)   == [t \in Targets \ s |-> MergedValue(doc, attribute, g, s, t)]
           Layer(g, n) == [s \in LeftLess(Targets, n) |-> Row(g, s)]
           N           == Cardinality(Targets) + 1
           Defined     == {n \in 0 .. N : \E g : g = Layer(g, n)}
<1>1. IsFiniteSet(Targets)
  BY DocumentTypes
<1>2. N \in Nat /\ LeftLess(Targets, 0) = {} /\ LeftLess(Targets, N) = SUBSET Targets
  BY <1>1, LeftLessBounds
<1> HIDE DEF N
<1>3. \A n \in 0 .. N : n \in Defined
  <2>1. 0 \in Defined
    <3> HIDE DEF Row
    <3>1. Layer(<<>>, 0) = Layer(Layer(<<>>, 0), 0)
      BY <1>2
    <3>2. 0 \in 0 .. N
      BY <1>2
    <3> HIDE DEF Layer
    <3> QED
      BY <3>1, <3>2
  <2>2. ASSUME NEW n \in 0 .. N - 1, n \in Defined PROVE n + 1 \in Defined
    <3>1. PICK g : g = Layer(g, n)
      BY <2>2
    <3>2. PICK h : h = Layer(g, n + 1)
      OBVIOUS
    <3>3. n \in Nat /\ n + 1 \in 0 .. N
      BY <1>2
    <3>4. ASSUME NEW s \in LeftLess(Targets, n + 1) PROVE Row(g, s) = Row(h, s)
      <4>1. ASSUME NEW t \in Targets \ s PROVE g[s \union {t}] = h[s \union {t}]
        <5>1. PICK u : u = s \union {t}
          OBVIOUS
        <5>2. s \in SUBSET Targets
          BY DEF LeftLess
        <5>3. u \in SUBSET Targets /\ s \subseteq u /\ s # u
          BY <4>1, <5>1, <5>2
        <5>4. u \in LeftLess(Targets, n) /\ u \in LeftLess(Targets, n + 1)
          BY <1>1, <3>3, <3>4, <5>3, LeftLessAbove
        <5> HIDE DEF Row
        <5>5. g[u] = Row(g, u)
          BY <3>1, <5>4, Zenon
        <5>6. h[u] = Row(g, u)
          BY <3>2, <5>4
        <5> QED
          BY <5>1, <5>5, <5>6
      <4>2. ASSUME NEW t \in Targets \ s
            PROVE  MergedValue(doc, attribute, g, s, t) = MergedValue(doc, attribute, h, s, t)
        <5>1. g[s \union {t}] = h[s \union {t}]
          BY <4>1, <4>2
        <5>2. \A u, v, S, x : u[S \union {x}] = v[S \union {x}] =>
                MergedValue(doc, attribute, u, S, x) = MergedValue(doc, attribute, v, S, x)
          BY MergedValueAgrees
        <5> QED
          BY <5>1, <5>2
      <4> QED
        BY <4>2
    <3> HIDE DEF Row
    <3>5. h = Layer(h, n + 1)
      BY <3>2, <3>4
    <3> HIDE DEF Layer
    <3> QED
      BY <3>3, <3>5
  <2> HIDE DEF Defined
  <2> QED
    BY <1>2, <2>1, <2>2, InductionUpTo
<1>4. PICK g : g = Layer(g, N)
  <2>1. N \in 0 .. N
    BY <1>2
  <2> HIDE DEF Layer
  <2> QED
    BY <1>3, <2>1
<1>5. PICK m : m = Merged(doc, attribute)
  OBVIOUS
<1>6. m = [s \in SUBSET Targets |-> Row(m, s)]
  <2>1. g = [s \in SUBSET Targets |-> Row(g, s)]
    BY <1>2, <1>4
  <2> QED
    BY <1>5, <2>1, Zenon DEF Merged, Targets
<1>7. ASSUME NEW s \in SUBSET Targets, NEW t \in Targets \ s PROVE m[s][t] = MergedValue(doc, attribute, m, s, t)
  <2>1. m[s] = Row(m, s)
    <3> HIDE DEF Row
    <3> QED
      BY <1>6
  <2> QED
    BY <2>1
<1> QED
  BY <1>5, <1>7

(* The label of a target is among those of targets.                        *)
LEMMA LabelIsTarget ==
  ASSUME NEW i \in DOMAIN doc, IsTarget(doc[i])
  PROVE  doc[i].labels[1] \in Targets
<1>1. PICK labels : labels = doc[i].labels
  OBVIOUS
<1>2. doc[i].type = "target" /\ Len(labels) = 1
  BY <1>1 DEF IsTarget
<1>3. labels # <<>>
  BY <1>2
<1> QED
  BY <1>1, <1>2, <1>3, Zenon DEF Targets, TargetLabels

(* A target is built with the Dockerfile that its own block names, below   *)
(* its context, if it names one and the Dockerfile is known.               *)
LEMMA OwnDockerfile ==
  ASSUME IsDocument(doc), NEW i \in DOMAIN doc, IsTarget(doc[i]), i = FirstBlock(doc, "target", doc[i].labels[1]),
         Has(doc[i], "dockerfile"), doc[i].attrs["dockerfile"].kind = "literal",
         doc[i].attrs["dockerfile"].text # ""
  PROVE  DockerfileForTarget(doc, i) \in {"", Joined(Given(doc, i, "context"), doc[i].attrs["dockerfile"].text)}
<1>1. PICK t, e, m : t = doc[i].labels[1] /\ e = doc[i].attrs["dockerfile"] /\ m = Merged(doc, "dockerfile")
  OBVIOUS
<1>2. t \in Targets
  BY <1>1, LabelIsTarget
<1>3. m[{}][t] = MergedValue(doc, "dockerfile", m, {}, t)
  <2>1. {} \in SUBSET Targets /\ t \in Targets \ {}
    BY <1>2
  <2> QED
    BY <1>1, <2>1, MergedDefined
<1>4. ValueOf(doc, e) = e.text
  BY <1>1 DEF ValueOf
<1>5. m[{}][t] = e.text
  BY <1>1, <1>3, <1>4 DEF MergedValue
<1>6. Given(doc, i, "dockerfile") = doc[i].attrs["dockerfile"].text
  BY <1>1, <1>5 DEF Given
<1> QED
  BY <1>6 DEF DockerfileForTarget, BuildAttributes

(* A link to a path that is written out has the path of the Dockerfile     *)
(* below the context, and each lens is on a symbol (DocumentLink,          *)
(* CodeLens, DocumentSymbol).                                              *)
LEMMA LinksFit ==
  ASSUME IsDocument(doc)
  PROVE  LinksAndLensesAgree
<1>1. ASSUME NEW lens \in CodeLenses(doc)
      PROVE  \E s \in DocumentSymbols(doc) : s.block = lens.block /\ s.name = lens.target
  <2>1. PICK i \in DOMAIN doc : doc[i].labels # <<>> /\ lens.block = i /\ lens.target = doc[i].labels[1]
    BY DEF CodeLenses
  <2>2. PICK s : s = [block |-> i, name |-> doc[i].labels[1],
                      kind |-> IF doc[i].type = "variable" THEN "variable" ELSE "function"]
    OBVIOUS
  <2>3. s \in DocumentSymbols(doc)
    BY <2>1, <2>2 DEF DocumentSymbols
  <2> QED
    BY <2>1, <2>2, <2>3
<1>2. ASSUME NEW link \in WrittenLinks
      PROVE  DockerfileForTarget(doc, link.block)
               \in {"", Joined(Given(doc, link.block, "context"), link.path)}
  <2>1. PICK i \in DOMAIN doc :
          /\ Has(doc[i], "dockerfile")
          /\ link = [block |-> i,
                     path |-> IF doc[i].attrs["dockerfile"].kind = "literal"
                              THEN doc[i].attrs["dockerfile"].text ELSE "${}"]
    <3>1. link \in DocumentLinks(doc)
      BY DEF WrittenLinks
    <3> QED
      BY <3>1, Zenon DEF DocumentLinks
  <2>2. /\ IsTarget(doc[i]) /\ i = FirstBlock(doc, "target", doc[i].labels[1])
        /\ doc[i].attrs["dockerfile"].kind = "literal" /\ link.path # ""
    BY <2>1 DEF WrittenLinks
  <2>3. link.block = i /\ link.path = doc[i].attrs["dockerfile"].text
    BY <2>1, <2>2
  <2> QED
    BY <2>1, <2>2, <2>3, OwnDockerfile
<1> QED
  BY <1>1, <1>2 DEF LinksAndLensesAgree

(* The document stays one.                                                 *)
LEMMA DocumentStays == SpecBake => []IsDocument(doc)
<1>1. InitBake => IsDocument(doc)
  BY DocumentAssumption DEF InitBake, InitDocument
<1>2. IsDocument(doc) /\ [ReplaceBake]_<<doc, files>> => IsDocument(doc)'
  BY DEF ReplaceBake, ReplaceDocument, IsDocument
<1> QED
  BY <1>1, <1>2, PTL DEF SpecBake

(* The places that are highlighted are the same from each of them, with    *)
(* the cursor and the definition, in any Bake file (DocumentHighlight).    *)
THEOREM HighlightsMutual == SpecBake => []HighlightsAreMutual
BY DocumentStays, HighlightsFit, PTL

(* The diagnostics, the definition and the hint of an argument agree with  *)
(* each other, in any Bake file and with any Dockerfiles                   *)
(* (CollectDiagnostics, Definition, InlayHint).                            *)
THEOREM ArgumentsAgree == SpecBake => []ArgumentAnswersAgree
BY DocumentStays, ArgumentsFit, PTL

(* The Dockerfile that a target is built with is, if its block names one,  *)
(* at the path of the link to it, below the context of the target, which   *)
(* the link leaves out; and every lens is on a symbol of its target, in    *)
(* any Bake file (DocumentLink, DockerfileForTarget, CodeLens,             *)
(* DocumentSymbol).                                                        *)
THEOREM LinksAgree == SpecBake => []LinksAndLensesAgree
BY DocumentStays, LinksFit, PTL

-----------------------------------------------------------------------------
(* The gaps and indentations that edits write are ones they leave alone.   *)
LEMMA GapsSettle ==
  /\ \A g \in Gaps : SpaceBetween(g) \in Gaps /\ SpaceBetween(SpaceBetween(g)) = SpaceBetween(g)
  /\ \A g \in ItemGaps : FormatRight(g) \in ItemGaps /\ FormatRight(FormatRight(g)) = FormatRight(g)
  BY DEF Gaps, ItemGaps, SpaceBetween, FormatRight

(* What is written in a place that at most one text is written in.         *)
LEMMA RewrittenOnce ==
  ASSUME NEW old, NEW edits, NEW e \in edits, \A f \in edits : f.text = e.text
  PROVE  Rewritten(old, edits) = e.text
  BY DEF Rewritten

(* The numbers and the items of a layout.                                  *)
LEMMA LayoutTypes ==
  ASSUME NEW l, IsLayout(l)
  PROVE  /\ l.attribute \in Nat \ {0} /\ l.objectEnd \in Nat /\ l.close \in Nat
         /\ l.object \in BOOLEAN
         /\ l.attribute <= l.objectEnd /\ l.objectEnd <= l.close
         /\ DOMAIN l.indent = 1 .. l.close /\ Len(l.items) \in Nat
         /\ DOMAIN l.items = 1 .. Len(l.items)
         /\ \A k \in 1 .. Len(l.items) :
              /\ l.items[k] \in [line : Nat \ {0}, gap : ItemGaps]
              /\ l.items[k].line \in Nat /\ l.items[k].gap \in ItemGaps
              /\ l.attribute <= l.items[k].line /\ l.items[k].line <= l.objectEnd
         /\ \A n \in 1 .. l.close : l.indent[n] \in Indents
         /\ \A p \in DOMAIN l.gaps : l.gaps[p] \in Gaps
<1> PICK items, indent : items = l.items /\ indent = l.indent
  OBVIOUS
<1>1. /\ l.attribute \in Nat \ {0} /\ l.objectEnd \in Nat /\ l.close \in Nat
      /\ l.object \in BOOLEAN
      /\ items \in Seq([line : Nat \ {0}, gap : ItemGaps]) /\ indent \in Seq(Indents)
      /\ l.gaps \in UNION {[P -> Gaps] : P \in SUBSET Places}
      /\ l.attribute <= l.objectEnd /\ l.objectEnd <= l.close /\ l.close = Len(indent)
  BY DEF IsLayout
<1>2. \A k \in 1 .. Len(items) : items[k] \in [line : Nat \ {0}, gap : ItemGaps]
  <2>1. \A T, k : items \in Seq(T) /\ k \in 1 .. Len(items) => items[k] \in T
    OBVIOUS
  <2> QED
    BY <1>1, <2>1
<1>3. \A k \in 1 .. Len(items) : l.attribute <= items[k].line /\ items[k].line <= l.objectEnd
  BY <1>1 DEF IsLayout
<1>4. \A p \in DOMAIN l.gaps : l.gaps[p] \in Gaps
  <2>1. PICK P \in SUBSET Places : l.gaps \in [P -> Gaps]
    BY <1>1
  <2> QED
    BY <2>1
<1> QED
  BY <1>1, <1>2, <1>3, <1>4

(* The items that are indented are items of the object.                    *)
LEMMA ItemNumbers ==
  ASSUME NEW l, IsLayout(l), NEW k \in FirstItem(l) .. Len(l.items)
  PROVE  k \in 1 .. Len(l.items)
<1>1. FirstItem(l) \in {1, 2} /\ Len(l.items) \in Nat
  BY LayoutTypes DEF FirstItem
<1> QED
  BY <1>1

(* The items that are indented are strictly inside of their object.        *)
LEMMA ItemsInside ==
  ASSUME NEW l, IsLayout(l), OneItemPerLine(l), NEW k \in FirstItem(l) .. Len(l.items)
  PROVE  l.attribute < l.items[k].line /\ l.items[k].line < l.objectEnd
<1>1. k \in DOMAIN l.items /\ 1 \in DOMAIN l.items /\ l.items # <<>>
  BY ItemNumbers, LayoutTypes
<1>2. /\ l.items[k].line \in Nat /\ l.items[1].line \in Nat /\ l.objectEnd \in Nat
      /\ l.attribute \in Nat
      /\ l.attribute <= l.items[k].line /\ l.items[k].line <= l.objectEnd
      /\ l.attribute <= l.items[1].line
  BY <1>1, LayoutTypes
<1>3. l.items[k].line # l.objectEnd
  BY <1>1 DEF OneItemPerLine
<1>4. l.items[k].line # l.attribute
  <2>1. CASE l.items[1].line = l.attribute
    <3>1. k # 1
      BY <1>1, <2>1 DEF FirstItem
    <3> QED
      BY <1>1, <2>1, <3>1 DEF OneItemPerLine
  <2>2. CASE l.items[1].line # l.attribute
    <3>1. k = 1 \/ 1 < k
      BY <1>1, LayoutTypes
    <3>2. l.items[1].line <= l.items[k].line
      BY <1>1, <1>2, <3>1 DEF IsLayout
    <3> QED
      BY <1>2, <2>2, <3>2
  <2> QED
    BY <2>1, <2>2
<1> QED
  BY <1>2, <1>3, <1>4

(* No line is wanted to be indented in two ways.                           *)
LEMMA WantedOnce ==
  ASSUME NEW l, IsLayout(l), OneItemPerLine(l),
         NEW v \in WantedIndents(l), NEW w \in WantedIndents(l), v.line = w.line
  PROVE  v = w
<1>1. /\ l.attribute \in Nat \ {0} /\ l.objectEnd \in Nat /\ l.close \in Nat
      /\ l.attribute <= l.objectEnd
      /\ l.attribute # 1 => l.objectEnd < l.close
      /\ l.attribute = 1 => OneLine(l)
  BY LayoutTypes DEF IsLayout, OneItemPerLine
<1> DEFINE Outer == {IndentEdit(l.attribute, "unit"), IndentEdit(l.objectEnd, "unit")}
           Inner == {IndentEdit(l.items[k].line, "unit unit") : k \in FirstItem(l) .. Len(l.items)}
           Ends  == {IndentEdit(1, ""), IndentEdit(l.close, "")}
<1>2. /\ OneLine(l) => WantedIndents(l) = {IndentEdit(1, "")}
      /\ WantedIndents(l) \subseteq Outer \union Inner \union Ends
  BY DEF WantedIndents
<1>3. CASE OneLine(l)
  <2>1. v \in {IndentEdit(1, "")} /\ w \in {IndentEdit(1, "")}
    BY <1>2, <1>3
  <2> QED
    BY <2>1
<1>4. CASE ~OneLine(l)
  <2>1. 1 < l.attribute /\ l.objectEnd < l.close
    BY <1>1, <1>4
  <2>2. ASSUME NEW x \in Ends
        PROVE  (x.line = 1 \/ x.line = l.close) /\ x = IndentEdit(x.line, "")
    <3>1. x = IndentEdit(1, "") \/ x = IndentEdit(l.close, "")
      BY <2>2
    <3>2. \A n : IndentEdit(n, "").line = n
      BY DEF IndentEdit
    <3> QED
      BY <3>1, <3>2
  <2>3. ASSUME NEW x \in Outer
        PROVE  (x.line = l.attribute \/ x.line = l.objectEnd) /\ x = IndentEdit(x.line, "unit")
    <3>1. x = IndentEdit(l.attribute, "unit") \/ x = IndentEdit(l.objectEnd, "unit")
      BY <2>3
    <3>2. \A n : IndentEdit(n, "unit").line = n
      BY DEF IndentEdit
    <3> QED
      BY <3>1, <3>2
  <2>4. ASSUME NEW x \in Inner
        PROVE  /\ l.attribute < x.line /\ x.line < l.objectEnd /\ x.line \in Nat
               /\ x = IndentEdit(x.line, "unit unit")
    <3>1. PICK k \in FirstItem(l) .. Len(l.items) : x = IndentEdit(l.items[k].line, "unit unit")
      BY <2>4
    <3>2. k \in 1 .. Len(l.items)
      BY ItemNumbers
    <3>3. l.items[k].line \in Nat
      BY <3>2, LayoutTypes
    <3>4. l.attribute < l.items[k].line /\ l.items[k].line < l.objectEnd
      BY ItemsInside
    <3> QED
      BY <3>1, <3>3, <3>4 DEF IndentEdit
  <2>5. v \in Outer \union Inner \union Ends /\ w \in Outer \union Inner \union Ends
    BY <1>2
  <2> HIDE DEF Outer, Inner, Ends
  <2>6. /\ v \in Ends => v.line = 1 \/ v.line = l.close
        /\ w \in Ends => w.line = 1 \/ w.line = l.close
        /\ v \in Outer => v.line = l.attribute \/ v.line = l.objectEnd
        /\ w \in Outer => w.line = l.attribute \/ w.line = l.objectEnd
        /\ v \in Inner => l.attribute < v.line /\ v.line < l.objectEnd /\ v.line \in Nat
        /\ w \in Inner => l.attribute < w.line /\ w.line < l.objectEnd /\ w.line \in Nat
    BY <2>2, <2>3, <2>4
  <2>7. CASE v \in Ends
    <3>1. w \in Ends
      BY <1>1, <2>1, <2>5, <2>6, <2>7
    <3> QED
      BY <2>2, <2>7, <3>1
  <2>8. CASE v \in Outer
    <3>1. w \in Outer
      BY <1>1, <2>1, <2>5, <2>6, <2>8
    <3> QED
      BY <2>3, <2>8, <3>1
  <2>9. CASE v \in Inner
    <3>1. w \in Inner
      BY <1>1, <2>1, <2>5, <2>6, <2>9
    <3> QED
      BY <2>4, <2>9, <3>1
  <2> QED
    BY <2>5, <2>7, <2>8, <2>9
<1> QED
  BY <1>3, <1>4

(* A wanted line is one of the block's.                                    *)
LEMMA WantedLines ==
  ASSUME NEW l, IsLayout(l), NEW e \in WantedIndents(l)
  PROVE  /\ e.line \in DOMAIN l.indent /\ e.text \in Indents
         /\ e = IndentEdit(e.line, e.text)
<1>1. 1 \in 1 .. l.close /\ l.attribute \in 1 .. l.close /\ l.objectEnd \in 1 .. l.close
      /\ l.close \in 1 .. l.close
  BY LayoutTypes
<1>2. ASSUME NEW k \in FirstItem(l) .. Len(l.items) PROVE l.items[k].line \in 1 .. l.close
  <2>1. k \in 1 .. Len(l.items)
    BY ItemNumbers
  <2>2. /\ l.attribute \in Nat \ {0} /\ l.objectEnd \in Nat /\ l.close \in Nat
        /\ l.items[k].line \in Nat
        /\ l.attribute <= l.items[k].line /\ l.items[k].line <= l.objectEnd
        /\ l.objectEnd <= l.close
    BY <2>1, LayoutTypes
  <2> QED
    BY <2>2
<1>3. PICK n \in 1 .. l.close, x \in Indents : e = IndentEdit(n, x)
  BY <1>1, <1>2 DEF WantedIndents, Indents
<1> QED
  BY <1>3, LayoutTypes DEF IndentEdit

(* The places that the edits leave alone, and what they write in the others. *)
LEMMA FormattedParts ==
  ASSUME NEW l, IsLayout(l)
  PROVE  LET m == Formatted(l)
         IN  /\ m \in [attribute : Nat \ {0}, object : BOOLEAN, objectEnd : Nat, close : Nat,
                       items : {m.items}, indent : {m.indent}, gaps : {m.gaps}]
             /\ m.attribute = l.attribute /\ m.object = l.object
             /\ m.objectEnd = l.objectEnd /\ m.close = l.close
             /\ m.indent = [n \in DOMAIN l.indent |->
                              Rewritten(l.indent[n], {e \in IndentEdits(l) : e.line = n})]
             /\ m.gaps = [p \in DOMAIN l.gaps |->
                            Rewritten(l.gaps[p], {e \in GapEdits(l) : e.place = p})]
             /\ m.items = [k \in DOMAIN l.items |->
                             [line |-> l.items[k].line,
                              gap  |-> Rewritten(l.items[k].gap,
                                                 {e \in ItemEdits(l) : e.item = k})]]
<1> PICK items, indent, gaps : items = l.items /\ indent = l.indent /\ gaps = l.gaps
  OBVIOUS
<1>1. l \in [attribute : Nat \ {0}, object : BOOLEAN, objectEnd : Nat, close : Nat,
             items : {items}, indent : {indent}, gaps : {gaps}]
  BY DEF IsLayout
<1> QED
  BY <1>1 DEF Formatted

(* Every line that is looked at has the indentation that is wanted.        *)
LEMMA IndentsAfter ==
  ASSUME NEW l, IsLayout(l)
  PROVE  /\ Formatted(l).indent \in Seq(Indents)
         /\ Len(Formatted(l).indent) = l.close
         /\ OneItemPerLine(l) =>
              \A e \in WantedIndents(l) : Formatted(l).indent[e.line] = e.text
<1> DEFINE On(n)  == {e \in IndentEdits(l) : e.line = n}
           after == [n \in DOMAIN l.indent |-> Rewritten(l.indent[n], On(n))]
<1>1. Formatted(l).indent = after /\ DOMAIN l.indent = 1 .. l.close
  BY FormattedParts, LayoutTypes
<1>2. ASSUME NEW n \in 1 .. l.close PROVE Rewritten(l.indent[n], On(n)) \in Indents
  <2>1. CASE On(n) = {}
    BY <2>1, LayoutTypes DEF Rewritten
  <2>2. CASE On(n) # {}
    <3>1. \A e \in On(n) : e.text \in Indents
      BY WantedLines DEF IndentEdits
    <3> QED
      BY <2>2, <3>1 DEF Rewritten
  <2> QED
    BY <2>1, <2>2
<1>3. ASSUME OneItemPerLine(l), NEW e \in WantedIndents(l) PROVE after[e.line] = e.text
  <2>1. e.line \in 1 .. l.close
    BY WantedLines, LayoutTypes
  <2>2. CASE l.indent[e.line] = e.text
    <3>1. On(e.line) = {}
      BY <1>3, <2>2, WantedOnce DEF IndentEdits
    <3> QED
      BY <1>1, <2>1, <2>2, <3>1 DEF Rewritten
  <2>3. CASE l.indent[e.line] # e.text
    <3>1. e \in On(e.line) /\ \A f \in On(e.line) : f.text = e.text
      BY <1>3, <2>3, WantedOnce DEF IndentEdits
    <3>2. Rewritten(l.indent[e.line], On(e.line)) = e.text
      BY <3>1, RewrittenOnce
    <3> QED
      BY <1>1, <2>1, <3>2
  <2> QED
    BY <2>2, <2>3
<1>4. after \in [1 .. l.close -> Indents] /\ l.close \in Nat
  BY <1>1, <1>2, LayoutTypes
<1>5. after \in Seq(Indents) /\ Len(after) = l.close
  <2> HIDE DEF after
  <2> QED
    BY <1>4
<1> QED
  BY <1>1, <1>3, <1>5

(* Every gap is as before, or as spaceBetween wants it.                    *)
LEMMA GapsAfter ==
  ASSUME NEW l, IsLayout(l)
  PROVE  /\ DOMAIN Formatted(l).gaps = DOMAIN l.gaps
         /\ Formatted(l).gaps \in UNION {[P -> Gaps] : P \in SUBSET Places}
         /\ \A p \in CheckedGaps(l) : Formatted(l).gaps[p] = SpaceBetween(l.gaps[p])
<1> DEFINE At(p) == {e \in GapEdits(l) : e.place = p}
           after == [p \in DOMAIN l.gaps |-> Rewritten(l.gaps[p], At(p))]
<1>1. Formatted(l).gaps = after
  BY FormattedParts
<1>2. \A e \in GapEdits(l) : /\ e.place \in CheckedGaps(l) /\ e.text = SpaceBetween(l.gaps[e.place])
                             /\ e.text # l.gaps[e.place]
  BY DEF GapEdits, GapEdit
<1>3. ASSUME NEW p \in CheckedGaps(l)
      PROVE  after[p] = SpaceBetween(l.gaps[p])
  <2>1. p \in DOMAIN l.gaps
    BY DEF CheckedGaps
  <2>2. CASE l.gaps[p] = SpaceBetween(l.gaps[p])
    <3>1. At(p) = {}
      BY <1>2, <2>2
    <3> QED
      BY <2>1, <2>2, <3>1 DEF Rewritten
  <2>3. CASE l.gaps[p] # SpaceBetween(l.gaps[p])
    <3>1. PICK e \in At(p) : TRUE
      <4>1. GapEdit(p, SpaceBetween(l.gaps[p])) \in GapEdits(l)
        BY <2>3 DEF GapEdits
      <4>2. GapEdit(p, SpaceBetween(l.gaps[p])).place = p
        BY DEF GapEdit
      <4> QED
        BY <4>1, <4>2
    <3>2. \A f \in At(p) : f.text = e.text
      BY <1>2
    <3>3. Rewritten(l.gaps[p], At(p)) = e.text
      BY <3>2, RewrittenOnce
    <3> QED
      BY <1>2, <2>1, <3>3
  <2> QED
    BY <2>2, <2>3
<1>4. ASSUME NEW p \in DOMAIN l.gaps PROVE after[p] \in Gaps
  <2>1. l.gaps[p] \in Gaps
    BY LayoutTypes
  <2>2. CASE p \in CheckedGaps(l)
    BY <1>3, <2>1, <2>2, GapsSettle
  <2>3. CASE p \notin CheckedGaps(l)
    <3>1. At(p) = {}
      BY <1>2, <2>3
    <3> QED
      BY <2>1, <3>1 DEF Rewritten
  <2> QED
    BY <2>2, <2>3
<1>5. DOMAIN l.gaps \in SUBSET Places
  <2> PICK gaps : gaps = l.gaps
    OBVIOUS
  <2>1. gaps \in UNION {[P -> Gaps] : P \in SUBSET Places}
    BY DEF IsLayout
  <2> QED
    BY <2>1
<1>6. after \in [DOMAIN l.gaps -> Gaps]
  BY <1>4
<1>7. DOMAIN after = DOMAIN l.gaps
  OBVIOUS
<1> HIDE DEF after
<1> QED
  BY <1>1, <1>3, <1>5, <1>6, <1>7

(* The items whose line is indented.                                       *)
Indented(l) ==
  {k \in FirstItem(l) .. Len(l.items) : l.object /\ l.attribute # l.objectEnd /\ ~OneLine(l)}

(* Every item stays on its line; what is around its = is as before, or as  *)
(* formatRight wants it.                                                   *)
LEMMA ItemsAfter ==
  ASSUME NEW l, IsLayout(l)
  PROVE  /\ Formatted(l).items \in Seq([line : Nat \ {0}, gap : ItemGaps])
         /\ Len(Formatted(l).items) = Len(l.items)
         /\ \A k \in 1 .. Len(l.items) : Formatted(l).items[k].line = l.items[k].line
         /\ \A k \in Indented(l) : Formatted(l).items[k].gap = FormatRight(l.items[k].gap)
<1> DEFINE Of(k) == {e \in ItemEdits(l) : e.item = k}
           New(k) == [line |-> l.items[k].line, gap |-> Rewritten(l.items[k].gap, Of(k))]
           after  == [k \in DOMAIN l.items |-> New(k)]
<1>1. Formatted(l).items = after /\ DOMAIN l.items = 1 .. Len(l.items)
  BY FormattedParts, LayoutTypes
<1>2. \A e \in ItemEdits(l) : /\ e.item \in Indented(l) /\ e.text = FormatRight(l.items[e.item].gap)
                              /\ e.text # l.items[e.item].gap
  BY DEF ItemEdits, ItemEdit, Indented
<1>3. ASSUME NEW k \in Indented(l)
      PROVE  Rewritten(l.items[k].gap, Of(k)) = FormatRight(l.items[k].gap)
  <2>1. CASE l.items[k].gap = FormatRight(l.items[k].gap)
    <3>1. Of(k) = {}
      BY <1>2, <2>1
    <3> QED
      BY <2>1, <3>1 DEF Rewritten
  <2>2. CASE l.items[k].gap # FormatRight(l.items[k].gap)
    <3>1. PICK e \in Of(k) : TRUE
      <4>1. ItemEdit(k, FormatRight(l.items[k].gap)) \in ItemEdits(l)
        BY <2>2 DEF ItemEdits, Indented
      <4>2. ItemEdit(k, FormatRight(l.items[k].gap)).item = k
        BY DEF ItemEdit
      <4> QED
        BY <4>1, <4>2
    <3>2. \A f \in Of(k) : f.text = e.text
      BY <1>2
    <3>3. Rewritten(l.items[k].gap, Of(k)) = e.text
      BY <3>2, RewrittenOnce
    <3> QED
      BY <1>2, <3>3
  <2> QED
    BY <2>1, <2>2
<1>4. ASSUME NEW k \in 1 .. Len(l.items)
      PROVE  /\ New(k) \in [line : Nat \ {0}, gap : ItemGaps]
             /\ New(k).line = l.items[k].line
             /\ New(k).gap = Rewritten(l.items[k].gap, Of(k))
  <2>1. l.items[k] \in [line : Nat \ {0}, gap : ItemGaps]
    BY LayoutTypes
  <2>2. Rewritten(l.items[k].gap, Of(k)) \in ItemGaps
    <3>1. CASE k \in Indented(l)
      BY <1>3, <2>1, <3>1, GapsSettle
    <3>2. CASE k \notin Indented(l)
      <4>1. Of(k) = {}
        BY <1>2, <3>2
      <4> QED
        BY <2>1, <4>1 DEF Rewritten
    <3> QED
      BY <3>1, <3>2
  <2> HIDE DEF Of
  <2> QED
    BY <2>1, <2>2
<1>5. Len(l.items) \in Nat /\ Indented(l) \subseteq 1 .. Len(l.items)
  BY LayoutTypes, ItemNumbers DEF Indented
<1>6. after \in [1 .. Len(l.items) -> [line : Nat \ {0}, gap : ItemGaps]]
  BY <1>1, <1>4
<1>7. \A k \in 1 .. Len(l.items) : after[k].line = l.items[k].line
  BY <1>1, <1>4
<1>8. \A k \in Indented(l) : after[k].gap = FormatRight(l.items[k].gap)
  BY <1>1, <1>3, <1>4, <1>5
<1> HIDE DEF after
<1>9. \A T : after \in [1 .. Len(l.items) -> T] =>
                  after \in Seq(T) /\ Len(after) = Len(l.items)
  BY <1>5
<1> QED
  BY <1>1, <1>6, <1>7, <1>8, <1>9

(* A layout that is formatted is one again, which is looked at in the same *)
(* places and needs no edit there.                                         *)
LEMMA FormattedLayout ==
  ASSUME NEW l, IsLayout(l)
  PROVE  /\ IsLayout(Formatted(l))
         /\ OneItemPerLine(l) => Formatting(Formatted(l)) = {}
<1> PICK m : m = Formatted(l)
  OBVIOUS
<1>1. /\ m \in [attribute : Nat \ {0}, object : BOOLEAN, objectEnd : Nat, close : Nat,
                items : {m.items}, indent : {m.indent}, gaps : {m.gaps}]
      /\ m.attribute = l.attribute /\ m.object = l.object
      /\ m.objectEnd = l.objectEnd /\ m.close = l.close
  BY FormattedParts
<1>2. /\ m.indent \in Seq(Indents) /\ Len(m.indent) = l.close
      /\ OneItemPerLine(l) => \A e \in WantedIndents(l) : m.indent[e.line] = e.text
  BY IndentsAfter
<1>3. /\ DOMAIN m.gaps = DOMAIN l.gaps
      /\ m.gaps \in UNION {[P -> Gaps] : P \in SUBSET Places}
      /\ \A p \in CheckedGaps(l) : m.gaps[p] = SpaceBetween(l.gaps[p])
  BY GapsAfter
<1>4. /\ m.items \in Seq([line : Nat \ {0}, gap : ItemGaps])
      /\ Len(m.items) = Len(l.items)
      /\ \A k \in 1 .. Len(l.items) : m.items[k].line = l.items[k].line
      /\ \A k \in Indented(l) : m.items[k].gap = FormatRight(l.items[k].gap)
  BY ItemsAfter
<1>5. /\ DOMAIN m.items = 1 .. Len(l.items) /\ DOMAIN l.items = 1 .. Len(l.items)
      /\ Len(l.items) \in Nat
  BY <1>4, LayoutTypes
<1>6. IsLayout(m)
  <2>1. m \in [attribute : Nat \ {0}, object : BOOLEAN, objectEnd : Nat, close : Nat,
               items : Seq([line : Nat \ {0}, gap : ItemGaps]), indent : Seq(Indents),
               gaps : UNION {[P -> Gaps] : P \in SUBSET Places}]
    BY <1>1, <1>2, <1>3, <1>4
  <2>2. /\ m.close = Len(m.indent) /\ m.attribute <= m.objectEnd
        /\ IF m.attribute = 1 THEN m.objectEnd = m.close ELSE m.objectEnd < m.close
    BY <1>1, <1>2 DEF IsLayout
  <2>3. \A k \in DOMAIN m.items : m.attribute <= m.items[k].line /\ m.items[k].line <= m.objectEnd
    BY <1>1, <1>4, <1>5 DEF IsLayout
  <2>4. \A j, k \in 1 .. Len(l.items) : j < k => m.items[j].line <= m.items[k].line
    <3>1. \A j, k \in 1 .. Len(l.items) : j < k => l.items[j].line <= l.items[k].line
      BY <1>5 DEF IsLayout
    <3> QED
      BY <1>4, <3>1
  <2> QED
    BY <1>5, <2>1, <2>2, <2>3, <2>4 DEF IsLayout
<1>7. FirstItem(m) = FirstItem(l)
  <2>1. m.items # <<>> <=> l.items # <<>>
    BY <1>4, <1>5
  <2>2. l.items # <<>> => 1 \in 1 .. Len(l.items)
    BY <1>5
  <2> QED
    BY <1>1, <1>4, <2>1, <2>2 DEF FirstItem
<1>8. OneLine(m) <=> OneLine(l)
  BY <1>1 DEF OneLine
<1>9. WantedIndents(m) = WantedIndents(l)
  <2>1. \A k \in FirstItem(l) .. Len(l.items) : m.items[k].line = l.items[k].line
    BY <1>4, ItemNumbers
  <2>2. {IndentEdit(m.items[k].line, "unit unit") : k \in FirstItem(m) .. Len(m.items)}
          = {IndentEdit(l.items[k].line, "unit unit") : k \in FirstItem(l) .. Len(l.items)}
    BY <1>4, <1>7, <2>1
  <2> QED
    BY <1>1, <1>8, <2>2, Zenon DEF WantedIndents
<1>10. OneItemPerLine(l) => IndentEdits(m) = {}
  BY <1>2, <1>9 DEF IndentEdits
<1>11. GapEdits(m) = {}
  <2>1. CheckedGaps(m) = CheckedGaps(l)
    BY <1>3, <1>8 DEF CheckedGaps
  <2>2. ASSUME NEW p \in CheckedGaps(m) PROVE m.gaps[p] = SpaceBetween(m.gaps[p])
    <3>1. l.gaps[p] \in Gaps
      BY <2>1, LayoutTypes DEF CheckedGaps
    <3> QED
      BY <1>3, <2>1, <3>1, GapsSettle
  <2> QED
    BY <2>2 DEF GapEdits
<1>12. ItemEdits(m) = {}
  <2>1. Indented(m) = Indented(l)
    BY <1>1, <1>4, <1>7, <1>8 DEF Indented
  <2>2. ASSUME NEW k \in Indented(m) PROVE m.items[k].gap = FormatRight(m.items[k].gap)
    <3>1. l.items[k].gap \in ItemGaps
      BY <2>1, LayoutTypes, ItemNumbers DEF Indented
    <3> QED
      BY <1>4, <2>1, <3>1, GapsSettle
  <2> QED
    BY <2>2 DEF ItemEdits, Indented
<1> QED
  BY <1>6, <1>10, <1>11, <1>12 DEF Formatting

(* No two edits replace the same text.                                     *)
LEMMA EditsApart ==
  ASSUME NEW l, IsLayout(l), OneItemPerLine(l),
         NEW e \in Formatting(l), NEW f \in Formatting(l), Place(e) = Place(f)
  PROVE  e = f
<1>1. ASSUME NEW x \in IndentEdits(l)
      PROVE  x \in WantedIndents(l) /\ x = IndentEdit(x.line, x.text)
  BY <1>1, WantedLines DEF IndentEdits
<1>2. ASSUME NEW x \in GapEdits(l)
      PROVE  x = GapEdit(x.place, SpaceBetween(l.gaps[x.place]))
  BY <1>2 DEF GapEdits, GapEdit
<1>3. ASSUME NEW x \in ItemEdits(l)
      PROVE  x = ItemEdit(x.item, FormatRight(l.items[x.item].gap))
  BY <1>3 DEF ItemEdits, ItemEdit
<1>4. ASSUME NEW x \in IndentEdits(l)
      PROVE  x.edit = "indent" /\ Place(x).edit = "indent" /\ Place(x).line = x.line
  <2> PICK n, t : x = IndentEdit(n, t)
    BY <1>1
  <2>1. x \in [edit : {"indent"}, line : {n}, text : {t}]
    BY DEF IndentEdit
  <2> QED
    BY <2>1 DEF Place
<1>5. ASSUME NEW x \in GapEdits(l)
      PROVE  x.edit = "gap" /\ Place(x).edit = "gap" /\ Place(x).place = x.place
  <2> PICK p, t : x = GapEdit(p, t)
    BY <1>2
  <2>1. x \in [edit : {"gap"}, place : {p}, text : {t}]
    BY DEF GapEdit
  <2> QED
    BY <2>1 DEF Place
<1>6. ASSUME NEW x \in ItemEdits(l)
      PROVE  x.edit = "item" /\ Place(x).edit = "item" /\ Place(x).item = x.item
  <2> PICK k, t : x = ItemEdit(k, t)
    BY <1>3
  <2>1. x \in [edit : {"item"}, item : {k}, text : {t}]
    BY DEF ItemEdit
  <2> QED
    BY <2>1 DEF Place
<1>7. Place(e).edit = Place(f).edit
  OBVIOUS
<1>8. CASE e \in IndentEdits(l)
  <2>1. f \in IndentEdits(l)
    BY <1>4, <1>5, <1>6, <1>7, <1>8 DEF Formatting
  <2>2. e.line = f.line
    BY <1>4, <1>8, <2>1
  <2> QED
    BY <1>1, <1>8, <2>1, <2>2, WantedOnce
<1>9. CASE e \in GapEdits(l)
  <2>1. f \in GapEdits(l)
    BY <1>4, <1>5, <1>6, <1>7, <1>9 DEF Formatting
  <2>2. e.place = f.place
    BY <1>5, <1>9, <2>1
  <2> QED
    BY <1>2, <1>9, <2>1, <2>2
<1>10. CASE e \in ItemEdits(l)
  <2>1. f \in ItemEdits(l)
    BY <1>4, <1>5, <1>6, <1>7, <1>10 DEF Formatting
  <2>2. e.item = f.item
    BY <1>6, <1>10, <2>1
  <2> QED
    BY <1>3, <1>10, <2>1, <2>2
<1> QED
  BY <1>8, <1>9, <1>10 DEF Formatting

(* However often a block is formatted (hcl.Formatting): unless its items   *)
(* share lines, no place of it is given two texts, and the next formatting *)
(* finds nothing to edit.  This holds for every layout the parser accepts. *)
THEOREM FormattingIsSettled == LayoutSpec => []FormattingSettles
<1>1. layout \in Layouts => IsLayout(layout)
  BY LayoutAssumption
<1>2. IsLayout(layout) /\ [FormatLayout]_layout => IsLayout(layout)'
  <2> SUFFICES ASSUME IsLayout(layout), [FormatLayout]_layout
               PROVE  IsLayout(layout')
    BY DEF IsLayout
  <2> QED
    BY FormattedLayout DEF FormatLayout
<1>3. IsLayout(layout) => FormattingSettles
  BY FormattedLayout, EditsApart DEF FormattingSettles
<1> QED
  BY <1>1, <1>2, <1>3, PTL DEF LayoutSpec

=============================================================================
