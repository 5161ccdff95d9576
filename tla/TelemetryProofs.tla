--------------------------- MODULE TelemetryProofs ---------------------------
(***************************************************************************)
(* Theorems about Telemetry, for any sets of events, any number of         *)
(* goroutines that change the setting and any size of a batch: its type    *)
(* invariant, and that each record is accounted for once.                  *)
(***************************************************************************)
EXTENDS Telemetry, SequenceTheorems, FiniteSetTheorems, TLAPS

(* What IsSuffix says, index by index.                                     *)
EndsWith(t, s) ==
    /\ Len(s) <= Len(t)
    /\ \A i \in 1..Len(s) : s[i] = t[Len(t) - Len(s) + i]

(* A sequence is a suffix of another when the indices say so.              *)
LEMMA SuffixByIndex ==
  ASSUME NEW S, NEW s \in Seq(S), NEW t \in Seq(S), EndsWith(t, s)
  PROVE  IsSuffix(s, t)
<1>1. /\ Len(Reverse(s)) = Len(s) /\ Reverse(s) \in Seq(S)
      /\ Len(Reverse(t)) = Len(t) /\ Reverse(t) \in Seq(S)
  BY DEF Reverse
<1>2. \A i \in 1..Len(s) : Reverse(s)[i] = Reverse(t)[i]
  BY DEF Reverse, EndsWith
<1>3. SubSeq(Reverse(s), 1, Len(s)) = SubSeq(Reverse(t), 1, Len(s))
  BY <1>1, <1>2 DEF EndsWith
<1> QED
  BY <1>1, <1>3 DEF IsSuffix, IsPrefix, EndsWith

(* A sequence without repetition has as many elements as its length.       *)
LEMMA CountOfSequence ==
  ASSUME NEW S, NEW s \in Seq(S), IsInjective(s)
  PROVE  IsFiniteSet(ToSet(s)) /\ Cardinality(ToSet(s)) = Len(s)
<1>1. s \in Bijection(1..Len(s), ToSet(s))
  BY DEF Bijection, Injection, Surjection, ToSet
<1>2. ExistsBijection(1..Len(s), ToSet(s)) /\ Len(s) \in Nat
  BY <1>1 DEF ExistsBijection
<1> QED
  BY <1>2, FS_CountingElements, FS_NatBijection

(* The size of the union of disjoint sets.                                 *)
LEMMA CountOfUnion ==
  ASSUME NEW A, NEW B, IsFiniteSet(A), IsFiniteSet(B), A \cap B = {}
  PROVE  Cardinality(A \cup B) = Cardinality(A) + Cardinality(B)
<1>1. Cardinality(A \cup B) = Cardinality(A) + Cardinality(B) - Cardinality(A \cap B)
  BY FS_Union, Zenon
<1>2. Cardinality(A \cap B) = 0
  BY FS_EmptySet, Zenon
<1>3. Cardinality(A) \in Nat /\ Cardinality(B) \in Nat
  BY FS_CardinalityType
<1> QED
  BY <1>1, <1>2, <1>3

(* Moving the elements of a sequence without repetition to a set that has  *)
(* none of them.                                                           *)
LEMMA CountOfMove ==
  ASSUME NEW S, NEW s \in Seq(S), IsInjective(s),
         NEW A, IsFiniteSet(A), A \cap ToSet(s) = {}
  PROVE  Cardinality(A \cup ToSet(s)) = Cardinality(A) + Len(s)
<1>1. IsFiniteSet(ToSet(s)) /\ Cardinality(ToSet(s)) = Len(s)
  BY CountOfSequence
<1>2. Cardinality(A \cup ToSet(s)) = Cardinality(A) + Cardinality(ToSet(s))
  BY <1>1, CountOfUnion
<1> QED
  BY <1>1, <1>2

(* A suffix of a suffix is a suffix.                                       *)
LEMMA EndsWithAgain ==
  ASSUME NEW S, NEW s \in Seq(S), NEW t \in Seq(S), NEW u \in Seq(S),
         EndsWith(u, t), EndsWith(t, s)
  PROVE  EndsWith(u, s)
<1>1. /\ Len(s) \in Nat /\ Len(t) \in Nat /\ Len(u) \in Nat
      /\ Len(s) <= Len(t) /\ Len(t) <= Len(u)
  BY DEF EndsWith
<1>2. ASSUME NEW i \in 1..Len(s)
      PROVE  s[i] = u[Len(u) - Len(s) + i]
  <2> DEFINE j == Len(t) - Len(s) + i
  <2>1. j \in 1..Len(t) /\ Len(u) - Len(t) + j = Len(u) - Len(s) + i
    BY <1>1
  <2>2. s[i] = t[j]
    BY DEF EndsWith
  <2>3. t[j] = u[Len(u) - Len(t) + j]
    BY <2>1 DEF EndsWith
  <2> QED
    BY <2>1, <2>2, <2>3
<1> QED
  BY <1>1, <1>2 DEF EndsWith

(* What Append adds.                                                       *)
LEMMA ElementsOfAppend ==
  ASSUME NEW S, NEW s \in Seq(S), NEW e \in S
  PROVE  /\ ToSet(Append(s, e)) = ToSet(s) \cup {e}
         /\ IsInjective(s) /\ e \notin ToSet(s) => IsInjective(Append(s, e))
<1> DEFINE a == Append(s, e)
<1>1. /\ DOMAIN a = 1..(Len(s) + 1) /\ DOMAIN s = 1..Len(s) /\ Len(s) \in Nat
      /\ \A i \in 1..Len(s) : a[i] = s[i]
      /\ a[Len(s) + 1] = e
  OBVIOUS
<1> HIDE DEF a
<1>2. 1..(Len(s) + 1) = (1..Len(s)) \cup {Len(s) + 1}
  BY <1>1
<1>3. ToSet(a) = ToSet(s) \cup {e}
  BY <1>1, <1>2 DEF ToSet
<1>4. IsInjective(s) /\ e \notin ToSet(s) => IsInjective(a)
  BY <1>1, <1>2 DEF ToSet, IsInjective
<1> QED
  BY <1>3, <1>4 DEF a

(* Cutting a sequence in two: every element is in one of the parts, and in *)
(* one only if the sequence has no repetition.                             *)
LEMMA ElementsOfCut ==
  ASSUME NEW S, NEW s \in Seq(S), NEW n \in 0..Len(s), IsInjective(s)
  PROVE  LET a == SubSeq(s, 1, n)
             b == SubSeq(s, n + 1, Len(s))
         IN  /\ a \in Seq(S) /\ b \in Seq(S)
             /\ Len(a) = n /\ Len(b) = Len(s) - n
             /\ IsInjective(a) /\ IsInjective(b)
             /\ ToSet(a) \cap ToSet(b) = {}
             /\ ToSet(a) \cup ToSet(b) = ToSet(s)
             /\ EndsWith(s, b)
<1> DEFINE a == SubSeq(s, 1, n)
           b == SubSeq(s, n + 1, Len(s))
<1>1. /\ a \in Seq(S) /\ Len(a) = n
      /\ \A i \in 1..n : a[i] = s[i]
  OBVIOUS
<1>2. /\ b \in Seq(S) /\ Len(b) = Len(s) - n
      /\ \A i \in 1..(Len(s) - n) : b[i] = s[n + i]
  OBVIOUS
<1> HIDE DEF a, b
<1>3. IsInjective(a) /\ IsInjective(b)
  <2>1. DOMAIN a = 1..n /\ DOMAIN b = 1..(Len(s) - n) /\ DOMAIN s = 1..Len(s)
    BY <1>1, <1>2
  <2>2. \A i \in 1..n : i \in DOMAIN s
    BY <2>1
  <2>3. \A i \in 1..(Len(s) - n) : n + i \in DOMAIN s
    BY <2>1
  <2>4. IsInjective(a)
    BY <1>1, <2>1, <2>2 DEF IsInjective
  <2>5. ASSUME NEW i \in 1..(Len(s) - n), NEW j \in 1..(Len(s) - n), b[i] = b[j]
        PROVE  i = j
    <3>1. s[n + i] = s[n + j]
      BY <1>2, <2>5
    <3>2. n + i = n + j
      BY <2>3, <3>1 DEF IsInjective
    <3> QED
      BY <3>2
  <2>6. IsInjective(b)
    BY <2>1, <2>5 DEF IsInjective
  <2> QED
    BY <2>4, <2>6
<1>4. ToSet(a) = {s[i] : i \in 1..n}
  BY <1>1 DEF ToSet
<1>5. ToSet(b) = {s[i] : i \in (n + 1)..Len(s)}
  <2>1. ToSet(b) = {b[i] : i \in 1..(Len(s) - n)}
    BY <1>2 DEF ToSet
  <2>2. \A i \in (n + 1)..Len(s) : i - n \in 1..(Len(s) - n) /\ b[i - n] = s[i]
    BY <1>2
  <2>3. \A i \in 1..(Len(s) - n) : n + i \in (n + 1)..Len(s) /\ b[i] = s[n + i]
    BY <1>2
  <2> QED
    BY <2>1, <2>2, <2>3
<1>6. ToSet(a) \cap ToSet(b) = {}
  BY <1>4, <1>5 DEF IsInjective
<1>7. ToSet(a) \cup ToSet(b) = ToSet(s)
  <2>1. ToSet(s) = {s[i] : i \in 1..Len(s)}
    BY DEF ToSet
  <2>2. 1..Len(s) = (1..n) \cup ((n + 1)..Len(s))
    OBVIOUS
  <2> QED
    BY <1>4, <1>5, <2>1, <2>2
<1>8. EndsWith(s, b)
  BY <1>2 DEF EndsWith
<1> QED
  BY <1>1, <1>2, <1>3, <1>6, <1>7, <1>8 DEF a, b
-----------------------------------------------------------------------------
(* A record is queued once, when its event happens; the queue has the      *)
(* latest of them in their order.                                          *)
QueueIsSuffix ==
    /\ IsInjective(queued)
    /\ ToSet(queued) \subseteq seen
    /\ EndsWith(queued, records)

(* A publisher has a batch only while it sends it.                         *)
BatchWhileSending ==
    \A p \in Publishers : /\ pc[p] # "Send" => batch[p] = <<>>
                          /\ IsInjective(batch[p])

(* No record is in two of the places.                                      *)
PlacesDisjoint ==
    /\ sent \cap lost = {}
    /\ ToSet(records) \cap (sent \cup lost) = {}
    /\ \A p \in Publishers : ToSet(batch[p]) \cap (sent \cup lost \cup ToSet(records)) = {}
    /\ ToSet(batch[Loop]) \cap ToSet(batch[Background]) = {}

(* Every queued record is in one of them.                                  *)
PlacesComplete ==
    ToSet(queued) = sent \cup lost \cup ToSet(batch[Loop]) \cup ToSet(batch[Background])
                       \cup ToSet(records)

IInv == TypeOK /\ QueueIsSuffix /\ BatchWhileSending /\ PlacesDisjoint /\ PlacesComplete

(* The empty queue has these properties.                                   *)
LEMMA InitInvariant == Init => IInv
<1> SUFFICES ASSUME Init PROVE IInv
  OBVIOUS
<1>1. TypeOK
  <2>1. Len(<<>>) <= Batch
    BY TelemetryAssumption
  <2>2. batch \in [Publishers -> Seq(Records)] /\ \A p \in Publishers : Len(batch[p]) <= Batch
    BY <2>1 DEF Init
  <2>3. /\ pc \in [Publishers \cup Fetchers ->
                 {"Start", "Configure", "Idle", "Trim", "Send", "Down", "Fetch", "Update"}]
        /\ answer \in [Fetchers -> Settings]
    BY DEF Init, Settings
  <2>4. <<>> \in Seq(Records)
    OBVIOUS
  <2> QED
    BY <2>2, <2>3, <2>4 DEF Init, TypeOK, Settings
<1>2. ToSet(<<>>) = {} /\ IsInjective(<<>>) /\ Len(<<>>) = 0
  BY DEF ToSet, IsInjective
<1>4. QueueIsSuffix
  BY <1>2 DEF Init, QueueIsSuffix, EndsWith
<1>5. BatchWhileSending
  BY <1>2 DEF Init, BatchWhileSending
<1>6. PlacesDisjoint
  BY <1>2 DEF Init, PlacesDisjoint, Publishers
<1>7. PlacesComplete
  BY <1>2 DEF Init, PlacesComplete, Publishers
<1> QED
  BY <1>1, <1>4, <1>5, <1>6, <1>7 DEF IInv

(* A suffix of a sequence without repetition has none.                     *)
LEMMA QueueKeepsDistinct ==
  ASSUME IInv PROVE IsInjective(records)
<1> USE DEF IInv, TypeOK, QueueIsSuffix, EndsWith
<1>1. ASSUME NEW i \in 1..Len(records), NEW j \in 1..Len(records), records[i] = records[j]
      PROVE  i = j
  <2> DEFINE d == Len(queued) - Len(records)
  <2>1. d \in Nat /\ d + i \in DOMAIN queued /\ d + j \in DOMAIN queued
    OBVIOUS
  <2>2. queued[d + i] = queued[d + j]
    BY <1>1
  <2>3. d + i = d + j
    BY <2>1, <2>2 DEF IsInjective
  <2> QED
    BY <2>1, <2>3
<1>2. DOMAIN records = 1..Len(records)
  OBVIOUS
<1> QED
  BY <1>1, <1>2 DEF IsInjective

(* Enqueue changes the queue, its history and the events, or the last only. *)
LEMMA EnqueueStep ==
  ASSUME IInv, NEW r \in Records, Enqueue(r), UNCHANGED <<publishVars, setting, answer>>
  PROVE  /\ records' \in Seq(Records) /\ queued' \in Seq(Records) /\ seen' \subseteq Records
         /\ QueueIsSuffix' /\ PlacesDisjoint' /\ PlacesComplete'
<1> USE DEF IInv, TypeOK
<1>1. CASE UNCHANGED <<records, queued>>
  BY <1>1 DEF Enqueue, QueueIsSuffix, PlacesDisjoint, PlacesComplete, publishVars, EndsWith
<1>2. CASE records' = Append(records, r) /\ queued' = Append(queued, r)
  <2>1. r \notin ToSet(queued) /\ seen' = seen \cup {r}
    BY DEF Enqueue, QueueIsSuffix
  <2>2. /\ ToSet(records') = ToSet(records) \cup {r}
        /\ ToSet(queued') = ToSet(queued) \cup {r}
        /\ IsInjective(queued')
    BY <1>2, <2>1, ElementsOfAppend DEF QueueIsSuffix
  <2>3. /\ records' \in Seq(Records) /\ Len(records') = Len(records) + 1
        /\ queued' \in Seq(Records) /\ Len(queued') = Len(queued) + 1
    BY <1>2
  <2>4. EndsWith(queued', records')
    <3>1. Len(records) \in Nat /\ Len(queued) \in Nat /\ Len(records) <= Len(queued)
      BY DEF QueueIsSuffix, EndsWith
    <3>2. ASSUME NEW i \in 1..Len(records')
          PROVE  records'[i] = queued'[Len(queued') - Len(records') + i]
      <4>1. CASE i \in 1..Len(records)
        <5>1. /\ records[i] = queued[Len(queued) - Len(records) + i]
              /\ Len(queued) - Len(records) + i \in 1..Len(queued)
          BY <3>1, <4>1 DEF QueueIsSuffix, EndsWith
        <5> QED
          BY <1>2, <2>3, <3>1, <4>1, <5>1
      <4>2. CASE i = Len(records) + 1
        BY <1>2, <2>3, <3>1, <4>2
      <4> QED
        BY <2>3, <3>1, <4>1, <4>2
    <3> QED
      BY <2>3, <3>1, <3>2 DEF EndsWith
  <2>5. QueueIsSuffix'
    BY <2>1, <2>2, <2>4 DEF QueueIsSuffix, EndsWith
  <2>6. PlacesDisjoint'
    BY <2>1, <2>2 DEF PlacesDisjoint, PlacesComplete, publishVars, Publishers
  <2>7. PlacesComplete'
    BY <2>2 DEF PlacesComplete, publishVars
  <2> QED
    BY <2>1, <2>3, <2>5, <2>6, <2>7
<1> QED
  BY <1>1, <1>2 DEF Enqueue

(* Every step keeps them.                                                  *)
LEMMA StepInvariant == IInv /\ [Next]_vars => IInv'
<1> SUFFICES ASSUME IInv, [Next]_vars PROVE IInv'
  OBVIOUS
<1> USE TelemetryAssumption
<1> USE DEF IInv, TypeOK, Step, Publishers, Settings
<1>1. CASE Initialize
  <2>1. PICK r \in Heartbeats : Enqueue(r)
    BY <1>1 DEF Initialize
  <2>2. UNCHANGED <<publishVars, answer>> /\ setting' = setting
    BY <1>1 DEF Initialize
  <2>3. /\ records' \in Seq(Records) /\ queued' \in Seq(Records) /\ seen' \subseteq Records
        /\ QueueIsSuffix' /\ PlacesDisjoint' /\ PlacesComplete'
    BY <2>1, <2>2, EnqueueStep DEF Records
  <2>4. TypeOK'
    BY <1>1, <2>3 DEF Initialize, publishVars
  <2>5. BatchWhileSending'
    BY <1>1 DEF Initialize, publishVars, BatchWhileSending
  <2> QED
    BY <2>3, <2>4, <2>5
<1>2. CASE Event
  <2>1. PICK r \in Usage \cup Panics : Enqueue(r)
    BY <1>2 DEF Event
  <2>2. UNCHANGED <<publishVars, answer>> /\ setting' = setting
    BY <1>2 DEF Event
  <2>3. /\ records' \in Seq(Records) /\ queued' \in Seq(Records) /\ seen' \subseteq Records
        /\ QueueIsSuffix' /\ PlacesDisjoint' /\ PlacesComplete'
    BY <2>1, <2>2, EnqueueStep DEF Records
  <2>4. TypeOK'
    BY <1>2, <2>3 DEF Event, publishVars
  <2>5. BatchWhileSending'
    BY <1>2 DEF Event, publishVars, BatchWhileSending
  <2> QED
    BY <2>3, <2>4, <2>5
<1>3. ASSUME UNCHANGED <<queueVars, publishVars>>, TypeOK', BatchWhileSending'
      PROVE  IInv'
  BY <1>3 DEF queueVars, publishVars, QueueIsSuffix, EndsWith, PlacesDisjoint, PlacesComplete
<1>4. CASE Configure
  BY <1>3, <1>4 DEF Configure, queueVars, publishVars, BatchWhileSending
<1>5. ASSUME NEW f \in Fetchers,
             \/ DidChangeConfiguration(f)
             \/ FetchUnscopedConfiguration(f) \/ UpdateTelemetrySetting(f)
      PROVE  IInv'
  <2>1. f \notin Publishers
    OBVIOUS
  <2>2. TypeOK'
    BY <1>5 DEF DidChangeConfiguration, FetchUnscopedConfiguration, UpdateTelemetrySetting,
                queueVars, publishVars
  <2>3. BatchWhileSending'
    BY <1>5, <2>1 DEF DidChangeConfiguration, FetchUnscopedConfiguration,
                      UpdateTelemetrySetting, publishVars, BatchWhileSending
  <2> QED
    BY <1>3, <1>5, <2>2, <2>3 DEF DidChangeConfiguration, FetchUnscopedConfiguration,
                                  UpdateTelemetrySetting
<1>6. CASE Exit
  BY <1>3, <1>6 DEF Exit, queueVars, publishVars, BatchWhileSending
<1>7. CASE UNCHANGED vars
  BY <1>3, <1>7 DEF vars, queueVars, publishVars, BatchWhileSending
<1>8. ASSUME NEW p \in Publishers, Publish(p) PROVE IInv'
  <2>1. CASE UNCHANGED <<records, lost>>
    <3>1. TypeOK'
      BY <1>8, <2>1 DEF Publish, Published
    <3>2. BatchWhileSending'
      BY <1>8, <2>1 DEF Publish, Published, BatchWhileSending
    <3> QED
      BY <1>3, <1>8, <2>1, <3>1, <3>2 DEF Publish, queueVars, publishVars
  <2>2. CASE records' = <<>> /\ lost' = lost \cup ToSet(records)
    <3>1. UNCHANGED <<queued, seen, batch, sent>>
      BY <1>8 DEF Publish
    <3>2. TypeOK'
      BY <1>8, <2>2 DEF Publish, Published, ToSet
    <3>3. BatchWhileSending'
      BY <1>8 DEF Publish, Published, BatchWhileSending
    <3>4. QueueIsSuffix'
      BY <2>2, <3>1 DEF QueueIsSuffix, EndsWith
    <3>5. ToSet(records') = {} /\ Len(records') = 0
      BY <2>2 DEF ToSet
    <3>6. PlacesDisjoint'
      BY <2>2, <3>1, <3>5 DEF PlacesDisjoint
    <3>7. PlacesComplete'
      BY <2>2, <3>1, <3>5 DEF PlacesComplete
    <3> QED
      BY <3>2, <3>3, <3>4, <3>6, <3>7
  <2> QED
    BY <1>8, <2>1, <2>2 DEF Publish
<1>9. ASSUME NEW p \in Publishers, Trim(p) PROVE IInv'
  <2>1. /\ UNCHANGED <<queued, seen, sent, lost>> /\ pc[p] = "Trim" /\ batch[p] = <<>>
        /\ pc' = [pc EXCEPT ![p] = "Send"]
    BY <1>9 DEF Trim, BatchWhileSending
  <2>2. PICK n \in 0..Len(records) :
            /\ n <= Batch
            /\ batch' = [batch EXCEPT ![p] = SubSeq(records, 1, n)]
            /\ records' = SubSeq(records, n + 1, Len(records))
    <3>1. CASE Len(records) > Batch
      <4>1. Batch \in 0..Len(records) /\ Batch <= Batch
        BY <3>1
      <4> QED
        BY <1>9, <3>1, <4>1 DEF Trim
    <3>2. CASE ~(Len(records) > Batch)
      <4>1. records = SubSeq(records, 1, Len(records))
        BY SubSeqFull
      <4>2. <<>> = SubSeq(records, Len(records) + 1, Len(records))
        BY SubSeqEmpty
      <4>3. Len(records) \in 0..Len(records) /\ Len(records) <= Batch
        BY <3>2
      <4> QED
        BY <1>9, <3>2, <4>1, <4>2, <4>3 DEF Trim
    <3> QED
      BY <3>1, <3>2
  <2>3. IsInjective(records)
    BY QueueKeepsDistinct DEF QueueIsSuffix
  <2>4. /\ batch'[p] \in Seq(Records) /\ records' \in Seq(Records)
        /\ Len(batch'[p]) = n /\ Len(records') = Len(records) - n
        /\ IsInjective(batch'[p]) /\ IsInjective(records')
        /\ ToSet(batch'[p]) \cap ToSet(records') = {}
        /\ ToSet(batch'[p]) \cup ToSet(records') = ToSet(records)
        /\ EndsWith(records, records')
    BY <2>2, <2>3, ElementsOfCut
  <2>5. /\ \A q \in Publishers \ {p} : batch'[q] = batch[q]
        /\ batch' \in [Publishers -> Seq(Records)]
    BY <2>2, <2>4
  <2>6. TypeOK'
    <3>1. \A q \in Publishers : Len(batch'[q]) <= Batch
      BY <2>2, <2>4, <2>5
    <3> QED
      BY <1>9, <2>4, <2>5, <3>1 DEF Trim
  <2>7. QueueIsSuffix'
    <3>1. EndsWith(queued, records')
      BY <2>4, EndsWithAgain DEF QueueIsSuffix
    <3> QED
      BY <2>1, <3>1 DEF QueueIsSuffix, EndsWith
  <2>8. BatchWhileSending'
    BY <2>1, <2>4, <2>5 DEF BatchWhileSending
  <2>9. PlacesDisjoint'
    <3>1. ASSUME NEW q \in Publishers
          PROVE  ToSet(batch'[q]) \cap (sent \cup lost \cup ToSet(records')) = {}
      BY <2>4, <2>5 DEF PlacesDisjoint
    <3>2. ToSet(batch'[Loop]) \cap ToSet(batch'[Background]) = {}
      BY <2>4, <2>5 DEF PlacesDisjoint
    <3> QED
      BY <2>1, <2>4, <3>1, <3>2 DEF PlacesDisjoint
  <2>10. PlacesComplete'
    <3>1. ToSet(batch[p]) = {}
      BY <2>1 DEF ToSet
    <3> QED
      BY <2>1, <2>4, <2>5, <3>1 DEF PlacesComplete
  <2> QED
    BY <2>6, <2>7, <2>8, <2>9, <2>10
<1>10. ASSUME NEW p \in Publishers, Send(p) PROVE IInv'
  <2>1. /\ UNCHANGED <<queued, seen, records>>
        /\ batch' = [batch EXCEPT ![p] = <<>>]
    BY <1>10 DEF Send, queueVars
  <2>2. PICK moved : /\ moved = ToSet(batch[p])
                     /\ \/ sent' = sent \cup moved /\ lost' = lost
                        \/ lost' = lost \cup moved /\ sent' = sent
    BY <1>10 DEF Send
  <2>3. /\ batch'[p] = <<>> /\ Len(batch'[p]) = 0 /\ ToSet(batch'[p]) = {}
        /\ IsInjective(batch'[p])
        /\ \A q \in Publishers \ {p} : batch'[q] = batch[q]
        /\ batch' \in [Publishers -> Seq(Records)]
    BY <2>1 DEF ToSet, IsInjective
  <2>4. TypeOK'
    <3>1. \A q \in Publishers : Len(batch'[q]) <= Batch
      BY <2>3
    <3>2. moved \subseteq Records
      BY <2>2 DEF ToSet
    <3> QED
      BY <1>10, <2>1, <2>2, <2>3, <3>1, <3>2 DEF Send, Published
  <2>5. QueueIsSuffix'
    BY <2>1 DEF QueueIsSuffix, EndsWith
  <2>6. BatchWhileSending'
    BY <1>10, <2>3 DEF BatchWhileSending, Send, Published
  <2>7. PlacesDisjoint'
    BY <2>1, <2>2, <2>3 DEF PlacesDisjoint
  <2>8. PlacesComplete'
    BY <2>1, <2>2, <2>3 DEF PlacesComplete
  <2> QED
    BY <2>4, <2>5, <2>6, <2>7, <2>8
<1> QED
  BY <1>1, <1>2, <1>4, <1>5, <1>6, <1>7, <1>8, <1>9, <1>10 DEF Next

(* The inductive invariant holds in every state.                           *)
THEOREM InvariantCorrect == Spec => []IInv
<1> QED
  BY InitInvariant, StepInvariant, PTL DEF Spec

(* Every variable of the telemetry client has its type, and a batch is     *)
(* never longer than the limit (TypeOK).                                   *)
THEOREM TelemetryTypeCorrect == Spec => []TypeOK
<1>1. IInv => TypeOK
  BY DEF IInv
<1> QED
  BY <1>1, InvariantCorrect, PTL

(* Whatever the two publishers do at the same time, a queued record is in  *)
(* one place, once, and the queue keeps the order (EachRecordOnce).        *)
THEOREM RecordsAccounted == Spec => []EachRecordOnce
<1>1. IInv => EachRecordOnce
  <2> SUFFICES ASSUME IInv PROVE EachRecordOnce
    OBVIOUS
  <2>1. /\ records \in Seq(Records) /\ queued \in Seq(Records) /\ EndsWith(queued, records)
        /\ batch[Loop] \in Seq(Records) /\ batch[Background] \in Seq(Records)
    BY DEF IInv, TypeOK, QueueIsSuffix, Publishers
  <2>2. IsSuffix(records, queued)
    BY <2>1, SuffixByIndex
  <2>3. /\ IsInjective(queued) /\ IsInjective(records)
        /\ IsInjective(batch[Loop]) /\ IsInjective(batch[Background])
    BY QueueKeepsDistinct DEF IInv, QueueIsSuffix, BatchWhileSending, Publishers
  <2> DEFINE A == sent \cup lost
             B == A \cup ToSet(batch[Loop])
             C == B \cup ToSet(batch[Background])
             D == C \cup ToSet(records)
  <2>4. ToSet(queued) = D /\ IsFiniteSet(D) /\ Cardinality(D) = Len(queued)
    BY <2>1, <2>3, CountOfSequence DEF IInv, PlacesComplete
  <2>5. /\ IsFiniteSet(sent) /\ IsFiniteSet(lost)
        /\ IsFiniteSet(A) /\ IsFiniteSet(B) /\ IsFiniteSet(C)
    BY <2>4, FS_Subset
  <2>6. /\ sent \cap lost = {} /\ A \cap ToSet(batch[Loop]) = {}
        /\ B \cap ToSet(batch[Background]) = {} /\ C \cap ToSet(records) = {}
    BY DEF IInv, PlacesDisjoint, Publishers
  <2>7. Cardinality(A) = Cardinality(sent) + Cardinality(lost)
    BY <2>5, <2>6, CountOfUnion
  <2>8. Cardinality(B) = Cardinality(A) + Len(batch[Loop])
    BY <2>1, <2>3, <2>5, <2>6, CountOfMove
  <2>9. Cardinality(C) = Cardinality(B) + Len(batch[Background])
    BY <2>1, <2>3, <2>5, <2>6, CountOfMove
  <2>10. Cardinality(D) = Cardinality(C) + Len(records)
    BY <2>1, <2>3, <2>5, <2>6, CountOfMove
  <2> HIDE DEF A, B, C, D
  <2>11. Cardinality(sent) + Cardinality(lost) + Len(batch[Loop]) + Len(batch[Background])
           + Len(records) = Len(queued)
    BY <2>4, <2>7, <2>8, <2>9, <2>10
  <2> QED
    BY <2>2, <2>11 DEF IInv, PlacesComplete, EachRecordOnce
<1> QED
  BY <1>1, InvariantCorrect, PTL
=============================================================================
