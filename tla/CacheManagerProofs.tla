------------------------- MODULE CacheManagerProofs -------------------------
(***************************************************************************)
(* Theorems about CacheManager, for any keys, callers and number of pages: *)
(* its invariants, and that it implements ReadThrough step by step.        *)
(***************************************************************************)
EXTENDS CacheManager, TLAPS

(* The mutex is held by the caller that looks an entry up or fetches it.   *)
MutexHolder == \A c \in Callers : pc[c] \in Inside <=> mutex = c

(* Nobody stores an entry while it is fetched.                             *)
FetchesMissing == \A c \in Callers : pc[c] = "Fetch" => cache[want[c]] = NoEntry

IInv == TypeOK /\ MutexHolder /\ FetchesMissing /\ OneTimerPerEntry

(* The empty cache has these properties.                                   *)
LEMMA InitInvariant == Init => IInv
  BY CacheAssumption DEF Init, IInv, TypeOK, MutexHolder, FetchesMissing, OneTimerPerEntry,
                         Inside, Answers

(* Every step of Get and of the timers keeps them: Get finds the entry     *)
(* still missing when it stores an answer, since it held the mutex.        *)
LEMMA StepInvariant == IInv /\ [Next]_vars => IInv'
<1> SUFFICES ASSUME IInv, [Next]_vars PROVE IInv'
  OBVIOUS
<1> USE CacheAssumption
<1> USE DEF IInv, TypeOK, MutexHolder, FetchesMissing, OneTimerPerEntry, Inside, Answers, Step
<1>1. ASSUME NEW c \in Callers, NEW k \in Keys, Get(c, k) PROVE IInv'
  BY <1>1 DEF Get
<1>2. ASSUME NEW c \in Callers, Lock(c) PROVE IInv'
  BY <1>2 DEF Lock
<1>3. ASSUME NEW c \in Callers, Hit(c) PROVE IInv'
  BY <1>3 DEF Hit, Return
<1>4. ASSUME NEW c \in Callers, Miss(c) PROVE IInv'
  BY <1>4 DEF Miss
<1>5. ASSUME NEW c \in Callers, FetchPage(c) PROVE IInv'
  BY <1>5 DEF FetchPage
<1>6. ASSUME NEW c \in Callers, NEW a \in Answers, Store(c, a) PROVE IInv'
  <2>1. want[c] \in Keys /\ cache[want[c]] = NoEntry /\ mutex = c
    BY <1>6 DEF Store
  <2>2. TypeOK'
    BY <1>6, <2>1 DEF Store, Return
  <2>3. MutexHolder'
    BY <1>6, <2>1 DEF Store, Return
  <2>4. FetchesMissing'
    BY <1>6, <2>1 DEF Store, Return
  <2>5. OneTimerPerEntry'
    BY <1>6, <2>1 DEF Store, Return
  <2> QED
    BY <2>2, <2>3, <2>4, <2>5
<1>7. ASSUME NEW c \in Callers, FetchLastPage(c) \/ FetchCut(c) PROVE IInv'
  BY <1>6, <1>7 DEF FetchLastPage, FetchCut
<1>8. ASSUME NEW c \in Callers, FetchError(c) PROVE IInv'
  BY <1>8 DEF FetchError, Return
<1>9. ASSUME NEW k \in Keys, Expire(k) PROVE IInv'
  BY <1>9 DEF Expire
<1>10. ASSUME NEW k \in Keys, Delete(k) PROVE IInv'
  BY <1>10 DEF Delete
<1>11. CASE UNCHANGED vars
  BY <1>11 DEF vars
<1> QED
  BY <1>1, <1>2, <1>3, <1>4, <1>5, <1>7, <1>8, <1>9, <1>10, <1>11 DEF Next, Fetch

(* The inductive invariant holds in every state.                           *)
THEOREM InvariantCorrect == Spec => []IInv
<1> QED
  BY InitInvariant, StepInvariant, PTL DEF Spec

(* Every variable of the cache has its type for all constants (TypeOK).    *)
THEOREM CacheTypeCorrect == Spec => []TypeOK
<1>1. IInv => TypeOK
  BY DEF IInv
<1> QED
  BY <1>1, InvariantCorrect, PTL

(* An entry has exactly one expiry timer, whatever callers and timers do   *)
(* (OneTimerPerEntry).                                                     *)
THEOREM OneTimerCorrect == Spec => []OneTimerPerEntry
<1>1. IInv => OneTimerPerEntry
  BY DEF IInv
<1> QED
  BY <1>1, InvariantCorrect, PTL

-----------------------------------------------------------------------------
(* The initial state of CacheManager is one of ReadThrough.                *)
LEMMA InitRefines == Init => RT!Init
  BY DEF Init, RT!Init

(* A step of CacheManager is a step of ReadThrough or changes neither the  *)
(* entries nor the requests and their answers.                             *)
LEMMA StepRefines == IInv /\ [Next]_vars => [RT!Next]_(RT!vars)
<1> SUFFICES ASSUME IInv, [Next]_vars PROVE [RT!Next]_(RT!vars)
  OBVIOUS
<1> USE CacheAssumption
<1> USE DEF IInv, TypeOK, MutexHolder, FetchesMissing, OneTimerPerEntry, Inside, Answers, Step,
            RT!vars
<1>1. ASSUME NEW c \in Callers, NEW k \in Keys, Get(c, k) PROVE RT!Ask(c, k)
  BY <1>1 DEF Get, RT!Ask
<1>2. ASSUME NEW c \in Callers, Lock(c) \/ Miss(c) \/ FetchPage(c) PROVE UNCHANGED RT!vars
  BY <1>2 DEF Lock, Miss, FetchPage
<1>3. ASSUME NEW c \in Callers, Hit(c) PROVE RT!Hit(c)
  BY <1>3 DEF Hit, Return, RT!Hit, RT!Answer
<1>4. ASSUME NEW c \in Callers, NEW a \in Answers, Store(c, a) PROVE RT!Fill(c)
  BY <1>4 DEF Store, Return, RT!Fill, RT!Answer
<1>5. ASSUME NEW c \in Callers, FetchLastPage(c) \/ FetchCut(c) PROVE RT!Fill(c)
  BY <1>4, <1>5 DEF FetchLastPage, FetchCut
<1>6. ASSUME NEW c \in Callers, FetchError(c) PROVE RT!Fail(c)
  BY <1>6 DEF FetchError, Return, RT!Fail, RT!Answer
<1>7. ASSUME NEW k \in Keys, Expire(k) PROVE UNCHANGED RT!vars
  BY <1>7 DEF Expire
<1>8. ASSUME NEW k \in Keys, Delete(k) PROVE RT!Drop(k)
  BY <1>8 DEF Delete, RT!Drop
<1>9. CASE UNCHANGED vars
  BY <1>9 DEF vars
<1> QED
  BY <1>1, <1>2, <1>3, <1>5, <1>6, <1>7, <1>8, <1>9 DEF Next, Fetch, RT!Next

(* The cache with its mutex and timers implements the read-through cache:  *)
(* the safety part of ReadsThrough, for all constants.                     *)
THEOREM CacheRefines == Spec => RT!Spec
<1> QED
  BY InvariantCorrect, InitRefines, StepRefines, PTL DEF Spec, RT!Spec
=============================================================================
