----------------------- MODULE TextDocumentSyncProofs -----------------------
(***************************************************************************)
(* Theorems about TextDocumentSync, for any sets of documents, lock        *)
(* objects and goroutines and any number of versions and sessions.         *)
(*                                                                         *)
(* The invariants come in three layers, each of which uses the ones before *)
(* it: who holds Manager.mu and what has its type (Basics), which lock     *)
(* belongs to which document and who holds it (Locking), and what the      *)
(* manager has of the documents that are open (Editing).                   *)
(***************************************************************************)
EXTENDS TextDocumentSync, TLAPS

-----------------------------------------------------------------------------
(* Manager.mu is held by the goroutine whose label says so.                *)
MuHolder == \A t \in Threads : pc[t] \in HoldsMu <=> mu = t

(* A message is handled while the document that it is about is open, and   *)
(* Update is called on a document that is there.                           *)
Writing ==
    /\ pc[Loop] \in {"WriteMu", "Write", "Parse"} => Open(on[Loop])
    /\ pc[Loop] = "Parse" => Managed(on[Loop])

Basics == TypeOK /\ MuHolder /\ Writing

(* A lock object belongs to one document, for those who look it up and for *)
(* the callbacks that still have it.                                       *)
LockHomes ==
    /\ \A u, v \in URIs : Tracked(u) /\ processing[u] = processing[v] => u = v
    /\ \A c \in Callbacks, u \in URIs :
          pc[c] \in AtLock /\ lk[c] = processing[u] => on[c] = u

Locking == LockHomes /\ NoLostLock

(* Only the read loop reads a file without keeping it.                     *)
Peeking == \A t \in Threads : pc[t] \in {"PeekMu", "Peek", "Forget"} => t = Loop

BeingOpened(u) == on[Loop] = u /\ pc[Loop] \in {"WriteMu", "Write"} /\ Opening(u)
BeingChanged(u) == on[Loop] = u /\ pc[Loop] \in {"WriteMu", "Write"}
BeingParsed(u) == on[Loop] = u /\ pc[Loop] = "Parse"

(* What the manager has of an open document, while the read loop works on  *)
(* it and otherwise.                                                       *)
Editing ==
    /\ Peeking
    /\ \A u \in URIs : Managed(u) => Tracked(u)
    /\ pc[Loop] \in {"RemoveLock", "Removing"} => ~Managed(on[Loop])
    /\ pc[Loop] \in {"RemoveMu", "Remove", "Forget"} => ~Open(on[Loop])
    /\ \A u \in URIs : Open(u) /\ ~BeingOpened(u) => Managed(u)
    /\ \A u \in URIs : Open(u) /\ BeingParsed(u) => docs[u].version = Version(u)
    /\ \A u \in URIs : Open(u) /\ ~BeingChanged(u) /\ ~BeingParsed(u)
          => docs[u] = [version |-> Version(u), text |-> Text(u)]

(* Every step keeps the types and says who is in Manager.mu: one thread    *)
(* at a label that holds it, and none when it is free.                     *)
LEMMA BasicsStep == Basics /\ [Next]_vars => Basics'
<1> SUFFICES ASSUME Basics, [Next]_vars PROVE Basics'
  OBVIOUS
<1> USE NullAssumption, ThreadAssumption, SyncAssumption
<1> USE DEF Basics, TypeOK, ManagerTypeOK, MuHolder, Writing, Doc, WaitsForMu, HoldsMu, Labels,
            AtDocument, AtLock, Open, Version, Text, Opening, Managed, Tracked, Step, TakeUp,
            PutDown, LockMu, UnlockMu, managerVars, lockVars, callbackVars, editorVars
<1>1. ASSUME NEW u \in URIs, DidOpen(u) PROVE Basics'
  BY <1>1 DEF DidOpen
<1>2. ASSUME NEW u \in URIs, DidChange(u) PROVE Basics'
  <2>1. TypeOK'
    BY <1>2 DEF DidChange
  <2>2. MuHolder'
    BY <1>2 DEF DidChange
  <2>3. Writing'
    <3>1. PICK x \in Texts : editor' = [editor EXCEPT ![u] = Append(@, x)]
      BY <1>2 DEF DidChange
    <3>2. pc'[Loop] = "WriteMu" /\ on'[Loop] = u
      BY <1>2 DEF DidChange
    <3>3. editor'[u] # <<>>
      BY <3>1
    <3> QED
      BY <3>2, <3>3
  <2> QED
    BY <2>1, <2>2, <2>3
<1>3. ASSUME NEW u \in URIs, DidClose(u) PROVE Basics'
  BY <1>3 DEF DidClose
<1>4. ASSUME NEW u \in URIs, ReadIncluded(u) PROVE Basics'
  BY <1>4 DEF ReadIncluded
<1>5. ASSUME NEW u \in URIs, WriteNew(u) PROVE Basics'
  BY <1>5 DEF WriteNew, StartOpener, Create
<1>6. ASSUME NEW u \in URIs, WriteVersion(u) PROVE Basics'
  <2>1. docs[u] \in Doc /\ Version(u) \in Nat
    BY <1>6 DEF WriteVersion, UpdateVersion
  <2>2. docs' \in [URIs -> Doc \cup {NoDoc}] /\ docs'[u] \in Doc
    BY <1>6, <2>1 DEF WriteVersion, UpdateVersion
  <2>3. TypeOK'
    BY <1>6, <2>2 DEF WriteVersion, UpdateVersion
  <2>4. MuHolder'
    BY <1>6 DEF WriteVersion, UpdateVersion
  <2>5. /\ pc[Loop] = "Write" /\ pc'[Loop] = "Parse"
        /\ on[Loop] = u /\ UNCHANGED <<on, editor>>
    BY <1>6 DEF WriteVersion
  <2>6. Writing'
    BY <2>2, <2>5, NoDocAssumption
  <2> QED
    BY <2>3, <2>4, <2>6
<1>7. ASSUME NEW u \in URIs, WriteInput(u) PROVE Basics'
  <2>1. docs[u] \in Doc /\ Text(u) \in Texts
    BY <1>7 DEF WriteInput, StartOpener, UpdateInput
  <2>2. docs' \in [URIs -> Doc \cup {NoDoc}]
    BY <1>7, <2>1 DEF WriteInput, StartOpener, UpdateInput
  <2>3. CASE Opening(u)
    <3>1. PICK g \in Openers :
             /\ pc' = [pc EXCEPT ![Loop] = "Idle", ![g] = "Fetch"]
             /\ todo' = [todo EXCEPT ![g] = {u}]
             /\ pc[g] = "Idle"
      BY <1>7, <2>3 DEF WriteInput, StartOpener, UpdateInput
    <3>2. /\ pc[Loop] = "Parse" /\ on[Loop] = u /\ UnlockMu /\ PutDown(Loop)
          /\ UNCHANGED <<lockVars, callbackVars, editorVars, configured, fatal>>
      BY <1>7 DEF WriteInput, StartOpener, UpdateInput
    <3>3. TypeOK'
      BY <2>2, <3>1, <3>2
    <3>4. MuHolder'
      BY <3>1, <3>2
    <3>5. Writing'
      BY <3>1, <3>2
    <3> QED
      BY <3>3, <3>4, <3>5
  <2>4. CASE ~Opening(u)
    <3>1. TypeOK'
      BY <1>7, <2>2, <2>4 DEF WriteInput, StartOpener, UpdateInput
    <3>2. MuHolder'
      BY <1>7, <2>4 DEF WriteInput, StartOpener, UpdateInput
    <3>3. Writing'
      BY <1>7, <2>4 DEF WriteInput, StartOpener, UpdateInput
    <3> QED
      BY <3>1, <3>2, <3>3
  <2> QED
    BY <2>3, <2>4
<1>8. ASSUME NEW u \in URIs, RemoveDoc(u) PROVE Basics'
  BY <1>8 DEF RemoveDoc, Delete
<1>9. ASSUME NEW u \in URIs, RemoveLock(u) PROVE Basics'
  BY <1>9 DEF RemoveLock, Lock
<1>10. ASSUME NEW u \in URIs, RemoveProcessing(u) PROVE Basics'
  <2>1. TypeOK'
    BY <1>10 DEF RemoveProcessing, Debounce, Untrack, Unlock, UnlockIsFatal
  <2>2. MuHolder'
    BY <1>10 DEF RemoveProcessing, Debounce, Untrack, Unlock, UnlockIsFatal
  <2>3. Writing'
    BY <1>10 DEF RemoveProcessing, Debounce, Untrack, Unlock, UnlockIsFatal
  <2> QED
    BY <2>1, <2>2, <2>3
<1>11. ASSUME NEW u \in URIs, ClearDiagnostics(u) PROVE Basics'
  BY <1>11 DEF ClearDiagnostics
<1>12. ASSUME NEW u \in URIs, NEW r \in Readers, InlayHint(u, r) PROVE Basics'
  BY <1>12 DEF InlayHint
<1>13. ASSUME NEW r \in Refreshers, DidChangeConfiguration(r) PROVE Basics'
  BY <1>13 DEF DidChangeConfiguration
<1>14. ASSUME NEW t \in Openers \cup Refreshers, ConfigurationAnswer(t) PROVE Basics'
  <2>1. TypeOK'
    BY <1>14 DEF ConfigurationAnswer, AfterFetch
  <2>2. MuHolder'
    BY <1>14 DEF ConfigurationAnswer, AfterFetch
  <2>3. Writing'
    BY <1>14 DEF ConfigurationAnswer, AfterFetch
  <2> QED
    BY <2>1, <2>2, <2>3
<1>15. ASSUME NEW t \in Openers \cup Refreshers, StoreConfigurations(t) PROVE Basics'
  BY <1>15 DEF StoreConfigurations, AfterFetch
<1>16. ASSUME NEW t \in Openers \cup Refreshers, Keys(t) PROVE Basics'
  BY <1>16 DEF Keys, Rest
<1>17. ASSUME NEW t \in {Loop} \cup Openers \cup Refreshers, NEW u \in URIs, ComputeDiagnostics(t, u) PROVE Basics'
  <2>1. CASE Managed(u) /\ u \notin Muted
    <3>1. /\ Step(t, "Compute", "QueueMu") /\ TakeUp(t, u)
          /\ todo' = [todo EXCEPT ![t] = @ \ {u}]
          /\ UNCHANGED <<managerVars, callbackVars, editorVars, configured, fatal>>
      BY <1>17, <2>1 DEF ComputeDiagnostics, Rest
    <3>2. TypeOK'
      BY <2>1, <3>1
    <3>3. MuHolder'
      BY <2>1, <3>1
    <3>4. Writing'
      BY <2>1, <3>1
    <3> QED
      BY <3>2, <3>3, <3>4
  <2>2. CASE ~Managed(u) \/ u \in Muted
    <3>1. PICK to \in {"Idle", "Compute"} :
             /\ Step(t, "Compute", to)
             /\ todo' = [todo EXCEPT ![t] = @ \ {u}]
             /\ UNCHANGED <<managerVars, on, callbackVars, editorVars, configured, fatal>>
      BY <1>17, <2>2 DEF ComputeDiagnostics, Rest
    <3>2. TypeOK'
      BY <2>2, <3>1
    <3>3. MuHolder'
      BY <2>2, <3>1
    <3>4. Writing'
      BY <2>2, <3>1
    <3> QED
      BY <3>2, <3>3, <3>4
  <2> QED
    BY <1>17, <2>1, <2>2 DEF ComputeDiagnostics, Rest
<1>18. ASSUME NEW t \in {Loop} \cup Openers \cup Refreshers, QueueUntracked(t) PROVE Basics'
  BY <1>18 DEF QueueUntracked, Rest
<1>19. ASSUME NEW t \in {Loop} \cup Openers \cup Refreshers, QueueLock(t) PROVE Basics'
  BY <1>19 DEF QueueLock, Lock
<1>20. ASSUME NEW t \in {Loop} \cup Openers \cup Refreshers, Enqueue(t) PROVE Basics'
  <2>1. TypeOK'
    BY <1>20 DEF Enqueue, Rest, Debounce, Unlock, UnlockIsFatal
  <2>2. MuHolder'
    BY <1>20 DEF Enqueue, Rest, Debounce, Unlock, UnlockIsFatal
  <2>3. Writing'
    BY <1>20 DEF Enqueue, Rest, Debounce, Unlock, UnlockIsFatal
  <2> QED
    BY <2>1, <2>2, <2>3
<1>21. ASSUME NEW t \in {Loop} \cup Readers, ReadWithoutParsing(t) PROVE Basics'
  BY <1>21 DEF ReadWithoutParsing
<1>22. ASSUME NEW t \in {Loop} \cup Readers, ReadFromDisk(t) PROVE Basics'
  <2>1. CASE Step(t, "Read", "Idle")
    <3>1. /\ Step(t, "Read", "Idle") /\ UnlockMu /\ PutDown(t)
          /\ ManagerTypeOK'
          /\ UNCHANGED <<todo, callbackVars, editorVars, configured, fatal>>
      BY <1>22, <2>1 DEF ReadFromDisk, Create
    <3>2. TypeOK'
      BY <2>1, <3>1
    <3>3. MuHolder'
      BY <2>1, <3>1
    <3>4. Writing'
      BY <2>1, <3>1
    <3> QED
      BY <3>2, <3>3, <3>4
  <2>2. CASE Step(t, "Peek", "Forget")
    <3>1. /\ Step(t, "Peek", "Forget") /\ UNCHANGED <<mu, on>>
          /\ ManagerTypeOK'
          /\ UNCHANGED <<todo, callbackVars, editorVars, configured, fatal>>
      BY <1>22, <2>2 DEF ReadFromDisk, Create
    <3>2. TypeOK'
      BY <2>2, <3>1
    <3>3. MuHolder'
      BY <2>2, <3>1
    <3>4. Writing'
      BY <2>2, <3>1
    <3> QED
      BY <3>2, <3>3, <3>4
  <2> QED
    BY <1>22, <2>1, <2>2 DEF ReadFromDisk, Create
<1>23. ASSUME NEW t \in {Loop} \cup Readers, Forget(t) PROVE Basics'
  BY <1>23 DEF Forget, Delete
<1>24. ASSUME NEW t \in Threads \ Callbacks, Enter(t) PROVE Basics'
  BY <1>24 DEF Enter, Inside, LockMu
<1>25. ASSUME NEW l \in Locks, NEW c \in Callbacks, Fire(l, c) PROVE Basics'
  BY <1>25 DEF Fire, Debounce
<1>26. ASSUME NEW l \in Locks, FireReset(l) PROVE Basics'
  BY <1>26 DEF FireReset, Debounce, syncVars
<1>27. ASSUME NEW c \in Callbacks, LockDocument(c) PROVE Basics'
  <2>1. CASE Tracked(on[c])
    <3>1. /\ Step(c, "Lookup", "Wait")
          /\ lk' = [lk EXCEPT ![c] = processing[on[c]]]
          /\ UNCHANGED <<managerVars, on, todo, snap, editorVars, configured, fatal>>
      BY <1>27, <2>1 DEF LockDocument
    <3>2. TypeOK'
      BY <2>1, <3>1
    <3>3. MuHolder'
      BY <2>1, <3>1
    <3>4. Writing'
      BY <2>1, <3>1
    <3> QED
      BY <3>2, <3>3, <3>4
  <2>2. CASE ~Tracked(on[c])
    <3>1. /\ Step(c, "Lookup", "Idle")
          /\ PutDown(c)
          /\ UNCHANGED <<managerVars, todo, callbackVars, editorVars, configured, fatal>>
      BY <1>27, <2>2 DEF LockDocument
    <3>2. TypeOK'
      BY <2>2, <3>1
    <3>3. MuHolder'
      BY <2>2, <3>1
    <3>4. Writing'
      BY <2>2, <3>1
    <3> QED
      BY <3>2, <3>3, <3>4
  <2> QED
    BY <1>27, <2>1, <2>2 DEF LockDocument
<1>28. ASSUME NEW c \in Callbacks, Acquire(c) PROVE Basics'
  <2>1. TypeOK'
    BY <1>28 DEF Acquire, Lock
  <2>2. MuHolder'
    BY <1>28 DEF Acquire, Lock
  <2>3. Writing'
    BY <1>28 DEF Acquire, Lock
  <2> QED
    BY <2>1, <2>2, <2>3
<1>29. ASSUME NEW c \in Callbacks, CopyDocument(c) PROVE Basics'
  <2>1. CASE Managed(on[c])
    <3>1. /\ Step(c, "Get", "Collect")
          /\ snap' = [snap EXCEPT ![c] = docs[on[c]]]
          /\ UNCHANGED <<managerVars, on, todo, lk, editorVars, configured, fatal>>
      BY <1>29, <2>1 DEF CopyDocument
    <3>2. TypeOK'
      BY <2>1, <3>1
    <3>3. MuHolder'
      BY <2>1, <3>1
    <3>4. Writing'
      BY <2>1, <3>1
    <3> QED
      BY <3>2, <3>3, <3>4
  <2>2. CASE ~Managed(on[c])
    <3>1. /\ Step(c, "Get", "Unlock")
          /\ UNCHANGED <<managerVars, on, todo, callbackVars, editorVars, configured, fatal>>
      BY <1>29, <2>2 DEF CopyDocument
    <3>2. TypeOK'
      BY <2>2, <3>1
    <3>3. MuHolder'
      BY <2>2, <3>1
    <3>4. Writing'
      BY <2>2, <3>1
    <3> QED
      BY <3>2, <3>3, <3>4
  <2> QED
    BY <1>29, <2>1, <2>2 DEF CopyDocument
<1>30. ASSUME NEW c \in Callbacks, PublishDiagnostics(c) PROVE Basics'
  BY <1>30 DEF PublishDiagnostics
<1>31. ASSUME NEW c \in Callbacks, CollectorPanic(c) PROVE Basics'
  BY <1>31 DEF CollectorPanic
<1>32. ASSUME NEW c \in Callbacks, UnlockDocument(c) PROVE Basics'
  <2>1. TypeOK'
    BY <1>32 DEF UnlockDocument, Unlock, UnlockIsFatal
  <2>2. MuHolder'
    BY <1>32 DEF UnlockDocument, Unlock, UnlockIsFatal
  <2>3. Writing'
    BY <1>32 DEF UnlockDocument, Unlock, UnlockIsFatal
  <2> QED
    BY <2>1, <2>2, <2>3
<1>33. ASSUME NEW t \in Threads, MapRace(t) PROVE Basics'
  BY <1>33 DEF MapRace
<1>34. CASE UNCHANGED vars
  BY <1>34 DEF vars, syncVars
<1> QED
  BY <1>1, <1>2, <1>3, <1>4, <1>5, <1>6, <1>7, <1>8, <1>9, <1>10, <1>11, <1>12, <1>13, <1>14, <1>15, <1>16, <1>17, <1>18, <1>19, <1>20, <1>21, <1>22, <1>23, <1>24, <1>25, <1>26, <1>27, <1>28, <1>29, <1>30, <1>31, <1>32, <1>33, <1>34 DEF Next, Receive, Handle, Fetch, Request, Reading, Analyse, Stutter

(* The empty manager with every goroutine idle has these properties.       *)
LEMMA BasicsInit == Init => Basics
  BY NullAssumption, ThreadAssumption, SyncAssumption
  DEF Init, ManagerInit, Basics, TypeOK, ManagerTypeOK, MuHolder, Writing, HoldsMu, Labels,
      AtDocument, AtLock, WaitsForMu

(* TypeOK holds for all constants. The labels of Manager.mu and the        *)
(* messages in work are needed to show that Update gets a document.        *)
THEOREM BasicsCorrect == Spec => []Basics
<1> QED
  BY BasicsInit, BasicsStep, PTL DEF Spec

THEOREM TypeCorrect == Spec => []TypeOK
<1>1. Basics => TypeOK
  BY DEF Basics
<1> QED
  BY <1>1, BasicsCorrect, PTL

-----------------------------------------------------------------------------
(* Every step keeps the locked locks with the goroutines that hold them:   *)
(* Queue, removeAndCleanup and the callback release what they took.        *)
LEMMA LockingStep == Basics /\ Basics' /\ Locking /\ [Next]_vars => Locking'
<1> SUFFICES ASSUME Basics, Basics', Locking, [Next]_vars PROVE Locking'
  OBVIOUS
<1> USE NullAssumption, ThreadAssumption, SyncAssumption
<1> USE DEF Basics, TypeOK, ManagerTypeOK, MuHolder, HoldsMu, AtLock, Locking, LockHomes,
            NoLostLock, HoldsLock, Analysing, Tracked, Step, TakeUp, PutDown, LockMu, UnlockMu,
            managerVars, lockVars, callbackVars, editorVars
<1>1. ASSUME NEW u \in URIs, DidOpen(u) PROVE Locking'
  BY <1>1 DEF DidOpen
<1>2. ASSUME NEW u \in URIs, DidChange(u) PROVE Locking'
  BY <1>2 DEF DidChange
<1>3. ASSUME NEW u \in URIs, DidClose(u) PROVE Locking'
  BY <1>3 DEF DidClose
<1>4. ASSUME NEW u \in URIs, ReadIncluded(u) PROVE Locking'
  BY <1>4 DEF ReadIncluded
<1>5. ASSUME NEW u \in URIs, WriteNew(u) PROVE Locking'
  <2>1. PICK l \in Locks :
           /\ Fresh(l)
           /\ processing' = [processing EXCEPT ![u] = l]
           /\ holder' = [holder EXCEPT ![l] = NoThread]
    BY <1>5 DEF WriteNew, StartOpener, Create
  <2>2. mu = Loop /\ on[Loop] \in URIs
    BY <1>5 DEF WriteNew, StartOpener, Create
  <2>3. \A x \in Threads : pc[x] \in {"Queued", "Removing"} => x = Loop
    BY <2>2
  <2>4. LockHomes'
    BY <1>5, <2>1, <2>2 DEF Fresh, WriteNew, StartOpener, Create
  <2>5. /\ lk' = lk
        /\ \A x \in Threads : pc[x] \in {"Get", "Collect", "Unlock"} => pc'[x] = pc[x]
    BY <1>5 DEF WriteNew, StartOpener, Create
  <2>6. NoLostLock'
    <3> SUFFICES ASSUME NEW v \in URIs, Tracked(v)', holder'[processing'[v]] # NoThread
                 PROVE  HoldsLock(holder[processing[v]], processing[v])'
      OBVIOUS
    <3>1. v # u /\ processing'[v] = processing[v]
      BY <2>1, <2>2
    <3>2. holder'[processing[v]] = holder[processing[v]]
      BY <2>1, <3>1 DEF Fresh
    <3>3. HoldsLock(holder[processing[v]], processing[v])
      BY <3>1, <3>2
    <3>4. pc[Loop] \notin {"Queued", "Removing"}
      BY <1>5 DEF WriteNew, StartOpener, Create
    <3>5. Analysing(holder[processing[v]])
      BY <2>3, <3>1, <3>2, <3>3, <3>4
    <3> QED
      BY <2>5, <3>1, <3>2, <3>3, <3>5, <3>4, <2>3, ThreadAssumption
  <2> QED
    BY <2>4, <2>6
<1>6. ASSUME NEW u \in URIs, WriteVersion(u) PROVE Locking'
  BY <1>6 DEF WriteVersion, UpdateVersion
<1>7. ASSUME NEW u \in URIs, WriteInput(u) PROVE Locking'
  BY <1>7 DEF WriteInput, StartOpener, UpdateInput
<1>8. ASSUME NEW u \in URIs, RemoveDoc(u) PROVE Locking'
  BY <1>8 DEF RemoveDoc, Delete
<1>9. ASSUME NEW u \in URIs, RemoveLock(u) PROVE Locking'
  BY <1>9 DEF RemoveLock, Lock
<1>10. ASSUME NEW u \in URIs, RemoveProcessing(u) PROVE Locking'
  <2>1. /\ mu = Loop /\ on[Loop] = u /\ pc[Loop] = "Removing"
        /\ processing' = [processing EXCEPT ![u] = NoLock]
        /\ holder' = [holder EXCEPT ![processing[u]] = NoThread]
        /\ pc' = [pc EXCEPT ![Loop] = "Clear"]
        /\ UNCHANGED <<on, lk>>
    BY <1>10 DEF RemoveProcessing, Debounce, Untrack, Unlock, UnlockIsFatal
  <2>2. LockHomes'
    <3>1. \A v \in URIs : Tracked(v)' => Tracked(v) /\ processing'[v] = processing[v]
      BY <2>1
    <3>2. \A c \in Callbacks : pc'[c] = pc[c] /\ on'[c] = on[c] /\ lk'[c] = lk[c]
      BY <2>1
    <3>3. \A v \in URIs : processing'[v] \in {NoLock, processing[v]}
      BY <2>1
    <3> QED
      BY <3>1, <3>2, <3>3
  <2>3. NoLostLock'
    <3> SUFFICES ASSUME NEW v \in URIs, Tracked(v)', holder'[processing'[v]] # NoThread
                 PROVE  HoldsLock(holder[processing[v]], processing[v])'
      OBVIOUS
    <3>1. v # u /\ processing'[v] = processing[v] /\ Tracked(v)
      BY <2>1
    <3>2. holder'[processing[v]] = holder[processing[v]] /\ processing[v] # processing[u]
      BY <2>1, <3>1
    <3>3. HoldsLock(holder[processing[v]], processing[v])
      BY <3>1, <3>2
    <3>4. \A x \in Threads : pc[x] \in {"Queued", "Removing"} => x = Loop
      BY <2>1
    <3>5. Analysing(holder[processing[v]]) /\ lk[holder[processing[v]]] = processing[v]
      BY <2>1, <3>1, <3>2, <3>3, <3>4
    <3> QED
      BY <2>1, <3>1, <3>2, <3>5
  <2> QED
    BY <2>2, <2>3
<1>11. ASSUME NEW u \in URIs, ClearDiagnostics(u) PROVE Locking'
  BY <1>11 DEF ClearDiagnostics
<1>12. ASSUME NEW u \in URIs, NEW r \in Readers, InlayHint(u, r) PROVE Locking'
  BY <1>12 DEF InlayHint
<1>13. ASSUME NEW r \in Refreshers, DidChangeConfiguration(r) PROVE Locking'
  BY <1>13 DEF DidChangeConfiguration
<1>14. ASSUME NEW t \in Openers \cup Refreshers, ConfigurationAnswer(t) PROVE Locking'
  BY <1>14 DEF ConfigurationAnswer, AfterFetch
<1>15. ASSUME NEW t \in Openers \cup Refreshers, StoreConfigurations(t) PROVE Locking'
  BY <1>15 DEF StoreConfigurations, AfterFetch
<1>16. ASSUME NEW t \in Openers \cup Refreshers, Keys(t) PROVE Locking'
  BY <1>16 DEF Keys, Rest
<1>17. ASSUME NEW t \in {Loop} \cup Openers \cup Refreshers, NEW u \in URIs, ComputeDiagnostics(t, u) PROVE Locking'
  <2>1. CASE Managed(u) /\ u \notin Muted
    <3>1. /\ Step(t, "Compute", "QueueMu") /\ TakeUp(t, u)
          /\ UNCHANGED <<managerVars, callbackVars>>
      BY <1>17, <2>1 DEF ComputeDiagnostics, Rest
    <3>2. /\ UNCHANGED <<processing, lk>>
          /\ \A c \in Callbacks : pc'[c] = pc[c] /\ on'[c] = on[c]
      BY <3>1
    <3>3. LockHomes'
      BY <3>2
    <3>4. NoLostLock'
      BY <2>1, <3>1
    <3> QED
      BY <3>3, <3>4
  <2>2. CASE ~Managed(u) \/ u \in Muted
    <3>1. PICK to \in {"Idle", "Compute"} :
             /\ Step(t, "Compute", to)
             /\ UNCHANGED <<managerVars, on, callbackVars>>
      BY <1>17, <2>2 DEF ComputeDiagnostics, Rest
    <3>2. LockHomes'
      BY <2>2, <3>1
    <3>3. NoLostLock'
      BY <2>2, <3>1
    <3> QED
      BY <3>2, <3>3
  <2> QED
    BY <1>17, <2>1, <2>2 DEF ComputeDiagnostics, Rest
<1>18. ASSUME NEW t \in {Loop} \cup Openers \cup Refreshers, QueueUntracked(t) PROVE Locking'
  BY <1>18 DEF QueueUntracked, Rest
<1>19. ASSUME NEW t \in {Loop} \cup Openers \cup Refreshers, QueueLock(t) PROVE Locking'
  <2>1. LockHomes'
    BY <1>19 DEF QueueLock, Lock
  <2>2. NoLostLock'
    BY <1>19 DEF QueueLock, Lock
  <2> QED
    BY <2>1, <2>2
<1>20. ASSUME NEW t \in {Loop} \cup Openers \cup Refreshers, Enqueue(t) PROVE Locking'
  <2>1. LockHomes'
    BY <1>20 DEF Enqueue, Rest, Debounce, Unlock, UnlockIsFatal
  <2>2. NoLostLock'
    BY <1>20 DEF Enqueue, Rest, Debounce, Unlock, UnlockIsFatal
  <2> QED
    BY <2>1, <2>2
<1>21. ASSUME NEW t \in {Loop} \cup Readers, ReadWithoutParsing(t) PROVE Locking'
  BY <1>21 DEF ReadWithoutParsing
<1>22. ASSUME NEW t \in {Loop} \cup Readers, ReadFromDisk(t) PROVE Locking'
  <2>1. PICK l \in Locks :
           /\ Fresh(l)
           /\ processing' = [processing EXCEPT ![on[t]] = l]
           /\ holder' = [holder EXCEPT ![l] = NoThread]
    BY <1>22 DEF ReadFromDisk, Create
  <2>2. mu = t /\ on[t] \in URIs
    BY <1>22 DEF ReadFromDisk, Create
  <2>3. \A x \in Threads : pc[x] \in {"Queued", "Removing"} => x = t
    BY <2>2
  <2>4. LockHomes'
    BY <1>22, <2>1, <2>2 DEF Fresh, ReadFromDisk, Create
  <2>5. /\ lk' = lk
        /\ \A x \in Threads : pc[x] \in {"Get", "Collect", "Unlock"} => pc'[x] = pc[x]
    BY <1>22 DEF ReadFromDisk, Create
  <2>6. NoLostLock'
    <3> SUFFICES ASSUME NEW v \in URIs, Tracked(v)', holder'[processing'[v]] # NoThread
                 PROVE  HoldsLock(holder[processing[v]], processing[v])'
      OBVIOUS
    <3>1. v # on[t] /\ processing'[v] = processing[v]
      BY <2>1, <2>2
    <3>2. holder'[processing[v]] = holder[processing[v]]
      BY <2>1, <3>1 DEF Fresh
    <3>3. HoldsLock(holder[processing[v]], processing[v])
      BY <3>1, <3>2
    <3>4. pc[t] \notin {"Queued", "Removing"}
      BY <1>22 DEF ReadFromDisk, Create
    <3>5. Analysing(holder[processing[v]])
      BY <2>3, <3>1, <3>2, <3>3, <3>4
    <3> QED
      BY <2>5, <3>1, <3>2, <3>3, <3>5, <3>4, <2>3, ThreadAssumption
  <2> QED
    BY <2>4, <2>6
<1>23. ASSUME NEW t \in {Loop} \cup Readers, Forget(t) PROVE Locking'
  BY <1>23 DEF Forget, Delete
<1>24. ASSUME NEW t \in Threads \ Callbacks, Enter(t) PROVE Locking'
  BY <1>24 DEF Enter, Inside, LockMu
<1>25. ASSUME NEW l \in Locks, NEW c \in Callbacks, Fire(l, c) PROVE Locking'
  BY <1>25 DEF Fire, Debounce
<1>26. ASSUME NEW l \in Locks, FireReset(l) PROVE Locking'
  BY <1>26 DEF FireReset, Debounce, syncVars
<1>27. ASSUME NEW c \in Callbacks, LockDocument(c) PROVE Locking'
  <2>1. CASE Tracked(on[c])
    <3>1. /\ pc[c] = "Lookup" /\ pc' = [pc EXCEPT ![c] = "Wait"]
          /\ lk' = [lk EXCEPT ![c] = processing[on[c]]]
          /\ UNCHANGED <<managerVars, on>>
      BY <1>27, <2>1 DEF LockDocument
    <3>2. on[c] \in URIs
      BY <3>1 DEF AtDocument
    <3>3. \A u \in URIs : lk'[c] = processing[u] => on[c] = u
      BY <2>1, <3>1, <3>2
    <3>4. \A x \in Callbacks : x # c => pc'[x] = pc[x] /\ lk'[x] = lk[x]
      BY <3>1
    <3>5. LockHomes'
      BY <3>1, <3>3, <3>4
    <3>6. NoLostLock'
      BY <3>1
    <3> QED
      BY <3>5, <3>6
  <2>2. CASE ~Tracked(on[c])
    <3>1. /\ pc[c] = "Lookup" /\ pc' = [pc EXCEPT ![c] = "Idle"]
          /\ on' = [on EXCEPT ![c] = NoURI]
          /\ UNCHANGED <<managerVars, lk>>
      BY <1>27, <2>2 DEF LockDocument
    <3>2. LockHomes'
      BY <3>1
    <3>3. \A x \in Threads : pc[x] \in {"Get", "Collect", "Unlock", "Queued", "Removing"}
             => pc'[x] = pc[x] /\ on'[x] = on[x]
      BY <3>1
    <3>4. NoLostLock'
      <4> SUFFICES ASSUME NEW v \in URIs, Tracked(v), holder[processing[v]] # NoThread
                   PROVE  HoldsLock(holder[processing[v]], processing[v])'
        BY <3>1
      <4>1. HoldsLock(holder[processing[v]], processing[v]) /\ holder[processing[v]] \in Threads
        OBVIOUS
      <4> QED
        BY <3>1, <3>3, <4>1
    <3> QED
      BY <3>2, <3>4
  <2> QED
    BY <2>1, <2>2
<1>28. ASSUME NEW c \in Callbacks, Acquire(c) PROVE Locking'
  BY <1>28 DEF Acquire, Lock
<1>29. ASSUME NEW c \in Callbacks, CopyDocument(c) PROVE Locking'
  <2>1. CASE Managed(on[c])
    <3>1. /\ Step(c, "Get", "Collect")
          /\ UNCHANGED <<managerVars, on, lk>>
      BY <1>29, <2>1 DEF CopyDocument
    <3>2. LockHomes'
      BY <2>1, <3>1
    <3>3. NoLostLock'
      BY <2>1, <3>1
    <3> QED
      BY <3>2, <3>3
  <2>2. CASE ~Managed(on[c])
    <3>1. /\ Step(c, "Get", "Unlock")
          /\ UNCHANGED <<managerVars, on, lk>>
      BY <1>29, <2>2 DEF CopyDocument
    <3>2. LockHomes'
      BY <2>2, <3>1
    <3>3. NoLostLock'
      BY <2>2, <3>1
    <3> QED
      BY <3>2, <3>3
  <2> QED
    BY <1>29, <2>1, <2>2 DEF CopyDocument
<1>30. ASSUME NEW c \in Callbacks, PublishDiagnostics(c) PROVE Locking'
  BY <1>30 DEF PublishDiagnostics
<1>31. ASSUME NEW c \in Callbacks, CollectorPanic(c) PROVE Locking'
  BY <1>31 DEF CollectorPanic
<1>32. ASSUME NEW c \in Callbacks, UnlockDocument(c) PROVE Locking'
  BY <1>32 DEF UnlockDocument, Unlock, UnlockIsFatal
<1>33. ASSUME NEW t \in Threads, MapRace(t) PROVE Locking'
  BY <1>33 DEF MapRace
<1>34. CASE UNCHANGED vars
  BY <1>34 DEF vars, syncVars
<1> QED
  BY <1>1, <1>2, <1>3, <1>4, <1>5, <1>6, <1>7, <1>8, <1>9, <1>10, <1>11, <1>12, <1>13, <1>14, <1>15, <1>16, <1>17, <1>18, <1>19, <1>20, <1>21, <1>22, <1>23, <1>24, <1>25, <1>26, <1>27, <1>28, <1>29, <1>30, <1>31, <1>32, <1>33, <1>34 DEF Next, Receive, Handle, Fetch, Request, Reading, Analyse, Stutter

(* No documentLock exists at the start.                                    *)
LEMMA LockingInit == Init => Locking
  BY NullAssumption, ThreadAssumption DEF Init, ManagerInit, Locking, LockHomes, NoLostLock, Tracked, AtLock

(* The inductive invariant of the document locks holds in every state.     *)
THEOREM LockingCorrect == Spec => []Locking
<1>1. Basics /\ Basics' /\ Locking /\ [Next]_vars => Locking'
  BY LockingStep
<1> QED
  BY LockingInit, BasicsCorrect, <1>1, PTL DEF Spec

(* No lock object of a document is left locked behind a goroutine that     *)
(* went on (NoLostLock), in any number of sessions.                        *)
THEOREM LocksReleased == Spec => []NoLostLock
<1>1. Locking => NoLostLock
  BY DEF Locking
<1> QED
  BY <1>1, LockingCorrect, PTL

(* Only one goroutine is in Manager.mu, so the one that waits for a        *)
(* document's lock there waits for a callback.                             *)
LEMMA HolderIsAnalysing == Basics /\ Locking => NoCircularWait
<1> SUFFICES ASSUME Basics, Locking, NEW t \in Threads, WaitsForLock(t),
                    holder[processing[on[t]]] # NoThread
             PROVE  Analysing(holder[processing[on[t]]])
  BY DEF NoCircularWait
<1> DEFINE h == holder[processing[on[t]]]
<1>1. on[t] \in URIs /\ Tracked(on[t]) /\ pc[t] \in {"Queue", "RemoveLock"}
  BY DEF WaitsForLock, Basics, TypeOK, AtDocument, HoldsMu
<1>2. h \in Threads /\ HoldsLock(h, processing[on[t]])
  BY <1>1 DEF Basics, TypeOK, ManagerTypeOK, Locking, NoLostLock, Tracked
<1>3. CASE pc[h] \in {"Queued", "Removing"}
  BY <1>1, <1>2, <1>3 DEF Basics, MuHolder, HoldsMu
<1>4. CASE Analysing(h)
  BY <1>4
<1> QED
  BY <1>2, <1>3, <1>4 DEF HoldsLock

(* Whoever waits for a document's lock under Manager.mu waits for a        *)
(* callback, and that callback waits for nobody (NoCircularWait).          *)
THEOREM NoDeadlock == Spec => []NoCircularWait
<1> QED
  BY HolderIsAnalysing, BasicsCorrect, LockingCorrect, PTL

-----------------------------------------------------------------------------
(* No document is open or managed at the start.                            *)
LEMMA EditingInit == Init => Editing
<1> SUFFICES ASSUME Init PROVE Editing
  OBVIOUS
<1>1. /\ Loop \in Threads /\ \A t \in Threads : pc[t] = "Idle"
      /\ \A u \in URIs : ~Managed(u) /\ ~Open(u)
  BY ThreadAssumption DEF Init, ManagerInit, Managed, Open
<1> QED
  BY <1>1 DEF Editing, Peeking

(* Every step keeps the manager's copy of an open document what didOpen    *)
(* and didChange sent: a read from disk only adds what is not there.       *)
LEMMA EditingStep == Basics /\ Basics' /\ Editing /\ [Next]_vars => Editing'
<1> SUFFICES ASSUME Basics, Basics', Editing, [Next]_vars PROVE Editing'
  OBVIOUS
<1> USE NullAssumption, NoDocAssumption, ThreadAssumption, SyncAssumption
<1> USE DEF Basics, TypeOK, ManagerTypeOK, Doc, MuHolder, HoldsMu, Writing, Editing, Peeking,
            BeingOpened, BeingChanged, BeingParsed, Open, Opening, Version, Text, Managed, Tracked,
            Step, TakeUp, PutDown, LockMu, UnlockMu,
            managerVars, lockVars, callbackVars, editorVars
<1>1. ASSUME NEW u \in URIs, DidOpen(u) PROVE Editing'
  BY <1>1 DEF DidOpen
<1>2. ASSUME NEW u \in URIs, DidChange(u) PROVE Editing'
  BY <1>2 DEF DidChange
<1>3. ASSUME NEW u \in URIs, DidClose(u) PROVE Editing'
  BY <1>3 DEF DidClose
<1>4. ASSUME NEW u \in URIs, ReadIncluded(u) PROVE Editing'
  BY <1>4 DEF ReadIncluded
<1>5. ASSUME NEW u \in URIs, WriteNew(u) PROVE Editing'
  BY <1>5 DEF WriteNew, StartOpener, Create
<1>6. ASSUME NEW u \in URIs, WriteVersion(u) PROVE Editing'
  BY <1>6 DEF WriteVersion, UpdateVersion
<1>7. ASSUME NEW u \in URIs, WriteInput(u) PROVE Editing'
  BY <1>7 DEF WriteInput, StartOpener, UpdateInput
<1>8. ASSUME NEW u \in URIs, RemoveDoc(u) PROVE Editing'
  <2>1. /\ pc[Loop] = "Remove" /\ on[Loop] = u /\ mu = Loop
        /\ pc' = [pc EXCEPT ![Loop] = "RemoveLock"]
        /\ docs' = [docs EXCEPT ![u] = NoDoc]
        /\ UNCHANGED <<on, editor, processing>>
    BY <1>8 DEF RemoveDoc, Delete
  <2>2. ~Open(u)
    BY <2>1
  <2> QED
    BY <2>1, <2>2
<1>9. ASSUME NEW u \in URIs, RemoveLock(u) PROVE Editing'
  BY <1>9 DEF RemoveLock, Lock
<1>10. ASSUME NEW u \in URIs, RemoveProcessing(u) PROVE Editing'
  BY <1>10 DEF RemoveProcessing, Debounce, Untrack, Unlock, UnlockIsFatal
<1>11. ASSUME NEW u \in URIs, ClearDiagnostics(u) PROVE Editing'
  BY <1>11 DEF ClearDiagnostics
<1>12. ASSUME NEW u \in URIs, NEW r \in Readers, InlayHint(u, r) PROVE Editing'
  BY <1>12 DEF InlayHint
<1>13. ASSUME NEW r \in Refreshers, DidChangeConfiguration(r) PROVE Editing'
  BY <1>13 DEF DidChangeConfiguration
<1>14. ASSUME NEW t \in Openers \cup Refreshers, ConfigurationAnswer(t) PROVE Editing'
  BY <1>14 DEF ConfigurationAnswer, AfterFetch
<1>15. ASSUME NEW t \in Openers \cup Refreshers, StoreConfigurations(t) PROVE Editing'
  BY <1>15 DEF StoreConfigurations, AfterFetch
<1>16. ASSUME NEW t \in Openers \cup Refreshers, Keys(t) PROVE Editing'
  BY <1>16 DEF Keys, Rest
<1>17. ASSUME NEW t \in {Loop} \cup Openers \cup Refreshers, NEW u \in URIs, ComputeDiagnostics(t, u) PROVE Editing'
  BY <1>17 DEF ComputeDiagnostics, Rest
<1>18. ASSUME NEW t \in {Loop} \cup Openers \cup Refreshers, QueueUntracked(t) PROVE Editing'
  BY <1>18 DEF QueueUntracked, Rest
<1>19. ASSUME NEW t \in {Loop} \cup Openers \cup Refreshers, QueueLock(t) PROVE Editing'
  BY <1>19 DEF QueueLock, Lock
<1>20. ASSUME NEW t \in {Loop} \cup Openers \cup Refreshers, Enqueue(t) PROVE Editing'
  BY <1>20 DEF Enqueue, Rest, Debounce, Unlock, UnlockIsFatal
<1>21. ASSUME NEW t \in {Loop} \cup Readers, ReadWithoutParsing(t) PROVE Editing'
  BY <1>21 DEF ReadWithoutParsing
<1>22. ASSUME NEW t \in {Loop} \cup Readers, ReadFromDisk(t) PROVE Editing'
  BY <1>22 DEF ReadFromDisk, Create
<1>23. ASSUME NEW t \in {Loop} \cup Readers, Forget(t) PROVE Editing'
  BY <1>23 DEF Forget, Delete
<1>24. ASSUME NEW t \in Threads \ Callbacks, Enter(t) PROVE Editing'
  <2>1. PICK w \in WaitsForMu : Step(t, w, Inside[w])
    BY <1>24 DEF Enter
  <2>2. UNCHANGED <<docs, processing, on, editor>>
    BY <1>24 DEF Enter
  <2>3. pc'[t] = Inside[w] /\ \A x \in Threads : x # t => pc'[x] = pc[x]
    BY <2>1
  <2>4. /\ pc'[t] \in {"Peek", "Forget", "PeekMu"} => pc[t] = "PeekMu"
        /\ pc'[t] = "Write" <=> pc[t] = "WriteMu"
        /\ pc'[t] \notin {"WriteMu", "RemoveMu", "Parse", "RemoveLock", "Removing", "Forget"}
        /\ pc'[t] = "Remove" => pc[t] = "RemoveMu"
        /\ pc[t] \notin {"Write", "Parse", "RemoveLock", "Removing", "Forget"}
    BY <2>1, <2>3 DEF Inside, WaitsForMu
  <2> QED
    BY <2>2, <2>3, <2>4
<1>25. ASSUME NEW l \in Locks, NEW c \in Callbacks, Fire(l, c) PROVE Editing'
  BY <1>25 DEF Fire, Debounce
<1>26. ASSUME NEW l \in Locks, FireReset(l) PROVE Editing'
  BY <1>26 DEF FireReset, Debounce, syncVars
<1>27. ASSUME NEW c \in Callbacks, LockDocument(c) PROVE Editing'
  BY <1>27 DEF LockDocument
<1>28. ASSUME NEW c \in Callbacks, Acquire(c) PROVE Editing'
  BY <1>28 DEF Acquire, Lock
<1>29. ASSUME NEW c \in Callbacks, CopyDocument(c) PROVE Editing'
  BY <1>29 DEF CopyDocument
<1>30. ASSUME NEW c \in Callbacks, PublishDiagnostics(c) PROVE Editing'
  BY <1>30 DEF PublishDiagnostics
<1>31. ASSUME NEW c \in Callbacks, CollectorPanic(c) PROVE Editing'
  BY <1>31 DEF CollectorPanic
<1>32. ASSUME NEW c \in Callbacks, UnlockDocument(c) PROVE Editing'
  BY <1>32 DEF UnlockDocument, Unlock, UnlockIsFatal
<1>33. ASSUME NEW t \in Threads, MapRace(t) PROVE Editing'
  BY <1>33 DEF MapRace
<1>34. CASE UNCHANGED vars
  BY <1>34 DEF vars, syncVars
<1> QED
  BY <1>1, <1>2, <1>3, <1>4, <1>5, <1>6, <1>7, <1>8, <1>9, <1>10, <1>11, <1>12, <1>13, <1>14, <1>15, <1>16, <1>17, <1>18, <1>19, <1>20, <1>21, <1>22, <1>23, <1>24, <1>25, <1>26, <1>27, <1>28, <1>29, <1>30, <1>31, <1>32, <1>33, <1>34 DEF Next, Receive, Handle, Fetch, Request, Reading, Analyse, Stutter

(* The inductive invariant of the open documents holds in every state.     *)
THEOREM EditingCorrect == Spec => []Editing
<1>1. Basics /\ Basics' /\ Editing /\ [Next]_vars => Editing'
  BY EditingStep
<1> QED
  BY EditingInit, BasicsCorrect, <1>1, PTL DEF Spec

(* Between two messages the manager has of every open document what the    *)
(* editor sent last (OpenDocumentIsEditors).                               *)
THEOREM OpenDocumentsKept == Spec => []OpenDocumentIsEditors
<1>1. Editing => OpenDocumentIsEditors
  BY DEF Editing, OpenDocumentIsEditors, BeingOpened, BeingChanged, BeingParsed
<1> QED
  BY <1>1, EditingCorrect, PTL

-----------------------------------------------------------------------------
(* What holds when every document is opened once and no other goroutine    *)
(* reads it from disk. The findings show that it does not hold without     *)
(* these hypotheses: a second session gives the document another lock, and *)
(* an inlay hint may put a closed document back into the manager.          *)
OneSession == Readers = {} /\ Included = {} /\ MaxSessions = 1

-----------------------------------------------------------------------------
LoopLabels == {"Idle", "WriteMu", "Write", "Parse", "Compute", "QueueMu", "Queue", "Queued",
               "RemoveMu", "Remove", "RemoveLock", "Removing", "Clear"}

Closing(u)  == on[Loop] = u /\ pc[Loop] \in {"RemoveMu", "Remove", "RemoveLock", "Removing", "Clear"}
Removing(u) == on[Loop] = u /\ pc[Loop] \in {"RemoveMu", "Remove", "RemoveLock", "Removing"}

(* The read loop requests diagnostics of documents that are open, removes  *)
(* one that is not, and works on none when it takes the next message.      *)
LoopWork ==
    /\ pc[Loop] \in LoopLabels
    /\ pc[Loop] \in {"Idle", "Compute"} => on[Loop] = NoURI
    /\ pc[Loop] \in {"QueueMu", "Queue", "Queued"} => Open(on[Loop])
    /\ \A u \in URIs : Closing(u) => ~Open(u)
    /\ \A u \in todo[Loop] : Open(u)
    /\ pc[Loop] \notin {"Compute", "QueueMu", "Queue", "Queued"} => todo[Loop] = {}

(* Nothing is known of a document that the manager has not got yet.        *)
Unknown(u) ==
    /\ ~Tracked(u) /\ shown[u] = NoDoc
    /\ \A c \in Callbacks : on[c] # u
    /\ \A l \in Locks : timer[l] # u

Lives ==
    /\ \A u \in URIs : sessions[u] \in {0, 1} /\ (Open(u) => sessions[u] = 1)
    /\ \A u \in URIs : sessions[u] = 0 \/ BeingOpened(u) => Unknown(u)
    /\ \A u \in URIs : Tracked(u) => Open(u) \/ Removing(u)
    /\ \A u \in URIs, l \in Locks : timer[l] = u => processing[u] = l

(* A goroutine that is past its Lock holds what it locked, and a callback  *)
(* has the lock of its document for as long as the document has one.       *)
Holding ==
    /\ \A c \in Callbacks : pc[c] \in AtLock => lk[c] = processing[on[c]] \/ ~Tracked(on[c])
    /\ \A c \in Callbacks : pc[c] \in {"Get", "Collect", "Unlock"} => holder[lk[c]] = c
    /\ \A t \in Threads : pc[t] \in {"Queued", "Removing"}
          => Tracked(on[t]) /\ holder[processing[on[t]]] = t
    /\ AnalysedUnderLock
    /\ LockNotUnlockedTwice

(* The diagnostics shown of a document are older than the copy that is     *)
(* analysed, which is older than what the manager has, which is older than *)
(* what the editor sent.                                                   *)
Showing ==
    /\ \A u \in URIs : ~Open(u) => shown[u] = NoDoc \/ Closing(u)
    /\ \A u \in URIs : Open(u) => Version(u) \in 1..MaxVersion
    /\ \A u \in URIs : Managed(u) => docs[u].version \in 1..MaxVersion
    /\ \A u \in URIs : Managed(u) /\ Open(u) => docs[u].version <= Version(u)
    /\ \A u \in URIs : Managed(u) /\ shown[u] # NoDoc => shown[u].version <= docs[u].version
    /\ \A c \in Callbacks : pc[c] = "Collect" =>
          /\ snap[c].version \in 1..MaxVersion
          /\ Managed(on[c]) => snap[c].version <= docs[on[c]].version
          /\ shown[on[c]] # NoDoc => shown[on[c]].version <= snap[c].version

-----------------------------------------------------------------------------
(* Every step keeps what the read loop does about which document.          *)
LEMMA LoopWorkStep ==
  OneSession /\ Basics /\ Basics' /\ LoopWork /\ [Next]_vars => LoopWork'
<1> SUFFICES ASSUME OneSession, Basics, Basics', LoopWork, [Next]_vars PROVE LoopWork'
  OBVIOUS
<1> USE NullAssumption, ThreadAssumption, SyncAssumption
<1> USE DEF OneSession, Basics, TypeOK, ManagerTypeOK, Writing, LoopWork, LoopLabels, Closing,
            Open, Step, TakeUp, PutDown, managerVars, lockVars, callbackVars, editorVars
<1>1. ASSUME NEW u \in URIs, DidOpen(u) PROVE LoopWork'
  BY <1>1 DEF DidOpen
<1>2. ASSUME NEW u \in URIs, DidChange(u) PROVE LoopWork'
  BY <1>2 DEF DidChange
<1>3. ASSUME NEW u \in URIs, DidClose(u) PROVE LoopWork'
  BY <1>3 DEF DidClose
<1>4. ASSUME NEW u \in URIs, ReadIncluded(u) PROVE LoopWork'
  BY <1>4 DEF ReadIncluded
<1>5. ASSUME NEW u \in URIs, WriteNew(u) PROVE LoopWork'
  BY <1>5 DEF WriteNew, StartOpener, Create
<1>6. ASSUME NEW u \in URIs, WriteVersion(u) PROVE LoopWork'
  BY <1>6 DEF WriteVersion, UpdateVersion
<1>7. ASSUME NEW u \in URIs, WriteInput(u) PROVE LoopWork'
  <2>1. /\ pc[Loop] = "Parse" /\ Open(u) /\ todo[Loop] = {}
        /\ on' = [on EXCEPT ![Loop] = NoURI] /\ UNCHANGED editor
    BY <1>7 DEF WriteInput
  <2>2. CASE Opening(u)
    <3>1. PICK g \in Openers : /\ pc' = [pc EXCEPT ![Loop] = "Idle", ![g] = "Fetch"]
                               /\ todo' = [todo EXCEPT ![g] = {u}]
      BY <1>7, <2>2 DEF WriteInput, StartOpener
    <3>2. pc'[Loop] = "Idle" /\ todo'[Loop] = {} /\ on'[Loop] = NoURI
      BY <2>1, <3>1
    <3> QED
      BY <2>1, <3>2
  <2>3. CASE ~Opening(u)
    <3>1. \/ pc'[Loop] = "Compute" /\ todo'[Loop] = {u}
          \/ pc'[Loop] = "Idle" /\ todo'[Loop] = {}
      BY <1>7, <2>1, <2>3 DEF WriteInput
    <3> QED
      BY <2>1, <3>1
  <2> QED
    BY <2>2, <2>3
<1>8. ASSUME NEW u \in URIs, RemoveDoc(u) PROVE LoopWork'
  BY <1>8 DEF RemoveDoc, Delete
<1>9. ASSUME NEW u \in URIs, RemoveLock(u) PROVE LoopWork'
  BY <1>9 DEF RemoveLock, Lock
<1>10. ASSUME NEW u \in URIs, RemoveProcessing(u) PROVE LoopWork'
  BY <1>10 DEF RemoveProcessing, Debounce, Untrack, Unlock, UnlockIsFatal
<1>11. ASSUME NEW u \in URIs, ClearDiagnostics(u) PROVE LoopWork'
  BY <1>11 DEF ClearDiagnostics
<1>12. ASSUME NEW u \in URIs, NEW r \in Readers, InlayHint(u, r) PROVE LoopWork'
  BY <1>12 DEF InlayHint
<1>13. ASSUME NEW r \in Refreshers, DidChangeConfiguration(r) PROVE LoopWork'
  BY <1>13 DEF DidChangeConfiguration
<1>14. ASSUME NEW t \in Openers \cup Refreshers, ConfigurationAnswer(t) PROVE LoopWork'
  BY <1>14 DEF ConfigurationAnswer, AfterFetch
<1>15. ASSUME NEW t \in Openers \cup Refreshers, StoreConfigurations(t) PROVE LoopWork'
  BY <1>15 DEF StoreConfigurations, AfterFetch
<1>16. ASSUME NEW t \in Openers \cup Refreshers, Keys(t) PROVE LoopWork'
  BY <1>16 DEF Keys, Rest
<1>17. ASSUME NEW t \in {Loop} \cup Openers \cup Refreshers, NEW u \in URIs,
               ComputeDiagnostics(t, u)
        PROVE  LoopWork'
  BY <1>17 DEF ComputeDiagnostics, Rest
<1>18. ASSUME NEW t \in {Loop} \cup Openers \cup Refreshers, QueueUntracked(t) PROVE LoopWork'
  BY <1>18 DEF QueueUntracked, Rest
<1>19. ASSUME NEW t \in {Loop} \cup Openers \cup Refreshers, QueueLock(t) PROVE LoopWork'
  BY <1>19 DEF QueueLock, Lock
<1>20. ASSUME NEW t \in {Loop} \cup Openers \cup Refreshers, Enqueue(t) PROVE LoopWork'
  BY <1>20 DEF Enqueue, Rest, Debounce, Unlock, UnlockIsFatal
<1>21. ASSUME NEW t \in {Loop} \cup Readers, ReadWithoutParsing(t) PROVE LoopWork'
  BY <1>21 DEF ReadWithoutParsing
<1>22. ASSUME NEW t \in {Loop} \cup Readers, ReadFromDisk(t) PROVE LoopWork'
  BY <1>22 DEF ReadFromDisk
<1>23. ASSUME NEW t \in {Loop} \cup Readers, Forget(t) PROVE LoopWork'
  BY <1>23 DEF Forget
<1>24. ASSUME NEW t \in Threads \ Callbacks, Enter(t) PROVE LoopWork'
  <2>1. PICK w \in WaitsForMu : Step(t, w, Inside[w])
    BY <1>24 DEF Enter
  <2>2. UNCHANGED <<on, todo, editor>>
    BY <1>24 DEF Enter
  <2>3. CASE t = Loop
    <3>1. \/ pc[Loop] = "WriteMu" /\ pc'[Loop] = "Write"
          \/ pc[Loop] = "RemoveMu" /\ pc'[Loop] = "Remove"
          \/ pc[Loop] = "QueueMu" /\ pc'[Loop] = "Queue"
      BY <2>1, <2>3 DEF Inside, WaitsForMu
    <3> QED
      BY <2>2, <3>1
  <2>4. CASE t # Loop
    BY <2>1, <2>2, <2>4
  <2> QED
    BY <2>3, <2>4
<1>25. ASSUME NEW l \in Locks, NEW c \in Callbacks, Fire(l, c) PROVE LoopWork'
  BY <1>25 DEF Fire, Debounce
<1>26. ASSUME NEW l \in Locks, FireReset(l) PROVE LoopWork'
  BY <1>26 DEF FireReset, Debounce, syncVars
<1>27. ASSUME NEW c \in Callbacks, LockDocument(c) PROVE LoopWork'
  BY <1>27 DEF LockDocument
<1>28. ASSUME NEW c \in Callbacks, Acquire(c) PROVE LoopWork'
  BY <1>28 DEF Acquire, Lock
<1>29. ASSUME NEW c \in Callbacks, CopyDocument(c) PROVE LoopWork'
  BY <1>29 DEF CopyDocument
<1>30. ASSUME NEW c \in Callbacks, PublishDiagnostics(c) PROVE LoopWork'
  BY <1>30 DEF PublishDiagnostics
<1>31. ASSUME NEW c \in Callbacks, CollectorPanic(c) PROVE LoopWork'
  BY <1>31 DEF CollectorPanic
<1>32. ASSUME NEW c \in Callbacks, UnlockDocument(c) PROVE LoopWork'
  BY <1>32 DEF UnlockDocument, Unlock, UnlockIsFatal
<1>33. ASSUME NEW t \in Threads, MapRace(t) PROVE LoopWork'
  BY <1>33 DEF MapRace
<1>34. CASE UNCHANGED vars
  BY <1>34 DEF vars, syncVars
<1> QED
  BY <1>1, <1>2, <1>3, <1>4, <1>5, <1>6, <1>7, <1>8, <1>9, <1>10, <1>11, <1>12, <1>13,
     <1>14, <1>15, <1>16, <1>17, <1>18, <1>19, <1>20, <1>21, <1>22, <1>23, <1>24, <1>25,
     <1>26, <1>27, <1>28, <1>29, <1>30, <1>31, <1>32, <1>33, <1>34 DEF Next, Receive,
     Handle, Fetch, Request, Reading, Analyse, Stutter

(* Every step keeps the life of a document: nothing is known of it before  *)
(* didOpen, and it has a lock and a timer while it is managed only.        *)
LEMMA LivesStep ==
  OneSession /\ Basics /\ Basics' /\ LoopWork /\ Holding /\ Lives /\ [Next]_vars => Lives'
<1> SUFFICES ASSUME OneSession, Basics, Basics', LoopWork, Holding, Lives, [Next]_vars
             PROVE  Lives'
  OBVIOUS
<1> USE NullAssumption, ThreadAssumption, SyncAssumption
<1> USE DEF OneSession, Basics, TypeOK, ManagerTypeOK, Writing, LoopWork, LoopLabels, Closing,
            Holding, Lives, Unknown, Removing, BeingOpened, Opening, Version, Tracked,
            Open, Step, TakeUp, PutDown, managerVars, lockVars, callbackVars, editorVars
<1>1. ASSUME NEW u \in URIs, DidOpen(u) PROVE Lives'
  BY <1>1 DEF DidOpen
<1>2. ASSUME NEW u \in URIs, DidChange(u) PROVE Lives'
  BY <1>2 DEF DidChange
<1>3. ASSUME NEW u \in URIs, DidClose(u) PROVE Lives'
  BY <1>3 DEF DidClose
<1>4. ASSUME NEW u \in URIs, ReadIncluded(u) PROVE Lives'
  BY <1>4 DEF ReadIncluded
<1>5. ASSUME NEW u \in URIs, WriteNew(u) PROVE Lives'
  BY <1>5 DEF WriteNew, StartOpener, Create
<1>6. ASSUME NEW u \in URIs, WriteVersion(u) PROVE Lives'
  BY <1>6 DEF WriteVersion, UpdateVersion
<1>7. ASSUME NEW u \in URIs, WriteInput(u) PROVE Lives'
  BY <1>7 DEF WriteInput, StartOpener, UpdateInput
<1>8. ASSUME NEW u \in URIs, RemoveDoc(u) PROVE Lives'
  BY <1>8 DEF RemoveDoc, Delete
<1>9. ASSUME NEW u \in URIs, RemoveLock(u) PROVE Lives'
  BY <1>9 DEF RemoveLock, Lock
<1>10. ASSUME NEW u \in URIs, RemoveProcessing(u) PROVE Lives'
  BY <1>10 DEF RemoveProcessing, Debounce, Untrack, Unlock, UnlockIsFatal
<1>11. ASSUME NEW u \in URIs, ClearDiagnostics(u) PROVE Lives'
  BY <1>11 DEF ClearDiagnostics
<1>12. ASSUME NEW u \in URIs, NEW r \in Readers, InlayHint(u, r) PROVE Lives'
  BY <1>12 DEF InlayHint
<1>13. ASSUME NEW r \in Refreshers, DidChangeConfiguration(r) PROVE Lives'
  BY <1>13 DEF DidChangeConfiguration
<1>14. ASSUME NEW t \in Openers \cup Refreshers, ConfigurationAnswer(t) PROVE Lives'
  BY <1>14 DEF ConfigurationAnswer, AfterFetch
<1>15. ASSUME NEW t \in Openers \cup Refreshers, StoreConfigurations(t) PROVE Lives'
  BY <1>15 DEF StoreConfigurations, AfterFetch
<1>16. ASSUME NEW t \in Openers \cup Refreshers, Keys(t) PROVE Lives'
  BY <1>16 DEF Keys, Rest
<1>17. ASSUME NEW t \in {Loop} \cup Openers \cup Refreshers, NEW u \in URIs,
               ComputeDiagnostics(t, u)
        PROVE  Lives'
  BY <1>17 DEF ComputeDiagnostics, Rest
<1>18. ASSUME NEW t \in {Loop} \cup Openers \cup Refreshers, QueueUntracked(t) PROVE Lives'
  BY <1>18 DEF QueueUntracked, Rest
<1>19. ASSUME NEW t \in {Loop} \cup Openers \cup Refreshers, QueueLock(t) PROVE Lives'
  BY <1>19 DEF QueueLock, Lock
<1>20. ASSUME NEW t \in {Loop} \cup Openers \cup Refreshers, Enqueue(t) PROVE Lives'
  BY <1>20 DEF Enqueue, Rest, Debounce, Unlock, UnlockIsFatal
<1>21. ASSUME NEW t \in {Loop} \cup Readers, ReadWithoutParsing(t) PROVE Lives'
  BY <1>21 DEF ReadWithoutParsing
<1>22. ASSUME NEW t \in {Loop} \cup Readers, ReadFromDisk(t) PROVE Lives'
  BY <1>22 DEF ReadFromDisk
<1>23. ASSUME NEW t \in {Loop} \cup Readers, Forget(t) PROVE Lives'
  BY <1>23 DEF Forget
<1>24. ASSUME NEW t \in Threads \ Callbacks, Enter(t) PROVE Lives'
  <2>1. PICK w \in WaitsForMu : Step(t, w, Inside[w])
    BY <1>24 DEF Enter
  <2>2. UNCHANGED <<processing, timer, on, editorVars>>
    BY <1>24 DEF Enter
  <2>3. \A v \in URIs : /\ BeingOpened(v)' <=> BeingOpened(v)
                        /\ Removing(v)' <=> Removing(v)
    BY <2>1, <2>2 DEF Inside, WaitsForMu
  <2> HIDE DEF BeingOpened, Removing
  <2> QED
    BY <2>2, <2>3
<1>25. ASSUME NEW l \in Locks, NEW c \in Callbacks, Fire(l, c) PROVE Lives'
  BY <1>25 DEF Fire, Debounce
<1>26. ASSUME NEW l \in Locks, FireReset(l) PROVE Lives'
  BY <1>26 DEF FireReset, Debounce, syncVars
<1>27. ASSUME NEW c \in Callbacks, LockDocument(c) PROVE Lives'
  BY <1>27 DEF LockDocument
<1>28. ASSUME NEW c \in Callbacks, Acquire(c) PROVE Lives'
  BY <1>28 DEF Acquire, Lock
<1>29. ASSUME NEW c \in Callbacks, CopyDocument(c) PROVE Lives'
  BY <1>29 DEF CopyDocument
<1>30. ASSUME NEW c \in Callbacks, PublishDiagnostics(c) PROVE Lives'
  BY <1>30 DEF PublishDiagnostics
<1>31. ASSUME NEW c \in Callbacks, CollectorPanic(c) PROVE Lives'
  BY <1>31 DEF CollectorPanic
<1>32. ASSUME NEW c \in Callbacks, UnlockDocument(c) PROVE Lives'
  BY <1>32 DEF UnlockDocument, Unlock, UnlockIsFatal
<1>33. ASSUME NEW t \in Threads, MapRace(t) PROVE Lives'
  BY <1>33 DEF MapRace
<1>34. CASE UNCHANGED vars
  BY <1>34 DEF vars, syncVars
<1> HIDE DEF OneSession, Basics, LoopWork, Lives
<1> QED
  BY <1>1, <1>2, <1>3, <1>4, <1>5, <1>6, <1>7, <1>8, <1>9, <1>10, <1>11, <1>12, <1>13,
     <1>14, <1>15, <1>16, <1>17, <1>18, <1>19, <1>20, <1>21, <1>22, <1>23, <1>24, <1>25,
     <1>26, <1>27, <1>28, <1>29, <1>30, <1>31, <1>32, <1>33, <1>34 DEF Next, Receive,
     Handle, Fetch, Request, Reading, Analyse, Stutter

(* Every step keeps the locks with those who took them.                    *)
LEMMA HoldingStep ==
  OneSession /\ Basics /\ Basics' /\ Editing /\ LoopWork /\ Lives /\ Holding
    /\ [Next]_vars => Holding'
<1> SUFFICES ASSUME OneSession, Basics, Basics', Editing, LoopWork, Lives, Holding,
                    [Next]_vars
             PROVE  Holding'
  OBVIOUS
<1> USE NullAssumption, ThreadAssumption, SyncAssumption
<1> USE DEF OneSession, Basics, TypeOK, ManagerTypeOK, MuHolder, HoldsMu, AtLock, Writing,
            Holding, AnalysedUnderLock, LockNotUnlockedTwice, Managed, Tracked,
            Open, Step, TakeUp, PutDown, LockMu, UnlockMu,
            managerVars, lockVars, callbackVars, editorVars
<1>1. ASSUME NEW u \in URIs, DidOpen(u) PROVE Holding'
  BY <1>1 DEF DidOpen
<1>2. ASSUME NEW u \in URIs, DidChange(u) PROVE Holding'
  BY <1>2 DEF DidChange
<1>3. ASSUME NEW u \in URIs, DidClose(u) PROVE Holding'
  BY <1>3 DEF DidClose
<1>4. ASSUME NEW u \in URIs, ReadIncluded(u) PROVE Holding'
  BY <1>4 DEF ReadIncluded
<1>5. ASSUME NEW u \in URIs, WriteNew(u) PROVE Holding'
  <2>1. PICK l \in Locks : /\ Fresh(l)
                          /\ processing' = [processing EXCEPT ![u] = l]
                          /\ holder' = [holder EXCEPT ![l] = NoThread]
    BY <1>5 DEF WriteNew, Create
  <2>2. PICK g \in Openers : pc' = [pc EXCEPT ![Loop] = "Idle", ![g] = "Fetch"]
    BY <1>5 DEF WriteNew, StartOpener
  <2>3. /\ mu = Loop /\ BeingOpened(u) /\ UNCHANGED <<lk, fatal>>
        /\ \A x \in Threads : x # Loop => on'[x] = on[x]
        /\ fatal = "no"
    BY <1>5 DEF WriteNew, BeingOpened
  <2>4. \A c \in Callbacks : on[c] # u
    BY <2>3 DEF Lives, Unknown
  <2>5. \A x \in Threads : pc'[x] \notin {"Queued", "Removing"}
    BY <2>2, <2>3
  <2>6. \A c \in Callbacks : pc'[c] = pc[c] /\ on'[c] = on[c] /\ lk[c] # l
    BY <2>1, <2>2, <2>3 DEF Fresh
  <2>7. ASSUME NEW c \in Callbacks, pc[c] \in AtLock
        PROVE  /\ on[c] \in URIs /\ lk[c] \in Locks
               /\ processing'[on[c]] = processing[on[c]] /\ holder'[lk[c]] = holder[lk[c]]
    <3>1. on[c] \in URIs /\ lk[c] \in Locks
      BY <2>7 DEF AtDocument
    <3>2. on[c] # u /\ lk[c] # l
      BY <2>4, <2>6
    <3> QED
      BY <2>1, <3>1, <3>2
  <2>8. \A c \in Callbacks : pc'[c] \in AtLock => lk'[c] = processing'[on'[c]] \/ ~Tracked(on[c])'
    BY <2>3, <2>6, <2>7
  <2>9. \A c \in Callbacks : pc'[c] \in {"Get", "Collect", "Unlock"} => holder'[lk'[c]] = c
    BY <2>3, <2>6, <2>7
  <2>10. AnalysedUnderLock' /\ LockNotUnlockedTwice'
    BY <2>3, <2>6, <2>7
  <2> QED
    BY <2>5, <2>8, <2>9, <2>10
<1>6. ASSUME NEW u \in URIs, WriteVersion(u) PROVE Holding'
  BY <1>6 DEF WriteVersion, UpdateVersion
<1>7. ASSUME NEW u \in URIs, WriteInput(u) PROVE Holding'
  BY <1>7 DEF WriteInput, StartOpener, UpdateInput
<1>8. ASSUME NEW u \in URIs, RemoveDoc(u) PROVE Holding'
  BY <1>8 DEF RemoveDoc, Delete
<1>9. ASSUME NEW u \in URIs, RemoveLock(u) PROVE Holding'
  BY <1>9 DEF RemoveLock, Lock
<1>10. ASSUME NEW u \in URIs, RemoveProcessing(u) PROVE Holding'
  BY <1>10 DEF RemoveProcessing, Debounce, Untrack, Unlock, UnlockIsFatal
<1>11. ASSUME NEW u \in URIs, ClearDiagnostics(u) PROVE Holding'
  BY <1>11 DEF ClearDiagnostics
<1>12. ASSUME NEW u \in URIs, NEW r \in Readers, InlayHint(u, r) PROVE Holding'
  BY <1>12 DEF InlayHint
<1>13. ASSUME NEW r \in Refreshers, DidChangeConfiguration(r) PROVE Holding'
  BY <1>13 DEF DidChangeConfiguration
<1>14. ASSUME NEW t \in Openers \cup Refreshers, ConfigurationAnswer(t) PROVE Holding'
  BY <1>14 DEF ConfigurationAnswer, AfterFetch
<1>15. ASSUME NEW t \in Openers \cup Refreshers, StoreConfigurations(t) PROVE Holding'
  BY <1>15 DEF StoreConfigurations, AfterFetch
<1>16. ASSUME NEW t \in Openers \cup Refreshers, Keys(t) PROVE Holding'
  BY <1>16 DEF Keys, Rest
<1>17. ASSUME NEW t \in {Loop} \cup Openers \cup Refreshers, NEW u \in URIs,
               ComputeDiagnostics(t, u)
        PROVE  Holding'
  <2>1. /\ UNCHANGED <<processing, holder, lk, fatal>> /\ fatal = "no"
        /\ pc'[t] \notin {"Queued", "Removing"} /\ t \notin Callbacks
        /\ \A x \in Threads : x # t => pc'[x] = pc[x] /\ on'[x] = on[x]
    BY <1>17 DEF ComputeDiagnostics, Rest
  <2>2. \A x \in Callbacks : pc'[x] = pc[x] /\ on'[x] = on[x]
    BY <2>1
  <2>3. \A x \in Threads : pc'[x] \in {"Queued", "Removing"}
           => pc[x] \in {"Queued", "Removing"} /\ on'[x] = on[x]
    BY <2>1
  <2> QED
    BY <2>1, <2>2, <2>3
<1>18. ASSUME NEW t \in {Loop} \cup Openers \cup Refreshers, QueueUntracked(t) PROVE Holding'
  BY <1>18 DEF QueueUntracked, Rest
<1>19. ASSUME NEW t \in {Loop} \cup Openers \cup Refreshers, QueueLock(t) PROVE Holding'
  BY <1>19 DEF QueueLock, Lock
<1>20. ASSUME NEW t \in {Loop} \cup Openers \cup Refreshers, Enqueue(t) PROVE Holding'
  BY <1>20 DEF Enqueue, Rest, Debounce, Unlock, UnlockIsFatal
<1>21. ASSUME NEW t \in {Loop} \cup Readers, ReadWithoutParsing(t) PROVE Holding'
  BY <1>21 DEF ReadWithoutParsing
<1>22. ASSUME NEW t \in {Loop} \cup Readers, ReadFromDisk(t) PROVE Holding'
  BY <1>22 DEF ReadFromDisk, OneSession, LoopWork, LoopLabels
<1>23. ASSUME NEW t \in {Loop} \cup Readers, Forget(t) PROVE Holding'
  BY <1>23 DEF Forget
<1>24. ASSUME NEW t \in Threads \ Callbacks, Enter(t) PROVE Holding'
  <2>1. PICK w \in WaitsForMu : Step(t, w, Inside[w])
    BY <1>24 DEF Enter
  <2>2. UNCHANGED <<processing, holder, on, lk, fatal>>
    BY <1>24 DEF Enter
  <2>3. /\ pc'[t] \notin {"Queued", "Removing"}
        /\ \A x \in Threads : x # t => pc'[x] = pc[x]
        /\ t \notin Callbacks
    BY <2>1 DEF Inside, WaitsForMu
  <2> QED
    BY <2>2, <2>3
<1>25. ASSUME NEW l \in Locks, NEW c \in Callbacks, Fire(l, c) PROVE Holding'
  BY <1>25 DEF Fire, Debounce
<1>26. ASSUME NEW l \in Locks, FireReset(l) PROVE Holding'
  BY <1>26 DEF FireReset, Debounce, syncVars
<1>27. ASSUME NEW c \in Callbacks, LockDocument(c) PROVE Holding'
  <2>1. /\ pc[c] = "Lookup" /\ on[c] \in URIs
        /\ UNCHANGED <<processing, holder, fatal>> /\ fatal = "no"
        /\ \A x \in Threads : x # c => pc'[x] = pc[x] /\ on'[x] = on[x]
        /\ \A x \in Callbacks : x # c => lk'[x] = lk[x]
    BY <1>27 DEF LockDocument, AtDocument
  <2>2. \/ pc'[c] = "Wait" /\ lk'[c] = processing[on[c]] /\ on'[c] = on[c]
        \/ pc'[c] = "Idle"
    BY <1>27, <2>1 DEF LockDocument
  <2>3. \A x \in Threads : pc'[x] \in {"Queued", "Removing"}
           => pc[x] \in {"Queued", "Removing"} /\ on'[x] = on[x]
    BY <2>1, <2>2
  <2>4. \A x \in Callbacks : pc'[x] \in {"Get", "Collect", "Unlock"}
           => /\ pc[x] \in {"Get", "Collect", "Unlock"} /\ pc'[x] = pc[x]
              /\ on'[x] = on[x] /\ lk'[x] = lk[x]
    BY <2>1, <2>2
  <2>5. ASSUME NEW x \in Callbacks, pc'[x] \in AtLock
        PROVE  lk'[x] = processing'[on'[x]] \/ processing'[on'[x]] = NoLock
    <3>1. CASE x = c
      BY <2>1, <2>2, <2>5, <3>1
    <3>2. CASE x # c
      <4>1. /\ pc'[x] = pc[x] /\ on'[x] = on[x] /\ lk'[x] = lk[x] /\ processing' = processing
            /\ pc[x] \in AtLock
        BY <2>1, <2>5, <3>2
      <4>2. lk[x] = processing[on[x]] \/ processing[on[x]] = NoLock
        BY <4>1
      <4> QED
        BY <4>1, <4>2
    <3> QED
      BY <3>1, <3>2
  <2> QED
    BY <2>1, <2>3, <2>4, <2>5
<1>28. ASSUME NEW c \in Callbacks, Acquire(c) PROVE Holding'
  BY <1>28 DEF Acquire, Lock
<1>29. ASSUME NEW c \in Callbacks, CopyDocument(c) PROVE Holding'
  <2>1. /\ pc[c] = "Get" /\ on[c] \in URIs /\ lk[c] \in Locks
        /\ UNCHANGED <<processing, holder, on, lk, fatal>> /\ fatal = "no"
        /\ \A x \in Threads : x # c => pc'[x] = pc[x]
    BY <1>29 DEF CopyDocument, AtDocument
  <2>2. pc'[c] = "Unlock" \/ (pc'[c] = "Collect" /\ Managed(on[c]))
    BY <1>29, <2>1 DEF CopyDocument
  <2>3. Managed(on[c]) => lk[c] = processing[on[c]]
    BY <2>1 DEF Editing
  <2>4. \A x \in Callbacks : x # c => pc'[x] = pc[x]
    BY <2>1
  <2>5. \A x \in Callbacks : /\ pc'[x] \in AtLock => pc[x] \in AtLock
                            /\ pc'[x] \in {"Get", "Collect", "Unlock"}
                                 => pc[x] \in {"Get", "Collect", "Unlock"}
    BY <2>1, <2>4
  <2>6. AnalysedUnderLock' /\ LockNotUnlockedTwice'
    <3>1. holder[lk[c]] = c
      BY <2>1
    <3> QED
      BY <2>1, <2>2, <2>3, <2>4, <3>1
  <2>7. \A x \in Threads : pc'[x] \in {"Queued", "Removing"}
           => pc[x] \in {"Queued", "Removing"}
    BY <2>1, <2>2
  <2> QED
    BY <2>1, <2>5, <2>6, <2>7
<1>30. ASSUME NEW c \in Callbacks, PublishDiagnostics(c) PROVE Holding'
  BY <1>30 DEF PublishDiagnostics
<1>31. ASSUME NEW c \in Callbacks, CollectorPanic(c) PROVE Holding'
  BY <1>31 DEF CollectorPanic
<1>32. ASSUME NEW c \in Callbacks, UnlockDocument(c) PROVE Holding'
  <2>1. /\ pc[c] = "Unlock" /\ on[c] \in URIs /\ lk[c] \in Locks /\ fatal = "no"
        /\ UNCHANGED processing
        /\ pc' = [pc EXCEPT ![c] = "Idle"]
        /\ \A x \in Threads : x # c => on'[x] = on[x]
        /\ \A x \in Callbacks : x # c => lk'[x] = lk[x]
    BY <1>32 DEF UnlockDocument, AtDocument
  <2>2. holder[lk[c]] = c /\ (Tracked(on[c]) => lk[c] = processing[on[c]])
    BY <2>1
  <2>3. /\ fatal' = "no"
        /\ holder' = holder \/ holder' = [holder EXCEPT ![lk[c]] = NoThread]
    BY <1>32, <2>1, <2>2 DEF UnlockDocument, Unlock, UnlockIsFatal
  <2>4. \A l \in Locks : holder[l] # c => holder'[l] = holder[l]
    BY <2>2, <2>3
  <2>5. ASSUME NEW x \in Threads, x # c
        PROVE  /\ x \in Callbacks /\ pc[x] \in {"Get", "Collect", "Unlock"}
                    => holder'[lk[x]] = x
               /\ pc[x] \in {"Queued", "Removing"} => holder'[processing[on[x]]] = x
    <3>1. pc[x] \in {"Queued", "Removing"} => processing[on[x]] \in Locks
      BY DEF AtDocument
    <3>2. x \in Callbacks /\ pc[x] \in AtLock => lk[x] \in Locks
      OBVIOUS
    <3> QED
      BY <2>4, <2>5, <3>1, <3>2
  <2>6. /\ \A x \in Threads : x # c => pc'[x] = pc[x]
        /\ pc'[c] = "Idle"
        /\ \A x \in Callbacks : x \in Threads
    BY <2>1
  <2> QED
    BY <2>1, <2>3, <2>5, <2>6
<1>33. ASSUME NEW t \in Threads, MapRace(t) PROVE Holding'
  BY <1>33 DEF MapRace
<1>34. CASE UNCHANGED vars
  BY <1>34 DEF vars, syncVars
<1> QED
  BY <1>1, <1>2, <1>3, <1>4, <1>5, <1>6, <1>7, <1>8, <1>9, <1>10, <1>11, <1>12, <1>13,
     <1>14, <1>15, <1>16, <1>17, <1>18, <1>19, <1>20, <1>21, <1>22, <1>23, <1>24, <1>25,
     <1>26, <1>27, <1>28, <1>29, <1>30, <1>31, <1>32, <1>33, <1>34 DEF Next, Receive,
     Handle, Fetch, Request, Reading, Analyse, Stutter

(* Every step keeps the versions in order.                                 *)
LEMMA ShowingStep ==
  OneSession /\ Basics /\ Basics' /\ Editing /\ LoopWork /\ Lives /\ Holding /\ Showing
    /\ [Next]_vars => Showing'
<1> SUFFICES ASSUME OneSession, Basics, Basics', Editing, LoopWork, Lives, Holding, Showing,
                    [Next]_vars
             PROVE  Showing'
  OBVIOUS
<1> USE NullAssumption, NoDocAssumption, ThreadAssumption, SyncAssumption
<1> USE DEF OneSession, Basics, TypeOK, ManagerTypeOK, Doc, Writing, LoopWork, LoopLabels,
            Showing, Closing, Managed, Version, Text,
            Open, Step, TakeUp, PutDown, managerVars, lockVars, callbackVars, editorVars
<1>1. ASSUME NEW u \in URIs, DidOpen(u) PROVE Showing'
  <2>1. PICK x \in Texts : editor' = [editor EXCEPT ![u] = <<x>>]
    BY <1>1 DEF DidOpen
  <2>2. Unknown(u) /\ ~Managed(u)
    BY <1>1 DEF DidOpen, Lives, Unknown, Editing, Tracked
  <2>3. Len(editor'[u]) = 1 /\ \A v \in URIs : v # u => editor'[v] = editor[v]
    BY <2>1
  <2>4. /\ pc' = [pc EXCEPT ![Loop] = "WriteMu"] /\ pc[Loop] = "Idle"
        /\ \A y \in Threads : y # Loop => on'[y] = on[y]
        /\ UNCHANGED <<docs, shown, snap>>
    BY <1>1 DEF DidOpen
  <2>5. 1 \in 1..MaxVersion
    OBVIOUS
  <2> HIDE DEF Closing
  <2>6. \A v \in URIs : ~Closing(v)
    BY <2>4 DEF Closing
  <2>7. ASSUME NEW v \in URIs
        PROVE  /\ ~Open(v)' => shown[v] = NoDoc
               /\ Open(v)' => Version(v)' \in 1..MaxVersion
               /\ Managed(v) /\ Open(v)' => docs[v].version <= Version(v)'
    <3>1. CASE v = u
      <4>1. editor'[v] # <<>>
        BY <2>1, <3>1
      <4> QED
        BY <2>2, <2>3, <2>5, <3>1, <4>1
    <3>2. CASE v # u
      BY <2>3, <2>6, <3>2
    <3> QED
      BY <3>1, <3>2
  <2>8. \A c \in Callbacks : /\ pc'[c] = "Collect" => pc[c] = "Collect"
                             /\ on'[c] = on[c]
    BY <2>4
  <2> QED
    BY <2>4, <2>7, <2>8
<1>2. ASSUME NEW u \in URIs, DidChange(u) PROVE Showing'
  BY <1>2 DEF DidChange
<1>3. ASSUME NEW u \in URIs, DidClose(u) PROVE Showing'
  BY <1>3 DEF DidClose
<1>4. ASSUME NEW u \in URIs, ReadIncluded(u) PROVE Showing'
  BY <1>4 DEF ReadIncluded
<1>5. ASSUME NEW u \in URIs, WriteNew(u) PROVE Showing'
  <2>1. /\ BeingOpened(u) /\ pc[Loop] = "Write" /\ Version(u) = 1 /\ Open(u)
        /\ docs' = [docs EXCEPT ![u] = [version |-> Version(u), text |-> Text(u)]]
        /\ UNCHANGED <<shown, editor, snap>>
        /\ \A x \in Threads : x # Loop => on'[x] = on[x]
    BY <1>5 DEF WriteNew, BeingOpened, Create, Opening
  <2>2. Unknown(u)
    BY <2>1 DEF Lives
  <2>3. PICK g \in Openers : pc' = [pc EXCEPT ![Loop] = "Idle", ![g] = "Fetch"]
    BY <1>5 DEF WriteNew, StartOpener
  <2>4. \A c \in Callbacks : pc'[c] = pc[c] /\ on'[c] = on[c] /\ on[c] # u
    BY <2>1, <2>2, <2>3 DEF Unknown
  <2>5. /\ docs'[u].version = Version(u) /\ \A v \in URIs : v # u => docs'[v] = docs[v]
        /\ shown[u] = NoDoc
    BY <2>1, <2>2 DEF Unknown
  <2>6. \A v \in URIs : Closing(v) => v = u
    BY <2>1
  <2>7. \A c \in Callbacks : pc[c] = "Collect" => on[c] \in URIs
    BY DEF AtDocument
  <2>8. Version(u) \in 1..MaxVersion
    BY <2>1
  <2> HIDE DEF Closing, Version
  <2> QED
    BY <2>1, <2>4, <2>5, <2>6, <2>7, <2>8 DEF Version
<1>6. ASSUME NEW u \in URIs, WriteVersion(u) PROVE Showing'
  BY <1>6 DEF WriteVersion, UpdateVersion
<1>7. ASSUME NEW u \in URIs, WriteInput(u) PROVE Showing'
  BY <1>7 DEF WriteInput, StartOpener, UpdateInput
<1>8. ASSUME NEW u \in URIs, RemoveDoc(u) PROVE Showing'
  BY <1>8 DEF RemoveDoc, Delete
<1>9. ASSUME NEW u \in URIs, RemoveLock(u) PROVE Showing'
  BY <1>9 DEF RemoveLock, Lock
<1>10. ASSUME NEW u \in URIs, RemoveProcessing(u) PROVE Showing'
  BY <1>10 DEF RemoveProcessing, Debounce, Untrack, Unlock, UnlockIsFatal
<1>11. ASSUME NEW u \in URIs, ClearDiagnostics(u) PROVE Showing'
  BY <1>11 DEF ClearDiagnostics
<1>12. ASSUME NEW u \in URIs, NEW r \in Readers, InlayHint(u, r) PROVE Showing'
  BY <1>12 DEF InlayHint
<1>13. ASSUME NEW r \in Refreshers, DidChangeConfiguration(r) PROVE Showing'
  BY <1>13 DEF DidChangeConfiguration
<1>14. ASSUME NEW t \in Openers \cup Refreshers, ConfigurationAnswer(t) PROVE Showing'
  BY <1>14 DEF ConfigurationAnswer, AfterFetch
<1>15. ASSUME NEW t \in Openers \cup Refreshers, StoreConfigurations(t) PROVE Showing'
  BY <1>15 DEF StoreConfigurations, AfterFetch
<1>16. ASSUME NEW t \in Openers \cup Refreshers, Keys(t) PROVE Showing'
  BY <1>16 DEF Keys, Rest
<1>17. ASSUME NEW t \in {Loop} \cup Openers \cup Refreshers, NEW u \in URIs,
               ComputeDiagnostics(t, u)
        PROVE  Showing'
  BY <1>17 DEF ComputeDiagnostics, Rest
<1>18. ASSUME NEW t \in {Loop} \cup Openers \cup Refreshers, QueueUntracked(t) PROVE Showing'
  BY <1>18 DEF QueueUntracked, Rest
<1>19. ASSUME NEW t \in {Loop} \cup Openers \cup Refreshers, QueueLock(t) PROVE Showing'
  BY <1>19 DEF QueueLock, Lock
<1>20. ASSUME NEW t \in {Loop} \cup Openers \cup Refreshers, Enqueue(t) PROVE Showing'
  BY <1>20 DEF Enqueue, Rest, Debounce, Unlock, UnlockIsFatal
<1>21. ASSUME NEW t \in {Loop} \cup Readers, ReadWithoutParsing(t) PROVE Showing'
  BY <1>21 DEF ReadWithoutParsing
<1>22. ASSUME NEW t \in {Loop} \cup Readers, ReadFromDisk(t) PROVE Showing'
  BY <1>22 DEF ReadFromDisk
<1>23. ASSUME NEW t \in {Loop} \cup Readers, Forget(t) PROVE Showing'
  BY <1>23 DEF Forget
<1>24. ASSUME NEW t \in Threads \ Callbacks, Enter(t) PROVE Showing'
  <2>1. PICK w \in WaitsForMu : Step(t, w, Inside[w])
    BY <1>24 DEF Enter
  <2>2. UNCHANGED <<docs, on, shown, editor, snap>>
    BY <1>24 DEF Enter
  <2>3. \A v \in URIs : Closing(v)' <=> Closing(v)
    BY <2>1, <2>2 DEF Inside, WaitsForMu
  <2>4. \A c \in Callbacks : pc'[c] = pc[c]
    BY <2>1
  <2> HIDE DEF Closing
  <2> QED
    BY <2>2, <2>3, <2>4
<1>25. ASSUME NEW l \in Locks, NEW c \in Callbacks, Fire(l, c) PROVE Showing'
  BY <1>25 DEF Fire, Debounce
<1>26. ASSUME NEW l \in Locks, FireReset(l) PROVE Showing'
  BY <1>26 DEF FireReset, Debounce, syncVars
<1>27. ASSUME NEW c \in Callbacks, LockDocument(c) PROVE Showing'
  <2>1. /\ UNCHANGED <<docs, shown, editor, snap>>
        /\ \A x \in Threads : x # c => pc'[x] = pc[x] /\ on'[x] = on[x]
        /\ pc'[c] # "Collect" /\ Loop # c
    BY <1>27 DEF LockDocument
  <2>2. \A x \in Callbacks : pc'[x] = "Collect" => pc[x] = "Collect" /\ on'[x] = on[x]
    BY <2>1
  <2>3. \A v \in URIs : Closing(v)' <=> Closing(v)
    BY <2>1
  <2> HIDE DEF Closing
  <2> QED
    BY <2>1, <2>2, <2>3
<1>28. ASSUME NEW c \in Callbacks, Acquire(c) PROVE Showing'
  BY <1>28 DEF Acquire, Lock
<1>29. ASSUME NEW c \in Callbacks, CopyDocument(c) PROVE Showing'
  <2>1. /\ UNCHANGED <<docs, shown, editor, on>> /\ on[c] \in URIs /\ Loop # c
        /\ \A x \in Threads : x # c => pc'[x] = pc[x]
        /\ \A x \in Callbacks : x # c => snap'[x] = snap[x]
    BY <1>29 DEF CopyDocument, AtDocument
  <2>2. pc'[c] = "Collect" => Managed(on[c]) /\ snap'[c] = docs[on[c]]
    BY <1>29 DEF CopyDocument
  <2>3. \A v \in URIs : Closing(v)' <=> Closing(v)
    BY <2>1
  <2>4. Managed(on[c]) => /\ docs[on[c]].version \in 1..MaxVersion
                          /\ shown[on[c]] # NoDoc => shown[on[c]].version <= docs[on[c]].version
    BY <2>1
  <2> HIDE DEF Closing
  <2>5. ASSUME NEW x \in Callbacks, pc'[x] = "Collect"
        PROVE  /\ snap'[x].version \in 1..MaxVersion
               /\ Managed(on[x]) => snap'[x].version <= docs[on[x]].version
               /\ shown[on[x]] # NoDoc => shown[on[x]].version <= snap'[x].version
    <3>1. CASE x = c
      BY <2>2, <2>4, <2>5, <3>1
    <3>2. CASE x # c
      BY <2>1, <2>5, <3>2
    <3> QED
      BY <3>1, <3>2
  <2> QED
    BY <2>1, <2>3, <2>5
<1>30. ASSUME NEW c \in Callbacks, PublishDiagnostics(c) PROVE Showing'
  <2>1. /\ UNCHANGED <<docs, editor, on, snap>> /\ on[c] \in URIs /\ Loop # c
        /\ \A x \in Threads : x # c => pc'[x] = pc[x]
        /\ pc[c] = "Collect" /\ pc'[c] = "Unlock"
        /\ shown' = [shown EXCEPT ![on[c]] = snap[c]]
    BY <1>30 DEF PublishDiagnostics, AtDocument
  <2>2. /\ lk[c] = processing[on[c]] /\ holder[lk[c]] = c /\ lk[c] \in Locks
        /\ snap[c].version \in 1..MaxVersion
        /\ Managed(on[c]) => snap[c].version <= docs[on[c]].version
    BY <2>1 DEF Holding, AnalysedUnderLock, AtLock
  <2>3. Open(on[c]) \/ Closing(on[c])
    BY <2>1, <2>2 DEF Lives, Tracked, Removing
  <2>4. \A x \in Callbacks : pc'[x] = "Collect" => pc[x] = "Collect" /\ on[x] # on[c]
    BY <2>1, <2>2 DEF Holding, AnalysedUnderLock
  <2>5. \A v \in URIs : Closing(v)' <=> Closing(v)
    BY <2>1
  <2>6. /\ shown'[on[c]] = snap[c]
        /\ \A v \in URIs : v # on[c] => shown'[v] = shown[v]
        /\ \A x \in Callbacks : pc[x] = "Collect" => on[x] \in URIs
    BY <2>1 DEF AtDocument
  <2> HIDE DEF Closing, Open
  <2>7. \A v \in URIs : ~Open(v)' => shown'[v] = NoDoc \/ Closing(v)'
    BY <2>1, <2>3, <2>5, <2>6 DEF Open
  <2>8. \A v \in URIs : Managed(v) /\ shown'[v] # NoDoc => shown'[v].version <= docs[v].version
    BY <2>2, <2>6
  <2> QED
    BY <2>1, <2>4, <2>6, <2>7, <2>8 DEF Open
<1>31. ASSUME NEW c \in Callbacks, CollectorPanic(c) PROVE Showing'
  BY <1>31 DEF CollectorPanic
<1>32. ASSUME NEW c \in Callbacks, UnlockDocument(c) PROVE Showing'
  BY <1>32 DEF UnlockDocument, Unlock, UnlockIsFatal
<1>33. ASSUME NEW t \in Threads, MapRace(t) PROVE Showing'
  BY <1>33 DEF MapRace
<1>34. CASE UNCHANGED vars
  BY <1>34 DEF vars, syncVars
<1> HIDE DEF OneSession, Basics, Showing
<1> QED
  BY <1>1, <1>2, <1>3, <1>4, <1>5, <1>6, <1>7, <1>8, <1>9, <1>10, <1>11, <1>12, <1>13,
     <1>14, <1>15, <1>16, <1>17, <1>18, <1>19, <1>20, <1>21, <1>22, <1>23, <1>24, <1>25,
     <1>26, <1>27, <1>28, <1>29, <1>30, <1>31, <1>32, <1>33, <1>34 DEF Next, Receive,
     Handle, Fetch, Request, Reading, Analyse, Stutter

-----------------------------------------------------------------------------
SessionInv == LoopWork /\ Lives /\ Holding /\ Showing

(* No document was opened at the start.                                    *)
LEMMA SessionInit == OneSession /\ Init => SessionInv
<1> SUFFICES ASSUME OneSession, Init PROVE SessionInv
  OBVIOUS
<1>1. /\ Loop \in Threads /\ Callbacks \subseteq Threads
      /\ \A t \in Threads : pc[t] = "Idle" /\ on[t] = NoURI /\ todo[t] = {}
      /\ \A u \in URIs : /\ ~Managed(u) /\ ~Open(u) /\ ~Tracked(u) /\ sessions[u] = 0
                          /\ shown[u] = NoDoc /\ u # NoURI
      /\ \A l \in Locks : timer[l] = NoTimer
      /\ fatal = "no"
  BY ThreadAssumption, SyncAssumption DEF Init, ManagerInit, Managed, Open, Tracked
<1>2. LoopWork
  BY <1>1 DEF LoopWork, LoopLabels, Closing
<1>3. Lives
  BY <1>1, NullAssumption DEF Lives, Unknown
<1>4. Holding
  BY <1>1 DEF Holding, AnalysedUnderLock, LockNotUnlockedTwice, AtLock
<1>5. Showing
  BY <1>1 DEF Showing
<1> QED
  BY <1>2, <1>3, <1>4, <1>5 DEF SessionInv

(* The inductive invariant of documents that are opened once.              *)
THEOREM SessionCorrect ==
  ASSUME OneSession PROVE Spec => []SessionInv
<1>1. Init => SessionInv
  BY SessionInit
<1>2. Basics /\ Basics' /\ Editing /\ SessionInv /\ [Next]_vars => SessionInv'
  BY LoopWorkStep, LivesStep, HoldingStep, ShowingStep DEF SessionInv
<1> QED
  BY <1>1, <1>2, BasicsCorrect, EditingCorrect, PTL DEF Spec

(* The collectors run on a document only under the lock that it has: the   *)
(* analyses of one document exclude each other (AnalysedUnderLock).        *)
THEOREM AnalysesExcluded ==
  ASSUME OneSession PROVE Spec => []AnalysedUnderLock
<1>1. SessionInv => AnalysedUnderLock
  BY DEF SessionInv, Holding
<1> QED
  BY <1>1, SessionCorrect, PTL

(* No path through Queue, removeAndCleanup and the callback unlocks a      *)
(* mutex that is not locked (LockNotUnlockedTwice).                        *)
THEOREM UnlocksMatchLocks ==
  ASSUME OneSession PROVE Spec => []LockNotUnlockedTwice
<1>1. SessionInv => LockNotUnlockedTwice
  BY DEF SessionInv, Holding
<1> QED
  BY <1>1, SessionCorrect, PTL

(* When didClose has been handled, the editor shows no diagnostics of the  *)
(* document, whatever was pending or running (ClosedShowsNothing).         *)
THEOREM ClosedIsCleared ==
  ASSUME OneSession PROVE Spec => []ClosedShowsNothing
<1>1. SessionInv => ClosedShowsNothing
  BY DEF SessionInv, Showing, ClosedShowsNothing, Closing
<1> QED
  BY <1>1, SessionCorrect, PTL

(* The steps that change what the editor sends or shows of a document, or  *)
(* whether it is being closed.                                             *)
LEMMA SeenByEditor ==
  OneSession /\ Basics /\ LoopWork /\ [Next]_vars =>
    \/ UNCHANGED <<editor, shown>> /\ \A v \in URIs : Closing(v)' <=> Closing(v)
    \/ \E u \in URIs : DidOpen(u) \/ DidChange(u) \/ DidClose(u) \/ ClearDiagnostics(u)
    \/ \E c \in Callbacks : PublishDiagnostics(c)
<1> DEFINE Unseen == UNCHANGED <<editor, shown>> /\ \A v \in URIs : Closing(v)' <=> Closing(v)
<1> SUFFICES ASSUME OneSession, Basics, LoopWork, [Next]_vars,
                    \A u \in URIs : ~DidOpen(u) /\ ~DidChange(u) /\ ~DidClose(u),
                    \A u \in URIs : ~ClearDiagnostics(u),
                    \A c \in Callbacks : ~PublishDiagnostics(c)
             PROVE  Unseen
  OBVIOUS
<1> USE NullAssumption, ThreadAssumption, SyncAssumption
<1> USE DEF OneSession, Basics, TypeOK, ManagerTypeOK, LoopWork, LoopLabels, Closing,
            Step, TakeUp, PutDown, managerVars, lockVars, callbackVars, editorVars
<1>1. ASSUME NEW u \in URIs, DidOpen(u) PROVE Unseen
  BY <1>1 DEF DidOpen
<1>2. ASSUME NEW u \in URIs, DidChange(u) PROVE Unseen
  BY <1>2 DEF DidChange
<1>3. ASSUME NEW u \in URIs, DidClose(u) PROVE Unseen
  BY <1>3 DEF DidClose
<1>4. ASSUME NEW u \in URIs, ReadIncluded(u) PROVE Unseen
  BY <1>4 DEF ReadIncluded
<1>5. ASSUME NEW u \in URIs, WriteNew(u) PROVE Unseen
  BY <1>5 DEF WriteNew, StartOpener, Create
<1>6. ASSUME NEW u \in URIs, WriteVersion(u) PROVE Unseen
  BY <1>6 DEF WriteVersion, UpdateVersion
<1>7. ASSUME NEW u \in URIs, WriteInput(u) PROVE Unseen
  BY <1>7 DEF WriteInput, StartOpener, UpdateInput
<1>8. ASSUME NEW u \in URIs, RemoveDoc(u) PROVE Unseen
  BY <1>8 DEF RemoveDoc, Delete
<1>9. ASSUME NEW u \in URIs, RemoveLock(u) PROVE Unseen
  BY <1>9 DEF RemoveLock, Lock
<1>10. ASSUME NEW u \in URIs, RemoveProcessing(u) PROVE Unseen
  BY <1>10 DEF RemoveProcessing, Debounce, Untrack, Unlock, UnlockIsFatal
<1>11. ASSUME NEW u \in URIs, ClearDiagnostics(u) PROVE Unseen
  BY <1>11 DEF ClearDiagnostics
<1>12. ASSUME NEW u \in URIs, NEW r \in Readers, InlayHint(u, r) PROVE Unseen
  BY <1>12 DEF InlayHint
<1>13. ASSUME NEW r \in Refreshers, DidChangeConfiguration(r) PROVE Unseen
  BY <1>13 DEF DidChangeConfiguration
<1>14. ASSUME NEW t \in Openers \cup Refreshers, ConfigurationAnswer(t) PROVE Unseen
  BY <1>14 DEF ConfigurationAnswer, AfterFetch
<1>15. ASSUME NEW t \in Openers \cup Refreshers, StoreConfigurations(t) PROVE Unseen
  BY <1>15 DEF StoreConfigurations, AfterFetch
<1>16. ASSUME NEW t \in Openers \cup Refreshers, Keys(t) PROVE Unseen
  BY <1>16 DEF Keys, Rest
<1>17. ASSUME NEW t \in {Loop} \cup Openers \cup Refreshers, NEW u \in URIs,
               ComputeDiagnostics(t, u)
        PROVE  Unseen
  BY <1>17 DEF ComputeDiagnostics, Rest
<1>18. ASSUME NEW t \in {Loop} \cup Openers \cup Refreshers, QueueUntracked(t) PROVE Unseen
  BY <1>18 DEF QueueUntracked, Rest
<1>19. ASSUME NEW t \in {Loop} \cup Openers \cup Refreshers, QueueLock(t) PROVE Unseen
  BY <1>19 DEF QueueLock, Lock
<1>20. ASSUME NEW t \in {Loop} \cup Openers \cup Refreshers, Enqueue(t) PROVE Unseen
  BY <1>20 DEF Enqueue, Rest, Debounce, Unlock, UnlockIsFatal
<1>21. ASSUME NEW t \in {Loop} \cup Readers, ReadWithoutParsing(t) PROVE Unseen
  BY <1>21 DEF ReadWithoutParsing
<1>22. ASSUME NEW t \in {Loop} \cup Readers, ReadFromDisk(t) PROVE Unseen
  BY <1>22 DEF ReadFromDisk
<1>23. ASSUME NEW t \in {Loop} \cup Readers, Forget(t) PROVE Unseen
  BY <1>23 DEF Forget
<1>24. ASSUME NEW t \in Threads \ Callbacks, Enter(t) PROVE Unseen
  <2>1. PICK w \in WaitsForMu : Step(t, w, Inside[w])
    BY <1>24 DEF Enter
  <2>2. UNCHANGED <<on, editor, shown>>
    BY <1>24 DEF Enter
  <2> QED
    BY <2>1, <2>2 DEF Inside, WaitsForMu
<1>25. ASSUME NEW l \in Locks, NEW c \in Callbacks, Fire(l, c) PROVE Unseen
  BY <1>25 DEF Fire, Debounce
<1>26. ASSUME NEW l \in Locks, FireReset(l) PROVE Unseen
  BY <1>26 DEF FireReset, Debounce, syncVars
<1>27. ASSUME NEW c \in Callbacks, LockDocument(c) PROVE Unseen
  BY <1>27 DEF LockDocument
<1>28. ASSUME NEW c \in Callbacks, Acquire(c) PROVE Unseen
  BY <1>28 DEF Acquire, Lock
<1>29. ASSUME NEW c \in Callbacks, CopyDocument(c) PROVE Unseen
  BY <1>29 DEF CopyDocument
<1>30. ASSUME NEW c \in Callbacks, PublishDiagnostics(c) PROVE Unseen
  BY <1>30 DEF PublishDiagnostics
<1>31. ASSUME NEW c \in Callbacks, CollectorPanic(c) PROVE Unseen
  BY <1>31 DEF CollectorPanic
<1>32. ASSUME NEW c \in Callbacks, UnlockDocument(c) PROVE Unseen
  BY <1>32 DEF UnlockDocument, Unlock, UnlockIsFatal
<1>33. ASSUME NEW t \in Threads, MapRace(t) PROVE Unseen
  BY <1>33 DEF MapRace
<1>34. CASE UNCHANGED vars
  BY <1>34 DEF vars, syncVars
<1> QED
  BY <1>1, <1>2, <1>3, <1>4, <1>5, <1>6, <1>7, <1>8, <1>9, <1>10, <1>11, <1>12, <1>13,
     <1>14, <1>15, <1>16, <1>17, <1>18, <1>19, <1>20, <1>21, <1>22, <1>23, <1>24, <1>25,
     <1>26, <1>27, <1>28, <1>29, <1>30, <1>31, <1>32, <1>33, <1>34 DEF Next, Receive,
     Handle, Fetch, Request, Reading, Analyse, Stutter

(* The diagnostics of an older version never replace those of a newer one. *)
LEMMA GrowingStep ==
  OneSession /\ Basics /\ SessionInv /\ [Next]_vars =>
    [\A u \in URIs : shown[u] # NoDoc /\ shown'[u] # NoDoc
        => shown[u].version <= shown'[u].version]_vars
<1> SUFFICES ASSUME OneSession, Basics, SessionInv, [Next]_vars, NEW u \in URIs,
                    shown[u] # NoDoc, shown'[u] # NoDoc
             PROVE  shown[u].version <= shown'[u].version
  OBVIOUS
<1>1. shown \in [URIs -> Doc \cup {NoDoc}] /\ shown[u].version \in Nat
  BY DEF Basics, TypeOK, Doc
<1>2. CASE shown'[u] = shown[u]
  BY <1>1, <1>2
<1>3. ASSUME NEW v \in URIs, DidOpen(v) \/ DidChange(v) \/ DidClose(v) \/ ClearDiagnostics(v)
      PROVE  shown[u].version <= shown'[u].version
  BY <1>1, <1>3 DEF DidOpen, DidChange, DidClose, ClearDiagnostics, editorVars
<1>4. ASSUME NEW c \in Callbacks, PublishDiagnostics(c)
      PROVE  shown[u].version <= shown'[u].version
  BY <1>1, <1>4 DEF PublishDiagnostics, Step, SessionInv, Showing
<1> QED
  BY <1>2, <1>3, <1>4, SeenByEditor DEF SessionInv

(* The diagnostics shown of a document never get older                     *)
(* (ShownVersionGrows).                                                    *)
THEOREM VersionsGrow ==
  ASSUME OneSession PROVE Spec => ShownVersionGrows
<1> QED
  BY GrowingStep, BasicsCorrect, SessionCorrect, PTL DEF Spec, ShownVersionGrows


-----------------------------------------------------------------------------
(* The service starts with every document closed.                          *)
LEMMA ServiceInit == Init => \A u \in URIs : Service(u)!ServiceInit
<1> SUFFICES ASSUME Init, NEW u \in URIs PROVE Service(u)!ServiceInit
  OBVIOUS
<1>1. /\ editor[u] = <<>> /\ shown[u] = NoDoc /\ pc[Loop] = "Idle"
  BY ThreadAssumption DEF Init
<1> QED
  BY <1>1 DEF Service!ServiceInit, Open, Version

(* What the service has of a document: its status is that of the read      *)
(* loop, and its diagnostics are those that the editor shows.              *)
StatusOf(u) == IF Open(u) THEN "open" ELSE IF Closing(u) THEN "closing" ELSE "closed"
ShownOf(u)  == IF shown[u] = NoDoc THEN 0 ELSE shown[u].version

LEMMA ServiceState ==
  ASSUME Basics, LoopWork, NEW u \in URIs
  PROVE  StatusOf(u) = IF Open(u) THEN "open"
                       ELSE IF pc[Loop] # "Idle" /\ on[Loop] = u THEN "closing" ELSE "closed"
<1>1. ~Open(u) => (Closing(u) <=> pc[Loop] # "Idle" /\ on[Loop] = u)
  BY SyncAssumption DEF Basics, Writing, LoopWork, LoopLabels, Closing
<1> QED
  BY <1>1 DEF StatusOf

(* Every step of the server is a step of the service, or changes nothing   *)
(* that the service has, for each document.                                *)
LEMMA ServiceStep ==
  OneSession /\ Basics /\ Basics' /\ Editing /\ SessionInv /\ SessionInv' /\ [Next]_vars
    => \A u \in URIs : [Service(u)!ServiceNext]_(Service(u)!serviceVars)
<1> SUFFICES ASSUME OneSession, Basics, Basics', Editing, SessionInv, SessionInv', [Next]_vars,
                    NEW u \in URIs
             PROVE  [Service(u)!ServiceNext]_(Service(u)!serviceVars)
  OBVIOUS
<1> DEFINE Same == StatusOf(u)' = StatusOf(u) /\ Version(u)' = Version(u)
                   /\ ShownOf(u)' = ShownOf(u)
           Opens == /\ StatusOf(u) = "closed" /\ StatusOf(u)' = "open"
                    /\ Version(u)' = 1 /\ ShownOf(u)' = ShownOf(u)
           Changes == /\ StatusOf(u) = "open" /\ Version(u)' = Version(u) + 1
                      /\ StatusOf(u)' = StatusOf(u) /\ ShownOf(u)' = ShownOf(u)
           Closes == /\ StatusOf(u) = "open" /\ StatusOf(u)' = "closing"
                     /\ Version(u)' = 0 /\ ShownOf(u)' = ShownOf(u)
           Clears == /\ StatusOf(u) = "closing" /\ StatusOf(u)' = "closed"
                     /\ ShownOf(u)' = 0 /\ Version(u)' = Version(u)
           Shows(v) == /\ (StatusOf(u) = "open" /\ v <= Version(u)) \/ StatusOf(u) = "closing"
                       /\ v >= ShownOf(u) /\ ShownOf(u)' = v
                       /\ StatusOf(u)' = StatusOf(u) /\ Version(u)' = Version(u)
<1>1. StatusOf(u) = IF Open(u) THEN "open"
                    ELSE IF pc[Loop] # "Idle" /\ on[Loop] = u THEN "closing" ELSE "closed"
  BY ServiceState DEF SessionInv
<1>2. (StatusOf(u) = IF Open(u) THEN "open"
                     ELSE IF pc[Loop] # "Idle" /\ on[Loop] = u THEN "closing" ELSE "closed")'
  BY SyncAssumption DEF Basics, Writing, SessionInv, LoopWork, LoopLabels, Closing, StatusOf
<1>3. ASSUME Same PROVE UNCHANGED Service(u)!serviceVars
  BY <1>1, <1>2, <1>3 DEF ShownOf, Service!serviceVars
<1>4. ASSUME Opens PROVE Service(u)!Open
  BY <1>1, <1>2, <1>4 DEF ShownOf, Service!Open
<1>5. ASSUME Changes PROVE Service(u)!Change
  BY <1>1, <1>2, <1>5 DEF ShownOf, Service!Change
<1>6. ASSUME Closes PROVE Service(u)!Close
  BY <1>1, <1>2, <1>6 DEF ShownOf, Service!Close
<1>7. ASSUME Clears PROVE Service(u)!Clear
  BY <1>1, <1>2, <1>7 DEF ShownOf, Service!Clear
<1>8. ASSUME NEW v \in 1..MaxVersion, Shows(v) PROVE Service(u)!Show(v)
  BY <1>1, <1>2, <1>8 DEF ShownOf, Service!Show
<1>9. SUFFICES Same \/ Opens \/ Changes \/ Closes \/ Clears
               \/ \E v \in 1..MaxVersion : Shows(v)
  BY <1>3, <1>4, <1>5, <1>6, <1>7, <1>8 DEF Service!ServiceNext
<1>10. ASSUME UNCHANGED <<editor, shown>>, \A v \in URIs : Closing(v)' <=> Closing(v)
      PROVE  Same
  BY <1>10 DEF StatusOf, ShownOf, Open, Version
<1>11. /\ pc \in [Threads -> Labels] /\ on \in [Threads -> URIs \cup {NoURI}]
       /\ editor \in [URIs -> Seq(Texts)] /\ shown \in [URIs -> Doc \cup {NoDoc}]
       /\ Loop \in Threads /\ Callbacks \subseteq Threads /\ Loop \notin Callbacks
       /\ LoopWork /\ Lives /\ Holding /\ Showing
  BY ThreadAssumption DEF Basics, TypeOK, SessionInv
<1>12. ASSUME NEW v \in URIs, DidOpen(v) PROVE Same \/ Opens
  BY <1>11, <1>12 DEF DidOpen, Step, TakeUp, StatusOf, ShownOf, Open, Version, Closing
<1>13. ASSUME NEW v \in URIs, DidChange(v) PROVE Same \/ Changes
  <2>1. /\ Open(v) /\ pc[Loop] = "Idle" /\ pc'[Loop] = "WriteMu" /\ on'[Loop] = v
        /\ shown' = shown
    BY <1>11, <1>13 DEF DidChange, Step, TakeUp, editorVars
  <2>2. PICK x \in Texts : editor' = [editor EXCEPT ![v] = Append(@, x)]
    BY <1>13 DEF DidChange
  <2>3. CASE u = v
    <3>1. editor'[u] = Append(editor[u], x) /\ editor[u] \in Seq(Texts)
      BY <1>11, <2>2, <2>3
    <3>2. Version(u)' = Version(u) + 1 /\ editor'[u] # <<>>
      BY <3>1 DEF Version
    <3> QED
      BY <2>1, <2>3, <3>2 DEF StatusOf, ShownOf, Open
  <2>4. CASE u # v
    <3>1. editor'[u] = editor[u]
      BY <1>11, <2>2, <2>4
    <3> QED
      BY <2>1, <2>4, <3>1 DEF StatusOf, ShownOf, Open, Version, Closing
  <2> QED
    BY <2>3, <2>4
<1>14. ASSUME NEW v \in URIs, DidClose(v) PROVE Same \/ Closes
  <2>1. /\ Open(v) /\ pc[Loop] = "Idle" /\ pc'[Loop] = "RemoveMu" /\ on'[Loop] = v
        /\ editor' = [editor EXCEPT ![v] = <<>>] /\ shown' = shown
    BY <1>11, <1>14 DEF DidClose, Step, TakeUp
  <2>2. CASE u = v
    BY <1>11, <2>1, <2>2 DEF StatusOf, ShownOf, Open, Version, Closing
  <2>3. CASE u # v
    BY <1>11, <2>1, <2>3 DEF StatusOf, ShownOf, Open, Version, Closing
  <2> QED
    BY <2>2, <2>3
<1>15. ASSUME NEW v \in URIs, ClearDiagnostics(v) PROVE Same \/ Clears
  <2>1. /\ Closing(v) /\ ~Open(v) /\ pc'[Loop] = "Idle" /\ UNCHANGED editor
        /\ shown' = [shown EXCEPT ![v] = NoDoc]
    BY <1>11, <1>15 DEF ClearDiagnostics, Step, Closing, LoopWork
  <2>2. CASE u = v
    BY <1>11, <2>1, <2>2 DEF StatusOf, ShownOf, Open, Version, Closing
  <2>3. CASE u # v
    BY <1>11, <2>1, <2>3 DEF StatusOf, ShownOf, Open, Version, Closing
  <2> QED
    BY <2>2, <2>3
<1>16. ASSUME NEW c \in Callbacks, PublishDiagnostics(c)
       PROVE  Same \/ \E v \in 1..MaxVersion : Shows(v)
  <2>1. /\ pc[c] = "Collect" /\ pc' = [pc EXCEPT ![c] = "Unlock"]
        /\ shown' = [shown EXCEPT ![on[c]] = snap[c]] /\ UNCHANGED <<editor, on>>
        /\ on[c] \in URIs /\ snap[c] \in Doc
    BY <1>11, <1>16 DEF PublishDiagnostics, Step, Basics, TypeOK, AtDocument
  <2>2. pc'[Loop] = pc[Loop]
    BY <1>11, <2>1
  <2>3. StatusOf(u)' = StatusOf(u) /\ Version(u)' = Version(u)
    BY <2>1, <2>2 DEF StatusOf, Open, Version, Closing
  <2>4. CASE u # on[c]
    BY <1>11, <2>1, <2>3, <2>4 DEF ShownOf
  <2>5. CASE u = on[c]
    <3>1. /\ snap[c].version \in 1..MaxVersion
          /\ Managed(u) => snap[c].version <= docs[u].version
          /\ shown[u] # NoDoc => shown[u].version <= snap[c].version
      BY <1>11, <2>1, <2>5 DEF Showing
    <3>2. ShownOf(u)' = snap[c].version
      BY NoDocAssumption, <1>11, <2>1, <2>5 DEF ShownOf
    <3>3. snap[c].version >= ShownOf(u)
      BY <1>11, <3>1 DEF ShownOf, Doc
    <3>4. Tracked(u)
      BY NullAssumption, <1>11, <2>1, <2>5
         DEF Holding, AnalysedUnderLock, Tracked, Basics, TypeOK, AtLock
    <3>5. StatusOf(u) \in {"open", "closing"}
      BY <1>11, <3>4 DEF Lives, StatusOf, Removing, Closing
    <3>6. ASSUME Open(u) PROVE snap[c].version <= Version(u)
      <4>1. ~BeingOpened(u)
        BY <1>11, <2>1, <2>5 DEF Lives, Unknown
      <4>2. Managed(u)
        BY <3>6, <4>1 DEF Editing
      <4>3. docs[u].version <= Version(u) /\ docs[u].version \in Nat /\ Version(u) \in Nat
        BY <1>11, <3>6, <4>2 DEF Showing, Version
      <4> QED
        BY <3>1, <4>2, <4>3
    <3>7. Shows(snap[c].version)
      BY <2>3, <3>2, <3>3, <3>5, <3>6 DEF StatusOf
    <3> QED
      BY <3>1, <3>7
  <2> QED
    BY <2>4, <2>5
<1> QED
  BY <1>9, <1>10, <1>12, <1>13, <1>14, <1>15, <1>16, SeenByEditor DEF SessionInv

(* The server implements the diagnostics service for every document        *)
(* (ImplementsService): the editor sees diagnostics of versions that it    *)
(* sent only, in their order, and none after didClose.                     *)
THEOREM ServiceImplemented ==
  ASSUME OneSession PROVE Spec => ImplementsService
<1>1. Init => \A u \in URIs : Service(u)!ServiceInit
  BY ServiceInit
<1>2. Basics /\ Basics' /\ Editing /\ SessionInv /\ SessionInv' /\ [Next]_vars
        => [\A u \in URIs : [Service(u)!ServiceNext]_(Service(u)!serviceVars)]_vars
  BY ServiceStep
<1> QED
  BY <1>1, <1>2, BasicsCorrect, EditingCorrect, SessionCorrect, PTL DEF Spec, ImplementsService

=============================================================================
