-------------------------- MODULE TextDocumentSync --------------------------
(***************************************************************************)
(* The diagnostics pipeline: internal/pkg/server/text_document_sync.go and *)
(* the goroutines of internal/pkg/server that use the document manager.    *)
(*                                                                         *)
(*   Loop        the JSON-RPC read loop, which runs every handler but      *)
(*               textDocument/inlayHint                                    *)
(*   Openers     the goroutine each didOpen starts                         *)
(*   Refreshers  the goroutine didChangeConfiguration starts               *)
(*   Readers     the goroutines of textDocument/inlayHint requests         *)
(*   Callbacks   the goroutines in which the debouncers' timers fire       *)
(*                                                                         *)
(* A label of pc is the next thing a goroutine does; a label that ends in  *)
(* "Mu" waits for Manager.mu and the one without that ending holds it.     *)
(***************************************************************************)
EXTENDS DocumentManager, Sequences

CONSTANTS
    Loop, Openers, Refreshers, Readers, Callbacks, NoURI,
    Muted,           \* Compose files of a client that turned their support off
    Included,        \* files that Compose files name in their include element
    CollectorsPanic, \* whether a diagnostics collector may panic
    MaxSessions,     \* bound: how often the editor opens each document
    MaxVersion       \* bound: the last version of a document in a session

ASSUME ThreadAssumption ==
    /\ Threads = {Loop} \cup Openers \cup Refreshers \cup Readers \cup Callbacks
    /\ Loop \notin Openers \cup Refreshers \cup Readers \cup Callbacks
    /\ Openers \cap (Refreshers \cup Readers \cup Callbacks) = {}
    /\ Refreshers \cap (Readers \cup Callbacks) = {}
    /\ Readers \cap Callbacks = {}

ASSUME SyncAssumption ==
    /\ NoURI \notin URIs
    /\ Muted \subseteq URIs
    /\ Included \subseteq URIs
    /\ CollectorsPanic \in BOOLEAN
    /\ MaxSessions \in Nat
    /\ MaxVersion \in Nat \ {0}

VARIABLES
    pc,          \* what each goroutine does next
    on,          \* the document it is working on
    todo,        \* the documents it has still to call computeDiagnostics for
    lk,          \* the lock object that a callback took or waits for
    snap,        \* the copy of the document that a callback analyses
    editor,      \* the versions of each document the editor sent since didOpen
    sessions,    \* how often the editor opened each document
    shown,       \* the document of the diagnostics that the editor shows
    configured,  \* the keys of configuration.configurations
    fatal        \* why the Go runtime ended the process, if it did

callbackVars == <<lk, snap>>
editorVars   == <<editor, sessions, shown>>
syncVars     == <<pc, on, todo, callbackVars, editorVars, configured, fatal>>
vars         == <<managerVars, syncVars>>

Inside == [WriteMu |-> "Write", RemoveMu |-> "Remove", ReadMu |-> "Read",
           PeekMu |-> "Peek", QueueMu |-> "Queue", KeysMu |-> "Keys"]

WaitsForMu == {"WriteMu", "RemoveMu", "ReadMu", "PeekMu", "QueueMu", "KeysMu"}
HoldsMu    == {"Write", "Parse", "Remove", "RemoveLock", "Removing", "Read",
               "Peek", "Forget", "Queue", "Queued", "Keys"}
Labels     == WaitsForMu \cup HoldsMu \cup
              {"Idle", "Fetch", "Store", "Compute", "Clear",
               "Lookup", "Wait", "Get", "Collect", "Unlock"}

(* The labels at which a goroutine has a document, and those at which a    *)
(* callback has a lock object.                                             *)
AtDocument == {"WriteMu", "RemoveMu", "ReadMu", "PeekMu", "QueueMu", "Clear",
               "Lookup", "Wait", "Get", "Collect", "Unlock"}
              \cup (HoldsMu \ {"Keys"})
AtLock     == {"Wait", "Get", "Collect", "Unlock"}

(* Every variable has its type, a goroutine that works on a document knows *)
(* which, a callback that waits for a lock or took one knows which, and    *)
(* the collectors never get a document that is not there: the lookups of   *)
(* computeDiagnostics, LockDocument and the callback that may find nothing *)
(* (text_document_sync.go:58, :81, :86) are checked before they are used.  *)
TypeOK ==
    /\ ManagerTypeOK
    /\ pc \in [Threads -> Labels]
    /\ on \in [Threads -> URIs \cup {NoURI}]
    /\ todo \in [Threads -> SUBSET URIs]
    /\ lk \in [Callbacks -> Locks \cup {NoLock}]
    /\ snap \in [Callbacks -> Doc \cup {NoDoc}]
    /\ editor \in [URIs -> Seq(Texts)]
    /\ sessions \in [URIs -> Nat]
    /\ shown \in [URIs -> Doc \cup {NoDoc}]
    /\ configured \in SUBSET URIs
    /\ fatal \in {"no", "race", "unlock"}
    /\ \A t \in Threads : pc[t] \in AtDocument => on[t] \in URIs
    /\ \A c \in Callbacks : /\ pc[c] \in AtLock => lk[c] \in Locks
                            /\ pc[c] = "Collect" => snap[c] \in Doc

Init ==
    /\ ManagerInit
    /\ pc = [t \in Threads |-> "Idle"]
    /\ on = [t \in Threads |-> NoURI]
    /\ todo = [t \in Threads |-> {}]
    /\ lk = [c \in Callbacks |-> NoLock]
    /\ snap = [c \in Callbacks |-> NoDoc]
    /\ editor = [u \in URIs |-> <<>>]
    /\ sessions = [u \in URIs |-> 0]
    /\ shown = [u \in URIs |-> NoDoc]
    /\ configured = {}
    /\ fatal = "no"

Open(u)    == editor[u] # <<>>
Version(u) == Len(editor[u])
Text(u)    == editor[u][Len(editor[u])]
Opening(u) == Version(u) = 1      \* the message with version 1 is didOpen

Step(t, from, to) ==
    /\ fatal = "no"
    /\ pc[t] = from
    /\ pc' = [pc EXCEPT ![t] = to]

TakeUp(t, u) == on' = [on EXCEPT ![t] = u]
PutDown(t)   == on' = [on EXCEPT ![t] = NoURI]

(* A lock object that the program no longer refers to, or never did.       *)
Fresh(l) ==
    /\ \A u \in URIs : processing[u] # l
    /\ \A c \in Callbacks : lk[c] # l
    /\ timer[l] = NoTimer

-----------------------------------------------------------------------------
(* What the read loop receives from the editor.                            *)

DidOpen(u) ==
    /\ Step(Loop, "Idle", "WriteMu")
    /\ ~Open(u) /\ sessions[u] < MaxSessions
    /\ \E g \in Openers : pc[g] = "Idle"
    /\ \E x \in Texts : editor' = [editor EXCEPT ![u] = <<x>>]
    /\ sessions' = [sessions EXCEPT ![u] = @ + 1]
    /\ TakeUp(Loop, u)
    /\ UNCHANGED <<managerVars, todo, callbackVars, shown, configured, fatal>>

DidChange(u) ==
    /\ Step(Loop, "Idle", "WriteMu")
    /\ Open(u) /\ Version(u) < MaxVersion
    /\ \E x \in Texts : editor' = [editor EXCEPT ![u] = Append(@, x)]
    /\ TakeUp(Loop, u)
    /\ UNCHANGED <<managerVars, todo, callbackVars, sessions, shown, configured, fatal>>

DidClose(u) ==
    /\ Step(Loop, "Idle", "RemoveMu")
    /\ Open(u)
    /\ editor' = [editor EXCEPT ![u] = <<>>]
    /\ TakeUp(Loop, u)
    /\ UNCHANGED <<managerVars, todo, callbackVars, sessions, shown, configured, fatal>>

(* A request about a Compose file reads the files that it includes.        *)
ReadIncluded(u) ==
    /\ Step(Loop, "Idle", "PeekMu")
    /\ u \in Included
    /\ TakeUp(Loop, u)
    /\ UNCHANGED <<managerVars, todo, callbackVars, editorVars, configured, fatal>>

InlayHint(u, r) ==
    /\ pc[Loop] = "Idle"
    /\ Open(u)
    /\ Step(r, "Idle", "ReadMu")
    /\ TakeUp(r, u)
    /\ UNCHANGED <<managerVars, todo, callbackVars, editorVars, configured, fatal>>

DidChangeConfiguration(r) ==
    /\ pc[Loop] = "Idle"
    /\ configured # {}
    /\ Step(r, "Idle", "Fetch")
    /\ todo' = [todo EXCEPT ![r] = configured]
    /\ UNCHANGED <<managerVars, on, callbackVars, editorVars, configured, fatal>>

(* The answer to a workspace/configuration request is a message to the     *)
(* read loop too, which only reads it between two handlers.                *)
AfterFetch(t) == IF t \in Openers THEN "Compute" ELSE "KeysMu"

ConfigurationAnswer(t) ==
    /\ pc[Loop] = "Idle"
    /\ \E next \in {"Store", AfterFetch(t)} : Step(t, "Fetch", next)
    /\ UNCHANGED <<managerVars, on, todo, callbackVars, editorVars, configured, fatal>>

-----------------------------------------------------------------------------
(* Manager.mu is taken at the start of Write, Overwrite, Remove,           *)
(* tryReading, Queue and Keys.                                             *)
Enter(t) ==
    /\ \E w \in WaitsForMu : Step(t, w, Inside[w])
    /\ LockMu(t)
    /\ UNCHANGED <<docs, lockVars, on, todo, callbackVars, editorVars, configured, fatal>>

(* The handler of didOpen returns after starting a goroutine.              *)
StartOpener(u) ==
    \E g \in Openers :
        /\ pc[g] = "Idle"
        /\ pc' = [pc EXCEPT ![Loop] = "Idle", ![g] = "Fetch"]
        /\ todo' = [todo EXCEPT ![g] = {u}]

WriteNew(u) ==
    /\ fatal = "no" /\ pc[Loop] = "Write" /\ on[Loop] = u
    /\ ~Managed(u) /\ Opening(u)
    /\ \E l \in Locks : Fresh(l) /\ Create(u, Version(u), Text(u), l)
    /\ UnlockMu
    /\ StartOpener(u)
    /\ PutDown(Loop)
    /\ UNCHANGED <<callbackVars, editorVars, configured, fatal>>

(* Mutant: a document that is written again gets a new lock too.           *)
WriteVersionRelocks(u) ==
    /\ Step(Loop, "Write", "Parse") /\ on[Loop] = u
    /\ Managed(u)
    /\ \E l \in Locks : Fresh(l) /\ Create(u, Version(u), docs[u].text, l)
    /\ UNCHANGED <<mu, on, todo, callbackVars, editorVars, configured, fatal>>

WriteVersion(u) ==
    /\ Step(Loop, "Write", "Parse") /\ on[Loop] = u
    /\ Managed(u)
    /\ UpdateVersion(u, Version(u))
    /\ UNCHANGED <<mu, lockVars, on, todo, callbackVars, editorVars, configured, fatal>>

(* Mutant: the new syntax tree is compared with itself.                    *)
WriteInputUnchanged(u) ==
    /\ fatal = "no" /\ pc[Loop] = "Parse" /\ on[Loop] = u
    /\ UpdateInput(u, Text(u))
    /\ UnlockMu
    /\ PutDown(Loop)
    /\ \/ Opening(u) /\ StartOpener(u)
       \/ ~Opening(u) /\ Step(Loop, "Parse", "Idle") /\ UNCHANGED todo
    /\ UNCHANGED <<lockVars, callbackVars, editorVars, configured, fatal>>

(* Update returns whether the syntax tree changed, which is what didChange *)
(* calls computeDiagnostics for; didOpen does so either way.               *)
WriteInput(u) ==
    /\ fatal = "no" /\ pc[Loop] = "Parse" /\ on[Loop] = u
    /\ UpdateInput(u, Text(u))
    /\ UnlockMu
    /\ PutDown(Loop)
    /\ \/ Opening(u) /\ StartOpener(u)
       \/ /\ ~Opening(u) /\ Text(u) # docs[u].text
          /\ Step(Loop, "Parse", "Compute")
          /\ todo' = [todo EXCEPT ![Loop] = {u}]
       \/ /\ ~Opening(u) /\ Text(u) = docs[u].text
          /\ Step(Loop, "Parse", "Idle")
          /\ UNCHANGED todo
    /\ UNCHANGED <<lockVars, callbackVars, editorVars, configured, fatal>>

RemoveDoc(u) ==
    /\ Step(Loop, "Remove", "RemoveLock") /\ on[Loop] = u
    /\ Delete(u)
    /\ UNCHANGED <<mu, lockVars, on, todo, callbackVars, editorVars, configured, fatal>>

(* Mutant: the lock is not taken before it is dropped.                     *)
RemoveWithoutLock(u) ==
    /\ Step(Loop, "RemoveLock", "Removing") /\ on[Loop] = u
    /\ UNCHANGED <<managerVars, on, todo, callbackVars, editorVars, configured, fatal>>

RemoveLock(u) ==
    /\ Step(Loop, "RemoveLock", "Removing") /\ on[Loop] = u
    /\ Tracked(u) /\ Lock(processing[u], Loop)
    /\ UNCHANGED <<mu, docs, processing, timer, on, todo, callbackVars, editorVars, configured, fatal>>

RemoveProcessing(u) ==
    /\ Step(Loop, "Removing", "Clear") /\ on[Loop] = u
    /\ fatal' = IF UnlockIsFatal(processing[u]) THEN "unlock" ELSE fatal
    /\ Debounce(processing[u], ResetFn)
    /\ Untrack(u)
    /\ Unlock(processing[u])
    /\ UnlockMu
    /\ UNCHANGED <<docs, on, todo, callbackVars, editorVars, configured>>

ClearDiagnostics(u) ==
    /\ Step(Loop, "Clear", "Idle") /\ on[Loop] = u
    /\ configured' = configured \ {u}
    /\ shown' = [shown EXCEPT ![u] = NoDoc]
    /\ PutDown(Loop)
    /\ UNCHANGED <<managerVars, todo, callbackVars, editor, sessions, fatal>>

(* tryReading: the document is in the map, or it cannot be read from disk. *)
ReadWithoutParsing(t) ==
    /\ \E from \in {"Read", "Peek"} : Step(t, from, "Idle")
    /\ UnlockMu
    /\ PutDown(t)
    /\ UNCHANGED <<docs, lockVars, todo, callbackVars, editorVars, configured, fatal>>

(* Mutant: the map is not consulted before the file is read.               *)
ReadAlwaysFromDisk(t) ==
    /\ \/ Step(t, "Read", "Idle") /\ UnlockMu /\ PutDown(t)
       \/ Step(t, "Peek", "Forget") /\ UNCHANGED <<mu, on>>
    /\ \E l \in Locks, x \in Texts : Fresh(l) /\ Create(on[t], 1, x, l)
    /\ UNCHANGED <<todo, callbackVars, editorVars, configured, fatal>>

(* tryReading: the document is read from disk, with version 1, and added.  *)
ReadFromDisk(t) ==
    /\ \/ Step(t, "Read", "Idle") /\ UnlockMu /\ PutDown(t)
       \/ Step(t, "Peek", "Forget") /\ UNCHANGED <<mu, on>>
    /\ ~Managed(on[t])
    /\ \E l \in Locks, x \in Texts : Fresh(l) /\ Create(on[t], 1, x, l)
    /\ UNCHANGED <<todo, callbackVars, editorVars, configured, fatal>>

(* tryReading without create: only the document is removed again.          *)
Forget(t) ==
    /\ Step(t, "Forget", "Idle")
    /\ Delete(on[t])
    /\ UnlockMu
    /\ PutDown(t)
    /\ UNCHANGED <<lockVars, todo, callbackVars, editorVars, configured, fatal>>

-----------------------------------------------------------------------------
(* FetchConfigurations and recomputeDiagnostics.                           *)

StoreConfigurations(t) ==
    /\ Step(t, "Store", AfterFetch(t))
    /\ configured' = configured \cup todo[t]
    /\ UNCHANGED <<managerVars, on, todo, callbackVars, editorVars, fatal>>

(* A goroutine ends, and the read loop waits for a message, when no        *)
(* document is left to call computeDiagnostics for.                        *)
Rest(uris) == IF uris = {} THEN "Idle" ELSE "Compute"

Keys(t) ==
    /\ Step(t, "Keys", Rest({u \in URIs : Managed(u)}))
    /\ todo' = [todo EXCEPT ![t] = {u \in URIs : Managed(u)}]
    /\ UnlockMu
    /\ UNCHANGED <<docs, lockVars, on, callbackVars, editorVars, configured, fatal>>

(* computeDiagnostics, up to its call of Queue.                            *)
ComputeDiagnostics(t, u) ==
    /\ u \in todo[t]
    /\ todo' = [todo EXCEPT ![t] = @ \ {u}]
    /\ \/ /\ Managed(u) /\ u \notin Muted
          /\ Step(t, "Compute", "QueueMu") /\ TakeUp(t, u)
       \/ /\ ~Managed(u) \/ u \in Muted
          /\ Step(t, "Compute", Rest(todo[t] \ {u})) /\ UNCHANGED on
    /\ UNCHANGED <<managerVars, callbackVars, editorVars, configured, fatal>>

(* Queue, which takes the document's lock while it holds Manager.mu.       *)
QueueUntracked(t) ==
    /\ Step(t, "Queue", Rest(todo[t]))
    /\ ~Tracked(on[t])
    /\ UnlockMu
    /\ PutDown(t)
    /\ UNCHANGED <<docs, lockVars, todo, callbackVars, editorVars, configured, fatal>>

QueueLock(t) ==
    /\ Step(t, "Queue", "Queued")
    /\ Tracked(on[t]) /\ Lock(processing[on[t]], t)
    /\ UNCHANGED <<mu, docs, processing, timer, on, todo, callbackVars, editorVars, configured, fatal>>

(* Mutant: Queue returns without unlocking the document.                   *)
EnqueueKeepsLock(t) ==
    /\ Step(t, "Queued", Rest(todo[t]))
    /\ Debounce(processing[on[t]], on[t])
    /\ UnlockMu
    /\ PutDown(t)
    /\ UNCHANGED <<docs, processing, holder, todo, callbackVars, editorVars, configured, fatal>>

Enqueue(t) ==
    /\ Step(t, "Queued", Rest(todo[t]))
    /\ fatal' = IF UnlockIsFatal(processing[on[t]]) THEN "unlock" ELSE fatal
    /\ Debounce(processing[on[t]], on[t])
    /\ Unlock(processing[on[t]])
    /\ UnlockMu
    /\ PutDown(t)
    /\ UNCHANGED <<docs, processing, todo, callbackVars, editorVars, configured>>

-----------------------------------------------------------------------------
(* The debouncer's timer ends, and what it runs.                           *)

Fire(l, c) ==
    /\ timer[l] \in URIs
    /\ Step(c, "Idle", "Lookup")
    /\ TakeUp(c, timer[l])
    /\ Debounce(l, NoTimer)
    /\ UNCHANGED <<mu, docs, processing, holder, todo, callbackVars, editorVars, configured, fatal>>

FireReset(l) ==
    /\ fatal = "no" /\ timer[l] = ResetFn
    /\ Debounce(l, NoTimer)
    /\ UNCHANGED <<mu, docs, processing, holder, syncVars>>

LockDocument(c) ==
    /\ \/ /\ Step(c, "Lookup", "Wait")
          /\ Tracked(on[c])
          /\ lk' = [lk EXCEPT ![c] = processing[on[c]]]
          /\ UNCHANGED on
       \/ /\ Step(c, "Lookup", "Idle")
          /\ ~Tracked(on[c])
          /\ PutDown(c)
          /\ UNCHANGED lk
    /\ UNCHANGED <<managerVars, todo, snap, editorVars, configured, fatal>>

(* Mutant: LockDocument returns true without waiting for the lock.         *)
AcquireWithoutWaiting(c) ==
    /\ Step(c, "Wait", "Get")
    /\ holder' = [holder EXCEPT ![lk[c]] = c]
    /\ UNCHANGED <<mu, docs, processing, timer, on, todo, callbackVars, editorVars, configured, fatal>>

Acquire(c) ==
    /\ Step(c, "Wait", "Get")
    /\ Lock(lk[c], c)
    /\ UNCHANGED <<mu, docs, processing, timer, on, todo, callbackVars, editorVars, configured, fatal>>

(* Mutant: the callback does not ask whether the document was closed.      *)
CopyUnchecked(c) ==
    /\ Step(c, "Get", "Collect")
    /\ snap' = [snap EXCEPT ![c] = docs[on[c]]]
    /\ UNCHANGED <<managerVars, on, todo, lk, editorVars, configured, fatal>>

(* Mutant: Get waits for Manager.mu as the other methods do.               *)
CopyUnderMu(c) ==
    /\ mu = NoThread
    /\ \/ /\ Step(c, "Get", "Collect")
          /\ Managed(on[c])
          /\ snap' = [snap EXCEPT ![c] = docs[on[c]]]
       \/ /\ Step(c, "Get", "Unlock")
          /\ ~Managed(on[c])
          /\ UNCHANGED snap
    /\ UNCHANGED <<managerVars, on, todo, lk, editorVars, configured, fatal>>

(* Mutant: the callback of a closed document returns without unlocking.    *)
CopyOrReturn(c) ==
    /\ \/ /\ Step(c, "Get", "Collect")
          /\ Managed(on[c])
          /\ snap' = [snap EXCEPT ![c] = docs[on[c]]]
          /\ UNCHANGED <<on, lk>>
       \/ /\ Step(c, "Get", "Idle")
          /\ ~Managed(on[c])
          /\ PutDown(c)
          /\ lk' = [lk EXCEPT ![c] = NoLock]
          /\ UNCHANGED snap
    /\ UNCHANGED <<managerVars, todo, editorVars, configured, fatal>>

CopyDocument(c) ==
    /\ \/ /\ Step(c, "Get", "Collect")
          /\ Managed(on[c])
          /\ snap' = [snap EXCEPT ![c] = docs[on[c]]]
       \/ /\ Step(c, "Get", "Unlock")
          /\ ~Managed(on[c])
          /\ UNCHANGED snap
    /\ UNCHANGED <<managerVars, on, todo, lk, editorVars, configured, fatal>>

PublishDiagnostics(c) ==
    /\ Step(c, "Collect", "Unlock")
    /\ shown' = [shown EXCEPT ![on[c]] = snap[c]]
    /\ UNCHANGED <<managerVars, on, todo, callbackVars, editor, sessions, configured, fatal>>

(* A panic in a collector is recovered after the lock has been released.   *)
CollectorPanic(c) ==
    /\ CollectorsPanic
    /\ Step(c, "Collect", "Unlock")
    /\ UNCHANGED <<managerVars, on, todo, callbackVars, editorVars, configured, fatal>>

(* UnlockDocument unlocks the lock that the document has now, if any.      *)
UnlockDocument(c) ==
    /\ Step(c, "Unlock", "Idle")
    /\ \/ /\ Tracked(on[c])
          /\ fatal' = IF UnlockIsFatal(processing[on[c]]) THEN "unlock" ELSE fatal
          /\ Unlock(processing[on[c]])
       \/ ~Tracked(on[c]) /\ UNCHANGED <<holder, fatal>>
    /\ PutDown(c)
    /\ lk' = [lk EXCEPT ![c] = NoLock]
    /\ snap' = [snap EXCEPT ![c] = NoDoc]
    /\ UNCHANGED <<mu, docs, processing, timer, todo, editorVars, configured>>

-----------------------------------------------------------------------------
(* The maps are read without Manager.mu by Get (computeDiagnostics, the    *)
(* callback, and OpenDockerfile in a collector), LockDocument and          *)
(* UnlockDocument. A read during a write of the same map may make the Go   *)
(* runtime end the process ("concurrent map read and map write").          *)
ReadsDocs(t) ==
    pc[t] \in {"Get", "Collect", "Compute"}
ReadsProcessing(t) == pc[t] \in {"Lookup", "Unlock"}

AddsDocument(t)     == pc[t] \in {"Write", "Read", "Peek"} /\ ~Managed(on[t])
WritesDocs(t)       == AddsDocument(t) \/ pc[t] \in {"Remove", "Forget"}
WritesProcessing(t) == AddsDocument(t) \/ pc[t] = "Removing"

MapRace(t) ==
    /\ fatal = "no" /\ mu # NoThread
    /\ \/ ReadsDocs(t) /\ WritesDocs(mu)
       \/ ReadsProcessing(t) /\ WritesProcessing(mu)
    /\ fatal' = "race"
    /\ UNCHANGED <<managerVars, pc, on, todo, callbackVars, editorVars, configured>>

-----------------------------------------------------------------------------
(* The server waits for a message, or the process has ended.               *)
Stutter == (pc[Loop] = "Idle" \/ fatal # "no") /\ UNCHANGED vars

Receive ==
    \/ \E u \in URIs : DidOpen(u) \/ DidChange(u) \/ DidClose(u) \/ ReadIncluded(u)
    \/ \E u \in URIs, r \in Readers : InlayHint(u, r)
    \/ \E r \in Refreshers : DidChangeConfiguration(r)

Handle ==
    \E u \in URIs :
        \/ WriteNew(u) \/ WriteVersion(u) \/ WriteInput(u)
        \/ RemoveDoc(u) \/ RemoveLock(u) \/ RemoveProcessing(u) \/ ClearDiagnostics(u)

Fetch(t) == ConfigurationAnswer(t) \/ StoreConfigurations(t) \/ Keys(t)

Request(t) ==
    \/ \E u \in URIs : ComputeDiagnostics(t, u)
    \/ QueueUntracked(t) \/ QueueLock(t) \/ Enqueue(t)

Reading(t) == ReadWithoutParsing(t) \/ ReadFromDisk(t) \/ Forget(t)

Analyse(c) ==
    \/ LockDocument(c) \/ Acquire(c) \/ CopyDocument(c)
    \/ PublishDiagnostics(c) \/ CollectorPanic(c) \/ UnlockDocument(c)

Next ==
    \/ Receive
    \/ Handle
    \/ \E t \in Openers \cup Refreshers : Fetch(t)
    \/ \E t \in {Loop} \cup Openers \cup Refreshers : Request(t)
    \/ \E t \in {Loop} \cup Readers : Reading(t)
    \/ \E t \in Threads \ Callbacks : Enter(t)
    \/ \E l \in Locks, c \in Callbacks : Fire(l, c)
    \/ \E l \in Locks : FireReset(l)
    \/ \E c \in Callbacks : Analyse(c)
    \/ \E t \in Threads : MapRace(t)
    \/ Stutter

Spec == Init /\ [][Next]_vars

(***************************************************************************)
(* Goroutines are scheduled fairly, a sync.Mutex serves those that wait    *)
(* for it in turn, timers end, the collectors return (their HTTP calls     *)
(* time out), and the editor answers workspace/configuration requests. The *)
(* editor need not send anything.                                          *)
(***************************************************************************)
Fairness ==
    /\ WF_vars(Handle)
    /\ SF_vars(\E u \in URIs : RemoveLock(u))
    /\ \A t \in Threads \ Callbacks : SF_vars(Enter(t))
    /\ \A t \in Openers \cup Refreshers : SF_vars(ConfigurationAnswer(t)) /\ WF_vars(Fetch(t))
    /\ \A t \in {Loop} \cup Openers \cup Refreshers : WF_vars(Request(t)) /\ SF_vars(QueueLock(t))
    /\ \A t \in {Loop} \cup Readers : WF_vars(Reading(t))
    /\ \A l \in Locks : WF_vars(FireReset(l)) /\ WF_vars(\E c \in Callbacks : Fire(l, c))
    /\ \A c \in Callbacks : WF_vars(Analyse(c)) /\ SF_vars(Acquire(c))

LiveSpec == Spec /\ Fairness

-----------------------------------------------------------------------------
Analysing(c) == c \in Callbacks /\ pc[c] \in {"Get", "Collect", "Unlock"}

HoldsLock(t, l) ==
    \/ Analysing(t) /\ lk[t] = l
    \/ pc[t] \in {"Queued", "Removing"} /\ processing[on[t]] = l

(* A documentLock that is locked and still in diagnosticsProcessing was    *)
(* locked last by a goroutine that is between its Lock and its Unlock: no  *)
(* lock stays locked behind a goroutine that went on, on none of the paths *)
(* through Queue, removeAndCleanup and the debounced callback.             *)
NoLostLock ==
    \A u \in URIs :
        LET l == processing[u] IN
        Tracked(u) /\ holder[l] # NoThread => HoldsLock(holder[l], l)

WaitsForLock(t) == pc[t] \in {"Queue", "RemoveLock"} /\ Tracked(on[t])

(* Queue and removeAndCleanup wait for a documentLock while they hold      *)
(* Manager.mu. Whoever holds that lock is then a callback past its         *)
(* LockDocument, which asks for no other lock before it releases this one: *)
(* the two kinds of mutex never form a cycle.                              *)
NoCircularWait ==
    \A t \in Threads :
        WaitsForLock(t) /\ holder[processing[on[t]]] # NoThread
            => Analysing(holder[processing[on[t]]])

(* Between two messages, an open document is in the manager with the       *)
(* version and the text of the last message the editor sent about it, and  *)
(* has a lock: no read from disk by another goroutine replaces or drops    *)
(* it, so Overwrite and removeAndCleanup always find the document.         *)
OpenDocumentIsEditors ==
    \A u \in URIs :
        Open(u) /\ pc[Loop] = "Idle"
            => Tracked(u) /\ docs[u] = [version |-> Version(u), text |-> Text(u)]

(* The collectors run on a document only under the lock that the document  *)
(* has: two analyses of a document never overlap, and Remove waits for the *)
(* one that runs.                                                          *)
AnalysedUnderLock ==
    \A c \in Callbacks :
        pc[c] = "Collect" => lk[c] = processing[on[c]] /\ holder[lk[c]] = c

(* UnlockDocument, which looks the lock up by URI, never unlocks a mutex   *)
(* that is not locked, which would end the process.                        *)
LockNotUnlockedTwice == fatal # "unlock"

(* Once the handler of didClose has returned, the editor shows no          *)
(* diagnostics for the document, whatever callback was pending or running. *)
ClosedShowsNothing ==
    \A u \in URIs : ~Open(u) /\ pc[Loop] = "Idle" => shown[u] = NoDoc

(* The diagnostics of an older version never replace those of a newer one, *)
(* though the callbacks of one document run in goroutines of their own.    *)
ShownVersionGrows ==
    [][\A u \in URIs : shown[u] # NoDoc /\ shown'[u] # NoDoc
            => shown[u].version <= shown'[u].version]_vars

(* The server, with its manager, locks, timers and goroutines, implements  *)
(* DiagnosticsService for every document: the editor sees diagnostics of   *)
(* versions that it sent only, in their order, and none after didClose.    *)
Service(u) == INSTANCE DiagnosticsService WITH
    Versions <- 1..MaxVersion,
    status <- IF Open(u) THEN "open"
              ELSE IF pc[Loop] # "Idle" /\ on[Loop] = u THEN "closing" ELSE "closed",
    sent <- Version(u),
    shown <- IF shown[u] = NoDoc THEN 0 ELSE shown[u].version

ImplementsService ==
    /\ \A u \in URIs : Service(u)!ServiceInit
    /\ [][\A u \in URIs : [Service(u)!ServiceNext]_(Service(u)!serviceVars)]_vars

Ended == fatal # "no"

(* The read loop always gets back to the next message, whatever the        *)
(* callbacks and the other goroutines hold meanwhile.                      *)
LoopResponds == pc[Loop] # "Idle" ~> pc[Loop] = "Idle" \/ Ended

(* When the editor has stopped typing, the diagnostics that it shows come  *)
(* to be those of the text it has, and stay so: neither the debouncer nor  *)
(* a callback that was already running loses the last change.              *)
EventuallyCurrent ==
    \A u \in URIs \ Muted :
        <>[](Ended \/ ~Open(u) \/ (shown[u] # NoDoc /\ shown[u].text = Text(u)))
=============================================================================
