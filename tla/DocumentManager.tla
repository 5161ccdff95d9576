--------------------------- MODULE DocumentManager ---------------------------
(***************************************************************************)
(* The document manager: internal/pkg/document/manager.go.                 *)
(*                                                                         *)
(* The manager owns the open documents and, for each of them, a            *)
(* documentLock: a mutex and a 50 ms debouncer (github.com/bep/debounce).  *)
(* Manager.mu guards both maps, but Get, LockDocument and UnlockDocument   *)
(* read them without it, and UnlockDocument looks the lock up again        *)
(* instead of releasing the one that was taken.                            *)
(*                                                                         *)
(* This module has the manager's state and the steps its operations are    *)
(* made of; TextDocumentSync runs them from the server's goroutines.       *)
(***************************************************************************)
EXTENDS Naturals

CONSTANTS
    URIs,        \* the documents' URIs
    Texts,       \* what a document may contain, up to equality of syntax trees
    Locks,       \* documentLock objects
    Threads,     \* the goroutines of the server
    NoThread, NoDoc, NoLock,
    NoTimer,     \* the debouncer has no timer running
    ResetFn      \* the empty function that Remove gives to the debouncer

ASSUME NullAssumption ==
    /\ NoThread \notin Threads
    /\ NoLock \notin Locks
    /\ NoTimer \notin URIs
    /\ ResetFn \notin URIs
    /\ NoTimer # ResetFn

Doc == [version : Nat, text : Texts]

ASSUME NoDocAssumption == NoDoc \notin Doc

VARIABLES
    mu,          \* the goroutine that holds Manager.mu
    docs,        \* Manager.docs
    processing,  \* Manager.diagnosticsProcessing
    holder,      \* the goroutine that locked documentLock.mu last, if it is locked
    timer        \* documentLock.queue: the URI whose analysis is pending

lockVars    == <<processing, holder, timer>>
managerVars == <<mu, docs, lockVars>>

ManagerTypeOK ==
    /\ mu \in Threads \cup {NoThread}
    /\ docs \in [URIs -> Doc \cup {NoDoc}]
    /\ processing \in [URIs -> Locks \cup {NoLock}]
    /\ holder \in [Locks -> Threads \cup {NoThread}]
    /\ timer \in [Locks -> URIs \cup {NoTimer, ResetFn}]

ManagerInit ==
    /\ mu = NoThread
    /\ docs = [u \in URIs |-> NoDoc]
    /\ processing = [u \in URIs |-> NoLock]
    /\ holder = [l \in Locks |-> NoThread]
    /\ timer = [l \in Locks |-> NoTimer]

Managed(u) == docs[u] # NoDoc
Tracked(u) == processing[u] # NoLock

-----------------------------------------------------------------------------
(* Manager.mu                                                              *)

LockMu(t) == mu = NoThread /\ mu' = t
UnlockMu  == mu' = NoThread

(* parse of a document that is not in the map: the document is built from  *)
(* the given version and text and gets a lock object nobody refers to.     *)
Create(u, version, text, l) ==
    /\ docs' = [docs EXCEPT ![u] = [version |-> version, text |-> text]]
    /\ processing' = [processing EXCEPT ![u] = l]
    /\ holder' = [holder EXCEPT ![l] = NoThread]
    /\ timer' = [timer EXCEPT ![l] = NoTimer]

(* parse of a document that is in the map: Update sets the version, then   *)
(* the input. A copy may be taken in between.                              *)
UpdateVersion(u, version) == docs' = [docs EXCEPT ![u].version = version]
UpdateInput(u, text)      == docs' = [docs EXCEPT ![u].text = text]

Delete(u) == docs' = [docs EXCEPT ![u] = NoDoc]

(* documentLock.mu.Lock() by goroutine t.                                  *)
Lock(l, t) == holder[l] = NoThread /\ holder' = [holder EXCEPT ![l] = t]

(* documentLock.mu.Unlock(): a sync.Mutex has no owner, any goroutine may  *)
(* unlock it, and unlocking one that is not locked is a fatal error.       *)
Unlock(l) == holder' = [holder EXCEPT ![l] = NoThread]
UnlockIsFatal(l) == holder[l] = NoThread

(* documentLock.queue(fn): the debouncer stops the running timer, if any,  *)
(* and starts one for fn.                                                  *)
Debounce(l, fn) == timer' = [timer EXCEPT ![l] = fn]

Untrack(u) == processing' = [processing EXCEPT ![u] = NoLock]
=============================================================================
