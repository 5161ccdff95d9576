---------------------------- MODULE CacheManager ----------------------------
(***************************************************************************)
(* The cache of what Docker Hub and Docker Scout answer:                   *)
(* internal/cache/manager.go, with the fetchers of internal/hub and        *)
(* internal/scout.                                                         *)
(*                                                                         *)
(* Get holds the cache's mutex while it fetches. An entry is dropped by a  *)
(* timer of its own, one hour after it was stored. Docker Hub's answer has *)
(* several pages, Docker Scout's one; a page after the first that cannot   *)
(* be fetched, or a body that cannot be decoded, ends an answer without an *)
(* error, and what there is of it is stored.                               *)
(***************************************************************************)
EXTENDS Naturals

CONSTANTS
    Keys,        \* what CacheKey returns
    Loop,        \* the JSON-RPC read loop: hover, and completion in Compose files
    Hints,       \* goroutines of textDocument/inlayHint
    Pages,       \* how many pages a complete answer has
    NoCaller, NoKey, NoEntry, Failed

Callers == {Loop} \cup Hints
Answers == 0 .. Pages       \* how many pages of the answer there are

ASSUME CacheAssumption ==
    /\ Pages \in Nat \ {0}
    /\ NoCaller \notin Callers
    /\ NoKey \notin Keys
    /\ NoEntry \notin Answers
    /\ Failed \notin Answers
    /\ Failed # NoEntry
    /\ Loop \notin Hints

VARIABLES
    mutex,   \* the caller that holds the mutex
    cache,   \* the map
    timers,  \* how many expiry timers of each key run
    due,     \* how many that ended wait for the mutex
    pc,      \* where in Get a caller is
    want,    \* the key it asked for
    got,     \* the pages that it has fetched
    result   \* what its last Get returned

vars == <<mutex, cache, timers, due, pc, want, got, result>>

Inside == {"Lookup", "Fetch"}

(* Each variable has its type, and a caller that is in Get has asked for   *)
(* a key and has not fetched more than all but the last page.              *)
TypeOK ==
    /\ mutex \in Callers \cup {NoCaller}
    /\ cache \in [Keys -> Answers \cup {NoEntry}]
    /\ timers \in [Keys -> Nat]
    /\ due \in [Keys -> Nat]
    /\ pc \in [Callers -> Inside \cup {"Idle", "Lock"}]
    /\ want \in [Callers -> Keys \cup {NoKey}]
    /\ got \in [Callers -> 0 .. Pages - 1]
    /\ result \in [Callers -> Answers \cup {NoEntry, Failed}]
    /\ \A c \in Callers : pc[c] = "Idle" <=> want[c] = NoKey

Init ==
    /\ mutex = NoCaller
    /\ cache = [k \in Keys |-> NoEntry]
    /\ timers = [k \in Keys |-> 0]
    /\ due = [k \in Keys |-> 0]
    /\ pc = [c \in Callers |-> "Idle"]
    /\ want = [c \in Callers |-> NoKey]
    /\ got = [c \in Callers |-> 0]
    /\ result = [c \in Callers |-> NoEntry]

Step(c, from, to) == pc[c] = from /\ pc' = [pc EXCEPT ![c] = to]

Get(c, k) ==
    /\ Step(c, "Idle", "Lock")
    /\ want' = [want EXCEPT ![c] = k]
    /\ UNCHANGED <<mutex, cache, timers, due, got, result>>

Lock(c) ==
    /\ Step(c, "Lock", "Lookup")
    /\ mutex = NoCaller /\ mutex' = c
    /\ UNCHANGED <<cache, timers, due, want, got, result>>

(* Get returns, and releases the mutex.                                    *)
Return(c, r) ==
    /\ mutex' = NoCaller
    /\ want' = [want EXCEPT ![c] = NoKey]
    /\ result' = [result EXCEPT ![c] = r]

Hit(c) ==
    /\ Step(c, "Lookup", "Idle")
    /\ cache[want[c]] # NoEntry
    /\ Return(c, cache[want[c]])
    /\ UNCHANGED <<cache, timers, due, got>>

(* Mutant: the mutex is not held during the fetch.                         *)
MissUnlocked(c) ==
    /\ Step(c, "Lookup", "Fetch")
    /\ cache[want[c]] = NoEntry
    /\ mutex' = NoCaller
    /\ got' = [got EXCEPT ![c] = 0]
    /\ UNCHANGED <<cache, timers, due, want, result>>

Miss(c) ==
    /\ Step(c, "Lookup", "Fetch")
    /\ cache[want[c]] = NoEntry
    /\ got' = [got EXCEPT ![c] = 0]
    /\ UNCHANGED <<mutex, cache, timers, due, want, result>>

(* Mutant: a link is followed after the last page too.                     *)
FetchPageBeyond(c) ==
    /\ pc[c] = "Fetch" /\ got[c] < Pages
    /\ got' = [got EXCEPT ![c] = @ + 1]
    /\ UNCHANGED <<mutex, cache, timers, due, pc, want, result>>

(* A page with a link to the next one.                                     *)
FetchPage(c) ==
    /\ pc[c] = "Fetch" /\ got[c] + 1 < Pages
    /\ got' = [got EXCEPT ![c] = @ + 1]
    /\ UNCHANGED <<mutex, cache, timers, due, pc, want, result>>

(* Mutant: the entry gets no timer.                                        *)
StoreForever(c, answer) ==
    /\ Step(c, "Fetch", "Idle")
    /\ cache' = [cache EXCEPT ![want[c]] = answer]
    /\ Return(c, answer)
    /\ UNCHANGED <<timers, due, got>>

Store(c, answer) ==
    /\ Step(c, "Fetch", "Idle")
    /\ cache' = [cache EXCEPT ![want[c]] = answer]
    /\ timers' = [timers EXCEPT ![want[c]] = @ + 1]
    /\ Return(c, answer)
    /\ UNCHANGED <<due, got>>

FetchLastPage(c) == got[c] + 1 = Pages /\ Store(c, Pages)

(* The next page cannot be fetched, or a body cannot be decoded.           *)
FetchCut(c) == Store(c, got[c])

FetchError(c) ==
    /\ Step(c, "Fetch", "Idle")
    /\ got[c] = 0
    /\ Return(c, Failed)
    /\ UNCHANGED <<cache, timers, due, got>>

(* The hour is over; the timer's goroutine waits for the mutex ...         *)
Expire(k) ==
    /\ timers[k] > 0
    /\ timers' = [timers EXCEPT ![k] = @ - 1]
    /\ due' = [due EXCEPT ![k] = @ + 1]
    /\ UNCHANGED <<mutex, cache, pc, want, got, result>>

(* ... and deletes whatever the key has now.                               *)
Delete(k) ==
    /\ due[k] > 0 /\ mutex = NoCaller
    /\ cache' = [cache EXCEPT ![k] = NoEntry]
    /\ due' = [due EXCEPT ![k] = @ - 1]
    /\ UNCHANGED <<mutex, timers, pc, want, got, result>>

Fetch(c) == FetchPage(c) \/ FetchLastPage(c) \/ FetchCut(c) \/ FetchError(c)

Next ==
    \/ \E c \in Callers : \/ \E k \in Keys : Get(c, k)
                          \/ Lock(c) \/ Hit(c) \/ Miss(c) \/ Fetch(c)
    \/ \E k \in Keys : Expire(k) \/ Delete(k)

Spec == Init /\ [][Next]_vars

(* The HTTP client gives up after 30 seconds, a sync.Mutex serves those    *)
(* that wait for it in turn, and timers end.                               *)
Fairness ==
    /\ \A c \in Callers : SF_vars(Lock(c)) /\ WF_vars(Hit(c) \/ Miss(c) \/ Fetch(c))
    /\ \A k \in Keys : WF_vars(Expire(k)) /\ SF_vars(Delete(k))

LiveSpec == Spec /\ Fairness

-----------------------------------------------------------------------------
(* An entry has exactly one timer that will drop it, and a key without an  *)
(* entry has none: a timer never drops an entry that was stored after the  *)
(* one it was started for, and no entry stays for ever.                    *)
OneTimerPerEntry ==
    \A k \in Keys : timers[k] + due[k] = IF cache[k] = NoEntry THEN 0 ELSE 1

(* Get is a read-through cache: with all its locks and timers it only does *)
(* what ReadThrough allows, answers every request and drops every entry.   *)
RT == INSTANCE ReadThrough
ReadsThrough == RT!LiveSpec

(* The read loop, when it needs the cache, does not wait for an inlay hint *)
(* that is fetching: these are handled in goroutines "so that it does not  *)
(* block other LSP messages when trying to fetch image data".              *)
HintsDoNotBlock == ~\E h \in Hints : mutex = h /\ pc[h] = "Fetch" /\ pc[Loop] = "Lock"
=============================================================================
