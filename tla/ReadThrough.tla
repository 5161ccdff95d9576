----------------------------- MODULE ReadThrough -----------------------------
(***************************************************************************)
(* What a read-through cache promises, whatever its locks and timers: a    *)
(* request is answered from the entry of its key if there is one, and from *)
(* the server otherwise; a server's answer becomes the entry, an error     *)
(* does not; an entry is never replaced, only dropped; every request is    *)
(* answered and every entry is dropped in the end.                         *)
(***************************************************************************)
EXTENDS Naturals

CONSTANTS Keys, Callers, Answers, NoKey, NoEntry, Failed

VARIABLES
    cache,   \* the entries
    want,    \* the key that each caller waits for
    result   \* the answer to each caller's last request

vars == <<cache, want, result>>

Init ==
    /\ cache = [k \in Keys |-> NoEntry]
    /\ want = [c \in Callers |-> NoKey]
    /\ result = [c \in Callers |-> NoEntry]

Ask(c, k) ==
    /\ want[c] = NoKey
    /\ want' = [want EXCEPT ![c] = k]
    /\ UNCHANGED <<cache, result>>

Answer(c, a) ==
    /\ want[c] \in Keys
    /\ want' = [want EXCEPT ![c] = NoKey]
    /\ result' = [result EXCEPT ![c] = a]

Hit(c) ==
    /\ Answer(c, cache[want[c]])
    /\ cache[want[c]] # NoEntry
    /\ UNCHANGED cache

Fill(c) ==
    \E a \in Answers :
        /\ Answer(c, a)
        /\ cache[want[c]] = NoEntry
        /\ cache' = [cache EXCEPT ![want[c]] = a]

Fail(c) ==
    /\ Answer(c, Failed)
    /\ cache[want[c]] = NoEntry
    /\ UNCHANGED cache

Drop(k) ==
    /\ cache[k] # NoEntry
    /\ cache' = [cache EXCEPT ![k] = NoEntry]
    /\ UNCHANGED <<want, result>>

Next ==
    \/ \E c \in Callers : \/ \E k \in Keys : Ask(c, k)
                          \/ Hit(c) \/ Fill(c) \/ Fail(c)
    \/ \E k \in Keys : Drop(k)

Spec == Init /\ [][Next]_vars

Fairness ==
    /\ \A c \in Callers : WF_vars(Hit(c) \/ Fill(c) \/ Fail(c))
    /\ \A k \in Keys : WF_vars(Drop(k))

LiveSpec == Spec /\ Fairness
=============================================================================
