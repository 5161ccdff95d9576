---------------------------- MODULE SessionProofs ----------------------------
(***************************************************************************)
(* Theorems about Session, for any documents, settings, goroutines and     *)
(* bounds: its type invariant, which requests are refused, and that the    *)
(* server knows its client whenever it needs it.                           *)
(***************************************************************************)
EXTENDS Session, TLAPS

Asking  == [method : Requested, phase : Phases, reply : Replies \cup {"none"}]
Fetches == [at : {"idle", "asking", "answered"}, scopes : SUBSET URIs,
            value : Settings \cup {NoSettings}, then : SUBSET URIs]

(* The types that TypeOK leaves out: every message about a request names   *)
(* one, and the answer to a fetch has settings.                            *)
Typed ==
    /\ TypeOK
    /\ asked \in Seq(Asking) /\ Len(asked) <= MaxRequests
    /\ inbox \in Seq(Messages)
    /\ \A k \in 1..Len(inbox) : inbox[k].kind = "request" => inbox[k].id \in 1..Len(asked)
    /\ \A i \in hints : Asynchronous(asked[i].method)
    /\ fetch \in [Fetchers -> Fetches]
    /\ \A f \in Fetchers : fetch[f].at = "answered" => fetch[f].value \in Settings

(* The requests in the inbox: their methods, and the phases in which they  *)
(* were sent.                                                              *)
IsRequest(k)  == k \in 1..Len(inbox) /\ inbox[k].kind = "request"
Calls(k, m)   == IsRequest(k) /\ asked[inbox[k].id].method = m
SentIn(k, p)  == IsRequest(k) /\ asked[inbox[k].id].phase = p

(* The server accepts messages from the reply to initialize that starts    *)
(* the session to the shutdown that ends it. There is at most one of       *)
(* either under way.                                                       *)
SessionIsInitialized ==
    /\ phase = "running" => initialized
    /\ phase \in {"fresh", "initializing"} => ~initialized
    /\ phase = "stopping" /\ initialized => \E k \in 1..Len(inbox) : Calls(k, "shutdown")
    /\ \A k \in 1..Len(inbox) :
        /\ Calls(k, "initialize") =>
              /\ phase = "initializing" /\ SentIn(k, "fresh")
              /\ \A l \in 1..Len(inbox) : Calls(l, "initialize") => l = k
        /\ Calls(k, "shutdown") =>
              /\ phase = "stopping" /\ SentIn(k, "running")
              /\ \A l \in 1..Len(inbox) : Calls(l, "shutdown") => l = k

(* A request is read in the session that it was sent in: what is before it *)
(* in the inbox does not start or end one.                                 *)
ReadInOrder ==
    \A k \in 1..Len(inbox) :
        /\ SentIn(k, "fresh") =>
              /\ phase \in {"fresh", "initializing"}
              /\ \A l \in 1..(k - 1) : ~Calls(l, "initialize")
        /\ SentIn(k, "running") =>
              /\ initialized
              /\ \A l \in 1..(k - 1) : ~Calls(l, "shutdown")
        /\ SentIn(k, "stopping") =>
              \/ ~initialized
              \/ \E l \in 1..(k - 1) : Calls(l, "shutdown")

(* A session that a request was sent before or in has been started or      *)
(* ended since by a later request, or not.                                 *)
PhasesInOrder ==
    \A i \in 1..Len(asked) :
        /\ asked[i].phase = "fresh" =>
              phase = "fresh" \/ \E j \in i..Len(asked) : asked[j].method = "initialize"
        /\ asked[i].phase = "running" =>
              phase = "running" \/ \E j \in i..Len(asked) : asked[j].method = "shutdown"
        /\ asked[i].phase = "stopping" =>
              /\ phase = "stopping"
              /\ i \in hints => ~initialized

IInv == /\ Typed /\ SessionIsInitialized /\ ReadInOrder /\ PhasesInOrder
        /\ RefusedOutsideSession /\ ClientKnown

-----------------------------------------------------------------------------
(* What the replies leave of a request: its method and its phase.          *)
SameAsked ==
    /\ Len(asked') = Len(asked)
    /\ \A i \in 1..Len(asked) :
        asked'[i].method = asked[i].method /\ asked'[i].phase = asked[i].phase

(* The inbox without its first message.                                    *)
LEMMA Shift ==
  ASSUME Typed, inbox # <<>>, inbox' = Tail(inbox), SameAsked
  PROVE  /\ Len(inbox') = Len(inbox) - 1
         /\ \A k \in 1..Len(inbox') :
              /\ k + 1 \in 1..Len(inbox)
              /\ \A m : Calls(k, m)' <=> Calls(k + 1, m)
              /\ \A p : SentIn(k, p)' <=> SentIn(k + 1, p)
<1> USE DEF Typed, IsRequest, Calls, SentIn
<1>1. Len(inbox) \in Nat \ {0} /\ Len(inbox') = Len(inbox) - 1
  OBVIOUS
<1>2. ASSUME NEW k \in 1..Len(inbox')
      PROVE  /\ k + 1 \in 1..Len(inbox) /\ inbox'[k] = inbox[k + 1]
             /\ IsRequest(k)' <=> IsRequest(k + 1)
             /\ IsRequest(k) ' => inbox[k + 1].id \in 1..Len(asked)
  BY <1>1
<1> QED
  BY <1>1, <1>2 DEF SameAsked

(* The read loop takes the first message: it starts the session, ends it,  *)
(* or leaves it alone.                                                     *)
LEMMA ReadKeepsOrder ==
  ASSUME Typed, SessionIsInitialized, ReadInOrder, PhasesInOrder,
         inbox # <<>>, inbox' = Tail(inbox), SameAsked,
         \/ /\ ~Calls(1, "initialize") /\ ~Calls(1, "shutdown")
            /\ UNCHANGED <<phase, initialized>>
         \/ /\ Calls(1, "initialize") /\ ~Calls(1, "shutdown")
            /\ \/ phase' = "running" /\ initialized'
               \/ phase' = "fresh" /\ ~initialized'
         \/ /\ Calls(1, "shutdown") /\ ~Calls(1, "initialize")
            /\ phase' = phase /\ ~initialized'
  PROVE  SessionIsInitialized' /\ ReadInOrder'
<1>1. Len(inbox) \in Nat \ {0} /\ Len(inbox') = Len(inbox) - 1 /\ 1 \in 1..Len(inbox)
  BY Shift DEF Typed
<1>2. ASSUME NEW k \in 1..Len(inbox')
      PROVE  /\ k + 1 \in 1..Len(inbox) /\ k + 1 # 1
             /\ \A m : Calls(k, m)' <=> Calls(k + 1, m)
             /\ \A p : SentIn(k, p)' <=> SentIn(k + 1, p)
  BY <1>1, Shift
<1>3. ASSUME NEW k \in 1..Len(inbox), k # 1
      PROVE  k - 1 \in 1..Len(inbox') /\ \A m : Calls(k - 1, m)' <=> Calls(k, m)
  <2>1. k - 1 \in 1..Len(inbox') /\ (k - 1) + 1 = k
    BY <1>1, <1>3
  <2>2. \A m : Calls(k - 1, m)' <=> Calls((k - 1) + 1, m)
    BY <2>1, Shift
  <2> QED
    BY <2>1, <2>2
<1>4. ASSUME NEW k \in 1..Len(inbox'), Calls(k, "initialize")'
      PROVE  /\ phase' = "initializing" /\ SentIn(k, "fresh")'
             /\ \A l \in 1..Len(inbox') : Calls(l, "initialize")' => l = k
  <2>1. Calls(k + 1, "initialize") /\ k + 1 \in 1..Len(inbox) /\ k + 1 # 1
    BY <1>2, <1>4
  <2>2. /\ phase = "initializing" /\ SentIn(k + 1, "fresh")
        /\ \A l \in 1..Len(inbox) : Calls(l, "initialize") => l = k + 1
    BY <2>1 DEF SessionIsInitialized
  <2>3. ~Calls(1, "initialize") /\ ~Calls(1, "shutdown")
    BY <1>1, <2>1, <2>2 DEF SessionIsInitialized
  <2>4. ASSUME NEW l \in 1..Len(inbox'), Calls(l, "initialize")' PROVE l = k
    <3>1. l + 1 = k + 1
      BY <1>2, <2>2, <2>4
    <3> QED
      BY <3>1
  <2> QED
    BY <1>2, <2>2, <2>3, <2>4
<1>5. ASSUME NEW k \in 1..Len(inbox'), Calls(k, "shutdown")'
      PROVE  /\ phase' = "stopping" /\ SentIn(k, "running")'
             /\ \A l \in 1..Len(inbox') : Calls(l, "shutdown")' => l = k
  <2>1. Calls(k + 1, "shutdown") /\ k + 1 \in 1..Len(inbox) /\ k + 1 # 1
    BY <1>2, <1>5
  <2>2. /\ phase = "stopping" /\ SentIn(k + 1, "running")
        /\ \A l \in 1..Len(inbox) : Calls(l, "shutdown") => l = k + 1
    BY <2>1 DEF SessionIsInitialized
  <2>3. ~Calls(1, "initialize") /\ ~Calls(1, "shutdown")
    BY <1>1, <2>1, <2>2 DEF SessionIsInitialized
  <2>4. ASSUME NEW l \in 1..Len(inbox'), Calls(l, "shutdown")' PROVE l = k
    <3>1. l + 1 = k + 1
      BY <1>2, <2>2, <2>4
    <3> QED
      BY <3>1
  <2> QED
    BY <1>2, <2>2, <2>3, <2>4
<1>6. /\ phase' = "running" => initialized'
      /\ phase' \in {"fresh", "initializing"} => ~initialized'
      /\ phase' = "stopping" /\ initialized' => \E k \in 1..Len(inbox') : Calls(k, "shutdown")'
  <2>1. CASE /\ ~Calls(1, "initialize") /\ ~Calls(1, "shutdown")
             /\ UNCHANGED <<phase, initialized>>
    <3>1. ASSUME phase = "stopping", initialized
          PROVE  \E k \in 1..Len(inbox') : Calls(k, "shutdown")'
      <4>1. PICK k \in 1..Len(inbox) : Calls(k, "shutdown")
        BY <3>1 DEF SessionIsInitialized
      <4> QED
        BY <1>3, <2>1, <4>1
    <3> QED
      BY <2>1, <3>1 DEF SessionIsInitialized
  <2>2. CASE Calls(1, "initialize")
    BY <2>2
  <2>3. CASE Calls(1, "shutdown")
    BY <1>1, <2>3 DEF SessionIsInitialized
  <2> QED
    BY <2>1, <2>2, <2>3
<1>7. ASSUME NEW k \in 1..Len(inbox')
      PROVE  /\ SentIn(k, "fresh")' =>
                    /\ phase' \in {"fresh", "initializing"}
                    /\ \A l \in 1..(k - 1) : ~Calls(l, "initialize")'
             /\ SentIn(k, "running")' =>
                    /\ initialized'
                    /\ \A l \in 1..(k - 1) : ~Calls(l, "shutdown")'
             /\ SentIn(k, "stopping")' =>
                    \/ ~initialized'
                    \/ \E l \in 1..(k - 1) : Calls(l, "shutdown")'
  <2>1. /\ k + 1 \in 1..Len(inbox) /\ 1 \in 1..k
        /\ \A p : SentIn(k, p)' <=> SentIn(k + 1, p)
    BY <1>1, <1>2
  <2>2. ASSUME NEW l \in 1..(k - 1)
        PROVE  l + 1 \in 1..k /\ \A m : Calls(l, m)' <=> Calls(l + 1, m)
    BY <1>1, <1>2
  <2>3. ASSUME NEW l \in 1..k, l # 1
        PROVE  l - 1 \in 1..(k - 1) /\ \A m : Calls(l - 1, m)' <=> Calls(l, m)
    <3>1. l - 1 \in 1..(k - 1) /\ l \in 1..Len(inbox)
      BY <1>1, <2>1, <2>3
    <3> QED
      BY <1>3, <2>3, <3>1
  <2>4. /\ SentIn(k + 1, "fresh") =>
              /\ phase \in {"fresh", "initializing"}
              /\ \A l \in 1..k : ~Calls(l, "initialize")
        /\ SentIn(k + 1, "running") => initialized /\ \A l \in 1..k : ~Calls(l, "shutdown")
        /\ SentIn(k + 1, "stopping") =>
              ~initialized \/ \E l \in 1..k : Calls(l, "shutdown")
    <3>1. (k + 1) - 1 = k
      OBVIOUS
    <3> QED
      BY <2>1, <3>1 DEF ReadInOrder
  <2>5. ASSUME SentIn(k, "fresh")'
        PROVE  /\ phase' \in {"fresh", "initializing"}
               /\ \A l \in 1..(k - 1) : ~Calls(l, "initialize")'
    BY <1>1, <2>1, <2>2, <2>4, <2>5 DEF SessionIsInitialized
  <2>6. ASSUME SentIn(k, "running")'
        PROVE  initialized' /\ \A l \in 1..(k - 1) : ~Calls(l, "shutdown")'
    BY <1>1, <2>1, <2>2, <2>4, <2>6 DEF SessionIsInitialized
  <2>7. ASSUME SentIn(k, "stopping")', initialized'
        PROVE  \E l \in 1..(k - 1) : Calls(l, "shutdown")'
    <3>1. SentIn(k + 1, "stopping")
      BY <2>1, <2>7
    <3>2. phase = "stopping"
      BY <2>1, <3>1 DEF SentIn, IsRequest, Typed, PhasesInOrder
    <3>3. ~Calls(1, "initialize") /\ ~Calls(1, "shutdown") /\ initialized
      BY <1>1, <2>7, <3>2 DEF SessionIsInitialized
    <3>4. PICK l \in 1..k : Calls(l, "shutdown")
      BY <2>4, <3>1, <3>3
    <3> QED
      BY <2>3, <3>3, <3>4
  <2> QED
    BY <2>5, <2>6, <2>7
<1> QED
  BY <1>4, <1>5, <1>6, <1>7 DEF SessionIsInitialized, ReadInOrder

(* The editor adds a message: a notification, the request that starts or   *)
(* ends the session, or another one.                                       *)
LEMMA SendKeepsOrder ==
  ASSUME Typed, SessionIsInitialized, ReadInOrder, NEW n, n = Len(inbox) + 1,
         Len(inbox') = n, initialized' = initialized,
         \A k \in 1..Len(inbox) : /\ \A m : Calls(k, m)' <=> Calls(k, m)
                                 /\ \A p : SentIn(k, p)' <=> SentIn(k, p),
         \/ /\ phase' = phase
            /\ \A m : ~Calls(n, m)'
            /\ \A p : ~SentIn(n, p)'
         \/ /\ phase = "fresh" /\ phase' = "initializing"
            /\ \A m : Calls(n, m)' <=> m = "initialize"
            /\ \A p : SentIn(n, p)' <=> p = "fresh"
         \/ /\ phase = "running" /\ phase' = "stopping"
            /\ \A m : Calls(n, m)' <=> m = "shutdown"
            /\ \A p : SentIn(n, p)' <=> p = "running"
         \/ /\ phase' = phase
            /\ \A m : Calls(n, m)' => m \notin {"initialize", "shutdown"}
            /\ \A p : SentIn(n, p)' <=> p = phase
  PROVE  SessionIsInitialized' /\ ReadInOrder'
<1>1. /\ Len(inbox) \in Nat /\ n \in 1..n /\ phase \in Phases
      /\ \A k \in 1..n : k = n \/ k \in 1..Len(inbox)
      /\ \A k \in 1..Len(inbox) : k \in 1..n /\ k # n
      /\ 1..(n - 1) = 1..Len(inbox)
      /\ \A k \in 1..n : \A l \in 1..(k - 1) : l \in 1..Len(inbox) /\ l # n
  BY DEF Typed, TypeOK
<1>2. /\ phase' = "running" => initialized'
      /\ phase' \in {"fresh", "initializing"} => ~initialized'
      /\ phase' = "stopping" /\ initialized' => \E k \in 1..Len(inbox') : Calls(k, "shutdown")'
  BY <1>1 DEF SessionIsInitialized
<1>3. ASSUME NEW k \in 1..n, Calls(k, "initialize")'
      PROVE  /\ phase' = "initializing" /\ SentIn(k, "fresh")'
             /\ \A l \in 1..n : Calls(l, "initialize")' => l = k
  BY <1>1, <1>3 DEF SessionIsInitialized
<1>4. ASSUME NEW k \in 1..n, Calls(k, "shutdown")'
      PROVE  /\ phase' = "stopping" /\ SentIn(k, "running")'
             /\ \A l \in 1..n : Calls(l, "shutdown")' => l = k
  BY <1>1, <1>4 DEF SessionIsInitialized
<1>5. ASSUME NEW k \in 1..n
      PROVE  /\ SentIn(k, "fresh")' =>
                    /\ phase' \in {"fresh", "initializing"}
                    /\ \A l \in 1..(k - 1) : ~Calls(l, "initialize")'
             /\ SentIn(k, "running")' =>
                    /\ initialized'
                    /\ \A l \in 1..(k - 1) : ~Calls(l, "shutdown")'
             /\ SentIn(k, "stopping")' =>
                    \/ ~initialized'
                    \/ \E l \in 1..(k - 1) : Calls(l, "shutdown")'
  <2>1. CASE k \in 1..Len(inbox)
    BY <1>1, <2>1 DEF SessionIsInitialized, ReadInOrder
  <2>2. CASE k = n
    BY <1>1, <2>2 DEF SessionIsInitialized, ReadInOrder, Phases
  <2> QED
    BY <1>1, <2>1, <2>2
<1> QED
  BY <1>2, <1>3, <1>4, <1>5 DEF SessionIsInitialized, ReadInOrder

-----------------------------------------------------------------------------
(* What ProtocolHandler does with a message, in the words of the session.  *)
LEMMA ReplyMeans ==
  ASSUME initialized \in BOOLEAN, NEW m, NEW o \in Outcomes
  PROVE  /\ Reply(initialized, m, o) \in Replies
         /\ Reply(initialized, m, o) = "notInitialized" <=> ~initialized /\ m # "initialize"
         /\ m = "initialize" /\ Reply(initialized, m, o) = "result" => o = "result"
         /\ InitializedAfter(initialized, m, Reply(initialized, m, o)) \in BOOLEAN
         /\ m = "initialize" => (InitializedAfter(initialized, m, Reply(initialized, m, o))
                                    <=> initialized \/ Reply(initialized, m, o) = "result")
         /\ m = "shutdown" => ~InitializedAfter(initialized, m, Reply(initialized, m, o))
         /\ m \notin {"initialize", "shutdown"} =>
               (InitializedAfter(initialized, m, Reply(initialized, m, o)) <=> initialized)
<1>1. /\ Reply(initialized, m, o) \in Replies
      /\ Reply(initialized, m, o) = "notInitialized" <=> ~initialized /\ m # "initialize"
  BY DEF Reply, Replies, Outcomes
<1>2. m = "initialize" /\ Reply(initialized, m, o) = "result" => o = "result"
  BY DEF Reply, Outcomes, NoParams
<1> DEFINE a == InitializedAfter(initialized, m, Reply(initialized, m, o))
<1>3. /\ a \in BOOLEAN
      /\ m = "initialize" => (a <=> initialized \/ Reply(initialized, m, o) = "result")
  BY <1>1 DEF InitializedAfter
<1>4. m = "shutdown" => ~a
  BY <1>1 DEF InitializedAfter
<1>5. m \notin {"initialize", "shutdown"} => (a <=> initialized)
  BY <1>1 DEF InitializedAfter
<1> QED
  BY <1>1, <1>2, <1>3, <1>4, <1>5

(* A reply changes the reply of one request, and the session if it is to   *)
(* initialize or shutdown.                                                 *)
LEMMA ReplyToMeans ==
  ASSUME Typed, NEW i \in 1..Len(asked), NEW o \in Outcomes, ReplyTo(i, o),
         NEW m, m = asked[i].method
  PROVE  /\ SameAsked /\ asked' \in Seq(Asking)
         /\ \A j \in 1..Len(asked) : j # i => asked'[j] = asked[j]
         /\ asked'[i].reply = Reply(initialized, m, o)
         /\ initialized' \in BOOLEAN /\ phase' \in Phases
         /\ m = "initialize" =>
              /\ initialized' = (initialized \/ phase' = "running")
              /\ phase' \in {"running", "fresh"}
              /\ phase' = "running" => o = "result"
         /\ m = "shutdown" => ~initialized' /\ phase' = phase
         /\ m \notin {"initialize", "shutdown"} => UNCHANGED <<phase, initialized>>
<1> DEFINE r == Reply(initialized, m, o)
<1>1. /\ initialized \in BOOLEAN /\ phase \in Phases
      /\ asked \in Seq(Asking) /\ Len(asked) \in Nat
  BY DEF Typed, TypeOK
<1>2. /\ r \in Replies
      /\ m = "initialize" /\ r = "result" => o = "result"
      /\ InitializedAfter(initialized, m, r) \in BOOLEAN
      /\ m = "initialize" =>
            (InitializedAfter(initialized, m, r) <=> initialized \/ r = "result")
      /\ m = "shutdown" => ~InitializedAfter(initialized, m, r)
      /\ m \notin {"initialize", "shutdown"} =>
            (InitializedAfter(initialized, m, r) <=> initialized)
  BY <1>1, ReplyMeans
<1> HIDE DEF r
<1>3. /\ asked' = [asked EXCEPT ![i].reply = r]
      /\ initialized' = InitializedAfter(initialized, m, r)
      /\ phase' = IF m = "initialize" THEN IF r = "result" THEN "running" ELSE "fresh" ELSE phase
  BY DEF ReplyTo, r
<1>4. asked' = [asked EXCEPT ![i] = [asked[i] EXCEPT !.reply = r]] /\ asked[i] \in Asking
  BY <1>1, <1>3
<1>5. [asked[i] EXCEPT !.reply = r] \in Asking
  BY <1>2, <1>4 DEF Asking
<1>6. /\ asked' \in Seq(Asking) /\ Len(asked') = Len(asked)
      /\ \A j \in 1..Len(asked) : j # i => asked'[j] = asked[j]
      /\ asked'[i] = [asked[i] EXCEPT !.reply = r]
  BY <1>1, <1>4, <1>5
<1>7. /\ asked'[i].reply = r /\ asked'[i].method = asked[i].method
      /\ asked'[i].phase = asked[i].phase
  BY <1>4, <1>6 DEF Asking
<1>8. SameAsked
  BY <1>6, <1>7 DEF SameAsked
<1>9. /\ initialized' \in BOOLEAN /\ phase' \in Phases
      /\ m = "initialize" =>
              /\ initialized' = (initialized \/ phase' = "running")
              /\ phase' \in {"running", "fresh"}
              /\ phase' = "running" => o = "result"
      /\ m = "shutdown" => ~initialized' /\ phase' = phase
      /\ m \notin {"initialize", "shutdown"} => UNCHANGED <<phase, initialized>>
  BY <1>1, <1>2, <1>3 DEF Phases
<1> QED
  BY <1>6, <1>7, <1>8, <1>9 DEF r

(* The reply to a request that is read, or to a hint, is the right one.    *)
LEMMA ReplyIsRight ==
  ASSUME Typed, SessionIsInitialized, ReadInOrder, PhasesInOrder, RefusedOutsideSession,
         NEW i \in 1..Len(asked), NEW o \in Outcomes, ReplyTo(i, o),
         \/ inbox # <<>> /\ inbox[1].kind = "request" /\ inbox[1].id = i
         \/ i \in hints
  PROVE  RefusedOutsideSession'
<1> DEFINE m == asked[i].method
           p == asked[i].phase
           r == Reply(initialized, m, o)
<1>1. /\ SameAsked /\ asked' \in Seq(Asking) /\ asked'[i].reply = r
      /\ \A j \in 1..Len(asked) : j # i => asked'[j] = asked[j]
  BY ReplyToMeans
<1>2. /\ DOMAIN asked' = 1..Len(asked) /\ DOMAIN asked = 1..Len(asked)
      /\ asked'[i].method = m /\ asked'[i].phase = p
      /\ \A j \in 1..Len(asked) : asked'[j].method = asked[j].method
  BY <1>1 DEF SameAsked, Typed
<1>3. r = "notInitialized" <=> ~initialized /\ m # "initialize"
  <2>1. initialized \in BOOLEAN
    BY DEF Typed, TypeOK
  <2> QED
    BY <2>1, ReplyMeans, Zenon
<1>0. i \notin hints => /\ 1 \in 1..Len(inbox) /\ 1..(1 - 1) = {}
                       /\ \A q \in Phases : SentIn(1, q) <=> p = q
  <2>1. inbox # <<>> => 1 \in 1..Len(inbox)
    BY DEF Typed
  <2> QED
    BY <2>1 DEF SentIn, IsRequest
<1> HIDE DEF m, p, r
<1>4. ASSUME ~initialized, m # "initialize", p = "running"
      PROVE  Asynchronous(m) /\ \E j \in 1..Len(asked) : j > i /\ asked[j].method = "shutdown"
  <2>1. i \in hints
    BY <1>0, <1>4 DEF ReadInOrder, Phases
  <2>2. Asynchronous(m)
    BY <2>1 DEF Typed, m
  <2>3. PICK j \in i..Len(asked) : asked[j].method = "shutdown"
    BY <1>4 DEF PhasesInOrder, SessionIsInitialized, p
  <2>4. j # i /\ j \in 1..Len(asked)
    BY <2>2, <2>3 DEF Asynchronous, m, Typed
  <2> QED
    BY <2>2, <2>3, <2>4
<1>5. ASSUME initialized, m # "initialize", p \notin {"running", "initializing"}
      PROVE  Asynchronous(m) /\ \E j \in 1..Len(asked) : j > i /\ asked[j].method = "initialize"
  <2>1. p \in {"fresh", "stopping"}
    BY <1>5 DEF Typed, TypeOK, Phases, p
  <2>2. i \in hints
    BY <1>0, <1>5, <2>1 DEF ReadInOrder, SessionIsInitialized, Phases
  <2>3. Asynchronous(m)
    BY <2>2 DEF Typed, m
  <2>4. PICK j \in i..Len(asked) : asked[j].method = "initialize"
    BY <1>5, <2>1, <2>2 DEF PhasesInOrder, SessionIsInitialized, p
  <2>5. j # i /\ j \in 1..Len(asked)
    BY <2>3, <2>4 DEF Asynchronous, m, Typed
  <2> QED
    BY <2>3, <2>4, <2>5
<1>6. ASSUME NEW j \in 1..Len(asked), j # i
      PROVE  /\ asked'[j].reply = "notInitialized" /\ asked'[j].phase = "running"
                  => /\ Asynchronous(asked'[j].method)
                     /\ \E k \in DOMAIN asked' : k > j /\ asked'[k].method = "shutdown"
             /\ asked'[j].reply \in Served /\ asked'[j].method # "initialize"
                  => \/ asked'[j].phase \in {"running", "initializing"}
                     \/ /\ Asynchronous(asked'[j].method)
                        /\ \E k \in DOMAIN asked' : k > j /\ asked'[k].method = "initialize"
  BY <1>1, <1>2, <1>6 DEF RefusedOutsideSession
<1>7. /\ asked'[i].reply = "notInitialized" /\ asked'[i].phase = "running"
           => /\ Asynchronous(asked'[i].method)
              /\ \E k \in DOMAIN asked' : k > i /\ asked'[k].method = "shutdown"
      /\ asked'[i].reply \in Served /\ asked'[i].method # "initialize"
           => \/ asked'[i].phase \in {"running", "initializing"}
              \/ /\ Asynchronous(asked'[i].method)
                 /\ \E k \in DOMAIN asked' : k > i /\ asked'[k].method = "initialize"
  BY <1>1, <1>2, <1>3, <1>4, <1>5 DEF Served
<1> QED
  BY <1>2, <1>6, <1>7 DEF RefusedOutsideSession

-----------------------------------------------------------------------------
(* The fields of the requests and messages.                                *)
LEMMA FieldTypes ==
  ASSUME NEW s \in Seq(Asking), NEW t \in Seq(Messages)
  PROVE  /\ \A i \in DOMAIN s : /\ s[i].method \in Requested /\ s[i].phase \in Phases
                               /\ s[i].reply \in Replies \cup {"none"}
         /\ \A k \in DOMAIN t : t[k] \in Messages
         /\ DOMAIN s = 1..Len(s)
<1>1. /\ \A i \in DOMAIN s : s[i] \in Asking
      /\ \A k \in DOMAIN t : t[k] \in Messages
      /\ DOMAIN s = 1..Len(s)
  OBVIOUS
<1> QED
  BY <1>1 DEF Asking

(* A request that the editor sends: the last in the inbox, and the last of *)
(* those asked.                                                            *)
LEMMA RequestMeans ==
  ASSUME Typed, RefusedOutsideSession, NEW method \in Requested, Request(method),
         phase' \in Phases,
         NEW n, n = Len(inbox) + 1
  PROVE  /\ Typed' /\ RefusedOutsideSession'
         /\ Len(asked) \in Nat /\ Len(asked') = Len(asked) + 1
         /\ \A i \in 1..Len(asked) : asked'[i] = asked[i]
         /\ asked'[Len(asked) + 1].method = method
         /\ asked'[Len(asked) + 1].phase = phase
         /\ Len(inbox') = n
         /\ \A k \in 1..Len(inbox) : /\ \A m : Calls(k, m)' <=> Calls(k, m)
                                    /\ \A p : SentIn(k, p)' <=> SentIn(k, p)
         /\ \A m : Calls(n, m)' <=> m = method
         /\ \A p : SentIn(n, p)' <=> p = phase
         /\ UNCHANGED <<initialized, hints, client, fetch>>
<1> DEFINE i == Len(asked) + 1
           call == [method |-> method, phase |-> phase, reply |-> "none"]
           message == [kind |-> "request", id |-> i]
<1>1. /\ asked \in Seq(Asking) /\ inbox \in Seq(Messages)
      /\ Len(asked) \in Nat /\ Len(inbox) \in Nat /\ phase \in Phases
      /\ Len(asked) < MaxRequests /\ MaxRequests \in Nat
  BY SessionAssumption DEF Typed, TypeOK, Request
<1>2. call \in Asking /\ message \in Messages
  BY <1>1 DEF Asking, Messages
<1>3. inbox' = Append(inbox, message) /\ asked' = Append(asked, call)
  BY DEF Request, Send
<1> HIDE DEF call, message
<1>4. /\ asked' \in Seq(Asking) /\ Len(asked') = i /\ i <= MaxRequests
      /\ \A j \in 1..Len(asked) : asked'[j] = asked[j]
      /\ asked'[i] = call
      /\ inbox' \in Seq(Messages) /\ Len(inbox') = n
      /\ \A k \in 1..Len(inbox) : inbox'[k] = inbox[k]
      /\ inbox'[n] = message
      /\ 1..i = (1..Len(asked)) \cup {i} /\ 1..n = (1..Len(inbox)) \cup {n}
  BY <1>1, <1>2, <1>3
<1>5. /\ call.method = method /\ call.phase = phase /\ call.reply = "none"
      /\ message.kind = "request" /\ message.id = i
  BY DEF call, message
<1>6. UNCHANGED <<setting, changes, opens, opened, overtaken,
                  serverVars, configVars, analysing, shown>>
  BY DEF Request
<1>7. RefusedOutsideSession'
  <2>1. DOMAIN asked' = 1..i /\ DOMAIN asked = 1..Len(asked)
    BY <1>1, <1>4
  <2>2. asked'[i].reply \notin Served \cup {"notInitialized"}
    BY <1>4, <1>5 DEF Served
  <2>3. \A j, k \in 1..Len(asked) : asked'[j] = asked[j] /\ k \in 1..i
    BY <1>4
  <2> HIDE DEF i
  <2> QED
    BY <1>4, <2>1, <2>2, <2>3 DEF RefusedOutsideSession
<1>8. Typed'
  <2>1. \A k \in 1..n : inbox'[k].kind = "request" => inbox'[k].id \in 1..i
    BY <1>1, <1>4, <1>5 DEF Typed
  <2>2. \A j \in hints' : j \in 1..Len(asked) /\ Asynchronous(asked'[j].method)
    BY <1>1, <1>4, <1>6 DEF Typed, TypeOK, serverVars
  <2>3. /\ \A j \in DOMAIN asked' :
              /\ asked'[j].method \in Requested /\ asked'[j].phase \in Phases
              /\ asked'[j].reply \in Replies \cup {"none"}
        /\ \A k \in DOMAIN inbox' : inbox'[k] \in Messages
        /\ hints' \subseteq DOMAIN asked'
    BY <1>4, <2>2, FieldTypes
  <2>4. TypeOK'
    BY <1>6, <2>3 DEF Typed, TypeOK, serverVars, configVars
  <2> QED
    BY <1>4, <1>6, <2>1, <2>2, <2>4 DEF Typed, serverVars, configVars
<1>9. \A k \in 1..Len(inbox) : /\ \A m : Calls(k, m)' <=> Calls(k, m)
                              /\ \A p : SentIn(k, p)' <=> SentIn(k, p)
  BY <1>4 DEF Calls, SentIn, IsRequest, Typed
<1>10. /\ \A m : Calls(n, m)' <=> m = method
       /\ \A p : SentIn(n, p)' <=> p = phase
  BY <1>4, <1>5 DEF Calls, SentIn, IsRequest
<1> QED
  BY <1>1, <1>4, <1>5, <1>6, <1>7, <1>8, <1>9, <1>10 DEF serverVars, configVars

(* The phases of the requests stay in order while the loop and the         *)
(* goroutines work.                                                        *)
LEMMA WorkKeepsPhases ==
  ASSUME Typed, PhasesInOrder, SessionIsInitialized, SameAsked,
         phase' = phase \/ phase = "initializing",
         initialized' => initialized \/ phase = "initializing",
         \A i \in hints' : i \in hints \/ asked[i].phase # "stopping" \/ ~initialized
  PROVE  PhasesInOrder'
<1>1. Len(asked') = Len(asked)
  BY DEF SameAsked
<1>2. ASSUME NEW i \in 1..Len(asked)
      PROVE  /\ asked'[i].phase = asked[i].phase
             /\ \A j \in i..Len(asked) : asked'[j].method = asked[j].method
  BY DEF SameAsked
<1>3. ASSUME NEW i \in 1..Len(asked), asked[i].phase = "stopping"
      PROVE  phase' = "stopping" /\ (i \in hints' => ~initialized')
  BY <1>3 DEF PhasesInOrder
<1>4. ASSUME NEW i \in 1..Len(asked), asked[i].phase = "fresh"
      PROVE  phase' = "fresh" \/ \E j \in i..Len(asked) : asked[j].method = "initialize"
  BY <1>4 DEF PhasesInOrder
<1>5. ASSUME NEW i \in 1..Len(asked), asked[i].phase = "running"
      PROVE  phase' = "running" \/ \E j \in i..Len(asked) : asked[j].method = "shutdown"
  BY <1>5 DEF PhasesInOrder
<1> QED
  BY <1>1, <1>2, <1>3, <1>4, <1>5 DEF PhasesInOrder

(* A request that is sent keeps them in order too: it starts the session,  *)
(* ends it, or is sent in the phase that lasts.                            *)
LEMMA RequestKeepsPhases ==
  ASSUME Typed, PhasesInOrder, SessionIsInitialized, NEW method,
         Len(asked') = Len(asked) + 1,
         \A i \in 1..Len(asked) : asked'[i] = asked[i],
         asked'[Len(asked) + 1].method = method,
         asked'[Len(asked) + 1].phase = phase,
         UNCHANGED <<hints, initialized>>,
         \/ phase = "fresh" /\ phase' = "initializing" /\ method = "initialize"
         \/ phase = "running" /\ phase' = "stopping" /\ method = "shutdown"
         \/ phase' = phase
  PROVE  PhasesInOrder'
<1> DEFINE n == Len(asked) + 1
<1>1. /\ n \in 1..n /\ n \notin hints /\ \A i \in 1..n : i = n \/ i \in 1..Len(asked)
      /\ \A i \in 1..n : n \in i..n /\ i..n = (i..Len(asked)) \cup {n}
  BY DEF Typed, TypeOK
<1> HIDE DEF n
<1>2. Len(asked') = n /\ asked'[n].method = method /\ asked'[n].phase = phase
  BY DEF n
<1>3. ASSUME NEW i \in 1..n, asked'[i].phase = "stopping"
      PROVE  phase' = "stopping" /\ (i \in hints' => ~initialized')
  BY <1>1, <1>2, <1>3 DEF PhasesInOrder
<1>4. ASSUME NEW i \in 1..n, asked'[i].phase = "fresh"
      PROVE  phase' = "fresh" \/ \E j \in i..n : asked'[j].method = "initialize"
  <2>1. CASE i = n
    BY <1>1, <1>2, <1>4, <2>1
  <2>2. CASE i # n
    <3>1. i \in 1..Len(asked) /\ asked[i].phase = "fresh"
      BY <1>1, <1>4, <2>2
    <3>2. phase = "fresh" \/ \E j \in i..Len(asked) : asked[j].method = "initialize"
      BY <3>1 DEF PhasesInOrder
    <3>3. \A j \in i..Len(asked) : j \in i..n /\ asked'[j] = asked[j]
      BY <1>1, <3>1
    <3> QED
      BY <1>1, <1>2, <3>2, <3>3
  <2> QED
    BY <2>1, <2>2
<1>5. ASSUME NEW i \in 1..n, asked'[i].phase = "running"
      PROVE  phase' = "running" \/ \E j \in i..n : asked'[j].method = "shutdown"
  <2>1. CASE i = n
    BY <1>1, <1>2, <1>5, <2>1
  <2>2. CASE i # n
    <3>1. i \in 1..Len(asked) /\ asked[i].phase = "running"
      BY <1>1, <1>5, <2>2
    <3>2. phase = "running" \/ \E j \in i..Len(asked) : asked[j].method = "shutdown"
      BY <3>1 DEF PhasesInOrder
    <3>3. \A j \in i..Len(asked) : j \in i..n /\ asked'[j] = asked[j]
      BY <1>1, <3>1
    <3> QED
      BY <1>1, <1>2, <3>2, <3>3
  <2> QED
    BY <2>1, <2>2
<1> QED
  BY <1>2, <1>3, <1>4, <1>5 DEF PhasesInOrder

(* A step that leaves the requests and the session alone.                  *)
LEMMA AloneKeepsOrder ==
  ASSUME SessionIsInitialized, ReadInOrder, PhasesInOrder, RefusedOutsideSession,
         UNCHANGED <<phase, asked, inbox, initialized, hints>>
  PROVE  SessionIsInitialized' /\ ReadInOrder' /\ PhasesInOrder' /\ RefusedOutsideSession'
<1>1. /\ SessionIsInitialized' <=> SessionIsInitialized
      /\ ReadInOrder' <=> ReadInOrder
  BY DEF SessionIsInitialized, ReadInOrder, Calls, SentIn, IsRequest
<1>2. /\ PhasesInOrder' <=> PhasesInOrder
      /\ RefusedOutsideSession' <=> RefusedOutsideSession
  BY DEF PhasesInOrder, RefusedOutsideSession
<1> QED
  BY <1>1, <1>2

(* A notification that the editor sends is no request.                     *)
LEMMA NotificationKeepsOrder ==
  ASSUME Typed, SessionIsInitialized, ReadInOrder, PhasesInOrder, RefusedOutsideSession,
         NEW message \in Messages, message.kind # "request", Send(message),
         UNCHANGED <<phase, asked, serverVars>>
  PROVE  /\ SessionIsInitialized' /\ ReadInOrder' /\ PhasesInOrder' /\ RefusedOutsideSession'
         /\ inbox' \in Seq(Messages)
         /\ \A k \in 1..Len(inbox') :
                inbox'[k].kind = "request" => inbox'[k].id \in 1..Len(asked)
<1>1. PICK n : n = Len(inbox) + 1
  OBVIOUS
<1>2. /\ inbox \in Seq(Messages) /\ inbox' = Append(inbox, message)
      /\ UNCHANGED <<asked, initialized, hints>>
  BY DEF Typed, Send, serverVars
<1>3. /\ inbox' \in Seq(Messages) /\ Len(inbox') = n /\ inbox'[n] = message
      /\ \A k \in 1..Len(inbox) : k \in 1..n /\ inbox'[k] = inbox[k]
      /\ \A k \in 1..n : k \in 1..Len(inbox) \/ k = n
  BY <1>1, <1>2
<1>4. /\ \A k \in 1..Len(inbox) : /\ \A m : Calls(k, m)' <=> Calls(k, m)
                                  /\ \A p : SentIn(k, p)' <=> SentIn(k, p)
      /\ \A m : ~Calls(n, m)'
      /\ \A p : ~SentIn(n, p)'
  BY <1>2, <1>3 DEF Calls, SentIn, IsRequest
<1>5. SessionIsInitialized' /\ ReadInOrder'
  BY <1>1, <1>2, <1>3, <1>4, SendKeepsOrder
<1>6. PhasesInOrder' /\ RefusedOutsideSession'
  BY <1>2 DEF PhasesInOrder, RefusedOutsideSession
<1> QED
  BY <1>3, <1>5, <1>6 DEF Typed

(* What is left in the inbox after its first message.                      *)
LEMMA RestOfInbox ==
  ASSUME Typed, NEW kind, Receive(kind), Len(asked') = Len(asked)
  PROVE  /\ inbox # <<>> /\ inbox[1] = Head(inbox) /\ inbox[1].kind = kind
         /\ 1 \in 1..Len(inbox) /\ inbox[1] \in Messages
         /\ inbox' = Tail(inbox) /\ inbox' \in Seq(Messages)
         /\ \A k \in 1..Len(inbox') :
                inbox'[k].kind = "request" => inbox'[k].id \in 1..Len(asked')
         /\ \A k \in DOMAIN inbox' : inbox'[k] \in Messages
<1>1. inbox \in Seq(Messages) /\ inbox # <<>> /\ inbox' = Tail(inbox) /\ Head(inbox).kind = kind
  BY DEF Typed, Receive
<1>2. /\ inbox' \in Seq(Messages) /\ inbox[1] = Head(inbox) /\ 1 \in 1..Len(inbox)
      /\ inbox[1] \in Messages
      /\ \A k \in 1..Len(inbox') : k + 1 \in 1..Len(inbox) /\ inbox'[k] = inbox[k + 1]
      /\ \A k \in DOMAIN inbox' : inbox'[k] \in Messages
  BY <1>1
<1> QED
  BY <1>1, <1>2 DEF Typed

(* A notification that is read.                                            *)
LEMMA ReadingKeepsOrder ==
  ASSUME Typed, SessionIsInitialized, ReadInOrder, PhasesInOrder, RefusedOutsideSession,
         NEW kind, kind # "request", Receive(kind),
         UNCHANGED <<phase, asked, initialized, hints>>
  PROVE  SessionIsInitialized' /\ ReadInOrder' /\ PhasesInOrder' /\ RefusedOutsideSession'
<1>1. inbox # <<>> /\ inbox' = Tail(inbox) /\ inbox[1].kind = kind
  BY RestOfInbox
<1>2. ~Calls(1, "initialize") /\ ~Calls(1, "shutdown")
  BY <1>1 DEF Calls, IsRequest
<1>3. SameAsked
  BY DEF SameAsked
<1>4. SessionIsInitialized' /\ ReadInOrder'
  BY <1>1, <1>2, <1>3, ReadKeepsOrder
<1>5. PhasesInOrder' /\ RefusedOutsideSession'
  BY DEF PhasesInOrder, RefusedOutsideSession
<1> QED
  BY <1>4, <1>5

(* What TypeOK says of the fetchers.                                       *)
LEMMA FetchTypes ==
  ASSUME NEW g \in [Fetchers -> Fetches]
  PROVE  \A f \in Fetchers : g[f].at \in {"idle", "asking", "answered"}
<1>1. \A f \in Fetchers : g[f] \in Fetches
  OBVIOUS
<1> QED
  BY <1>1 DEF Fetches

-----------------------------------------------------------------------------
(* Settings have a level of telemetry, and so have the defaults; settings  *)
(* that are decoded are a configuration.                                   *)
LEMMA SettingsTypes ==
    /\ Default \in Configuration /\ Default.telemetry \in Levels
    /\ \A s \in Settings : s.telemetry \in Levels /\ Decoded(s) \in Configuration
<1>1. Default \in Configuration /\ Default.telemetry \in Levels
  BY DEF Default, Configuration, Levels, Experimental
<1>2. ASSUME NEW s \in Settings PROVE s.telemetry \in Levels /\ Decoded(s) \in Configuration
  <2>1. s \in Configuration
    BY SessionAssumption
  <2> QED
    BY <2>1 DEF Configuration, Decoded
<1> QED
  BY <1>1, <1>2

(* A goroutine that starts to ask is a free one, and asks.                 *)
LEMMA StartTypes ==
    ASSUME fetch \in [Fetchers -> Fetches],
           \A f \in Fetchers : fetch[f].at = "answered" => fetch[f].value \in Settings,
           NEW scopes \in SUBSET URIs, NEW then \in SUBSET URIs,
           StartFetch(scopes, then)
    PROVE  /\ fetch' \in [Fetchers -> Fetches]
           /\ \A f \in Fetchers : fetch'[f].at = "answered" => fetch'[f].value \in Settings
<1>1. AskFor(scopes, then) \in Fetches /\ AskFor(scopes, then).at = "asking"
  BY DEF AskFor, Fetches
<1>2. PICK f : f = NextFree(Free)
  OBVIOUS
<1>3. f \in Fetchers
  BY <1>2 DEF StartFetch, NextFree, Free
<1>4. fetch' = [fetch EXCEPT ![f] = AskFor(scopes, then)]
  BY <1>2 DEF StartFetch
<1> QED
  BY <1>1, <1>3, <1>4

(* So are the two that start after one notification.                       *)
LEMMA StartBothTypes ==
    ASSUME fetch \in [Fetchers -> Fetches],
           \A f \in Fetchers : fetch[f].at = "answered" => fetch[f].value \in Settings,
           StartBothFetches
    PROVE  /\ fetch' \in [Fetchers -> Fetches]
           /\ \A f \in Fetchers : fetch'[f].at = "answered" => fetch'[f].value \in Settings
<1>1. /\ AskFor({}, {}) \in Fetches /\ AskFor({}, {}).at = "asking"
      /\ AskFor(Documents, URIs) \in Fetches /\ AskFor(Documents, URIs).at = "asking"
  BY DEF AskFor, Fetches, Documents
<1>2. PICK f : f = NextFree(Free)
  OBVIOUS
<1>3. PICK g : g = NextFree(Free \ {f})
  OBVIOUS
<1>4. /\ Free # {} /\ Free # {f}
      /\ fetch' = [fetch EXCEPT ![f] = AskFor({}, {}), ![g] = AskFor(Documents, URIs)]
  BY <1>2, <1>3 DEF StartBothFetches
<1>5. f \in Fetchers /\ g \in Fetchers
  BY <1>2, <1>3, <1>4 DEF NextFree, Free
<1>6. fetch' = [h \in Fetchers |-> IF h = g THEN AskFor(Documents, URIs)
                                   ELSE IF h = f THEN AskFor({}, {}) ELSE fetch[h]]
  BY <1>4, <1>5
<1> QED
  BY <1>1, <1>5, <1>6

-----------------------------------------------------------------------------
(* A session that has not begun has these properties.                      *)
LEMMA InitInvariant == Init => IInv
<1> SUFFICES ASSUME Init PROVE IInv
  OBVIOUS
<1>1. /\ asked = <<>> /\ inbox = <<>> /\ Len(<<>>) = 0 /\ DOMAIN <<>> = {}
      /\ asked \in Seq(Asking) /\ inbox \in Seq(Messages) /\ 0 <= MaxRequests
  BY SessionAssumption DEF Init
<1>2. NoFetch \in Fetches /\ NoFetch.at = "idle"
  BY DEF NoFetch, Fetches
<1>3. Typed
  <2>1. /\ phase \in Phases /\ setting \in Settings /\ telemetry \in Levels
        /\ changes \in 0..MaxChanges /\ opens \in 0..MaxOpens
        /\ opened \subseteq URIs /\ managed \subseteq URIs /\ queued \subseteq URIs
        /\ hints \subseteq DOMAIN asked /\ hints = {}
    BY <1>1, SettingsTypes, SessionAssumption DEF Init, Phases
  <2>2. /\ configurations \in [URIs -> Configuration \cup {NoSettings}]
        /\ analysing \in [URIs -> Configuration \cup {NoSettings}]
        /\ shown \in [URIs -> Configuration \cup {NoSettings}]
    BY DEF Init
  <2>3. /\ fetch \in [Fetchers -> Fetches]
        /\ \A f \in Fetchers : fetch[f].at = "idle"
    BY <1>2 DEF Init
  <2>4. {connected, initialized, client, overtaken} \subseteq BOOLEAN
    BY DEF Init
  <2>5. TypeOK
    BY <1>1, <2>1, <2>2, <2>3, <2>4 DEF TypeOK
  <2> QED
    BY <1>1, <2>1, <2>3, <2>5 DEF Typed
<1>4. SessionIsInitialized /\ ReadInOrder /\ PhasesInOrder /\ RefusedOutsideSession
  BY <1>1 DEF Init, SessionIsInitialized, ReadInOrder, PhasesInOrder, RefusedOutsideSession
<1>5. ClientKnown
  BY <1>2 DEF Init, ClientKnown
<1> QED
  BY <1>3, <1>4, <1>5 DEF IInv

(* Every step keeps them.                                                  *)
LEMMA StepInvariant == IInv /\ [Next]_vars => IInv'
<1> SUFFICES ASSUME IInv, [Next]_vars PROVE IInv'
  OBVIOUS
<1> USE SessionAssumption
<1>0. /\ Typed /\ SessionIsInitialized /\ ReadInOrder /\ PhasesInOrder
      /\ RefusedOutsideSession /\ ClientKnown
  BY DEF IInv
<1>1. ASSUME NEW method \in Requested, Request(method), phase' \in Phases,
             \/ phase = "fresh" /\ phase' = "initializing" /\ method = "initialize"
             \/ phase = "running" /\ phase' = "stopping" /\ method = "shutdown"
             \/ phase' = phase /\ method \notin {"initialize", "shutdown"}
      PROVE  IInv'
  <2>1. PICK n : n = Len(inbox) + 1
    OBVIOUS
  <2>2. /\ Typed' /\ RefusedOutsideSession'
        /\ Len(asked) \in Nat /\ Len(asked') = Len(asked) + 1
        /\ \A i \in 1..Len(asked) : asked'[i] = asked[i]
        /\ asked'[Len(asked) + 1].method = method
        /\ asked'[Len(asked) + 1].phase = phase
        /\ Len(inbox') = n
        /\ \A k \in 1..Len(inbox) : /\ \A m : Calls(k, m)' <=> Calls(k, m)
                                   /\ \A p : SentIn(k, p)' <=> SentIn(k, p)
        /\ \A m : Calls(n, m)' <=> m = method
        /\ \A p : SentIn(n, p)' <=> p = phase
        /\ UNCHANGED <<initialized, hints, client, fetch>>
    BY <1>0, <1>1, <2>1, RequestMeans
  <2>3. SessionIsInitialized' /\ ReadInOrder'
    BY <1>0, <1>1, <2>1, <2>2, SendKeepsOrder
  <2>4. PhasesInOrder'
    BY <1>0, <1>1, <2>2, RequestKeepsPhases
  <2>5. ClientKnown'
    BY <1>0, <2>2 DEF ClientKnown
  <2> QED
    BY <2>2, <2>3, <2>4, <2>5 DEF IInv
<1>2. CASE SendInitialize \/ SendShutdown
  BY <1>1, <1>2 DEF SendInitialize, SendShutdown, Phases
<1>3. ASSUME NEW method \in Requested, SendRequest(method) PROVE IInv'
  <2>1. phase' = phase /\ phase \in Phases
    BY <1>0, <1>3 DEF SendRequest, Typed, TypeOK
  <2> QED
    BY <1>1, <1>3, <2>1 DEF SendRequest
<1>4. ASSUME NEW u \in URIs, OpenDocument(u) \/ CloseDocument(u) PROVE IInv'
  <2>1. PICK message \in Messages : message.kind # "request" /\ Send(message)
    BY <1>4 DEF OpenDocument, CloseDocument, Messages
  <2>2. /\ UNCHANGED <<phase, setting, changes, overtaken, asked, serverVars, configVars>>
        /\ UNCHANGED <<analysing, shown>>
        /\ opened' \subseteq URIs /\ opens' \in 0..MaxOpens
    BY <1>0, <1>4 DEF OpenDocument, CloseDocument, Typed, TypeOK
  <2>3. /\ SessionIsInitialized' /\ ReadInOrder' /\ PhasesInOrder' /\ RefusedOutsideSession'
        /\ inbox' \in Seq(Messages)
        /\ \A k \in 1..Len(inbox') :
               inbox'[k].kind = "request" => inbox'[k].id \in 1..Len(asked)
    BY <1>0, <2>1, <2>2, NotificationKeepsOrder
  <2>4. \A k \in DOMAIN inbox' : inbox'[k] \in Messages
    BY <2>3
  <2>5. TypeOK'
    BY <1>0, <2>2, <2>4 DEF Typed, TypeOK, serverVars, configVars
  <2>6. Typed'
    BY <1>0, <2>2, <2>3, <2>5 DEF Typed, serverVars, configVars
  <2>7. ClientKnown'
    BY <1>0, <2>2 DEF ClientKnown, serverVars, configVars
  <2> QED
    BY <2>3, <2>6, <2>7 DEF IInv
<1>5. ASSUME NEW value \in Settings, ChangeSettings(value) PROVE IInv'
  <2>1. PICK message \in Messages : message.kind # "request" /\ Send(message)
    BY <1>5 DEF ChangeSettings, Changed, Messages
  <2>2. /\ UNCHANGED <<phase, opens, opened, asked, serverVars, configVars, analysing, shown>>
        /\ setting' \in Settings /\ changes' \in 0..MaxChanges /\ overtaken' \in BOOLEAN
    BY <1>0, <1>5 DEF ChangeSettings, Typed, TypeOK
  <2>3. /\ SessionIsInitialized' /\ ReadInOrder' /\ PhasesInOrder' /\ RefusedOutsideSession'
        /\ inbox' \in Seq(Messages)
        /\ \A k \in 1..Len(inbox') :
               inbox'[k].kind = "request" => inbox'[k].id \in 1..Len(asked)
    BY <1>0, <2>1, <2>2, NotificationKeepsOrder
  <2>4. \A k \in DOMAIN inbox' : inbox'[k] \in Messages
    BY <2>3
  <2>5. TypeOK'
    BY <1>0, <2>2, <2>4 DEF Typed, TypeOK, serverVars, configVars
  <2>6. Typed'
    BY <1>0, <2>2, <2>3, <2>5 DEF Typed, serverVars, configVars
  <2>7. ClientKnown'
    BY <1>0, <2>2 DEF ClientKnown, serverVars, configVars
  <2> QED
    BY <2>3, <2>6, <2>7 DEF IInv
<1>6. ASSUME NEW outcome \in Outcomes, HandleRequest(outcome) PROVE IInv'
  <2>1. PICK i : i = Head(inbox).id
    OBVIOUS
  <2>2. PICK m : m = asked[i].method
    OBVIOUS
  <2>3. /\ Receive("request") /\ ~Asynchronous(m) /\ ReplyTo(i, outcome)
        /\ client' = (client \/ (m = "initialize" /\ outcome # "undecodable"))
        /\ telemetry' \in TelemetryAfter(m, outcome)
        /\ UNCHANGED <<setting, changes, opens, opened, overtaken, connected, hints>>
        /\ UNCHANGED <<managed, configurations, fetch, queued, analysing, shown>>
    BY <1>6, <2>1, <2>2 DEF HandleRequest
  <2>4. inbox # <<>> /\ Head(inbox).kind = "request" /\ inbox' = Tail(inbox)
    BY <2>3 DEF Receive
  <2>5. /\ inbox[1] = Head(inbox) /\ 1 \in 1..Len(inbox) /\ i \in 1..Len(asked)
    BY <1>0, <2>1, <2>4 DEF Typed
  <2>6. /\ SameAsked /\ asked' \in Seq(Asking)
        /\ initialized' \in BOOLEAN /\ phase' \in Phases
        /\ m = "initialize" =>
              /\ initialized' = (initialized \/ phase' = "running")
              /\ phase' \in {"running", "fresh"}
              /\ phase' = "running" => outcome = "result"
        /\ m = "shutdown" => ~initialized' /\ phase' = phase
        /\ m \notin {"initialize", "shutdown"} => UNCHANGED <<phase, initialized>>
    BY <1>0, <2>2, <2>3, <2>5, ReplyToMeans
  <2>7. \A q : Calls(1, q) <=> q = m
    BY <2>1, <2>2, <2>4, <2>5 DEF Calls, IsRequest
  <2>8. m = "initialize" => phase = "initializing" /\ ~initialized
    BY <1>0, <2>5, <2>7 DEF SessionIsInitialized
  <2>9. SessionIsInitialized' /\ ReadInOrder'
    BY <1>0, <2>4, <2>6, <2>7, <2>8, ReadKeepsOrder
  <2>10. PhasesInOrder'
    BY <1>0, <2>3, <2>6, <2>8, WorkKeepsPhases
  <2>11. RefusedOutsideSession'
    BY <1>0, <2>1, <2>3, <2>4, <2>5, ReplyIsRight
  <2>12. Len(asked') = Len(asked) /\ \A j \in 1..Len(asked) : asked'[j].method = asked[j].method
    BY <2>6 DEF SameAsked
  <2>13. /\ inbox' \in Seq(Messages) /\ \A k \in DOMAIN inbox' : inbox'[k] \in Messages
         /\ \A k \in 1..Len(inbox') :
                inbox'[k].kind = "request" => inbox'[k].id \in 1..Len(asked')
    BY <1>0, <2>3, <2>12, RestOfInbox
  <2>14. /\ \A j \in DOMAIN asked' :
              /\ asked'[j].method \in Requested /\ asked'[j].phase \in Phases
              /\ asked'[j].reply \in Replies \cup {"none"}
         /\ DOMAIN asked' = 1..Len(asked) /\ DOMAIN asked = 1..Len(asked)
    BY <1>0, <2>6, <2>12, <2>13, FieldTypes DEF Typed
  <2>15. client' \in BOOLEAN /\ telemetry' \in Levels
    <3>1. setting \in Settings /\ telemetry \in Levels
      BY <1>0 DEF Typed, TypeOK
    <3> QED
      BY <2>3, <3>1, SettingsTypes DEF TelemetryAfter
  <2>16. TypeOK'
    BY <1>0, <2>3, <2>6, <2>13, <2>14, <2>15 DEF Typed, TypeOK
  <2>17. Typed'
    <3>1. \A j \in hints' : Asynchronous(asked'[j].method)
      BY <1>0, <2>3, <2>12, <2>14 DEF Typed, TypeOK
    <3> QED
      BY <1>0, <2>3, <2>6, <2>12, <2>13, <2>16, <3>1 DEF Typed
  <2>18. ClientKnown'
    <3>1. initialized' => client'
      <4>1. CASE m = "initialize"
        BY <2>3, <2>6, <2>8, <4>1
      <4>2. CASE m # "initialize"
        BY <1>0, <2>3, <2>6, <4>2 DEF ClientKnown
      <4> QED
        BY <4>1, <4>2
    <3> QED
      BY <1>0, <2>3, <3>1 DEF ClientKnown
  <2> QED
    BY <2>9, <2>10, <2>11, <2>17, <2>18 DEF IInv
<1>7. ASSUME StartHint PROVE IInv'
  <2>1. PICK i : i = Head(inbox).id
    OBVIOUS
  <2>2. /\ Receive("request") /\ Asynchronous(asked[i].method) /\ hints' = hints \cup {i}
        /\ UNCHANGED <<editorVars, asked, connected, initialized, client>>
        /\ UNCHANGED <<configVars, analysing, shown>>
    BY <1>7, <2>1 DEF StartHint
  <2>3. inbox # <<>> /\ Head(inbox).kind = "request" /\ inbox' = Tail(inbox)
    BY <2>2 DEF Receive
  <2>4. inbox[1] = Head(inbox) /\ 1 \in 1..Len(inbox) /\ i \in 1..Len(asked)
    BY <1>0, <2>1, <2>3 DEF Typed
  <2>5. SameAsked /\ UNCHANGED <<phase, initialized>>
    BY <2>2 DEF SameAsked, editorVars
  <2>6. ~Calls(1, "initialize") /\ ~Calls(1, "shutdown")
    BY <2>1, <2>2, <2>4 DEF Calls, IsRequest, Asynchronous
  <2>7. SessionIsInitialized' /\ ReadInOrder'
    BY <1>0, <2>3, <2>5, <2>6, ReadKeepsOrder
  <2>8. asked[i].phase = "stopping" => ~initialized
    <3>1. 1..(1 - 1) = {} /\ (asked[i].phase = "stopping" => SentIn(1, "stopping"))
      BY <2>1, <2>3, <2>4 DEF SentIn, IsRequest
    <3> QED
      BY <1>0, <2>4, <3>1 DEF ReadInOrder
  <2>9. PhasesInOrder'
    BY <1>0, <2>2, <2>5, <2>8, WorkKeepsPhases
  <2>10. RefusedOutsideSession'
    BY <1>0, <2>2 DEF RefusedOutsideSession
  <2>11. /\ inbox' \in Seq(Messages) /\ \A k \in DOMAIN inbox' : inbox'[k] \in Messages
         /\ \A k \in 1..Len(inbox') :
                inbox'[k].kind = "request" => inbox'[k].id \in 1..Len(asked')
    BY <1>0, <2>2, RestOfInbox
  <2>12. DOMAIN asked = 1..Len(asked)
    BY <1>0 DEF Typed
  <2>13. TypeOK'
    BY <1>0, <2>2, <2>4, <2>11, <2>12 DEF Typed, TypeOK, editorVars, configVars
  <2>14. Typed'
    BY <1>0, <2>2, <2>11, <2>13 DEF Typed, configVars
  <2>15. ClientKnown'
    BY <1>0, <2>2 DEF ClientKnown, configVars
  <2> QED
    BY <2>7, <2>9, <2>10, <2>14, <2>15 DEF IInv
<1>8. ASSUME NEW u \in URIs, HandleDidOpen(u) PROVE IInv'
  <2>1. /\ Receive("didOpen") /\ UNCHANGED <<editorVars, asked, serverVars, configurations>>
        /\ UNCHANGED <<telemetry, queued, analysing, shown>>
        /\ UNCHANGED <<phase, initialized, hints>>
        /\ managed' \subseteq URIs
    BY <1>0, <1>8 DEF HandleDidOpen, Typed, TypeOK, editorVars, serverVars
  <2>2. SessionIsInitialized' /\ ReadInOrder' /\ PhasesInOrder' /\ RefusedOutsideSession'
    BY <1>0, <2>1, ReadingKeepsOrder
  <2>3. /\ inbox' \in Seq(Messages) /\ \A k \in DOMAIN inbox' : inbox'[k] \in Messages
        /\ \A k \in 1..Len(inbox') :
               inbox'[k].kind = "request" => inbox'[k].id \in 1..Len(asked')
    BY <1>0, <2>1, RestOfInbox
  <2>4. /\ fetch' \in [Fetchers -> Fetches]
        /\ \A f \in Fetchers : fetch'[f].at = "answered" => fetch'[f].value \in Settings
        /\ ~initialized => fetch' = fetch
    <3>1. CASE ~initialized
      BY <1>0, <1>8, <3>1 DEF HandleDidOpen, Typed
    <3>2. CASE initialized
      <4>1. StartFetch({u}, {u})
        BY <1>8, <3>2 DEF HandleDidOpen
      <4> QED
        BY <1>0, <3>2, <4>1, StartTypes DEF Typed
    <3> QED
      BY <3>1, <3>2
  <2>5. Typed'
    BY <1>0, <2>1, <2>3, <2>4, FetchTypes DEF Typed, TypeOK, editorVars, serverVars
  <2>6. ClientKnown'
    BY <1>0, <2>1, <2>4 DEF ClientKnown, serverVars
  <2> QED
    BY <2>2, <2>5, <2>6 DEF IInv
<1>9. ASSUME NEW u \in URIs, HandleDidClose(u) PROVE IInv'
  <2>1. /\ Receive("didClose") /\ UNCHANGED <<editorVars, asked, serverVars>>
        /\ UNCHANGED <<telemetry, fetch, analysing>>
        /\ UNCHANGED <<phase, initialized, hints>>
    BY <1>9 DEF HandleDidClose, editorVars, serverVars
  <2>2. SessionIsInitialized' /\ ReadInOrder' /\ PhasesInOrder' /\ RefusedOutsideSession'
    BY <1>0, <2>1, ReadingKeepsOrder
  <2>3. /\ inbox' \in Seq(Messages) /\ \A k \in DOMAIN inbox' : inbox'[k] \in Messages
        /\ \A k \in 1..Len(inbox') :
               inbox'[k].kind = "request" => inbox'[k].id \in 1..Len(asked')
    BY <1>0, <2>1, RestOfInbox
  <2>4. /\ managed' \subseteq URIs /\ queued' \subseteq URIs
        /\ configurations' \in [URIs -> Configuration \cup {NoSettings}]
        /\ shown' \in [URIs -> Configuration \cup {NoSettings}]
    <3>1. /\ managed' \in {managed, managed \ {u}} /\ queued' \in {queued, queued \ {u}}
          /\ configurations' \in {configurations, [configurations EXCEPT ![u] = NoSettings]}
          /\ shown' \in {shown, [shown EXCEPT ![u] = NoSettings]}
      BY <1>9 DEF HandleDidClose
    <3> QED
      BY <1>0, <3>1 DEF Typed, TypeOK
  <2>5. Typed'
    BY <1>0, <2>1, <2>3, <2>4 DEF Typed, TypeOK, editorVars, serverVars
  <2>6. ClientKnown'
    BY <1>0, <2>1 DEF ClientKnown, serverVars
  <2> QED
    BY <2>2, <2>5, <2>6 DEF IInv
<1>10. ASSUME HandleDidChangeConfiguration PROVE IInv'
  <2>1. /\ Receive("didChangeConfiguration") /\ UNCHANGED <<editorVars, asked, serverVars>>
        /\ UNCHANGED <<managed, configurations, telemetry, queued, analysing, shown>>
        /\ UNCHANGED <<phase, initialized, hints>>
    BY <1>10 DEF HandleDidChangeConfiguration, editorVars, serverVars
  <2>2. SessionIsInitialized' /\ ReadInOrder' /\ PhasesInOrder' /\ RefusedOutsideSession'
    BY <1>0, <2>1, ReadingKeepsOrder
  <2>3. /\ inbox' \in Seq(Messages) /\ \A k \in DOMAIN inbox' : inbox'[k] \in Messages
        /\ \A k \in 1..Len(inbox') :
               inbox'[k].kind = "request" => inbox'[k].id \in 1..Len(asked')
    BY <1>0, <2>1, RestOfInbox
  <2>4. /\ fetch' \in [Fetchers -> Fetches]
        /\ \A f \in Fetchers : fetch'[f].at = "answered" => fetch'[f].value \in Settings
        /\ ~initialized => fetch' = fetch
    <3>1. Documents \subseteq URIs
      BY DEF Documents
    <3>2. CASE ~initialized
      BY <1>0, <1>10, <3>2 DEF HandleDidChangeConfiguration, Typed
    <3>3. CASE initialized
      <4>1. \/ UNCHANGED fetch \/ StartFetch({}, {})
            \/ StartFetch(Documents, URIs) \/ StartBothFetches
        BY <1>10 DEF HandleDidChangeConfiguration
      <4> QED
        BY <1>0, <3>1, <3>3, <4>1, StartTypes, StartBothTypes DEF Typed
    <3> QED
      BY <3>2, <3>3
  <2>5. Typed'
    BY <1>0, <2>1, <2>3, <2>4, FetchTypes DEF Typed, TypeOK, editorVars, serverVars
  <2>6. ClientKnown'
    BY <1>0, <2>1, <2>4 DEF ClientKnown, serverVars
  <2> QED
    BY <2>2, <2>5, <2>6 DEF IInv
<1>11. ASSUME NEW i \in hints, NEW outcome \in Outcomes, AnswerHint(i, outcome) PROVE IInv'
  <2>1. PICK m : m = asked[i].method
    OBVIOUS
  <2>2. /\ hints' = hints \ {i} /\ ReplyTo(i, outcome)
        /\ UNCHANGED <<setting, changes, opens, opened, overtaken, inbox, connected>>
        /\ UNCHANGED <<client, configVars, analysing, shown>>
    BY <1>11 DEF AnswerHint
  <2>3. i \in 1..Len(asked) /\ Asynchronous(m)
    BY <1>0, <2>1 DEF Typed, TypeOK
  <2>4. /\ SameAsked /\ asked' \in Seq(Asking)
        /\ m \notin {"initialize", "shutdown"} => UNCHANGED <<phase, initialized>>
    BY <1>0, <2>1, <2>2, <2>3, ReplyToMeans
  <2>5. UNCHANGED <<phase, initialized>>
    BY <2>3, <2>4 DEF Asynchronous
  <2>6. Len(asked') = Len(asked) /\ \A j \in 1..Len(asked) :
            asked'[j].method = asked[j].method /\ asked'[j].phase = asked[j].phase
    BY <2>4 DEF SameAsked
  <2>7. SessionIsInitialized' /\ ReadInOrder'
    <3>1. \A k \in 1..Len(inbox) : inbox[k].kind = "request" => inbox[k].id \in 1..Len(asked)
      BY <1>0 DEF Typed
    <3>2. /\ \A k, q : Calls(k, q)' <=> Calls(k, q)
          /\ \A k, q : SentIn(k, q)' <=> SentIn(k, q)
      BY <2>2, <2>6, <3>1 DEF Calls, SentIn, IsRequest
    <3> QED
      BY <1>0, <2>2, <2>5, <3>2 DEF SessionIsInitialized, ReadInOrder
  <2>8. PhasesInOrder'
    BY <1>0, <2>2, <2>4, <2>5, WorkKeepsPhases
  <2>9. RefusedOutsideSession'
    BY <1>0, <2>2, <2>3, ReplyIsRight
  <2>10. /\ \A j \in DOMAIN asked' :
              /\ asked'[j].method \in Requested /\ asked'[j].phase \in Phases
              /\ asked'[j].reply \in Replies \cup {"none"}
         /\ DOMAIN asked' = 1..Len(asked) /\ DOMAIN asked = 1..Len(asked)
    BY <1>0, <2>4, <2>6, FieldTypes DEF Typed
  <2>11. TypeOK'
    BY <1>0, <2>2, <2>5, <2>10 DEF Typed, TypeOK, configVars
  <2>12. Typed'
    <3>1. \A j \in hints' : Asynchronous(asked'[j].method)
      BY <1>0, <2>2, <2>6, <2>10 DEF Typed, TypeOK
    <3> QED
      BY <1>0, <2>2, <2>4, <2>6, <2>11, <3>1 DEF Typed, configVars
  <2>13. ClientKnown'
    BY <1>0, <2>2, <2>5 DEF ClientKnown, configVars
  <2> QED
    BY <2>7, <2>8, <2>9, <2>12, <2>13 DEF IInv
<1>12. ASSUME Exit PROVE IInv'
  <2>1. /\ phase = "stopping" /\ ~initialized /\ connected' = FALSE
        /\ inbox' = <<>> /\ hints' = {}
        /\ UNCHANGED <<editorVars, asked, initialized, client, configVars, analysing, shown>>
    BY <1>12 DEF Exit
  <2>2. Len(<<>>) = 0 /\ <<>> \in Seq(Messages) /\ DOMAIN <<>> = {} /\ 1..0 = {}
    OBVIOUS
  <2>3. SessionIsInitialized' /\ ReadInOrder'
    BY <2>1, <2>2 DEF SessionIsInitialized, ReadInOrder, editorVars
  <2>4. PhasesInOrder' /\ RefusedOutsideSession'
    BY <1>0, <2>1 DEF PhasesInOrder, RefusedOutsideSession, editorVars
  <2>5. Typed'
    BY <1>0, <2>1, <2>2 DEF Typed, TypeOK, editorVars, configVars
  <2>6. ClientKnown'
    BY <1>0, <2>1 DEF ClientKnown, configVars
  <2> QED
    BY <2>3, <2>4, <2>5, <2>6 DEF IInv
<1>13. ASSUME NEW f \in Fetchers, AnswerConfiguration(f) PROVE IInv'
  <2>1. /\ UNCHANGED <<editorVars, asked, inbox, serverVars, managed, configurations>>
        /\ UNCHANGED <<telemetry, queued, analysing, shown>>
        /\ UNCHANGED <<phase, initialized, hints>>
        /\ fetch[f].at = "asking"
        /\ fetch' = [fetch EXCEPT ![f] = [fetch[f] EXCEPT !.at = "answered", !.value = setting]]
    BY <1>0, <1>13 DEF AnswerConfiguration, Typed, Fetches, editorVars, serverVars
  <2>2. SessionIsInitialized' /\ ReadInOrder' /\ PhasesInOrder' /\ RefusedOutsideSession'
    BY <1>0, <2>1, AloneKeepsOrder
  <2>3. /\ fetch' \in [Fetchers -> Fetches]
        /\ \A g \in Fetchers : fetch'[g].at = "answered" => fetch'[g].value \in Settings
        /\ \A g \in Fetchers : fetch'[g].at # "idle" => fetch[g].at # "idle"
    <3>1. setting \in Settings /\ fetch[f] \in Fetches
      BY <1>0 DEF Typed, TypeOK
    <3>2. PICK a : a = [fetch[f] EXCEPT !.at = "answered", !.value = setting]
      OBVIOUS
    <3>3. a \in Fetches /\ a.at = "answered" /\ a.value \in Settings
      BY <3>1, <3>2 DEF Fetches
    <3> QED
      BY <1>0, <2>1, <3>2, <3>3 DEF Typed
  <2>4. Typed'
    BY <1>0, <2>1, <2>3, FetchTypes DEF Typed, TypeOK, editorVars, serverVars
  <2>5. ClientKnown'
    BY <1>0, <2>1, <2>3 DEF ClientKnown, serverVars
  <2> QED
    BY <2>2, <2>4, <2>5 DEF IInv
<1>14. ASSUME NEW f \in Fetchers, StoreConfigurations(f) PROVE IInv'
  <2>1. /\ UNCHANGED <<editorVars, asked, inbox, serverVars, managed, analysing, shown>>
        /\ UNCHANGED <<phase, initialized, hints>>
        /\ fetch[f].at = "answered" /\ fetch' = [fetch EXCEPT ![f] = NoFetch]
    BY <1>14 DEF StoreConfigurations, editorVars, serverVars
  <2>2. SessionIsInitialized' /\ ReadInOrder' /\ PhasesInOrder' /\ RefusedOutsideSession'
    BY <1>0, <2>1, AloneKeepsOrder
  <2>3. NoFetch \in Fetches /\ NoFetch.at = "idle"
    BY DEF NoFetch, Fetches
  <2>4. /\ fetch' \in [Fetchers -> Fetches]
        /\ \A g \in Fetchers : fetch'[g].at = "answered" => fetch'[g].value \in Settings
        /\ \A g \in Fetchers : fetch'[g].at # "idle" => fetch[g].at # "idle"
    BY <1>0, <2>1, <2>3 DEF Typed
  <2>5. fetch[f].value \in Settings
    BY <1>0, <2>1 DEF Typed
  <2>6. /\ configurations' \in [URIs -> Configuration \cup {NoSettings}]
        /\ telemetry' \in Levels /\ queued' \subseteq URIs
    <3>1. Decoded(fetch[f].value) \in Configuration /\ fetch[f].value.telemetry \in Levels
      BY <2>5, SettingsTypes
    <3> QED
      BY <1>0, <1>14, <3>1 DEF StoreConfigurations, Typed, TypeOK
  <2>7. Typed'
    BY <1>0, <2>1, <2>4, <2>6, FetchTypes DEF Typed, TypeOK, editorVars, serverVars
  <2>8. ClientKnown'
    BY <1>0, <2>1, <2>4 DEF ClientKnown, serverVars
  <2> QED
    BY <2>2, <2>7, <2>8 DEF IInv
<1>15. ASSUME NEW u \in URIs, Analyse(u) \/ Publish(u) PROVE IInv'
  <2>1. /\ UNCHANGED <<editorVars, asked, inbox, serverVars, managed, configurations>>
        /\ UNCHANGED <<telemetry, fetch, phase, initialized, hints>>
    BY <1>15 DEF Analyse, Publish, editorVars, serverVars, configVars
  <2>2. SessionIsInitialized' /\ ReadInOrder' /\ PhasesInOrder' /\ RefusedOutsideSession'
    BY <1>0, <2>1, AloneKeepsOrder
  <2>3. ConfigurationOf(u) \in Configuration
    BY <1>0, SettingsTypes DEF ConfigurationOf, Typed, TypeOK
  <2>4. /\ queued' \subseteq URIs
        /\ analysing' \in [URIs -> Configuration \cup {NoSettings}]
        /\ shown' \in [URIs -> Configuration \cup {NoSettings}]
    <3>1. /\ queued \subseteq URIs /\ analysing \in [URIs -> Configuration \cup {NoSettings}]
          /\ shown \in [URIs -> Configuration \cup {NoSettings}]
      BY <1>0 DEF Typed, TypeOK
    <3>2. CASE Analyse(u)
      BY <2>3, <3>1, <3>2 DEF Analyse
    <3>3. CASE Publish(u)
      BY <3>1, <3>3 DEF Publish, configVars
    <3> QED
      BY <1>15, <3>2, <3>3
  <2>5. Typed'
    BY <1>0, <2>1, <2>4 DEF Typed, TypeOK, editorVars, serverVars
  <2>6. ClientKnown'
    BY <1>0, <2>1 DEF ClientKnown, serverVars
  <2> QED
    BY <2>2, <2>5, <2>6 DEF IInv
<1>16. CASE UNCHANGED vars
  <2>1. /\ UNCHANGED <<phase, setting, changes, opens, opened, overtaken, asked, inbox>>
        /\ UNCHANGED <<connected, initialized, client, hints, managed, configurations>>
        /\ UNCHANGED <<telemetry, fetch, queued, analysing, shown>>
    BY <1>16 DEF vars, editorVars, serverVars, configVars
  <2>2. SessionIsInitialized' /\ ReadInOrder' /\ PhasesInOrder' /\ RefusedOutsideSession'
    BY <1>0, <2>1, AloneKeepsOrder
  <2>3. Typed' /\ ClientKnown'
    BY <1>0, <2>1 DEF Typed, TypeOK, ClientKnown
  <2> QED
    BY <2>2, <2>3 DEF IInv
<1> QED
  BY <1>1, <1>2, <1>3, <1>4, <1>5, <1>6, <1>7, <1>8, <1>9, <1>10, <1>11, <1>12, <1>13, <1>14,
     <1>15, <1>16 DEF Next, Editor, Loop, Hint, Fetch

-----------------------------------------------------------------------------
(* The inductive invariant holds in every state of the session.            *)
THEOREM InvariantCorrect == Spec => []IInv
<1> QED
  BY InitInvariant, StepInvariant, PTL DEF Spec

(* Every variable keeps its type: the settings of a document, a request    *)
(* and its reply, the messages in the inbox and the state of the fetchers. *)
THEOREM SessionTypeCorrect == Spec => []TypeOK
<1>1. IInv => TypeOK
  BY DEF IInv, Typed
<1> QED
  BY <1>1, InvariantCorrect, PTL

(* The server refuses a request only outside the session, and serves none  *)
(* that was sent there, but for an inlay hint that a later initialize or   *)
(* shutdown overtook.                                                      *)
THEOREM RequestsRefused == Spec => []RefusedOutsideSession
<1>1. IInv => RefusedOutsideSession
  BY DEF IInv
<1> QED
  BY <1>1, InvariantCorrect, PTL

(* The server has its client while it accepts messages and while one of    *)
(* its goroutines asks the editor for configurations.                      *)
THEOREM ClientIsKnown == Spec => []ClientKnown
<1>1. IInv => ClientKnown
  BY DEF IInv
<1> QED
  BY <1>1, InvariantCorrect, PTL
=============================================================================
