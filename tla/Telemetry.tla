------------------------------ MODULE Telemetry ------------------------------
(***************************************************************************)
(* The telemetry client: internal/telemetry/client.go, and the goroutines  *)
(* of internal/pkg/server that record events, publish them and change the  *)
(* user's setting.                                                         *)
(*                                                                         *)
(* Events are queued or not by the setting at that time. A background      *)
(* goroutine publishes every minute, and so does the shutdown request: a   *)
(* batch is taken from the queue under the client's mutex, but whether     *)
(* there is anything to publish is asked without it, and the setting is    *)
(* not asked again.                                                        *)
(***************************************************************************)
EXTENDS Naturals, Sequences, FiniteSets, SequencesExt

CONSTANTS
    Loop, Background,  \* the goroutines that publish
    Fetchers,          \* goroutines that ask the editor for the setting
    Heartbeats,        \* "initialized" events
    Usage,             \* commands executed and files analysed
    Panics,            \* recovered panics
    Batch              \* how many records are sent at once (500)

Publishers == {Loop, Background}
Records    == Heartbeats \cup Usage \cup Panics
Settings   == {"all", "error", "off"}

ASSUME TelemetryAssumption ==
    /\ Batch \in Nat \ {0}
    /\ Loop # Background
    /\ Fetchers \cap Publishers = {}

VARIABLES
    disabled,  \* by the environment, or no endpoint was built in
    chosen,    \* the setting that the user has in the editor
    setting,   \* the client's setting
    records,   \* the queue
    queued,    \* history: every record that was put in the queue
    seen,      \* events that have happened
    batch,     \* what each publisher is sending
    sent,      \* records that the endpoint has received
    lost,      \* records that were dropped or could not be sent
    pc,        \* what each goroutine does next
    answer,    \* the editor's answer to each fetcher
    ended      \* whether the process has ended

queueVars   == <<records, queued, seen>>
publishVars == <<batch, sent, lost>>
vars == <<disabled, chosen, setting, queueVars, publishVars, pc, answer, ended>>

(* Each variable has its type, and a batch is within its limit.            *)
TypeOK ==
    /\ disabled \in BOOLEAN
    /\ chosen \in Settings
    /\ setting \in Settings
    /\ records \in Seq(Records)
    /\ queued \in Seq(Records)
    /\ seen \subseteq Records
    /\ batch \in [Publishers -> Seq(Records)]
    /\ \A p \in Publishers : Len(batch[p]) <= Batch
    /\ sent \subseteq Records
    /\ lost \subseteq Records
    /\ pc \in [Publishers \cup Fetchers ->
                 {"Start", "Configure", "Idle", "Trim", "Send", "Down", "Fetch", "Update"}]
    /\ answer \in [Fetchers -> Settings]
    /\ ended \in BOOLEAN

Init ==
    /\ disabled \in BOOLEAN
    /\ chosen \in Settings
    /\ setting = "all"
    /\ records = <<>> /\ queued = <<>> /\ seen = {}
    /\ batch = [p \in Publishers |-> <<>>]
    /\ sent = {} /\ lost = {}
    /\ pc = [t \in Publishers \cup Fetchers |-> IF t = Loop THEN "Start" ELSE "Idle"]
    /\ answer = [f \in Fetchers |-> "all"]
    /\ ended = FALSE

Step(t, from, to) == ~ended /\ pc[t] = from /\ pc' = [pc EXCEPT ![t] = to]

Allowed(r) == setting = "all" \/ (setting = "error" /\ r \in Panics)

(* Enqueue under the client's mutex. While the setting, a string, is being *)
(* assigned, Enqueue may read half of either and drop the record.          *)
Enqueue(r) ==
    /\ r \notin seen
    /\ seen' = seen \cup {r}
    /\ \/ /\ Allowed(r)
          /\ records' = Append(records, r)
          /\ queued' = Append(queued, r)
       \/ /\ ~Allowed(r) \/ \E f \in Fetchers : pc[f] = "Update"
          /\ UNCHANGED <<records, queued>>

-----------------------------------------------------------------------------
(* initialize queues its event before it looks at the client's setting ... *)
Initialize ==
    /\ Step(Loop, "Start", "Configure")
    /\ \E r \in Heartbeats : Enqueue(r)
    /\ UNCHANGED <<disabled, chosen, setting, publishVars, answer, ended>>

(* ... which it applies if the client sent one, unless it returns an error *)
(* for an invalid folder before that.                                      *)
Configure ==
    /\ \/ Step(Loop, "Configure", "Idle") /\ setting' \in {setting, chosen}
       \/ Step(Loop, "Configure", "Start") /\ UNCHANGED setting
    /\ UNCHANGED <<disabled, chosen, queueVars, publishVars, answer, ended>>

(* A handler, or a goroutine that it started, records an event.            *)
Event ==
    /\ ~ended /\ pc[Loop] \notin {"Start", "Configure"}
    /\ \E r \in Usage \cup Panics : Enqueue(r)
    /\ UNCHANGED <<disabled, chosen, setting, publishVars, pc, answer, ended>>

DidChangeConfiguration(f) ==
    /\ pc[Loop] = "Idle"
    /\ Step(f, "Idle", "Fetch")
    /\ chosen' \in Settings
    /\ UNCHANGED <<disabled, setting, queueVars, publishVars, answer, ended>>

(* The editor answers with the setting that the user has then, or not.     *)
FetchUnscopedConfiguration(f) ==
    /\ \/ Step(f, "Fetch", "Update") /\ answer' = [answer EXCEPT ![f] = chosen]
       \/ Step(f, "Fetch", "Idle") /\ UNCHANGED answer
    /\ UNCHANGED <<disabled, chosen, setting, queueVars, publishVars, ended>>

UpdateTelemetrySetting(f) ==
    /\ Step(f, "Update", "Idle")
    /\ setting' = answer[f]
    /\ UNCHANGED <<disabled, chosen, queueVars, publishVars, answer, ended>>

-----------------------------------------------------------------------------
(* The background goroutine waits for the next minute; shutdown is over.   *)
Published(p) == IF p = Loop THEN "Down" ELSE "Idle"

(* Mutant: a batch is only sent when there are enough records for it.      *)
PublishFullBatches(p) ==
    /\ \/ /\ disabled
          /\ Step(p, "Idle", Published(p))
          /\ records' = <<>>
          /\ lost' = lost \cup ToSet(records)
       \/ /\ ~disabled /\ Len(records) < Batch
          /\ Step(p, "Idle", Published(p))
          /\ UNCHANGED <<records, lost>>
       \/ /\ ~disabled /\ Len(records) >= Batch
          /\ Step(p, "Idle", "Trim")
          /\ UNCHANGED <<records, lost>>
    /\ UNCHANGED <<disabled, chosen, setting, queued, seen, batch, sent, answer, ended>>

(* Publish, up to its call of trimRecords. All of this is done without the *)
(* mutex.                                                                  *)
Publish(p) ==
    /\ \/ /\ disabled
          /\ Step(p, "Idle", Published(p))
          /\ records' = <<>>
          /\ lost' = lost \cup ToSet(records)
       \/ /\ ~disabled /\ records = <<>>
          /\ Step(p, "Idle", Published(p))
          /\ UNCHANGED <<records, lost>>
       \/ /\ ~disabled /\ records # <<>>
          /\ Step(p, "Idle", "Trim")
          /\ UNCHANGED <<records, lost>>
    /\ UNCHANGED <<disabled, chosen, setting, queued, seen, batch, sent, answer, ended>>

(* Mutant: the queue is only cut when it is longer than a batch.           *)
TrimKeepsLast(p) ==
    /\ Step(p, "Trim", "Send")
    /\ IF Len(records) > Batch
       THEN /\ batch' = [batch EXCEPT ![p] = SubSeq(records, 1, Batch)]
            /\ records' = SubSeq(records, Batch + 1, Len(records))
       ELSE /\ batch' = [batch EXCEPT ![p] = records]
            /\ UNCHANGED records
    /\ UNCHANGED <<disabled, chosen, setting, queued, seen, sent, lost, answer, ended>>

(* Mutant: a queue that is one longer than a batch is not cut.             *)
TrimOneMore(p) ==
    /\ Step(p, "Trim", "Send")
    /\ IF Len(records) > Batch + 1
       THEN /\ batch' = [batch EXCEPT ![p] = SubSeq(records, 1, Batch)]
            /\ records' = SubSeq(records, Batch + 1, Len(records))
       ELSE /\ batch' = [batch EXCEPT ![p] = records]
            /\ records' = <<>>
    /\ UNCHANGED <<disabled, chosen, setting, queued, seen, sent, lost, answer, ended>>

(* trimRecords: there may be no record any more.                           *)
Trim(p) ==
    /\ Step(p, "Trim", "Send")
    /\ IF Len(records) > Batch
       THEN /\ batch' = [batch EXCEPT ![p] = SubSeq(records, 1, Batch)]
            /\ records' = SubSeq(records, Batch + 1, Len(records))
       ELSE /\ batch' = [batch EXCEPT ![p] = records]
            /\ records' = <<>>
    /\ UNCHANGED <<disabled, chosen, setting, queued, seen, sent, lost, answer, ended>>

(* The endpoint receives the batch, or the request fails; it is not sent   *)
(* again.                                                                  *)
Send(p) ==
    /\ Step(p, "Send", Published(p))
    /\ \/ sent' = sent \cup ToSet(batch[p]) /\ UNCHANGED lost
       \/ lost' = lost \cup ToSet(batch[p]) /\ UNCHANGED sent
    /\ batch' = [batch EXCEPT ![p] = <<>>]
    /\ UNCHANGED <<disabled, chosen, setting, queueVars, answer, ended>>

Exit ==
    /\ Step(Loop, "Down", "Down")
    /\ ended' = TRUE
    /\ UNCHANGED <<disabled, chosen, setting, queueVars, publishVars, answer>>

Next ==
    \/ Initialize \/ Configure \/ Event \/ Exit
    \/ \E f \in Fetchers : \/ DidChangeConfiguration(f)
                           \/ FetchUnscopedConfiguration(f) \/ UpdateTelemetrySetting(f)
    \/ \E p \in Publishers : Publish(p) \/ Trim(p) \/ Send(p)

Spec == Init /\ [][Next]_vars

(* The background goroutine never stops, and the endpoint answers (the     *)
(* HTTP client that sends the records has no timeout of its own).          *)
Fairness ==
    /\ WF_vars(Publish(Background))
    /\ \A p \in Publishers : WF_vars(Trim(p)) /\ WF_vars(Send(p))

LiveSpec == Spec /\ Fairness

-----------------------------------------------------------------------------
(* A record that was queued is in the queue, in the batch of one of the    *)
(* publishers, sent or lost, and nowhere twice; the queue has the latest   *)
(* ones in their order. So no record is sent twice and none disappears,    *)
(* though two goroutines may take a batch at the same time.                *)
EachRecordOnce ==
    /\ IsSuffix(records, queued)
    /\ Cardinality(sent) + Cardinality(lost) + Len(batch[Loop]) + Len(batch[Background])
          + Len(records) = Len(queued)
    /\ ToSet(queued) = sent \cup lost \cup ToSet(batch[Loop]) \cup ToSet(batch[Background])
          \cup ToSet(records)

(* No record waits in the queue for ever: every minute the oldest ones     *)
(* leave it, until the process ends.                                       *)
EventuallyPublished ==
    \A r \in Records : r \in ToSet(records) ~> r \notin ToSet(records) \/ ended

(* "off" - do not send any telemetry (TELEMETRY.md).                       *)
OffSendsNothing == [][setting = "off" => sent' = sent]_vars
=============================================================================
