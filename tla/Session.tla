------------------------------ MODULE Session -------------------------------
(***************************************************************************)
(* One editor and the server on one connection: the life of the session,   *)
(* the requests in it, and how the user's settings get to the diagnostics  *)
(* and the telemetry client. The read loop handles one message at a time,  *)
(* but a textDocument/inlayHint in a goroutine; configurations are asked   *)
(* for in goroutines (Fetchers), since only the loop can read the answer.  *)
(*                                                                         *)
(* The diagnostics pipeline is what DiagnosticsService leaves of it: a     *)
(* queued document is analysed some time later, and didClose waits for an  *)
(* analysis that runs. Of a document, the settings its diagnostics obey    *)
(* are of interest here. A value of the settings is the level of telemetry *)
(* and the experimental settings that are on; the server's struct loses    *)
(* one of them when it is decoded.                                         *)
(***************************************************************************)
EXTENDS Naturals, Sequences, ProtocolHandler

CONSTANTS
    URIs,
    Settings,     \* values of the user's settings
    Initial,      \* those at the start of the session
    Fetchers,     \* goroutines that ask the editor for configurations
    Requested,    \* methods of the requests the editor sends
    NoSettings,
    MaxRequests,  \* bound: requests the editor sends
    MaxInbox,     \* bound: messages that the server has not read
    MaxChanges,   \* bound: changes of the settings
    MaxOpens      \* bound: how often documents are opened

Levels == {"off", "error", "all"}

(* docker.lsp.experimental.vulnerabilityScanning and those of scout.       *)
Experimental == {"vulnerabilityScanning", "criticalHighVulnerabilities",
                 "notPinnedDigest", "recommendedTag", "vulnerabilities"}

Configuration == [telemetry : Levels, on : SUBSET Experimental]

Default == [telemetry |-> "all",
            on |-> {"vulnerabilityScanning", "criticalHighVulnerabilities",
                    "vulnerabilities"}]

(* What the server makes of the editor's answer: the struct Scout has a    *)
(* field for the key "vulnerabilites", so "vulnerabilities" sets none and  *)
(* is off.                                                                 *)
Decoded(value) == [value EXCEPT !.on = @ \ {"vulnerabilities"}]

ASSUME SessionAssumption ==
    /\ Settings \subseteq Configuration /\ Initial \subseteq Settings
    /\ NoSettings \notin Configuration
    /\ Requested \subseteq STRING
    /\ "initialize" \in Requested /\ "shutdown" \in Requested
    /\ {MaxRequests, MaxInbox, MaxChanges, MaxOpens} \subseteq Nat

VARIABLES
    phase,        \* of the session, as the editor sees it
    setting,      \* the user's settings
    changes, opens,
    opened,       \* documents that are open in the editor
    asked,        \* the requests, in the order they were sent, with their replies
    inbox,        \* messages on their way to the read loop
    connected,
    initialized,  \* Handler.initialized
    client,       \* whether Server.client is set
    hints,        \* asynchronous requests whose goroutine has not run
    managed,      \* documents in the manager
    configurations,
    telemetry,    \* the level that the telemetry client has
    fetch,        \* what each fetcher is doing
    queued,       \* documents to analyse
    analysing,    \* the settings that a running analysis read
    shown,        \* the settings that the diagnostics shown obey
    overtaken     \* the settings changed between an answer and its use

editorVars == <<phase, setting, changes, opens, opened, overtaken>>
serverVars == <<connected, initialized, client, hints>>
configVars == <<managed, configurations, telemetry, fetch, queued>>
vars == <<editorVars, asked, inbox, serverVars, configVars, analysing, shown>>

Phases == {"fresh", "initializing", "running", "stopping"}

NoFetch == [at |-> "idle", scopes |-> {}, value |-> NoSettings, then |-> {}]

Messages ==
    [kind : {"request"}, id : 1..MaxRequests]
    \cup [kind : {"didOpen", "didClose"}, uri : URIs]
    \cup [kind : {"didChangeConfiguration"}, names : SUBSET ({"telemetry"} \cup Experimental)]

TypeOK ==
    /\ phase \in Phases
    /\ setting \in Settings
    /\ changes \in 0..MaxChanges /\ opens \in 0..MaxOpens
    /\ opened \subseteq URIs /\ managed \subseteq URIs /\ queued \subseteq URIs
    /\ \A i \in DOMAIN asked :
        /\ asked[i].method \in Requested /\ asked[i].phase \in Phases
        /\ asked[i].reply \in Replies \cup {"none"}
    /\ \A i \in DOMAIN inbox : inbox[i] \in Messages
    /\ {connected, initialized, client, overtaken} \subseteq BOOLEAN
    /\ hints \subseteq DOMAIN asked
    /\ configurations \in [URIs -> Configuration \cup {NoSettings}]
    /\ telemetry \in Levels
    /\ \A f \in Fetchers : fetch[f].at \in {"idle", "asking", "answered"}
    /\ analysing \in [URIs -> Configuration \cup {NoSettings}]
    /\ shown \in [URIs -> Configuration \cup {NoSettings}]

Init ==
    /\ phase = "fresh"
    /\ setting \in Initial
    /\ changes = 0 /\ opens = 0 /\ opened = {} /\ overtaken = FALSE
    /\ asked = <<>> /\ inbox = <<>>
    /\ connected = TRUE /\ initialized = FALSE /\ client = FALSE /\ hints = {}
    /\ managed = {} /\ queued = {}
    /\ configurations = [u \in URIs |-> NoSettings]
    /\ telemetry = Default.telemetry
    /\ fetch = [f \in Fetchers |-> NoFetch]
    /\ analysing = [u \in URIs |-> NoSettings]
    /\ shown = [u \in URIs |-> NoSettings]

-----------------------------------------------------------------------------
(* The editor.                                                             *)

Send(message) ==
    /\ connected /\ Len(inbox) < MaxInbox
    /\ inbox' = Append(inbox, message)

Request(method) ==
    /\ Len(asked) < MaxRequests
    /\ Send([kind |-> "request", id |-> Len(asked) + 1])
    /\ asked' = Append(asked, [method |-> method, phase |-> phase,
                               reply |-> "none"])
    /\ UNCHANGED <<setting, changes, opens, opened, overtaken,
                   serverVars, configVars, analysing, shown>>

SendInitialize ==
    /\ phase = "fresh" /\ phase' = "initializing"
    /\ Request("initialize")

SendShutdown ==
    /\ phase = "running" /\ phase' = "stopping"
    /\ Request("shutdown")

SendRequest(method) ==
    /\ method \in Requested \ {"initialize", "shutdown"}
    /\ UNCHANGED phase
    /\ Request(method)

OpenDocument(u) ==
    /\ phase = "running" /\ u \notin opened /\ opens < MaxOpens
    /\ opened' = opened \cup {u} /\ opens' = opens + 1
    /\ Send([kind |-> "didOpen", uri |-> u])
    /\ UNCHANGED <<phase, setting, changes, overtaken, asked,
                   serverVars, configVars, analysing, shown>>

CloseDocument(u) ==
    /\ phase = "running" /\ u \in opened
    /\ opened' = opened \ {u}
    /\ Send([kind |-> "didClose", uri |-> u])
    /\ UNCHANGED <<phase, setting, changes, opens, overtaken, asked,
                   serverVars, configVars, analysing, shown>>

(* The names of the settings that differ, which the notification has.      *)
Changed(old, new) ==
    {name \in Experimental : (name \in old.on) # (name \in new.on)}
    \cup {name \in {"telemetry"} : old.telemetry # new.telemetry}

ChangeSettings(value) ==
    /\ phase = "running" /\ value # setting /\ changes < MaxChanges
    /\ setting' = value /\ changes' = changes + 1
    /\ overtaken' = (overtaken \/ \E f \in Fetchers : fetch[f].at = "answered")
    /\ Send([kind |-> "didChangeConfiguration", names |-> Changed(setting, value)])
    /\ UNCHANGED <<phase, opens, opened, asked, serverVars, configVars, analysing, shown>>

(* The answer to workspace/configuration has the settings of that moment.  *)
AnswerConfiguration(f) ==
    /\ connected /\ fetch[f].at = "asking"
    /\ fetch' = [fetch EXCEPT ![f].at = "answered", ![f].value = setting]
    /\ UNCHANGED <<editorVars, asked, inbox, serverVars, managed, configurations,
                   telemetry, queued, analysing, shown>>

-----------------------------------------------------------------------------
(* The read loop.                                                          *)

Receive(kind) ==
    /\ connected /\ inbox # <<>> /\ Head(inbox).kind = kind
    /\ inbox' = Tail(inbox)

(* The reply to request i, and what the editor makes of it.                *)
ReplyTo(i, outcome) ==
    LET r == Reply(initialized, asked[i].method, outcome)
    IN  /\ asked' = [asked EXCEPT ![i].reply = r]
        /\ initialized' = InitializedAfter(initialized, asked[i].method, r)
        /\ phase' = IF asked[i].method = "initialize"
                    THEN IF r = "result" THEN "running" ELSE "fresh"
                    ELSE phase

(* Initialize may return an error before it applies the level that the     *)
(* editor gave it, or after.                                               *)
TelemetryAfter(method, outcome) ==
    IF method # "initialize" \/ outcome = "undecodable" THEN {telemetry}
    ELSE {setting.telemetry} \cup (IF outcome = "result" THEN {} ELSE {telemetry})

(* Mutant: a panic ends the handler without a reply.                       *)
HandleUnlessPanic(outcome) ==
    /\ Receive("request")
    /\ LET i == Head(inbox).id
           m == asked[i].method IN
       /\ ~Asynchronous(m)
       /\ IF outcome = "panic" THEN UNCHANGED <<asked, initialized, phase>>
                               ELSE ReplyTo(i, outcome)
       /\ client' = (client \/ (m = "initialize" /\ outcome # "undecodable"))
       /\ telemetry' \in TelemetryAfter(m, outcome)
    /\ UNCHANGED <<setting, changes, opens, opened, overtaken, connected, hints,
                   managed, configurations, fetch, queued, analysing, shown>>

(* Initialize sets the client, also when it returns an error afterwards.   *)
HandleRequest(outcome) ==
    /\ Receive("request")
    /\ LET i == Head(inbox).id
           m == asked[i].method IN
       /\ ~Asynchronous(m)
       /\ ReplyTo(i, outcome)
       /\ client' = (client \/ (m = "initialize" /\ outcome # "undecodable"))
       /\ telemetry' \in TelemetryAfter(m, outcome)
    /\ UNCHANGED <<setting, changes, opens, opened, overtaken, connected, hints,
                   managed, configurations, fetch, queued, analysing, shown>>

StartHint ==
    /\ Receive("request")
    /\ Asynchronous(asked[Head(inbox).id].method)
    /\ hints' = hints \cup {Head(inbox).id}
    /\ UNCHANGED <<editorVars, asked, connected, initialized, client,
                   configVars, analysing, shown>>

AnswerHint(i, outcome) ==
    /\ connected /\ i \in hints
    /\ hints' = hints \ {i}
    /\ ReplyTo(i, outcome)
    /\ UNCHANGED <<setting, changes, opens, opened, overtaken, inbox, connected,
                   client, configVars, analysing, shown>>

(* The editor sends exit after the reply to shutdown.                      *)
Exit ==
    /\ connected /\ phase = "stopping" /\ ~initialized
    /\ connected' = FALSE
    /\ inbox' = <<>> /\ hints' = {}
    /\ UNCHANGED <<editorVars, asked, initialized, client, configVars, analysing, shown>>

AskFor(scopes, then) ==
    [at |-> "asking", scopes |-> scopes, value |-> NoSettings, then |-> then]

(* Goroutines have no names: one that is free takes it.                    *)
Free == {f \in Fetchers : fetch[f] = NoFetch}
NextFree(fs) == CHOOSE f \in fs : TRUE

StartFetch(scopes, then) ==
    /\ Free # {}
    /\ fetch' = [fetch EXCEPT ![NextFree(Free)] = AskFor(scopes, then)]

HandleDidOpen(u) ==
    /\ Receive("didOpen") /\ Head(inbox).uri = u
    /\ IF initialized
       THEN /\ managed' = managed \cup {u}
            /\ StartFetch({u}, {u})
       ELSE UNCHANGED <<managed, fetch>>
    /\ UNCHANGED <<editorVars, asked, serverVars, configurations, telemetry,
                   queued, analysing, shown>>

(* Remove waits for the analysis that runs.                                *)
HandleDidClose(u) ==
    /\ Receive("didClose") /\ Head(inbox).uri = u
    /\ analysing[u] = NoSettings
    /\ IF initialized
       THEN /\ managed' = managed \ {u}
            /\ queued' = queued \ {u}
            /\ configurations' = [configurations EXCEPT ![u] = NoSettings]
            /\ shown' = [shown EXCEPT ![u] = NoSettings]
       ELSE UNCHANGED <<managed, queued, configurations, shown>>
    /\ UNCHANGED <<editorVars, asked, serverVars, telemetry, fetch, analysing>>

Documents == {u \in URIs : configurations[u] # NoSettings}

StartBothFetches ==
    LET f == NextFree(Free)
        g == NextFree(Free \ {f})
    IN  /\ Free # {} /\ Free # {f}
        /\ fetch' = [fetch EXCEPT ![f] = AskFor({}, {}), ![g] = AskFor(Documents, URIs)]

(* One goroutine for the level of telemetry, which has no scope, and one   *)
(* for the documents that have a configuration, if the notification names  *)
(* the settings that they are about.                                       *)
HandleDidChangeConfiguration ==
    /\ Receive("didChangeConfiguration")
    /\ LET names  == Head(inbox).names
           level  == initialized /\ "telemetry" \in names
           scoped == initialized /\ names \cap Experimental # {} /\ Documents # {}
       IN  \/ ~level /\ ~scoped /\ UNCHANGED fetch
           \/ level /\ ~scoped /\ StartFetch({}, {})
           \/ ~level /\ scoped /\ StartFetch(Documents, URIs)
           \/ level /\ scoped /\ StartBothFetches
    /\ UNCHANGED <<editorVars, asked, serverVars, managed, configurations,
                   telemetry, queued, analysing, shown>>

-----------------------------------------------------------------------------
(* Goroutines.                                                             *)

(* Mutant: a change of the settings does not compute diagnostics again.    *)
StoreWithoutComputing(f) ==
    /\ fetch[f].at = "answered"
    /\ fetch' = [fetch EXCEPT ![f] = NoFetch]
    /\ configurations' = [u \in URIs |-> IF u \in fetch[f].scopes
                                         THEN Decoded(fetch[f].value) ELSE configurations[u]]
    /\ telemetry' = IF fetch[f].scopes = {} THEN fetch[f].value.telemetry ELSE telemetry
    /\ queued' = queued \cup (IF fetch[f].then = URIs THEN {} ELSE fetch[f].then \cap managed)
    /\ UNCHANGED <<editorVars, asked, inbox, serverVars, managed, analysing, shown>>

(* FetchConfigurations stores what it decoded, also for a document that    *)
(* was closed meanwhile; then computeDiagnostics for those still managed.  *)
(* FetchUnscopedConfiguration uses nothing but the level of telemetry.     *)
StoreConfigurations(f) ==
    /\ fetch[f].at = "answered"
    /\ fetch' = [fetch EXCEPT ![f] = NoFetch]
    /\ configurations' = [u \in URIs |-> IF u \in fetch[f].scopes
                                         THEN Decoded(fetch[f].value) ELSE configurations[u]]
    /\ telemetry' = IF fetch[f].scopes = {} THEN fetch[f].value.telemetry ELSE telemetry
    /\ queued' = queued \cup (fetch[f].then \cap managed)
    /\ UNCHANGED <<editorVars, asked, inbox, serverVars, managed, analysing, shown>>

ConfigurationOf(u) ==
    IF configurations[u] = NoSettings THEN Default ELSE configurations[u]

(* A collector reads the configuration once, at its start.                 *)
Analyse(u) ==
    /\ u \in queued /\ analysing[u] = NoSettings
    /\ queued' = queued \ {u}
    /\ analysing' = [analysing EXCEPT ![u] = ConfigurationOf(u)]
    /\ UNCHANGED <<editorVars, asked, inbox, serverVars, managed, configurations,
                   telemetry, fetch, shown>>

Publish(u) ==
    /\ analysing[u] # NoSettings
    /\ shown' = [shown EXCEPT ![u] = analysing[u]]
    /\ analysing' = [analysing EXCEPT ![u] = NoSettings]
    /\ UNCHANGED <<editorVars, asked, inbox, serverVars, configVars>>

Editor ==
    \/ SendInitialize \/ SendShutdown
    \/ \E method \in Requested : SendRequest(method)
    \/ \E u \in URIs : OpenDocument(u) \/ CloseDocument(u)
    \/ \E value \in Settings : ChangeSettings(value)

Loop ==
    \/ \E outcome \in Outcomes : HandleRequest(outcome)
    \/ StartHint
    \/ \E u \in URIs : HandleDidOpen(u) \/ HandleDidClose(u)
    \/ HandleDidChangeConfiguration

Hint == \E i \in hints, outcome \in Outcomes : AnswerHint(i, outcome)

Fetch(f) == AnswerConfiguration(f) \/ StoreConfigurations(f)

Next ==
    \/ Editor \/ Loop \/ Hint \/ Exit
    \/ \E f \in Fetchers : Fetch(f)
    \/ \E u \in URIs : Analyse(u) \/ Publish(u)

(* The loop reads messages, goroutines run, timers end, and the editor     *)
(* answers requests; it need not send anything.                            *)
Fairness ==
    /\ WF_vars(Loop) /\ WF_vars(Hint)
    /\ \A f \in Fetchers : WF_vars(Fetch(f))
    /\ \A u \in URIs : WF_vars(Analyse(u) \/ Publish(u))

Spec == Init /\ [][Next]_vars /\ Fairness

-----------------------------------------------------------------------------
Served == {"result", "error", "internalError"}

(* "server not initialized" is the reply only to a request sent before the *)
(* session or after its end, and no such request is served. An inlay hint  *)
(* is an exception: its goroutine asks whether the session runs, and the   *)
(* initialize or shutdown that was sent after it may be handled before.    *)
RefusedOutsideSession ==
    \A i \in DOMAIN asked :
        LET r == asked[i] IN
        /\ r.reply = "notInitialized" /\ r.phase = "running"
             => /\ Asynchronous(r.method)
                /\ \E j \in DOMAIN asked : j > i /\ asked[j].method = "shutdown"
        /\ r.reply \in Served /\ r.method # "initialize"
             => \/ r.phase \in {"running", "initializing"}
                \/ /\ Asynchronous(r.method)
                   /\ \E j \in DOMAIN asked : j > i /\ asked[j].method = "initialize"

(* While messages are accepted, or a goroutine asks the editor for         *)
(* something, the server knows its client: no goroutine meets a nil client *)
(* after a failed or repeated initialize.                                  *)
ClientKnown ==
    initialized \/ (\E f \in Fetchers : fetch[f].at # "idle") => client

(* Every request gets a reply, also one whose handler panics or that no    *)
(* function is registered for, unless the editor sends exit.               *)
EveryRequestAnswered ==
    <>[](~connected \/ \A i \in DOMAIN asked : asked[i].reply # "none")

(* The diagnostics shown of an open document, and what telemetry is sent,  *)
(* come to be those that the user's settings ask for, also of a document   *)
(* that is opened again while goroutines of its last session still ask.    *)
(* Two things are left out: settings that were changed while an answer was *)
(* on its way to its goroutine (overtaken), as such an answer is applied   *)
(* after, or instead of, the new one; and scout.vulnerabilities, which the *)
(* server does not decode (Decoded).                                       *)
SettingsApplied ==
    LET decodable == Experimental \ {"vulnerabilities"} IN
    <>[](\/ overtaken \/ phase # "running"
         \/ /\ telemetry = setting.telemetry
            /\ \A u \in opened :
                  /\ shown[u] # NoSettings
                  /\ shown[u].on \cap decodable = setting.on \cap decodable)
=============================================================================
