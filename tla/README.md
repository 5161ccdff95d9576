# A verification project for the Docker Language Server

The Docker Language Server (Go) is an LSP server for Dockerfiles, Bake files and
Compose files. These modules model its concurrent core, the life of a session, and
the features that answer from the syntax trees of the three kinds of file; TLC
checks them on small instances, and TLAPS proves for all values of the constants
the safety properties of the core, of telemetry, of the session and of the cache,
those of the Dockerfile features, and some of the features of Bake and Compose files. Paths below are relative to
`internal/` of the repository unless they start with another directory.

    tlc -workers 2 -config SyncReopened.cfg MCTextDocumentSync.tla
    tlapm TextDocumentSyncProofs.tla

## Inventory

| Component | State | Operations | What makes it correct |
|---|---|---|---|
| Document manager (`pkg/document/manager.go`, `document.go`) | `docs`, `diagnosticsProcessing`, `mu`; a mutex and a 50 ms debouncer per document | Write, Overwrite, Remove, Read, tryReading, Queue, Get, Keys, LockDocument, UnlockDocument | an open document is there with what the editor sent; locks are released by those who took them; `mu` and the document locks form no cycle |
| Diagnostics pipeline (`pkg/server/text_document_sync.go`, `server.go`) | pending and running callbacks | didOpen, didChange, didClose, computeDiagnostics, the callback, recomputeDiagnostics | diagnostics shown are never older than those before, come to be those of the last text, and are gone after didClose |
| JSON-RPC loop (`tliron/glsp/server`, `tliron/glsp/protocol/handler.go`, `pkg/server/notifier.go`) | initialized | one message at a time; inlay hints in goroutines | the loop always gets to the next message; no handler sends a request |
| Configuration (`configuration`, `pkg/server/didChangeConfiguration.go`) | `configurations` under a lock | Store, Get, Remove, Documents, FetchConfigurations | what is stored belongs to an open document |
| Read-through cache (`cache/manager.go`) | entries, expiry timers, a mutex | Get | one expiry per entry; every Get returns |
| Docker Hub and Scout clients (`hub`, `scout`) | none | GetTags, PostImage, Analyze, Hover | an answer belongs to the image asked for and is complete |
| Telemetry (`telemetry/client.go`, `pkg/server`) | setting, queue, in-flight batches | Enqueue, Publish, UpdateTelemetrySetting, recordAnalysis | no record twice, none forgotten, the setting is obeyed |
| LSP lifecycle (`pkg/server/initialize.go`) | initialized, client, telemetry setting | initialize, initialized, shutdown, exit | requests are refused only outside the session, and all are answered |
| Document types (`pkg/document/*Document.go`) | syntax tree | parse, Update, Copy, IncludedFiles, ParentTargets, DockerfileForTarget | a change of the text is seen; searches end on cycles |
| BuildKit service (`pkg/buildkit`) | none | diagnostics of the build checks, their edits | an edit takes its diagnostic away and nothing else |
| Bake features (`bake/hcl`) | none | diagnostics, completion, inline completion, definition, highlight, hover, links, lenses, symbols, hints, formatting, semantic tokens | the answers fit together: one search does not find what another misses |
| Compose features (`compose`) | none | highlight, rename, definition, hover, completion, links, symbols, hints, formatting, parse errors | a rename keeps every use bound; what is completed resolves; formatting keeps the tree |
| Dockerfile features (`dockerfile`, `pkg/server/codeAction.go`) | none | hints, code actions | an edit fits the text it is applied to |
| Helpers (`types`), protocol types (`tliron/glsp/protocol`), command line (`cmd`), `releaser` | none | | |

How they interact. The read loop calls the handlers, which call the manager.
didOpen and didChangeConfiguration start goroutines that ask the editor for its
configuration (the answer is a message to the read loop) and then call
`computeDiagnostics`, which gives the document's debouncer a callback. The
debouncer's timer runs the callback in a goroutine of its own: it takes the
document's lock, runs the collectors (BuildKit, Scout through the cache, Bake,
Compose) on a copy, publishes and unlocks. Inlay hints run in goroutines, read
documents through the manager and tags through the Docker Hub cache. Every
component records telemetry, which a background goroutine and the shutdown
request publish.

The hard behaviours are listed as hazards, each with its line, in
`PROJECT.json`: unlocked map reads, a lock that is looked up twice by name, two
kinds of mutex taken in sequence, callbacks that outlive their document, reads
from disk that race with didClose, a debouncer that drops calls, a mutex held
over HTTP, batches taken by two goroutines, and settings applied after use. The
features have no state, but there are many of them, each searches the same trees
in its own way, and the files change under them: what is hard there is that
their answers fit together after any series of edits.

## Modules

| Module | Models |
|---|---|
| `DocumentManager` | the manager's state and the steps its methods are made of |
| `TextDocumentSync` | extends it with the server's goroutines: every handler that changes the manager, the debouncers' timers, the callbacks |
| `DiagnosticsService` | what the editor is promised of a document's diagnostics, without locks and goroutines; implemented by `TextDocumentSync` |
| `MCTextDocumentSync` | instances for TLC, and the symmetry of callbacks, locks, texts and openers |
| `TextDocumentSyncProofs` | theorems about `TextDocumentSync`; the last part is about it while every document is opened once and no other file is read |
| `ReadThrough` | what a read-through cache promises, without locks and timers |
| `CacheManager` | the cache with its mutex, fetches and expiry timers; refines `ReadThrough` |
| `CacheManagerProofs` | its invariants and the refinement, proved |
| `Telemetry` | the telemetry queue, its publishers and the user's setting |
| `TelemetryProofs` | theorems about `Telemetry` |
| `ProtocolHandler` | the dispatch of one message: known and registered methods, the reply, the guard of the session |
| `Session` | the editor and the server on one connection: requests, the session's phases, settings and configurations |
| `MCSession` | an instance for TLC: the settings before and after a change |
| `SessionProofs` | theorems about `Session` |
| `Succession` | what is reached from a member of a set whose members name each other, and when it is a tree: files that include files, targets that inherit from targets |
| `SuccessionProofs` | lemmas about it, and induction over numbers and over the subsets of a finite set |
| `BakeDocument` | the tree of a Bake file, the search for the parents of a target, the Dockerfile of a target |
| `BakeDiagnostics`, `BakeReferences`, `BakeNavigation`, `BakeCompletion` | its features on the tree |
| `BakeAnswers` | a Bake file and its Dockerfiles, whatever is written in them, and how the answers about a name or a Dockerfile fit together |
| `BakeFormatting`, `BakeSemanticTokens` | the two that look at columns |
| `BakeInheritance` | a Bake file, whatever is written in it, and what the search for the parents of a target has to do with it |
| `BakeProofs` | the search for the parents of a target, the answers about a name, and that formatting a Bake file settles, proved |
| `BakeFiles`, `MCBakeFiles` | a Bake file and Dockerfiles under edits, and its properties |
| `ComposeDocument` | the tree of a Compose file, and the search for included files |
| `ComposeReferences`, `ComposeSchema`, `ComposeCompletion`, `ComposeOutline` | names, the two walks down the JSON schema, completion, and links, symbols and hints |
| `ComposeProject` | Compose files that include each other, whatever is written in them, and the two properties about what is followed from one service or file to the next |
| `ComposeProofs` | those two, and that formatting a Compose file keeps its tree, proved |
| `ComposeFormatting` | formatting a file, line by line, and what the parser accepts of the indentation |
| `ComposeFiles`, `MCComposeFiles` | Compose files under edits, and their properties |
| `DockerfileDocument` | a Dockerfile, what the parser makes of it, and when a change is noticed |
| `ScoutService` | which of Docker Scout's findings are shown, in the three places that show them |
| `DockerfileDiagnostics` | the diagnostics of BuildKit and Scout, with their edits |
| `DockerfileEditing`, `MCDockerfileEditing` | a Dockerfile under edits and changes of settings |
| `DockerfileProofs` | theorems about `DockerfileEditing` |
| `ProjectFiles`, `MCProjectFiles` | a project with the three kinds of file, of which the editor has one open |

`PROJECT.json` maps each definition to the lines it models. A definition whose
comment says "mutant" is a plausible bug in place of the one after it; nothing
uses it but the mutants that `PROJECT.json` lists.

### TextDocumentSync

*State.* `docs`, `processing`, `mu` are the manager's fields. A lock object is a
member of `Locks`; `holder` has the goroutine that locked it last and `timer` the
document whose analysis its debouncer will start, or the empty function that
Remove gives it. A lock object is reused when nothing refers to it any more
(`Fresh`). `pc`, `on`, `todo`, `lk` and `snap` are the program counters and local
variables of the goroutines. `editor`, `sessions` and `shown` are the editor's:
what it sent since didOpen, and the document whose diagnostics it shows.

*Steps.* A step ends where another goroutine can see a difference: at a mutex, at
the two assignments of `Update` (a copy may be taken between them), between the
deletion of a document and that of its lock, at each unlocked map read of the
callback. The holder of `Manager.mu` is always known from the label. `MapRace` is
the end of the process by "concurrent map read and map write": an unlocked read
while the holder of the mutex writes that map. Unlocking an unlocked mutex ends
the process too. After either, nothing but `Stutter` happens.

*Abstractions.* A text stands for all texts with the same syntax tree for
`Update`'s comparison, so `changed` is inequality. A read from disk finds any text
or fails. Documents are `file:` documents (for a URI without a path
`computeDiagnostics` panics before it queues anything). The copy that the callback
takes is atomic, although `Copy` reads the fields one by one. The Dockerfile that
a Bake inlay hint looks up is not a step of its own. `recordAnalysis` only has to
do with telemetry and is in `Telemetry`. `bep/debounce` is external: a call stops
the running timer and starts one; a timer that ended runs its function in a
goroutine, also while the previous one runs.

`DiagnosticsService` has one document with `status`, `sent` and `shown`: it may be
opened, changed, closed, and diagnostics of a version that was sent, not older
than the ones shown, may be shown while it is not closed. In `TextDocumentSync` the
status is a function of the editor's view and the read loop's program counter, and
`ImplementsService` is the refinement, for each document.

### CacheManager

`Get` waits for the mutex, looks the entry up, and fetches page by page while it
holds the mutex. An answer is the number of pages that arrived. A later page that
fails, an undecodable body, and a 4xx answer of Scout end a fetch *without* an
error (`FetchCut`), and what there is gets cached. Expiry has two steps: the timer
ends, and its goroutine gets the mutex. `ReadThrough` has the same variables
`cache`, `want` and `result`, so the refinement mapping is the identity.

### Telemetry

Events are queued by the setting at that time; a record may be dropped while the
setting (a string) is being assigned, since it is read without synchronisation.
`Publish` asks for the length of the queue without the mutex, `Trim` takes a batch
under it, `Send` succeeds or loses the batch. `queued` and `seen` are history
variables. A second `initialize` after `shutdown` is not modelled.

### Session

One editor, one connection. `phase` is the session as the editor sees it, and
`asked` its requests with their replies; `initialized`, `client`, `telemetry` and
`configurations` are the server's. The read loop handles one message of `inbox`
after the other. A request has an outcome that the environment chooses (the
function returns, returns an error, panics, or its params cannot be decoded), and
`ProtocolHandler` says what becomes of it. `initialize` sets the client before it may
fail, and the level of telemetry before or after (`TelemetryAfter`), and may be sent
again then. An inlay hint asks in its goroutine, later, whether the session runs.
A value of the settings is the level of telemetry and the set of the experimental
settings that are on. didChangeConfiguration has the names of those that differ
(`Changed`), and starts a goroutine for the level, one for the documents that have a
configuration, both or none.
`Fetchers` are the goroutines that ask for configurations: the answer has the
settings of the moment it is made, and is stored in another step, as it is decoded
(`Decoded`): the structure has the key `vulnerabilites` (`configuration/configuration.go:45`)
for the setting that is announced as `scout.vulnerabilities` (`:17`), so that this one is
off after the first answer, whatever the user asked for. The pipeline
is reduced to `queued`, `analysing` and `shown`: a queued document is analysed
some time later with the configuration it has then, and didClose waits for an
analysis that runs. Texts and versions are not of interest here. The editor keeps
to the protocol: it does not open documents before the reply to `initialize`.

### The features

The parsers are external. The models have what they return, as a tree of records,
and a feature is an operator on that tree. A position is the path to a node where
the code asks which node a position is in; a cursor between two nodes is the path
to what is around it. Two features in each language are about columns, and are
modelled separately on small layouts: formatting (lines with their indentation,
gaps between tokens) and semantic tokens (a line with widths of one column a
name). Wording, kinds, icons, and the text of documentation are left out.

*Bake.* A document is a sequence of blocks with labels and attributes, whose
values are expressions (literals, templates, variables, lists, objects, calls,
conditionals, binary operators, `for`). Dockerfiles are sequences of
instructions. The Dockerfile of a target is what Bake merges from its parents, below the
context of the target; contexts are folders below that of the document, with no `..` in them. The search for the parents of a target is a recursive function of the list of
targets found so far and of the target it is at, as the code's is; `BakeInheritance`
says of it what it is for, with the same definitions of what is reached and of trees that
`ComposeProject` has for includes (`Succession`). `BakeFiles` writes attributes, starts blocks, writes Dockerfiles, and
applies the server's own edits: quick fixes, completion, inline completion,
formatting.

*Compose.* A file is a tree of maps, lists, strings, pairs with a colon, anchors
and aliases, `Depth` deep at most. Files include each other, and services extend
each other: the search for included files and the walk up the services are
recursive functions, of the list of files searched so far and of the service the walk is
at. `ComposeProject` says of them what they are for, with the least set that is closed
under inclusion and the chain of services. The JSON schema is a constant with every
kind of step the two walks make (references, alternatives, patterns, items,
enumerations). `ComposeFiles` writes entries, renames, and accepts completions with
nothing typed yet. The layout of a file, its lines with their indentation, is the
variable `lines` of `ComposeFormatting`, which has an initial state and one action
(`FormatFile`) and can be read and proved alone; `FormatCompose` is that action
beside the variables of the tree. The parser is external there too: `Fits` says
at which columns it takes a line, `Parses` that it takes all.

*Dockerfile.* A file is a sequence of comments, check directives and
instructions, with flags, words and a body. BuildKit's checks are external; the
rules that come with an edit are there, and one that does not stands for the
rest. Scout's answers are a constant. `DockerfileEditing` writes elements,
inserts them, takes code actions, and changes settings; `seen` is the text that
the diagnostics shown were collected of, since a change that the comparison of
trees does not notice is not analysed.

`ProjectFiles` puts the three sides in one state space of which one side is open:
no answer about one side depends on what is written on another, but for the
stages of Dockerfiles that completion of a Compose file offers.

## Runs

| Run | Instance | States | Shows |
|---|---|---|---|
| `sync_one_session` | 1 document, 2 texts, 3 versions, 1 configuration change, 2 callbacks, panicking collectors | 189,117 | `TypeOK`, `AnalysedUnderLock`, `LockNotUnlockedTwice`, `ClosedShowsNothing`, `ShownVersionGrows`, `ImplementsService` |
| `sync_reopened` | 1 document opened twice, 2 versions, asynchronous reads | 932,677 | `NoLostLock`, `NoCircularWait` |
| `sync_two_documents` | 2 documents of 2 texts and 2 versions, one whose client turned Compose support off, one that is included by others | 1,569,081 | `OpenDocumentIsEditors` |
| `sync_liveness` | 1 document, 2 versions, fairness | 7,792 | `LoopResponds`, `EventuallyCurrent` |
| `cache_read_through` | 2 keys, the read loop and one hint, 2 pages, fairness | 47,808 | `TypeOK`, `OneTimerPerEntry`, `ReadsThrough` |
| `telemetry_queue` | 4 events, batches of 2, 2 publishers, fairness | 193,714 | `TypeOK`, `EachRecordOnce`, `EventuallyPublished` |
| `session_settings` | 3 requests of 4 methods, 1 document opened twice, 4 values of the settings, 2 fetchers, fairness | 1,044,721 | `TypeOK`, `RefusedOutsideSession`, `ClientKnown`, `EveryRequestAnswered`, `SettingsApplied` |
| `project_files` | a Bake file with 6 blocks and 3 Dockerfiles, 3 Compose files, a Dockerfile with 4 elements; 3, 2 and 2 edits | 16,645 | the 18 invariants below |

| Invariant of `project_files` | Says |
|---|---|
| `ParentsAreAncestors` | the parents of a Bake target are its ancestors, and can be told exactly when inheritance is a tree |
| `ArgumentAnswersAgree` | diagnostics, definition and hint agree about an argument |
| `HighlightsAreMutual` | from each highlighted place the same places are highlighted, the definition among them |
| `HoverFollowsDefinition` | a hover shows the default of the variable that definition leads to |
| `SuggestionsAreNotReported` | what completion offers is not reported by the diagnostics |
| `FixesRemoveTheirWarnings` | an edit takes its diagnostic away and leaves the others (Bake, Dockerfile) |
| `LinksAndLensesAgree` | lenses lead to symbols of their name, and the Dockerfile a target is built with is at the path of the link on it, below the context of the target |
| `FormattingSettles` | edits of a Bake file do not overlap, and leave nothing to format |
| `TokensAreDisjoint` | tokens are sent in order and do not overlap |
| `RenamePreservesBindings` | a rename to an unused name keeps every use bound |
| `HoverShowsDefinition` | hover shows the declaration that definition leads to, in included files too |
| `IncludesAreFollowed` | the search ends, has an answer if each file is included at one place, none if it comes to a file that includes itself; it finds all that is reached, and what it follows has a link and a symbol |
| `CompletedNamesResolve` | a completed name resolves, and the choices of a snippet are what completion offers in its place |
| `CompletedAttributesAreExplained` | hover explains what completion offers with the same words |
| `ParentValuesAreInherited` | a hint shows the value of the nearest service up the chain of `extends` |
| `FormattingKeepsTheTree` | formatting keeps the relations of the indentations, and leaves nothing to format |
| `DiagnosticsFollowEdits` | the diagnostics shown are those of the text, also if a change was not noticed |
| `ScoutAnswersAgree` | hover, Dockerfile diagnostics and Bake diagnostics agree under every setting |

Bounds. Two callbacks are the fewest that can overlap, and a third would only
wait as the second does. Three versions let a pending, a running and a published
analysis be of different ones. Locks are as many as can be referred to at a time.
A didOpen waits for an idle member of `Openers` and a timer for one of `Callbacks`:
these sets bound how many goroutines of a kind there are at once.
`MaxSessions` and `MaxVersion` bound what the editor sends; the proofs have no
such bound, but for the one session of the last five theorems of `TextDocumentSyncProofs`. A batch of 2 with 4 events has all cases of the 500 of the code: an
empty queue, one that is not longer than a batch, and one that is.
`Session`: `MaxRequests` 3 lets a session begin, fail or have a hint, and end or
begin again; `MaxInbox` 1 orders messages as they are sent (what is reordered is
reordered by goroutines, not by the queue); one change of the settings can race
with the goroutine of didOpen, and needs two fetchers, as does one that is about the
level of telemetry and the documents; two openings let a goroutine of the first store
its answer when the document is closed, or open again. The session begins with
telemetry off and other settings than the defaults (`MCInitial`), so that applying
nothing is noticed. `sync_two_documents` has one callback, since callbacks only
read the documents, and two versions and texts for didChange. `ProjectFiles`: three
edits of a Bake file reach a cycle of three targets; `MaxComposeEdits` and
`MaxDockerfileEdits` 2 let an edit of the server follow one by hand, or the other
way round. The written values have one of each form the code distinguishes.
`Depth` 10 is more than the trees of `ComposeFiles` have after all edits.

Deadlock is not checked where the system may stop: `Telemetry` and `Session`
end with the process, and an editor may stop editing (`ProjectFiles`, at its
bounds). In `TextDocumentSync` only a server that waits for a message, or has
ended, may stand still (`Stutter`).

`sync_one_session` has no readers and one session because the properties it
checks are false with them; these are findings:

| Run | Violated | Against |
|---|---|---|
| `sync_read_after_close` | `ClosedShowsNothing` | `text_document_sync.go:49`, `CHANGELOG.md:611`: an inlay hint under way puts the closed document back, and didOpen's goroutine then has its diagnostics published |
| `sync_reopened_lock` | `AnalysedUnderLock` | `manager.go:254`: a callback that waited while its document was closed and opened again analyses the new document under the old lock, and unlocks the new one |
| `cache_hints_block` | `HintsDoNotBlock` | `CHANGELOG.md:46`: the read loop waits for the mutex while the inlay hint that holds it fetches |
| `telemetry_off` | `OffSendsNothing` | `TELEMETRY.md:11`: the event of initialize is queued before "off" is applied, and sent |

Fairness. Go schedules goroutines fairly; `sync.Mutex` hands itself to a waiter
after a millisecond, so those that wait for one get it (strong fairness of
`Enter`, `QueueLock`, `RemoveLock`, `Acquire`, `Lock`, `Delete`); timers end; the
HTTP clients of Hub and Scout time out after 30 seconds; the editor answers
configuration requests, but need not send anything. `Telemetry` also assumes that
the endpoint answers: its HTTP client has no timeout, and while a request hangs
the queue grows. `Session` has weak fairness of the read loop, of the hints'
goroutines, of the fetchers with the editor's answer, and of the analysis of each
document. `SettingsApplied` excludes what the code does not order: an
answer that is on its way to its goroutine while the settings change again
(`overtaken`) may be applied after the newer one. It also excludes
`scout.vulnerabilities`, which is lost when an answer is decoded: the setting
is off from the first answer on, and no line of the documents mentions it.

### Where the properties stop

Some answers do not fit together in cases the code leaves out. No document of
the repository promises more, so these are conditions of the properties and not
findings of their own, except where a line is quoted. Bake: with several
variables in one attribute, hover shows the first, whichever the cursor is in
(`hover.go:89`); two targets that share an ancestor hide that an ancestor cannot
be resolved (`bakeDocument.go:257`); completion looks for `ARG` in capitals
only (`completion.go:121`); two items of an object on a line, or the last one
beside its brace, get two edits for one place (`formatting.go:122,155`); an
attribute on the line of its block, with an object of several lines, is indented
by one formatting and moved back by the next (`formatting.go:43,101,129`); tokens of
an interpolation without spaces overlap (`semanticTokens.go:187`); a fix deletes
the first line of a value that has several (`diagnosticsCollector.go:156`); arguments in a
second block of a label are compared with the Dockerfile of the first, while definitions
look into their own (`diagnosticsCollector.go:130`); a link is to what is in quotes, be it
empty, an interpolation, or in a second block of a label (`documentLink.go:31`), and leaves
out the context of the target (`:39`), which the Dockerfile it is built with is looked up
below (`bakeDocument.go:273`), so that with a subfolder as context the link leads
elsewhere than definition, hints and diagnostics; a definition asked for in a block
without a label, or in `target = 5`, panics (`definition.go:120,355`), and the handler
recovers.
Compose: a mount with `type: bind` is highlighted as a volume
(`documentHighlight.go:117`; `CHANGELOG.md:70` says no results are returned for
bind mounts); a file that is included twice is taken for a circle
(`dockerComposeDocument.go:93`); a name from an included file is renamed only in
this one; at the asterisk of an alias in a list of dependencies the asterisk is
taken for the name (`documentHighlight.go:28`); `volumes_from` has no hover; for the
value of an attribute of a patterned name (`condition`) completion offers the
attributes beside it (`schema.go:118`); an item that starts with a key whose value
is below it loses its structure by formatting (`formatting.go:138`), and so do
lines of white space and items whose width is not the tab size.
Dockerfile: comments, the bodies of heredocs, and whether an instruction is in
JSON form are not compared (`dockerfileDocument.go:81-93`); the edit for
a stage name drops the flags of `FROM`, and edits that join words lose a heredoc's
body and the brackets of JSON (`buildkit/service.go:106,124,300`); an ignored rule
adds a second check directive (`:219`); Scout's hover does not ask the setting for
unpinned digests (`scout/service.go`).

## Proofs

No proof bounds the sets of documents, texts, keys, goroutines or messages, the
limits, or the length of a file; what is assumed of the constants is said in the
modules and evaluated by TLC with every run that uses them. Each proof has an
inductive invariant, since none of the properties is one by itself.

`TextDocumentSyncProofs`, from the assumptions of the two modules (the sets of
goroutines and the null values are disjoint; there is a version, since didOpen
has one):

1. `TypeCorrect` (`TypeOK`). Not inductive alone: that `Update` finds a document
   needs that the read loop was in `Manager.mu` since it looked it up, so `Basics`
   adds who holds `mu` (`MuHolder`) and that the document in work is open
   (`Writing`).
2. `LocksReleased` (`NoLostLock`), on top of `Basics`. `LockHomes` says that a lock
   object belongs to one document, for the map and for the callbacks that still
   have it; without it `UnlockDocument`, which looks the lock up by name, could
   unlock for one document what was locked for another.
3. `NoDeadlock` (`NoCircularWait`), a consequence of the two: the waiter is the one
   goroutine in `Manager.mu`, the holder is one that will unlock, so it is a
   callback.
4. `OpenDocumentsKept` (`OpenDocumentIsEditors`). `Editing` says what the manager
   has of an open document also while a message is handled, and that only the read
   loop reads a file without keeping it.

The rest of the module assumes `OneSession`: a document is opened once, there are no
inlay hints that read documents, and no open document includes others. The runs
`sync_reopened_lock` and `sync_read_after_close` show that its theorems are false
without. `SessionInv` extends the invariants above: the lock a callback has is the
one its document has (`Holding`), nothing is known of a document that was not
opened (`Lives`), the versions shown, in callbacks and in the manager are ordered
(`Showing`). From it:

1. `AnalysesExcluded` (`AnalysedUnderLock`) and `UnlocksMatchLocks`
   (`LockNotUnlockedTwice`): both need that looking the lock up by name a second
   time finds the lock that was found the first time.
2. `ClosedIsCleared` (`ClosedShowsNothing`): Remove waits for the callback that has
   the lock, and any other one finds no document.
3. `VersionsGrow` (`ShownVersionGrows`).
4. `ServiceImplemented` (`ImplementsService`): every step of the server is, for each
   document, a step of `DiagnosticsService` or a stutter.

`CacheManagerProofs`: `IInv` adds to `OneTimerPerEntry` that the holder of the mutex
is in `Get` and that nobody else stores an entry it is fetching; from it the types
(`CacheTypeCorrect`), `OneTimerCorrect`, and `CacheRefines` (every step is one of
`ReadThrough` or a stutter).

`TelemetryProofs`: `TelemetryTypeCorrect` and `RecordsAccounted` (`EachRecordOnce`).
`EachRecordOnce` counts, and a count is not enough for the next step; `IInv` says
instead that the places a record may be in are disjoint (`PlacesDisjoint`), that
they hold every queued record (`PlacesComplete`), that the queue is the end of what
was queued (`QueueIsSuffix`), and that only a publisher that sends has a batch
(`BatchWhileSending`). The counts follow from the cardinality of disjoint unions.

`SessionProofs`: `SessionTypeCorrect`, `RequestsRefused` (`RefusedOutsideSession`) and
`ClientIsKnown` (`ClientKnown`). `IInv` adds that the server is initialized exactly in
the phases in which the editor was told so, or is about to be
(`SessionIsInitialized`), that requests wait in the order they were sent
(`ReadInOrder`), and that their phases follow each other (`PhasesInOrder`). The last
two are what the exception for inlay hints rests on: of a hint that is answered
from the other side of a border, the `initialize` or `shutdown` came later.

The next two rest on `SuccessionProofs`. All subsets of a finite set have a property if
each one has it whenever all larger ones do (`InductionDown`): the measure of a
search is what was visited, which grows until all is in it. A recursive function is only
known to satisfy its equation where one that does exists, so each is built in layers, of the
sets of which fewer than n are left (`LeftLess`). What is reached is the least set
that is closed (`ReachedIsClosed`, `ReachedIsLeast`). If it is a tree, no member of it
reaches itself (`TreesHaveNoCycles`), what its members name are trees (`SubtreesAreTrees`)
and have nothing in common (`SubtreesAreApart`), and the other way round (`TreeOfTrees`).

`BakeProofs`, on inheritance: `ListsParents` (`ParentsAreAncestors`), for any document that may
be replaced by any other (`SpecDocument`). The assumption is `DocumentAssumption`: labels
are strings and lists are sequences. That this holds of a state is a conjunct of the
property (`IsDocument`), so TLC checks it after every edit that `ProjectFiles` makes. The list of
what was found is handed from one entry of an inherits list to the next, and
whether the search goes on depends on all of it, so no statement about the ancestors of
one target is enough. `Finds` says of a search from any list, not only the empty one,
that it has an answer exactly if inheritance from the target is a tree that has nothing of the list,
and that then what is found is the list and the tree, each once, with the same first element.
The search visits the entries in order, so this is shown of any number of them
(`VisitsFind`), by what can be added to what was found before (`Fits`, `AllFit`); and of
the search by `InductionDown` (`SearchFinds`). That the entries can be added one after
the other exactly if inheritance is a tree is `TreesOfTargets`; it is where a target
reached twice, which no single branch shows, is excluded. Last, the
target itself is taken out of the list by putting the last one in its place, which loses
nothing since it is the first (`FirstTakenOut`).

`BakeProofs`, on answers: `ArgumentsAgree` (`ArgumentAnswersAgree`), `HighlightsMutual`
(`HighlightsAreMutual`) and `LinksAgree` (`LinksAndLensesAgree`), for any document and any Dockerfiles (`SpecBake`), from the same
assumption; nothing is assumed of the Dockerfiles. Each answer about an argument is
brought down to the same question, whether the Dockerfile of its target declares it:
for the definition that means to follow the path of the cursor to the key and into
the Dockerfile (`KeyDefined`), for the diagnostic that the first block of a label is the one that
`DockerfileContent` finds (`ContentOfFirst`, `ReportedKeys`), for the hint that only declared
names have defaults (`HintedKeys`). What the Dockerfile of a target is does not matter, as
long as all of them ask the same. Of highlights, the places that name a target are shown to be
named the same from each of them (`HighlightedAt`, `PlacesNameOne`). A link does ask which
Dockerfile it is: what Bake merges from the parents of a target, with the targets that were
visited on the way, is shown to be defined for any inheritance, cycles included
(`MergedDefined`, by induction on how many targets are left), and to be the target's own
value if it has one (`OwnDockerfile`). The context is merged in the same way, and the
theorem is about every context: the Dockerfile is at the path of the link below it.

`BakeProofs`, on formatting: `FormattingIsSettled` (`FormattingSettles`), for layouts of any
number of lines and items. The invariant `IsLayout` is what the parser takes for a
block; `FormattedLayout` shows that the edits keep it and that what they write is
what is wanted, `EditsApart` that no two of them are about the same place. The
hypotheses of the property are needed: TLC finds the layouts that do not settle
when one is left out.

`ComposeProofs`, on what is followed: `FollowsIncludes` (`IncludesAreFollowed`) and `InheritsParentValues`
(`ParentValuesAreInherited`), for any finite number of files, each of which may be
replaced by any tree (`SpecFiles`). The assumption is `FilesAssumption`: the files are
finitely many, and trees no deeper than `Depth`, which may be any number. That the
files are such trees is all that is needed of a state; it is a conjunct of
`IncludesAreFollowed` (`FilesAreTrees`), so TLC checks it after every edit that
`ProjectFiles` makes. Both searches are defined as above (`SearchDefined`, `HierarchyDefined`; `TreeDefined`
for the trees, by their depth).

- Includes. By induction over the sets of searched files, from all of them down
  (`InductionDown`): a search with an answer has found all that is below the file,
  nothing that was searched before, and no file below itself (`SearchAnswers`). The
  other way round, where each file is included at one place no file is below
  itself and the files below two of the paths of a file have nothing in
  common, so no search below meets what another one searched (`TreesAreSearched`).
  Each path that is followed is a string of the tree (`IncludesAreNamed`), and such a
  string has a link and a symbol (`NamedIsShown`).
- Services. A chain of `extends` that does not come back to where it was ends before it is longer
  than there are services, by the pigeonhole principle (`ChainEnds`). The walk,
  which stops at a service it has been to, is then at the services of the chain,
  and adds what is not overridden (`HierarchyIsChain`). So the properties it ends with
  are those of the nearest service that has them (`ParentsAreChain`), and that
  is the value shown (`ParentIsShown`).

`ComposeProofs`, on formatting: `FormattingKeepsTheTreeAlways` (`FormattingKeepsTheTree`),
for files of any number of lines and any tab size, from `LinesAssumption`: a line
is one of the four kinds, a separator is at the margin, the tab is at least one
wide. The formatter knows levels, the parser has columns open, and neither says
anything of the other: an order of lines in the formatted file follows only from
what both knew before. The induction over the lines is therefore over the file
and the formatted file at once. `Alike` relates the levels known, and the columns
open, in the one to those in the other: the same columns, moved to where the
formatter puts their lines, in the same order. It holds for the first line with
content (`FirstAlike`) and for the next that the parser accepts (`NextAlike`).
`Joint` adds the comments that wait for a line and, for the lines that the next
may be below, that their columns are among those known. From it the formatted file parses,
no line of it is to be moved again, and the order of related lines is kept
(`FormattedKeepsTheTree`). That the state is such a file is kept by `FormatFile`
(`LayoutStays`). The two hypotheses of the property stay: the code formats only what
parses, and files that are not `Regular` do lose their structure, as said above.

`DockerfileProofs`: `DiagnosticsAreCurrent` (`DiagnosticsFollowEdits`) and
`ScoutIsConsistent` (`ScoutAnswersAgree`), for files of any length, from
`DockerfileAssumption`: what is written is an element of a Dockerfile.
`DockerfileInv` says that the text that was last analysed is the text there is, or
one that no change since was noticed of: two changes in a row that go unnoticed
are one that would have (`ChangeUnnoticed`), and a change that goes unnoticed keeps
the nodes (`Unnoticed`). `ScoutIsConsistent` needs that an image is on a line of its
own (`StartLinesIncrease`). These, and the formatting of Compose files, rest on
recursive functions along the file; what is said of them is proved by induction in the
form of a set of numbers that has a least one (`LeastNumber` and `InductionUpTo` of
`SuccessionProofs`), as the rule of induction itself takes an operator.

Only model-checked:

- the liveness properties and the fairness part of `ReadsThrough`, which are
  outside the prover's reach, as is ENABLED;
- the properties of `BakeFiles` and `ComposeFiles` but for the two about formatting, the one
  of `BakeInheritance`, the three of `BakeAnswers` and the two of `ComposeProject`. They
  are about trees of any depth, most with RECURSIVE operators, whose modules the prover
  does not take, and their induction would be over trees;
- `FixesRemoveTheirWarnings`, whose Bake side is such a property, and whose
  Dockerfile side is about the first of some flags (`SelectSeq`, a definition the
  prover cannot expand).

## Plan

The model is complete as far as the sections above say. What is left to prove are lemmas
about the features on trees whose operators are not recursive (`SuggestionsAreNotReported`
of Bake files, which compares a document with one that has another value written in
it) or could be recursive functions (completion and hover of Compose files, where
one names the other's choices).

## Not modelled

- The helpers in `types` that take apart URIs, paths, image names and Git remotes
  character by character: the models have the parts as values. (A URI without a
  path makes `types/common.go:71` panic.)
- `tliron/glsp/protocol` but for its handler: declarations of JSON structures.
- The command line and the choice of stdio or TCP, which are I/O, and the release
  tool, which is not part of the server. (Clients of the TCP server share one
  `Server`, `run-tcp.go:28`; the models have one connection.)
- The parsers of HCL, YAML and Dockerfiles, and BuildKit itself: external. With
  the YAML parser goes the one diagnostic of Compose files, its error message.
- Completion of image tags, of the names of files and folders beyond whether they
  are offered, and with a prefix typed; the dates that a Dockerfile's inlay hint
  shows.
- The capabilities that initialize returns and registers: data.
