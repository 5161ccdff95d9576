-------------------------- MODULE ProtocolHandler ---------------------------
(***************************************************************************)
(* What tliron/glsp/protocol/handler.go and tliron/glsp/server/handler.go  *)
(* do with one message: the methods that the switch of Handle knows, those *)
(* that NewServer gives a function, and the reply that the JSON-RPC        *)
(* library is asked to send.                                               *)
(***************************************************************************)

GeneralMethods ==
    {"$/cancelRequest", "$/progress", "initialize", "initialized", "shutdown",
     "exit", "$/logTrace", "$/setTrace", "window/workDoneProgress/cancel"}

WorkspaceMethods ==
    {"workspace/didChangeWorkspaceFolders", "workspace/didChangeConfiguration",
     "workspace/didChangeWatchedFiles", "workspace/symbol", "workspace/executeCommand",
     "workspace/willCreateFiles", "workspace/didCreateFiles",
     "workspace/willRenameFiles", "workspace/didRenameFiles",
     "workspace/willDeleteFiles", "workspace/didDeleteFiles"}

SyncMethods ==
    {"textDocument/didOpen", "textDocument/didChange", "textDocument/willSave",
     "textDocument/willSaveWaitUntil", "textDocument/didSave", "textDocument/didClose"}

NavigationMethods ==
    {"textDocument/completion", "completionItem/resolve", "textDocument/hover",
     "textDocument/signatureHelp", "textDocument/declaration",
     "textDocument/definition", "textDocument/typeDefinition",
     "textDocument/implementation", "textDocument/references",
     "textDocument/documentHighlight", "textDocument/documentSymbol",
     "textDocument/codeAction", "codeAction/resolve", "textDocument/codeLens"}

EditingMethods ==
    {"codeLens/resolve", "textDocument/documentLink", "documentLink/resolve",
     "textDocument/documentColor", "textDocument/colorPresentation",
     "textDocument/formatting", "textDocument/rangeFormatting",
     "textDocument/onTypeFormatting", "textDocument/rename",
     "textDocument/prepareRename", "textDocument/foldingRange",
     "textDocument/selectionRange"}

DocumentMethods ==
    {"textDocument/prepareCallHierarchy", "callHierarchy/incomingCalls",
     "callHierarchy/outgoingCalls", "textDocument/semanticTokens/full",
     "textDocument/semanticTokens/full/delta", "textDocument/semanticTokens/range",
     "workspace/semanticTokens/refresh", "textDocument/linkedEditingRange",
     "textDocument/moniker", "textDocument/diagnostic", "textDocument/inlayHint",
     "textDocument/inlineValue", "textDocument/inlineCompletion"}

Dispatched == UNION {GeneralMethods, WorkspaceMethods, SyncMethods,
                     NavigationMethods, EditingMethods, DocumentMethods}

(* Handled without decoding params.                                        *)
NoParams == {"shutdown", "exit", "workspace/semanticTokens/refresh"}

Registered ==
    {"initialize", "initialized", "shutdown", "$/setTrace",
     "textDocument/codeAction", "textDocument/codeLens", "textDocument/completion",
     "textDocument/definition", "textDocument/formatting",
     "textDocument/documentHighlight", "textDocument/documentLink",
     "textDocument/documentSymbol", "textDocument/hover", "textDocument/inlayHint",
     "textDocument/inlineCompletion", "textDocument/prepareRename",
     "textDocument/rename", "textDocument/semanticTokens/full",
     "textDocument/didOpen", "textDocument/didChange", "textDocument/didClose",
     "workspace/didChangeConfiguration", "workspace/executeCommand"}

(* The request that is handled in a goroutine of its own.                  *)
Asynchronous(method) == method = "textDocument/inlayHint"

(* How the params and the function of a method turn out.                   *)
Outcomes == {"result", "error", "panic", "undecodable"}

Replies == {"result", "error", "internalError", "notInitialized",
            "methodNotFound", "invalidParams"}

(* Mutant: a panic is not recovered.                                       *)
ReplyUnrecovered(initialized, method, outcome) ==
    IF ~initialized /\ method # "initialize" THEN "notInitialized"
    ELSE IF method \notin Dispatched \cap Registered THEN "methodNotFound"
    ELSE IF outcome = "undecodable"
         THEN IF method \in NoParams THEN "result" ELSE "invalidParams"
    ELSE outcome

(* The reply to a message. An initialize is accepted at any time.          *)
Reply(initialized, method, outcome) ==
    IF ~initialized /\ method # "initialize" THEN "notInitialized"
    ELSE IF method \notin Dispatched \cap Registered THEN "methodNotFound"
    ELSE IF outcome = "undecodable"
         THEN IF method \in NoParams THEN "result" ELSE "invalidParams"
    ELSE IF outcome = "panic" THEN "internalError"
    ELSE outcome

(* Mutant: shutdown leaves the handler initialized.                        *)
InitializedForever(initialized, method, reply) ==
    initialized \/ (method = "initialize" /\ reply = "result")

(* Mutant: initialize is taken for granted before it succeeds.             *)
InitializedEarly(initialized, method, reply) ==
    method = "initialize" \/ (initialized /\ method # "shutdown")

(* Whether messages are accepted after that message.                       *)
InitializedAfter(initialized, method, reply) ==
    IF reply = "notInitialized" THEN initialized
    ELSE IF method = "initialize" THEN initialized \/ reply = "result"
    ELSE initialized /\ method # "shutdown"
=============================================================================
