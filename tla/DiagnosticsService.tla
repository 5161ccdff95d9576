------------------------- MODULE DiagnosticsService -------------------------
(***************************************************************************)
(* What the editor is promised about the diagnostics of one document,      *)
(* without a manager, locks, timers or goroutines: they are those of a     *)
(* version that it sent, never older than the ones before, and gone when   *)
(* didClose has been handled. TextDocumentSync implements it.              *)
(***************************************************************************)
EXTENDS Naturals

CONSTANT Versions          \* the versions that a document can have, from 1 on

VARIABLES
    status,  \* "closed", "open", or "closing" while didClose is handled
    sent,    \* the last version that the editor sent of the open document
    shown    \* the version of the diagnostics shown, 0 when there are none

serviceVars == <<status, sent, shown>>

ServiceInit == status = "closed" /\ sent = 0 /\ shown = 0

Open ==
    /\ status = "closed"
    /\ status' = "open" /\ sent' = 1
    /\ UNCHANGED shown

Change ==
    /\ status = "open"
    /\ sent' = sent + 1
    /\ UNCHANGED <<status, shown>>

(* An analysis that was under way when the document was closed may still   *)
(* publish its version.                                                    *)
Show(v) ==
    /\ \/ status = "open" /\ v <= sent
       \/ status = "closing"
    /\ v >= shown
    /\ shown' = v
    /\ UNCHANGED <<status, sent>>

Close ==
    /\ status = "open"
    /\ status' = "closing" /\ sent' = 0
    /\ UNCHANGED shown

Clear ==
    /\ status = "closing"
    /\ status' = "closed" /\ shown' = 0
    /\ UNCHANGED sent

ServiceNext == Open \/ Change \/ Close \/ Clear \/ \E v \in Versions : Show(v)

ServiceSpec == ServiceInit /\ [][ServiceNext]_serviceVars
=============================================================================
