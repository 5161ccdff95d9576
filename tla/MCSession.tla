------------------------------ MODULE MCSession ------------------------------
(* An instance of Session for TLC.                                         *)
EXTENDS Session

ReportUnpinned == {"vulnerabilityScanning", "notPinnedDigest"}

(* The session begins with telemetry off, which is not the default; the    *)
(* level, the settings of documents or both change, up to the defaults.    *)
MCInitial  == {[telemetry |-> "off", on |-> ReportUnpinned]}
MCSettings == MCInitial \cup {Default, [Default EXCEPT !.telemetry = "off"],
                              [telemetry |-> "all", on |-> ReportUnpinned]}
=============================================================================
