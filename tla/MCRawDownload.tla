---------------------------- MODULE MCRawDownload ----------------------------
(* RawDownload for TLC.                                                    *)
EXTENDS RawDownload

\* Connections break but do not stall; and everything at once.
ScenariosDef == {Faults \ {"PARTIAL_FILE", "OPERATION_TIMEDOUT"}, Faults}
==============================================================================
