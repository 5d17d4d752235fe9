-------------------------- MODULE MCEndpointStore ---------------------------
(* EndpointStore on one figure of the machine and one of a process.        *)
EXTENDS EndpointStore

CONSTANTS machine, p1

MCFigures    == {"cpu", "reboot"}
MCParent     == [cpu |-> machine, reboot |-> p1]
MCFromStatus == {"reboot"}
=============================================================================
