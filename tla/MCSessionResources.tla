------------------------- MODULE MCSessionResources -------------------------
(* Small instances of SessionResources for TLC.                            *)
EXTENDS SessionResources

CONSTANTS padplay, m1, m2, dvi1, dvi2, a, b

MCMonitors == {m1, m2}
MCVirtual == {padplay}
MCConnectors == {dvi1, dvi2}
MCSerials == {a, b}
=============================================================================
