---------------------------- MODULE MCDaemonLoop ----------------------------
(* Small instances of DaemonLoop for TLC.                                  *)
EXTENDS DaemonLoop

CONSTANTS a, b

MCSerials == {a, b}

D(s, state) == [serial |-> s, state |-> state]

\* No device, one that is not yet authorised, one ready, two of each kind.
MCLists == {<<>>,
            <<D(a, "unauthorized")>>,
            <<D(a, "device")>>,
            <<D(b, "device")>>,
            <<D(a, "offline"), D(b, "device")>>}

\* The serial number a begins with hexadecimal digits, as "ABCD1234" does.
MCHexLists == {list \in MCLists : list # <<>> /\ list[1].serial = a}
=============================================================================
