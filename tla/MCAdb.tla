-------------------------------- MODULE MCAdb --------------------------------
(***************************************************************************)
(* Adb for TLC: its clients make at most MaxCalls requests.  Every other   *)
(* step is that of Adb.                                                    *)
(***************************************************************************)
EXTENDS Adb

CONSTANT MaxCalls   \* bound: requests in a behaviour

VARIABLE calls

mcVars == <<vars, calls>>

Init == AdbInit /\ calls = 0

Next ==
    \/ Request /\ calls < MaxCalls /\ calls' = calls + 1
    \/ (Transfer \/ Fault \/ Device \/ Unplug) /\ UNCHANGED calls

Spec == Init /\ [][Next]_mcVars

=============================================================================
