---------------------------- MODULE DroidboxMain ----------------------------
(***************************************************************************)
(* The program itself, main in src/main.c: open the device, take its ADB   *)
(* interface from whoever holds it, connect, authenticate, open the        *)
(* framebuffer service and acknowledge what it writes until it closes.     *)
(* It runs on the client of Adb; mpc is the next statement of main.        *)
(*                                                                         *)
(* Almost no result is checked: only fopen, open and adbres.code after     *)
(* adb_open and adb_ready decide what is done next.                        *)
(***************************************************************************)
EXTENDS Adb

VARIABLES mpc,      \* the next statement of main
          holder    \* who holds the interface: "none" | "driver" | "main"

mainVars == <<mpc, holder>>
allVars == <<vars, mainVars>>

(* Main announces buffers of 2048 bytes, sends these payloads ("host::",   *)
(* the key and "framebuffer: ") and acknowledges stream 3, whatever the    *)
(* answer to adb_open said of the id.                                      *)
SystemIdLen == 6
KeyLen == 524
ServiceLen == 13
BuffLen == 2048
RemoteId == 3

Init ==
    /\ AdbInit
    /\ mpc = "fopen" /\ holder \in {"none", "driver"}

Goto(m) == mpc' = m

(* fopen, and the dump of the raw descriptors. *)
FOpen ==
    /\ mpc = "fopen"
    /\ (link /\ Goto("open")) \/ Goto("exit")
    /\ UNCHANGED <<vars, holder>>

(* open and usb_dump_device, whose result is not looked at, and which does *)
(* not return from a configuration that UsbDescriptors!LoopsEnd excepts.   *)
Open ==
    /\ mpc = "open"
    /\ (link /\ (Goto("driver") \/ Goto("dumping"))) \/ Goto("exit")
    /\ UNCHANGED <<vars, holder>>

(* usb_get_driver; only if there is a driver is it detached here. *)
GetDriver ==
    /\ mpc = "driver"
    /\ Goto(IF link /\ holder # "none" THEN "detach1" ELSE "detach2")
    /\ UNCHANGED <<vars, holder>>

(* usb_detach_interface; a failure is only reported. *)
Detach ==
    /\ \/ mpc = "detach1" /\ Goto("detach2")
       \/ mpc = "detach2" /\ Goto("claim")
    /\ holder' \in IF link THEN {"none", holder} ELSE {holder}
    /\ UNCHANGED vars

(* usb_claim_interface.  While another driver holds the interface every    *)
(* transfer on it fails, as it does when the device is gone.               *)
Claim ==
    /\ mpc = "claim" /\ Goto("connect")
    /\ \/ link /\ holder = "none" /\ holder' = "main" /\ UNCHANGED link
       \/ holder # "none" /\ link' = FALSE /\ UNCHANGED holder
       \/ ~link /\ UNCHANGED <<link, holder>>
    /\ UNCHANGED <<hostVars, out, in, faults, devVars>>

Connect ==
    /\ mpc = "connect" /\ adb_connect(SystemIdLen, BuffLen)
    /\ Goto("auth") /\ UNCHANGED holder

Auth ==
    /\ mpc = "auth" /\ adb_auth(KeyLen, BuffLen)
    /\ Goto("openstream") /\ UNCHANGED holder

OpenStream ==
    /\ mpc = "openstream" /\ adb_open(ServiceLen, BuffLen)
    /\ Goto("check") /\ UNCHANGED holder

(* The loop is entered whenever the call returned 0 or more. *)
CheckRetOnly ==
    /\ mpc = "check" /\ pc = "idle"
    /\ Goto(IF ret = 0 THEN "ready" ELSE "release")
    /\ UNCHANGED <<vars, holder>>

(* The loop is entered unless the stream is known to be closed. *)
CheckNotClosed ==
    /\ mpc = "check" /\ pc = "idle"
    /\ Goto(IF res.code # "CLSE" THEN "ready" ELSE "release")
    /\ UNCHANGED <<vars, holder>>

(* if (adbres.code == ADB_COMMAND_A_OKAY) *)
Check ==
    /\ mpc = "check" /\ pc = "idle"
    /\ Goto(IF res.code = "OKAY" THEN "ready" ELSE "release")
    /\ UNCHANGED <<vars, holder>>

(* The two ids swapped: main's own id of the stream, 4, as the device's. *)
ReadySwapped ==
    /\ mpc = "ready" /\ adb_ready(4, BuffLen)
    /\ Goto("loop") /\ UNCHANGED holder

(* do adb_ready while (adbres.code != ADB_COMMAND_A_CLSE) *)
Ready ==
    /\ mpc = "ready" /\ adb_ready(RemoteId, BuffLen)
    /\ Goto("loop") /\ UNCHANGED holder

(* The loop ends only at an answer that is neither data nor CLSE. *)
LoopWhileData ==
    /\ mpc = "loop" /\ pc = "idle"
    /\ Goto(IF res.code # "OKAY" THEN "ready" ELSE "release")
    /\ UNCHANGED <<vars, holder>>

Loop ==
    /\ mpc = "loop" /\ pc = "idle"
    /\ Goto(IF res.code # "CLSE" THEN "ready" ELSE "release")
    /\ UNCHANGED <<vars, holder>>

ReleaseForgotten ==
    /\ mpc = "release" /\ Goto("exit")
    /\ UNCHANGED <<vars, holder>>

(* usb_release_interface and close. *)
Release ==
    /\ mpc = "release" /\ Goto("exit")
    /\ holder' = IF holder = "main" THEN "none" ELSE holder
    /\ UNCHANGED vars

(* Another program, or the kernel, takes a free interface (external). *)
Rebind ==
    /\ link /\ holder = "none" /\ mpc \in {"fopen", "open", "driver", "detach1", "detach2", "claim"}
    /\ holder' = "driver"
    /\ UNCHANGED <<vars, mpc>>

Statement ==
    \/ FOpen \/ Open \/ GetDriver \/ Detach \/ Claim
    \/ Connect \/ Auth \/ OpenStream \/ Check \/ Ready \/ Loop \/ Release

Next ==
    \/ Statement \/ Rebind
    \/ (Transfer \/ Fault \/ Device \/ Unplug) /\ UNCHANGED mainVars

Spec == Init /\ [][Next]_allVars

(* The program runs, and the daemon answers, sends what it began and       *)
(* eventually comes to the end of what it has to write.  It closes the     *)
(* stream then, which without credit it does not find out.                 *)
Fairness ==
    /\ WF_allVars(Statement)
    /\ WF_allVars((Transfer \/ (~link /\ TransferFails)) /\ UNCHANGED mainVars)
    /\ WF_allVars((DevRecv \/ DevData) /\ UNCHANGED mainVars)
    /\ WF_allVars((\E c \in Commands, n \in DevPayloads, id \in StreamIds \union {dev.id} :
                       DevReply(c, n, id)) /\ UNCHANGED mainVars)
    /\ SF_allVars(DevClose /\ dev.credit /\ UNCHANGED mainVars)

FairSpec == Spec /\ Fairness

-----------------------------------------------------------------------------
Before == {"fopen", "open", "driver", "detach1", "detach2", "claim",
           "connect", "auth", "openstream"}
Streaming == {"ready", "loop"}

TypeOK ==
    /\ AdbTypeOK
    /\ mpc \in Before \union Streaming \union {"dumping", "check", "release", "exit"}
    /\ holder \in {"none", "driver", "main"}

Proper(c) ==
    CASE c = "CNXN" -> {"CNXN", "AUTH", "STLS"}
      [] c = "AUTH" -> {"CNXN", "AUTH"}
      [] c = "OPEN" -> {"OKAY", "CLSE"}
      [] c = "OKAY" -> {"WRTE", "CLSE"}

(* Every answer main reads is an answer to what it has just asked, though  *)
(* a daemon with credit writes unasked and nothing pairs answers with      *)
(* requests: main never reads a write for the answer to its OPEN, or an    *)
(* old OKAY for the answer to an acknowledgement.                          *)
ProperReply ==
    (faults = 0 /\ pc = "idle" /\ ret = 0 /\ res.code # "other")
        => res.code \in Proper(req.cmd)

(* Main acknowledges only on a stream the daemon opened: since a failed    *)
(* adb_open leaves in adbres the code of an EARLIER answer, this needs     *)
(* that no earlier answer is OKAY.                                         *)
AcksOnlyOpenStream ==
    (faults = 0 /\ mpc \in Streaming) => dev.stream # "none"

(* At the end main holds nothing. *)
ReleasedAtExit == mpc = "exit" => holder # "main"

(* Main waits and nothing is on its way to it, or from it. *)
NothingUnderWay ==
    /\ pc \in {"reply", "data"} /\ link /\ faults = 0
    /\ out = <<>> /\ in = <<>> /\ owed = {} /\ rem = 0

(* The daemon takes no notice of an OPEN on a connection it never granted, *)
(* and adb_auth's outcome is not looked at (main.c:255).                   *)
OpenIgnored == req.cmd = "OPEN" /\ pc = "reply" /\ ~dev.conn

(* Nor does it take notice of an acknowledgement of stream 3 when it has   *)
(* given the stream another id (main.c:268): the stream stays open without *)
(* credit.                                                                 *)
AckIgnored ==
    req.cmd = "OKAY" /\ pc = "reply" /\ dev.stream = "open" /\ dev.id # RemoteId /\ ~dev.credit

(* The receives of main have no timeout, so main and the daemon must never *)
(* wait for each other: when main waits with nothing under way the daemon  *)
(* can move, on a stream it has not closed and with the credit to write    *)
(* that main's last acknowledgement gave it, although writes overtake      *)
(* acknowledgements and each of main's calls reads whichever write comes.  *)
(* Only an OPEN or an acknowledgement that is ignored leaves both waiting. *)
DaemonsTurn ==
    NothingUnderWay =>
        \/ req.cmd = "OKAY" /\ dev.stream = "open" /\ dev.credit
        \/ OpenIgnored \/ AckIgnored

(* With no call failing and no fault, main ends when the daemon closes the *)
(* stream.  Otherwise, and for good, it is in usb_dump_device or waits for *)
(* the answer to a request the daemon ignores.                             *)
Ends ==
    [](link /\ faults = 0 /\ ret = 0)
        => <>[](mpc \in {"exit", "dumping"} \/ OpenIgnored \/ AckIgnored)

(* If the device goes before the stream is open, main still ends, unless   *)
(* it never comes back from usb_dump_device.  (Not after the stream is     *)
(* open: adb_ready then fails without changing adbres.code, and the loop   *)
(* goes on for ever.)  An interface that another driver takes before main  *)
(* claims it is as good as gone.                                           *)
UnplugBeforeStreamEnds ==
    [](faults = 0) => ((~link /\ mpc \in Before) ~> (mpc = "exit"))

=============================================================================
