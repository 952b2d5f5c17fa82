------------------------ MODULE DroidboxMain_proofs ------------------------
(***************************************************************************)
(* Proofs about DroidboxMain, for any device, any buffer lengths the       *)
(* assumption of Adb allows and any number of acknowledgements and faults: *)
(* main is type correct, overruns no buffer and gives the interface back;  *)
(* and, when the device's payloads fit one packet and until a transfer     *)
(* breaks off, every answer it reads belongs to what it has just asked, it *)
(* acknowledges only on a stream that was opened, and does not wait for a  *)
(* daemon that waits for it, unless that ignores an OPEN on a connection   *)
(* it never granted or acknowledgements of a stream that is not number 3.  *)
(***************************************************************************)
EXTENDS DroidboxMain, Adb_proofs

USE DEF DevType, NoStream

-----------------------------------------------------------------------------
(***************************************************************************)
(* What makes ProperReply and AcksOnlyOpenStream inductive.  Up to the     *)
(* answer to adb_open there is one message under way, main's request or    *)
(* its answer; from then on the daemon sends nothing but writes and CLSE.  *)
(***************************************************************************)
(* The last request made when main is at statement m. *)
Asked(m) ==
    CASE m = "openstream" -> {"AUTH"}
      [] m = "check" -> {"OPEN"}
      [] m = "ready" -> {"OPEN", "OKAY"}
      [] m = "loop" -> {"OKAY"}
      [] m \in {"release", "exit"} -> {"CNXN", "AUTH", "OPEN", "OKAY"}
      [] OTHER -> {"CNXN"}

Order ==
    /\ req.cmd \in Asked(mpc)
    /\ pc # "idle" => mpc \in {"auth", "openstream", "check", "loop"}

(* The interface is claimed after the detaching and given back at the end. *)
HoldsWhileUsed ==
    holder = "main" => mpc \in {"connect", "auth", "openstream", "check", "release"} \union Streaming

(* A request that is answered, and the next packet is its answer. *)
Awaited == pc = "reply" /\ req.cmd # "OKAY"

Unasked(p) == p.kind = "head" => p.cmd \in {"WRTE", "CLSE"} /\ dev.stream # "none"

(* The daemon has, and has still to read, requests of one kind, the last   *)
(* one made; of those that are answered, one.                              *)
RequestsUnderWay ==
    /\ \A i \in DOMAIN out : out[i].kind = "head" => out[i].cmd = req.cmd
    /\ dev.want > 0 => dev.cmd = req.cmd
    /\ req.cmd # "OKAY" =>
          /\ \A i \in DOMAIN out : out[i].kind = "head" => i = 1 /\ dev.want = 0
          /\ pc \notin {"payload", "reply"} => out = <<>> /\ dev.want = 0

(* What is on its way to main: the answer first, then what nobody asked.   *)
AnswersUnderWay ==
    /\ Awaited /\ in # <<>> => in[1].cmd \in Proper(req.cmd) /\ out = <<>> /\ dev.want = 0
    /\ \A i \in DOMAIN in : (Awaited /\ i = 1) \/ Unasked(in[i])
    /\ pc = "data" => acc.code \in Proper(req.cmd)
    /\ owed # {} =>
          /\ Awaited /\ owed \subseteq Proper(req.cmd) /\ dev.cmd = req.cmd
          /\ in = <<>> /\ out = <<>> /\ dev.want = 0

(* The stream opens with the answer to adb_open. *)
OpenedByAnswer ==
    /\ dev.stream # "none" =>
          \/ req.cmd = "OKAY"
          \/ req.cmd = "OPEN" /\ pc \in {"idle", "reply", "data"} /\ (pc = "reply" => in # <<>>)
    /\ (pc = "data" /\ acc.code = "OKAY") \/ (\E i \in DOMAIN in : in[i].cmd = "OKAY")
          => dev.stream # "none"

Protocol ==
    (link /\ faults = 0) => RequestsUnderWay /\ AnswersUnderWay /\ OpenedByAnswer

(* An OKAY in adbres, however old, is the daemon's answer to adb_open.     *)
OkayMeansOpened == (faults = 0 /\ res.code = "OKAY") => dev.stream # "none"

MainInv ==
    /\ TypeOK /\ Sync /\ Order
    /\ Protocol /\ ProperReply /\ OkayMeansOpened /\ AcksOnlyOpenStream

(***************************************************************************)
(* What makes DaemonsTurn inductive, beyond MainInv.                       *)
(***************************************************************************)
(* After a CLSE main makes no request. *)
ClseEnds ==
    (faults = 0 /\ res.code = "CLSE") => pc = "idle" /\ mpc \in {"check", "loop", "release", "exit"}

(* The daemon closes a stream by telling main. *)
ClosedIsTold ==
    dev.stream = "closed" =>
        \/ \E i \in DOMAIN in : in[i].cmd = "CLSE"
        \/ pc = "data" /\ acc.code = "CLSE"
        \/ res.code = "CLSE"

(* Every acknowledgement main sends is for stream 3. *)
AcksStreamThree ==
    /\ req.cmd = "OKAY" => req.id = RemoteId
    /\ \A i \in DOMAIN out : out[i].cmd = "OKAY" => out[i].id = RemoteId
    /\ dev.want > 0 /\ dev.cmd = "OKAY" => dev.to = RemoteId

(* What main waits for is with the daemon, or on its way; a daemon that    *)
(* has closed the stream has told main.                                    *)
SomethingComes ==
    pc = "reply" =>
        \/ out # <<>> \/ in # <<>>
        \/ req.cmd # "OKAY" /\ (owed # {} \/ (req.cmd = "OPEN" /\ ~dev.conn))
        \/ req.cmd = "OKAY" /\ dev.stream = "open" /\ (dev.credit \/ dev.id # RemoteId)

TurnInv ==
    /\ MainInv /\ ClseEnds /\ AcksStreamThree
    /\ link /\ faults = 0 => ClosedIsTold /\ SomethingComes

-----------------------------------------------------------------------------
(* Main as a client of Adb. *)

(* A statement of main leaves the client alone, loses the link or makes a  *)
(* request.                                                                *)
LEMMA StatementIs ==
    ASSUME Statement \/ Rebind
    PROVE  \/ UNCHANGED vars
           \/ link' \in {link, FALSE} /\ UNCHANGED <<hostVars, out, in, faults, devVars>>
           \/ \E c \in Commands, n \in Nat, id \in Nat :
                 Handle(c, n, id, BuffLen) /\ (c = "OKAY" => id = RemoteId)
<1>1. CASE Connect
  BY <1>1 DEF Connect, adb_connect, Commands, SystemIdLen
<1>2. CASE Auth
  <2>1. KeyLen \in Nat /\ "AUTH" \in Commands
    BY DEF KeyLen, Commands
  <2>2. Handle("AUTH", KeyLen, NoStream, BuffLen)
    BY <1>2 DEF Auth, adb_auth
  <2> QED
    BY <2>1, <2>2
<1>3. CASE OpenStream
  BY <1>3 DEF OpenStream, adb_open, Commands, ServiceLen
<1>4. CASE Ready
  BY <1>4 DEF Ready, adb_ready, Commands, RemoteId
<1>5. CASE Claim
  BY <1>5 DEF Claim
<1>6. CASE FOpen \/ Open \/ GetDriver \/ Detach \/ Check \/ Loop \/ Release \/ Rebind
  BY <1>6 DEF FOpen, Open, GetDriver, Detach, Check, Loop, Release, Rebind
<1> QED
  BY <1>1, <1>2, <1>3, <1>4, <1>5, <1>6 DEF Statement

(* Whoever holds the interface, the bounds of the client stay. *)
LEMMA MainBoundsStep ==
    ASSUME AdbAssumption, Bounds, [Next]_allVars
    PROVE  Bounds'
<1>1. CASE Statement \/ Rebind
  <2>1. CASE link' \in {link, FALSE} /\ UNCHANGED <<hostVars, out, in, faults, devVars>>
    <3>1. AdbTypeOK'
      BY <2>1 DEF Bounds, AdbTypeOK, hostVars, devVars
    <3>2. Locals'
      BY <2>1 DEF Bounds, Locals, hostVars, PktLen
    <3>3. CopiesInBounds'
      BY <2>1 DEF Bounds, CopiesInBounds, hostVars
    <3> QED
      BY <3>1, <3>2, <3>3 DEF Bounds
  <2>2. ASSUME NEW c \in Commands, NEW n \in Nat, NEW id \in Nat, Handle(c, n, id, BuffLen) PROVE Bounds'
    BY <2>2, HandleBounds DEF BuffLen
  <2>3. CASE UNCHANGED vars
    BY <2>3, BoundsStep
  <2> QED
    BY <1>1, <2>1, <2>2, <2>3, StatementIs
<1>2. CASE Transfer \/ Fault \/ Device \/ Unplug
  BY <1>2, BoundsStep DEF AdbNext
<1>3. CASE UNCHANGED allVars
  BY <1>3, BoundsStep DEF allVars
<1> QED
  BY <1>1, <1>2, <1>3 DEF Next

(* And so do the two ends stay in step. *)
LEMMA MainSyncStep ==
    ASSUME AdbAssumption, PayloadsFit, Sync, [Next]_allVars
    PROVE  Sync'
<1>1. Bounds'
  BY SyncFacts, MainBoundsStep
<1>2. CASE Statement \/ Rebind
  <2>1. CASE link' \in {link, FALSE} /\ UNCHANGED <<hostVars, out, in, faults, devVars>>
    <3>1. UNCHANGED <<hostVars, out, in, faults, devVars>> /\ (link' = link \/ link' = FALSE)
      BY <2>1
    <3>2. Whole'
      BY <3>1, SyncFacts DEF Whole, WholeReply, hostVars, devVars
    <3>3. InSync'
      BY <3>1, SyncFacts DEF InSync, Framed, Follows, Announces, DataPkt, hostVars, devVars
    <3> QED
      BY <1>1, <3>2, <3>3 DEF Sync, Whole
  <2>2. ASSUME NEW c \in Commands, NEW n \in Nat, NEW id \in Nat, Handle(c, n, id, BuffLen) PROVE Sync'
    BY <1>1, <2>2, HandleSync DEF BuffLen, Sync, Whole
  <2>3. CASE UNCHANGED vars
    BY <2>3, SyncStep
  <2> QED
    BY <1>2, <2>1, <2>2, <2>3, StatementIs
<1>3. CASE Transfer \/ Fault \/ Device \/ Unplug
  BY <1>3, SyncStep DEF AdbNext
<1>4. CASE UNCHANGED allVars
  BY <1>4, SyncStep DEF allVars
<1> QED
  BY <1>2, <1>3, <1>4 DEF Next

(* Each statement has one successor in the text of main, or two. *)
LEMMA MainTypeStep ==
    ASSUME AdbAssumption, Bounds, TypeOK, [Next]_allVars
    PROVE  TypeOK'
<1>1. AdbTypeOK'
  BY MainBoundsStep DEF Bounds
<1>2. CASE Statement \/ Rebind
  <2> USE DEF TypeOK, Before, Streaming, Goto
  <2>1. CASE FOpen \/ Open \/ GetDriver \/ Detach \/ Claim
    BY <1>1, <2>1 DEF FOpen, Open, GetDriver, Detach, Claim
  <2>2. CASE Connect \/ Auth \/ OpenStream \/ Ready
    BY <1>1, <2>2 DEF Connect, Auth, OpenStream, Ready
  <2>3. CASE Check \/ Loop \/ Release \/ Rebind
    BY <1>1, <2>3 DEF Check, Loop, Release, Rebind
  <2> QED
    BY <1>2, <2>1, <2>2, <2>3 DEF Statement
<1>3. CASE UNCHANGED mainVars
  BY <1>1, <1>3 DEF TypeOK, mainVars
<1> QED
  BY <1>2, <1>3 DEF Next, allVars

(* Type correctness of the whole program. *)
THEOREM MainTypeCorrect == Spec => []TypeOK
<1> USE AdbAssumption
<1>1. Init => Bounds /\ TypeOK
  BY BoundsInit DEF Init, Bounds, TypeOK, Before
<1>2. Bounds /\ TypeOK /\ [Next]_allVars => (Bounds /\ TypeOK)'
  BY MainBoundsStep, MainTypeStep
<1> QED
  BY <1>1, <1>2, PTL DEF Spec

(* Main announces 2048 bytes whatever it asks; no copy outgrows them, nor  *)
(* __rstream, faults and loss of the interface included.                   *)
THEOREM MainNoOverrun == Spec => []CopiesInBounds
<1> USE AdbAssumption
<1>1. Init => Bounds
  BY BoundsInit DEF Init
<1>2. Bounds /\ [Next]_allVars => Bounds'
  BY MainBoundsStep
<1>3. Bounds => CopiesInBounds
  BY DEF Bounds
<1> QED
  BY <1>1, <1>2, <1>3, PTL DEF Spec

(* Main never ends holding the interface: it claims after the detaching,   *)
(* and every way to the end from there passes usb_release_interface.       *)
THEOREM ReleasesAtExit == Spec => []ReleasedAtExit
<1>1. Init => HoldsWhileUsed
  BY DEF Init, HoldsWhileUsed
<1>2. HoldsWhileUsed /\ [Next]_allVars => HoldsWhileUsed'
  <2> SUFFICES ASSUME HoldsWhileUsed, [Next]_allVars PROVE HoldsWhileUsed'
    OBVIOUS
  <2> USE DEF HoldsWhileUsed, Streaming, Goto
  <2>1. CASE FOpen \/ Open \/ GetDriver \/ Detach \/ Claim
    BY <2>1 DEF FOpen, Open, GetDriver, Detach, Claim
  <2>2. CASE Connect \/ Auth \/ OpenStream \/ Ready
    BY <2>2 DEF Connect, Auth, OpenStream, Ready
  <2>3. CASE Check \/ Loop \/ Release \/ Rebind
    BY <2>3 DEF Check, Loop, Release, Rebind
  <2>4. CASE UNCHANGED mainVars
    BY <2>4 DEF mainVars
  <2> QED
    BY <2>1, <2>2, <2>3, <2>4 DEF Next, Statement, allVars
<1>3. HoldsWhileUsed => ReleasedAtExit
  BY DEF HoldsWhileUsed, ReleasedAtExit, Streaming
<1> QED
  BY <1>1, <1>2, <1>3, PTL DEF Spec

-----------------------------------------------------------------------------
(* Answers and requests. *)

(* The packets of the rest of a pipe. *)
LEMMA TailPackets ==
    ASSUME NEW s \in Seq(Packet), s # <<>>
    PROVE  /\ Tail(s) \in Seq(Packet) /\ Head(s) = s[1] /\ 1 \in DOMAIN s /\ s[1] \in Packet
           /\ \A i \in DOMAIN Tail(s) : i + 1 \in DOMAIN s /\ i + 1 # 1 /\ Tail(s)[i] = s[i + 1]
<1>1. Tail(s) \in Seq(Packet) /\ Len(Tail(s)) = Len(s) - 1
      /\ \A i \in 1 .. Len(Tail(s)) : Tail(s)[i] = s[i + 1]
  BY HeadTailProperties
<1>2. Len(s) \in Nat \ {0} /\ DOMAIN s = 1 .. Len(s) /\ DOMAIN Tail(s) = 1 .. Len(Tail(s))
  BY <1>1, EmptySeq, LenProperties
<1>3. Head(s) = s[1] /\ 1 \in DOMAIN s
  BY <1>2
<1>4. \A i \in 1 .. Len(Tail(s)) : i + 1 \in DOMAIN s /\ i + 1 # 1
  BY <1>1, <1>2
<1>5. s[1] \in Packet
  BY <1>3
<1> QED
  BY <1>1, <1>2, <1>3, <1>4, <1>5

(* The packets of an extended pipe. *)
LEMMA AppendPackets ==
    ASSUME NEW s \in Seq(Packet), NEW p \in Packet
    PROVE  /\ Append(s, p) \in Seq(Packet) /\ Append(s, p) # <<>>
           /\ s = <<>> => DOMAIN Append(s, p) = {1} /\ Append(s, p)[1] = p
           /\ s # <<>> => 1 \in DOMAIN s /\ Append(s, p)[1] = s[1]
           /\ \A i \in DOMAIN Append(s, p) :
                 \/ i \in DOMAIN s /\ Append(s, p)[i] = s[i]
                 \/ Append(s, p)[i] = p /\ (i = 1 <=> s = <<>>)
<1> DEFINE t == Append(s, p)
<1>1. /\ t \in Seq(Packet) /\ Len(t) = Len(s) + 1 /\ t # <<>>
      /\ \A i \in 1 .. Len(s) : t[i] = s[i]
      /\ t[Len(s) + 1] = p
  BY AppendProperties
<1>2. Len(s) \in Nat /\ DOMAIN s = 1 .. Len(s) /\ DOMAIN t = 1 .. Len(s) + 1
      /\ (s = <<>> => Len(s) = 0) /\ (s # <<>> => Len(s) > 0)
  BY <1>1, LenProperties, EmptySeq
<1> HIDE DEF t
<1>3. s = <<>> => DOMAIN t = {1} /\ t[1] = p
  BY <1>1, <1>2
<1>4. s # <<>> => 1 \in DOMAIN s /\ t[1] = s[1]
  BY <1>1, <1>2
<1>5. \A i \in DOMAIN t : (i \in DOMAIN s /\ t[i] = s[i]) \/ (t[i] = p /\ (i = 1 <=> s = <<>>))
  BY <1>1, <1>2
<1> QED
  BY <1>1, <1>3, <1>4, <1>5 DEF t

(* Which request was made last, by statement. *)
LEMMA AskedIs ==
    /\ \A m \in Before \ {"openstream"} : Asked(m) = {"CNXN"}
    /\ Asked("openstream") = {"AUTH"} /\ Asked("check") = {"OPEN"}
    /\ Asked("ready") = {"OPEN", "OKAY"} /\ Asked("loop") = {"OKAY"}
    /\ Asked("dumping") = {"CNXN"}
    /\ Asked("release") = {"CNXN", "AUTH", "OPEN", "OKAY"}
    /\ Asked("exit") = {"CNXN", "AUTH", "OPEN", "OKAY"}
BY DEF Asked, Before

(* The answers to each request. *)
LEMMA ProperIs ==
    /\ Proper("CNXN") = {"CNXN", "AUTH", "STLS"} /\ Proper("AUTH") = {"CNXN", "AUTH"}
    /\ Proper("OPEN") = {"OKAY", "CLSE"} /\ Proper("OKAY") = {"WRTE", "CLSE"}
BY DEF Proper

(* Main makes its requests in the order of its text. *)
LEMMA OrderStep ==
    ASSUME TypeOK, Order, [Next]_allVars
    PROVE  Order'
<1>1. CASE FOpen \/ Open \/ GetDriver \/ Detach \/ Claim
  BY <1>1, AskedIs DEF FOpen, Open, GetDriver, Detach, Claim, Order, Goto, Before, vars, hostVars
<1>2. CASE Connect
  BY <1>2, AskedIs DEF Connect, adb_connect, Handle, Order, Goto, Before
<1>3. CASE Auth
  BY <1>3, AskedIs DEF Auth, adb_auth, Handle, Order, Goto, Before
<1>4. CASE OpenStream
  BY <1>4, AskedIs DEF OpenStream, adb_open, Handle, Order, Goto, Before
<1>5. CASE Ready
  BY <1>5, AskedIs DEF Ready, adb_ready, Handle, Order, Goto, Before
<1>6. CASE Check \/ Loop \/ Release \/ Rebind
  BY <1>6, AskedIs DEF Check, Loop, Release, Rebind, Order, Goto, Before, vars, hostVars
<1>7. CASE (Transfer \/ Fault) /\ UNCHANGED mainVars
  <2>1. pc # "idle" /\ UNCHANGED <<req, mpc>>
    BY <1>7 DEF Transfer, SendHeader, SendPayload, RecvHeader, RecvData, Fault, TransferFails,
                SendError, RecvHeaderError, RecvDataError, mainVars
  <2> QED
    BY <2>1 DEF Order, Asked
<1>8. CASE (Device \/ Unplug) /\ UNCHANGED mainVars
  <2>1. UNCHANGED <<req, pc, mpc>>
    BY <1>8 DEF Device, DevRecv, DevData, DevWrite, DevReply, DevClose, Send, Unplug, hostVars, mainVars
  <2> QED
    BY <2>1 DEF Order, Asked
<1>9. CASE UNCHANGED allVars
  BY <1>9 DEF Order, Asked, allVars, vars, hostVars, mainVars
<1> QED
  BY <1>1, <1>2, <1>3, <1>4, <1>5, <1>6, <1>7, <1>8, <1>9 DEF Next, Statement

(* A stream that was opened is never again as if it had not been. *)
LEMMA StreamStays ==
    ASSUME AdbTypeOK, [Next]_allVars, dev.stream # "none"
    PROVE  dev'.stream # "none"
<1>1. dev \in DevType
  BY DEF AdbTypeOK
<1>2. CASE Device
  BY <1>1, <1>2 DEF Device, DevRecv, DevData, DevWrite, DevReply, DevClose, Serve
<1>3. CASE Statement \/ Rebind
  BY <1>3, StatementIs DEF vars, devVars, Handle
<1>4. CASE Transfer \/ Fault \/ Unplug
  BY <1>4 DEF Transfer, SendHeader, SendPayload, RecvHeader, RecvData, Fault, TransferFails,
              SendError, RecvHeaderError, RecvDataError, Unplug, devVars
<1> QED
  BY <1>2, <1>3, <1>4 DEF Next, allVars, vars, devVars

-----------------------------------------------------------------------------
(* The protocol, step by step. *)

(* What is known of a state while transfers can be made and none has       *)
(* broken off.                                                             *)
LEMMA LiveFacts ==
    ASSUME AdbAssumption, MainInv, link, faults = 0
    PROVE  /\ RequestsUnderWay /\ AnswersUnderWay /\ OpenedByAnswer
           /\ in \in Seq(Packet) /\ out \in Seq(Packet) /\ rem \in Nat
           /\ req.cmd \in {"CNXN", "AUTH", "OPEN", "OKAY"} /\ req.n \in Nat
           /\ Framed(in, IF pc = "data" THEN acc.dlen ELSE 0, rem)
           /\ Framed(out, dev.want, IF pc = "payload" THEN req.n ELSE 0)
           /\ dev \in DevType
           /\ pc = "payload" => req.n > 0
           /\ in # <<>> /\ pc # "data" => in[1].kind = "head"
           /\ in = <<>> /\ pc # "data" => rem = 0
           /\ req.cmd # "OKAY" /\ pc \in {"idle", "header", "payload"} /\ dev.stream = "none" => in = <<>>
           /\ owed # {} => dev.stream = "none"
<1>1. /\ RequestsUnderWay /\ AnswersUnderWay /\ OpenedByAnswer
      /\ in \in Seq(Packet) /\ out \in Seq(Packet) /\ rem \in Nat /\ req.n \in Nat
      /\ Framed(in, IF pc = "data" THEN acc.dlen ELSE 0, rem)
      /\ Framed(out, dev.want, IF pc = "payload" THEN req.n ELSE 0)
      /\ dev \in DevType
      /\ pc = "payload" => req.n > 0
  BY SyncFacts DEF MainInv, Protocol, InSync, Bounds, AdbTypeOK
<1>2. req.cmd \in {"CNXN", "AUTH", "OPEN", "OKAY"}
  BY AskedIs DEF MainInv, TypeOK, Order, Streaming
<1>3. in # <<>> /\ pc # "data" => in[1].kind = "head"
  <2>1. in # <<>> => 1 \in DOMAIN in
    BY <1>1, TailPackets
  <2> QED
    BY <1>1, <2>1 DEF Framed, Follows
<1>4. in = <<>> /\ pc # "data" => rem = 0
  BY <1>1 DEF Framed
<1>5. req.cmd # "OKAY" /\ pc \in {"idle", "header", "payload"} /\ dev.stream = "none" => in = <<>>
  <2>1. in # <<>> => 1 \in DOMAIN in
    BY <1>1, TailPackets
  <2> QED
    BY <1>1, <1>3, <2>1 DEF AnswersUnderWay, Awaited, Unasked
<1>6. owed # {} => dev.stream = "none"
  BY <1>1 DEF AnswersUnderWay, Awaited, OpenedByAnswer
<1> QED
  BY <1>1, <1>2, <1>3, <1>4, <1>5, <1>6

(* Each of the first three requests starts with nothing under way. *)
LEMMA AskProtocol ==
    ASSUME AdbAssumption, MainInv, req.cmd \in {"CNXN", "AUTH"},
           NEW c \in {"CNXN", "AUTH", "OPEN"}, NEW n, NEW id, NEW len, Handle(c, n, id, len)
    PROVE  Protocol'
<1> SUFFICES ASSUME link', faults' = 0 PROVE (RequestsUnderWay /\ AnswersUnderWay /\ OpenedByAnswer)'
  BY DEF Protocol
<1>1. /\ pc = "idle" /\ pc' \in {"header", "idle"} /\ req'.cmd = c
      /\ UNCHANGED <<acc, out, in, link, faults, dev, owed>> /\ link /\ faults = 0
  BY DEF Handle, devVars
<1>2. dev.stream = "none"
  BY <1>1, LiveFacts DEF OpenedByAnswer
<1>3. in = <<>> /\ out = <<>> /\ dev.want = 0 /\ owed = {}
  BY <1>1, <1>2, LiveFacts DEF RequestsUnderWay, AnswersUnderWay, Awaited
<1>4. RequestsUnderWay'
  BY <1>1, <1>3 DEF RequestsUnderWay
<1>5. AnswersUnderWay'
  BY <1>1, <1>3 DEF AnswersUnderWay, Awaited
<1>6. OpenedByAnswer'
  BY <1>1, <1>2, <1>3 DEF OpenedByAnswer
<1> QED
  BY <1>4, <1>5, <1>6

(* An acknowledgement may find writes and CLSE on their way. *)
LEMMA AckProtocol ==
    ASSUME AdbAssumption, MainInv, req.cmd \in {"OPEN", "OKAY"},
           NEW n, NEW id, NEW len, Handle("OKAY", n, id, len)
    PROVE  Protocol'
<1> SUFFICES ASSUME link', faults' = 0 PROVE (RequestsUnderWay /\ AnswersUnderWay /\ OpenedByAnswer)'
  BY DEF Protocol
<1>1. /\ pc = "idle" /\ pc' \in {"header", "idle"} /\ req'.cmd = "OKAY"
      /\ UNCHANGED <<acc, out, in, link, faults, dev, owed>> /\ link /\ faults = 0
  BY DEF Handle, devVars
<1>2. RequestsUnderWay'
  BY <1>1, LiveFacts DEF RequestsUnderWay
<1>3. AnswersUnderWay'
  BY <1>1, LiveFacts DEF AnswersUnderWay, Awaited, Unasked
<1>4. OpenedByAnswer'
  BY <1>1, LiveFacts DEF OpenedByAnswer
<1> QED
  BY <1>2, <1>3, <1>4

(* Sending a request: nothing has answered it yet. *)
LEMMA SendProtocol ==
    ASSUME AdbAssumption, MainInv, SendHeader \/ SendPayload
    PROVE  Protocol'
<1> SUFFICES ASSUME link', faults' = 0 PROVE (RequestsUnderWay /\ AnswersUnderWay /\ OpenedByAnswer)'
  BY DEF Protocol
<1>1. /\ pc \in {"header", "payload"} /\ pc' \in {"payload", "reply"}
      /\ UNCHANGED <<req, acc, in, link, faults, dev, owed>> /\ link /\ faults = 0
  BY DEF SendHeader, SendPayload, devVars
<1>2. owed = {} /\ (req.cmd # "OKAY" => dev.stream = "none" /\ in = <<>>)
  BY <1>1, LiveFacts DEF AnswersUnderWay, Awaited, OpenedByAnswer
<1>3. RequestsUnderWay'
  <2>1. CASE SendHeader
    <3> DEFINE p == HeadPkt(req.cmd, req.n, req.id)
    <3> req.id \in Nat
      BY DEF MainInv, TypeOK, AdbTypeOK
    <3>1. p \in Packet /\ p.cmd = req.cmd /\ out' = Append(out, p) /\ pc = "header"
      BY <1>1, <2>1, LiveFacts, HeadFacts DEF SendHeader, HeadPkt, Commands
    <3>2. req.cmd # "OKAY" => out = <<>> /\ dev.want = 0
      BY <1>1, <3>1, LiveFacts DEF RequestsUnderWay
    <3> HIDE DEF p
    <3>3. \A i \in DOMAIN out' : (i \in DOMAIN out /\ out'[i] = out[i])
                                 \/ (out'[i] = p /\ (i = 1 <=> out = <<>>))
      BY <1>1, <3>1, LiveFacts, AppendPackets
    <3>4. RequestsUnderWay /\ UNCHANGED <<req, dev>>
      BY <1>1, LiveFacts
    <3>5. pc' = "payload" \/ pc' = "reply"
      BY <1>1
    <3>6. \A i \in DOMAIN out' : out'[i].kind = "head" => out'[i].cmd = req.cmd
      BY <3>1, <3>3, <3>4 DEF RequestsUnderWay
    <3>7. req.cmd # "OKAY" => \A i \in DOMAIN out' : i = 1
      BY <3>2, <3>3
    <3> QED
      BY <1>1, <3>1, <3>2, <3>4, <3>6, <3>7 DEF RequestsUnderWay
  <2>2. CASE SendPayload
    <3> DEFINE p == DataPkt(req.n)
    <3>1. p \in Packet /\ p.kind # "head" /\ out' = Append(out, p) /\ pc' = "reply"
      BY <1>1, <2>2, LiveFacts, DataFacts DEF SendPayload
    <3> HIDE DEF p
    <3>2. \A i \in DOMAIN out' : out'[i].kind = "head" => i \in DOMAIN out /\ out'[i] = out[i]
      BY <1>1, <3>1, LiveFacts, AppendPackets
    <3>3. RequestsUnderWay /\ UNCHANGED <<req, dev>>
      BY <1>1, LiveFacts
    <3> QED
      BY <3>1, <3>2, <3>3 DEF RequestsUnderWay
  <2> QED
    BY <2>1, <2>2
<1>4. AnswersUnderWay'
  BY <1>1, <1>2, LiveFacts DEF AnswersUnderWay, Awaited, Unasked
<1>5. OpenedByAnswer'
  BY <1>1, <1>2, LiveFacts DEF OpenedByAnswer
<1> QED
  BY <1>3, <1>4, <1>5

(* What main decodes as an answer is one to its request. *)
LEMMA RecvProtocol ==
    ASSUME AdbAssumption, MainInv, faults = 0, RecvHeader \/ RecvData
    PROVE  /\ Protocol'
           /\ ProperReply' /\ OkayMeansOpened'
<1>1. /\ in # <<>> /\ in' = Tail(in) /\ link /\ pc \in {"reply", "data"} /\ pc' \in {"data", "idle"}
      /\ UNCHANGED <<req, out, link, faults, dev, owed>>
  BY DEF RecvHeader, RecvData, TakeHeader, Finish, devVars
<1>2. /\ in' \in Seq(Packet) /\ Head(in) = in[1] /\ 1 \in DOMAIN in /\ in[1] \in Packet
      /\ \A i \in DOMAIN in' : i + 1 \in DOMAIN in /\ i + 1 # 1 /\ in'[i] = in[i + 1]
  BY <1>1, LiveFacts, TailPackets
<1>3. CASE RecvHeader
  <2>1. in[1].kind = "head" /\ pc = "reply"
    BY <1>1, <1>3, LiveFacts DEF RecvHeader
  <2>2. in[1].cmd \in Proper(req.cmd) /\ (in[1].cmd = "OKAY" => dev.stream # "none")
        /\ (req.cmd # "OKAY" => out = <<>> /\ dev.want = 0)
    BY <1>1, <1>2, <2>1, LiveFacts, ProperIs DEF AnswersUnderWay, Awaited, Unasked, OpenedByAnswer
  <2>3. TakeHeader(HeaderLen, in[1].cmd, in[1].n)
    BY <1>2, <1>3, <2>1 DEF RecvHeader
  <2>4. \/ pc' = "data" /\ acc'.code = in[1].cmd /\ res' = res
        \/ pc' = "idle" /\ res'.code = in[1].cmd
    BY <2>3 DEF TakeHeader, Finish
  <2> QED
    <3>1. RequestsUnderWay'
      BY <1>1, <2>2, LiveFacts DEF RequestsUnderWay
    <3>2. AnswersUnderWay'
      <4>1. owed = {}
        BY <1>1, LiveFacts DEF AnswersUnderWay
      <4>2. \A i \in DOMAIN in' : Unasked(in'[i])
        BY <1>1, <1>2, LiveFacts DEF AnswersUnderWay
      <4> QED
        BY <1>1, <2>2, <2>4, <4>1, <4>2 DEF AnswersUnderWay, Awaited, Unasked
    <3>3. OpenedByAnswer'
      BY <1>1, <1>2, <2>1, <2>2, <2>4, LiveFacts DEF OpenedByAnswer
    <3>4. ProperReply' /\ OkayMeansOpened'
      BY <1>1, <2>2, <2>4 DEF ProperReply, OkayMeansOpened, MainInv, Proper
    <3> QED
      BY <3>1, <3>2, <3>3, <3>4 DEF Protocol
<1>4. CASE RecvData
  <2>1. pc = "data" /\ pc' = "idle" /\ res'.code = acc.code
    <3>1. acc \in Response
      BY DEF MainInv, TypeOK, AdbTypeOK
    <3> QED
      BY <1>4, <3>1 DEF RecvData, Finish, Response
  <2>2. acc.code \in Proper(req.cmd) /\ (acc.code = "OKAY" => dev.stream # "none")
    BY <1>1, <2>1, LiveFacts DEF AnswersUnderWay, OpenedByAnswer
  <2>3. RequestsUnderWay'
    BY <1>1, <2>1, LiveFacts DEF RequestsUnderWay
  <2>4. AnswersUnderWay'
    BY <1>1, <1>2, <2>1, LiveFacts DEF AnswersUnderWay, Awaited, Unasked
  <2>5. OpenedByAnswer'
    BY <1>1, <1>2, <2>1, LiveFacts DEF OpenedByAnswer
  <2>6. ProperReply' /\ OkayMeansOpened'
    BY <1>1, <2>1, <2>2 DEF ProperReply, OkayMeansOpened, Proper
  <2> QED
    BY <2>3, <2>4, <2>5, <2>6 DEF Protocol
<1> QED
  BY <1>3, <1>4

(* A transfer that fails before anything is sent ends the request; with    *)
(* any other fault counted nothing is claimed.                             *)
LEMMA FaultProtocol ==
    ASSUME AdbAssumption, MainInv, Fault
    PROVE  Protocol' /\ ProperReply' /\ (OkayMeansOpened')
<1>1. faults \in Nat
  BY DEF MainInv, TypeOK, AdbTypeOK
<1>2. CASE faults' = faults + 1
  BY <1>1, <1>2 DEF Protocol, ProperReply, OkayMeansOpened
<1>3. CASE faults' # faults + 1
  <2>1. /\ TransferFails /\ (link => pc = "header") /\ pc' = "idle" /\ ret' = -1
        /\ UNCHANGED <<faults, req, res, out, in, link, dev, owed>>
    BY <1>3 DEF Fault, TransferFails, SendError, RecvHeaderError, RecvDataError, Broken, devVars
  <2>2. ProperReply' /\ OkayMeansOpened'
    BY <2>1 DEF ProperReply, OkayMeansOpened, MainInv
  <2>3. ASSUME link', faults' = 0 PROVE (RequestsUnderWay /\ AnswersUnderWay /\ OpenedByAnswer)'
    <3>1. link /\ faults = 0 /\ pc = "header"
      BY <2>1, <2>3
    <3>2. RequestsUnderWay'
      BY <2>1, <3>1, LiveFacts DEF RequestsUnderWay
    <3>3. AnswersUnderWay'
      BY <2>1, <3>1, LiveFacts DEF AnswersUnderWay, Awaited, Unasked
    <3>4. OpenedByAnswer'
      BY <2>1, <3>1, LiveFacts DEF OpenedByAnswer
    <3> QED
      BY <3>2, <3>3, <3>4
  <2> QED
    BY <2>2, <2>3 DEF Protocol
<1> QED
  BY <1>2, <1>3

(* The daemon reads the request main waits for, or acknowledgements.       *)
LEMMA DevRecvProtocol ==
    ASSUME AdbAssumption, MainInv, faults = 0, DevRecv
    PROVE  Protocol'
<1>1. /\ out # <<>> /\ out' = Tail(out) /\ owed = {} /\ rem = 0 /\ link
      /\ UNCHANGED <<pc, req, acc, in, link, faults>>
  BY DEF DevRecv, hostVars
<1>2. /\ out' \in Seq(Packet) /\ Head(out) = out[1] /\ 1 \in DOMAIN out /\ out[1] \in Packet
      /\ \A i \in DOMAIN out' : i + 1 \in DOMAIN out /\ i + 1 # 1 /\ out'[i] = out[i + 1]
  BY <1>1, LiveFacts, TailPackets
<1> DEFINE last == IF pc = "payload" THEN req.n ELSE 0
<1>3. Follows(out[1], dev.want) /\ Framed(out', Announces(out[1]), last) /\ last \in Nat
  BY <1>1, <1>2, LiveFacts, FramedTail
<1>4. out[1].n \in Nat /\ dev.want \in Nat
  BY <1>1, <1>2, LiveFacts, PacketFacts
<1>5. ASSUME NEW c \in {"CNXN", "AUTH", "OPEN", "OKAY"}, NEW id, c = req.cmd, Serve(c, id),
             Framed(out', 0, last), \A i \in DOMAIN out' : out'[i].kind = "head" => out'[i].cmd = req.cmd,
             req.cmd # "OKAY" => \A i \in DOMAIN out' : out'[i].kind # "head"
      PROVE  Protocol'
  <2>1. dev'.want = 0 /\ dev'.cmd = c /\ owed' = Answers(c, id)
        /\ (c # "CLSE" => dev'.stream = dev.stream)
    BY <1>1, <1>5, LiveFacts DEF Serve
  <2>2. req.cmd # "OKAY" => out' = <<>>
    <3>1. out' # <<>> => 1 \in DOMAIN out' /\ out'[1].kind = "head"
      BY <1>2, <1>5, TailPackets DEF Framed, Follows
    <3> QED
      BY <1>5, <3>1
  <2>3. req.cmd # "OKAY" => pc = "reply" /\ in = <<>>
    <3>1. ASSUME req.cmd # "OKAY" PROVE pc = "reply"
      <4>1. pc \in {"payload", "reply"}
        BY <1>1, <3>1, LiveFacts DEF RequestsUnderWay
      <4>2. last = 0
        BY <1>5, <2>2, <3>1 DEF Framed
      <4> QED
        BY <1>1, <4>1, <4>2, LiveFacts
    <3> QED
      BY <1>1, <3>1, LiveFacts DEF AnswersUnderWay, Awaited
  <2>4. c = "OKAY" => owed' = {}
    BY <2>1 DEF Answers
  <2>5. c # "OKAY" => owed' \subseteq Proper(c)
    BY <2>1, ProperIs DEF Answers
  <2>6. RequestsUnderWay'
    BY <1>1, <1>5, <2>1, <2>2 DEF RequestsUnderWay
  <2>7. AnswersUnderWay'
    BY <1>1, <1>5, <2>1, <2>2, <2>3, <2>4, <2>5, LiveFacts DEF AnswersUnderWay, Awaited, Unasked
  <2>8. OpenedByAnswer'
    BY <1>1, <1>5, <2>1, LiveFacts DEF OpenedByAnswer
  <2> QED
    BY <2>6, <2>7, <2>8 DEF Protocol
<1>6. CASE dev.want = 0
  <2>1. out[1].kind = "head" /\ Announces(out[1]) = out[1].n /\ out[1].cmd = req.cmd
    BY <1>1, <1>2, <1>3, <1>4, <1>6, FollowsFacts, LiveFacts DEF RequestsUnderWay
  <2>2. \A i \in DOMAIN out' : out'[i].kind = "head" => out'[i].cmd = req.cmd
    BY <1>1, <1>2, LiveFacts DEF RequestsUnderWay
  <2>3. req.cmd # "OKAY" => \A i \in DOMAIN out' : out'[i].kind # "head"
    BY <1>1, <1>2, LiveFacts DEF RequestsUnderWay
  <2>4. CASE out[1].n = 0
    <3>1. Serve(req.cmd, out[1].id)
      BY <1>2, <1>6, <2>1, <2>4 DEF DevRecv
    <3> QED
      BY <1>1, <1>3, <1>5, <2>1, <2>2, <2>3, <2>4, <3>1, LiveFacts
  <2>5. CASE out[1].n > 0
    <3>1. dev' = [dev EXCEPT !.want = out[1].n, !.cmd = out[1].cmd, !.to = out[1].id] /\ owed' = owed
      <4>1. (dev.want > 0) = FALSE /\ (Head(out).kind = "data") = FALSE /\ Head(out).n # 0
        BY <1>2, <1>4, <1>6, <2>1, <2>5
      <4> QED
        BY <1>2, <4>1 DEF DevRecv
    <3>2. dev'.want = out[1].n /\ dev'.cmd = req.cmd /\ dev'.stream = dev.stream
      BY <1>1, <2>1, <3>1, LiveFacts
    <3>3. req.cmd # "OKAY" => pc \in {"payload", "reply"} /\ (Awaited => in = <<>>)
      BY <1>1, LiveFacts DEF RequestsUnderWay, AnswersUnderWay, Awaited
    <3>4. RequestsUnderWay'
      BY <1>1, <2>2, <2>3, <3>2, <3>3 DEF RequestsUnderWay
    <3>5. AnswersUnderWay'
      BY <1>1, <3>1, <3>2, <3>3, LiveFacts DEF AnswersUnderWay, Awaited, Unasked
    <3>6. OpenedByAnswer'
      BY <1>1, <3>2, LiveFacts DEF OpenedByAnswer
    <3> QED
      BY <3>4, <3>5, <3>6 DEF Protocol
  <2> QED
    BY <1>4, <2>4, <2>5
<1>7. CASE dev.want > 0
  <2>1. out[1].kind = "data" /\ Announces(out[1]) = 0 /\ dev.cmd = req.cmd
    BY <1>1, <1>2, <1>3, <1>4, <1>7, FollowsFacts, LiveFacts DEF RequestsUnderWay
  <2>2. Serve(req.cmd, dev.to)
    BY <1>2, <1>7, <2>1 DEF DevRecv
  <2>3. \A i \in DOMAIN out' : out'[i].kind = "head" => out'[i].cmd = req.cmd
    BY <1>1, <1>2, LiveFacts DEF RequestsUnderWay
  <2>4. req.cmd # "OKAY" => \A i \in DOMAIN out' : out'[i].kind # "head"
    BY <1>1, <1>2, <1>7, LiveFacts DEF RequestsUnderWay
  <2> QED
    BY <1>1, <1>3, <1>5, <2>1, <2>2, <2>3, <2>4, LiveFacts
<1> QED
  BY <1>4, <1>6, <1>7

(* The daemon answers the request main waits for. *)
LEMMA DevReplyProtocol ==
    ASSUME AdbAssumption, MainInv, faults = 0,
           NEW c \in Commands, NEW n \in Nat, NEW id \in Nat, DevReply(c, n, id)
    PROVE  Protocol'
<1>1. /\ c \in owed /\ owed' = {} /\ in' = Append(in, HeadPkt(c, n, id)) /\ link
      /\ UNCHANGED <<pc, req, acc, out, link, faults>>
  BY DEF DevReply, Send, hostVars
<1>2. /\ Awaited /\ c \in Proper(req.cmd) /\ dev.cmd = req.cmd
      /\ in = <<>> /\ out = <<>> /\ dev.want = 0 /\ dev.stream = "none"
  BY <1>1, LiveFacts DEF AnswersUnderWay
<1>3. /\ DOMAIN in' = {1} /\ in'[1].cmd = c /\ in' # <<>>
  BY <1>1, <1>2, HeadFacts, LiveFacts, AppendPackets DEF HeadPkt
<1>4. /\ dev'.want = 0 /\ dev'.cmd = req.cmd
      /\ dev'.stream = IF req.cmd = "OPEN" /\ c = "OKAY" THEN "open" ELSE "none"
  BY <1>1, <1>2, LiveFacts DEF DevReply
<1>5. RequestsUnderWay'
  BY <1>1, <1>2, <1>4, LiveFacts DEF RequestsUnderWay
<1>6. AnswersUnderWay'
  BY <1>1, <1>2, <1>3, <1>4 DEF AnswersUnderWay, Awaited
<1>7. OpenedByAnswer'
  <2>1. c = "OKAY" => req.cmd = "OPEN"
    BY <1>1, <1>2, LiveFacts, ProperIs
  <2> QED
    BY <1>1, <1>2, <1>3, <1>4, <2>1 DEF OpenedByAnswer, Awaited
<1> QED
  BY <1>5, <1>6, <1>7 DEF Protocol

(* What the daemon sends unasked on an open stream is a write or CLSE, and *)
(* comes after the answer to adb_open.                                     *)
LEMMA UnaskedProtocol ==
    ASSUME AdbAssumption, MainInv, faults = 0, NEW n \in Nat,
           DevWrite(n) \/ DevClose
    PROVE  Protocol'
<1>1. PICK c \in {"WRTE", "CLSE"}, m \in Nat : Send(c, m, dev.id)
  BY DEF DevWrite, DevClose
<1>0. dev.id \in Nat
  BY DEF MainInv, TypeOK, AdbTypeOK
<1> DEFINE p == HeadPkt(c, m, dev.id)
<1>2. /\ in' = Append(in, p) /\ link /\ p \in Packet /\ p.kind = "head" /\ p.cmd = c
      /\ UNCHANGED <<pc, req, acc, out, link, faults>>
  BY <1>0, <1>1, HeadFacts DEF Send, HeadPkt, hostVars, Commands
<1> HIDE DEF p
<1>3. /\ dev.stream = "open" /\ owed = {} /\ owed' = {}
      /\ dev'.want = dev.want /\ dev'.cmd = dev.cmd /\ dev'.stream # "none"
  BY <1>2, LiveFacts DEF DevWrite, DevClose
<1>4. Awaited => in # <<>>
  BY <1>2, <1>3, LiveFacts DEF OpenedByAnswer, Awaited
<1>5. /\ in' # <<>> /\ (in # <<>> => in'[1] = in[1])
      /\ \A i \in DOMAIN in' : (i \in DOMAIN in /\ in'[i] = in[i])
                               \/ (in'[i] = p /\ (i = 1 <=> in = <<>>))
  BY <1>2, LiveFacts, AppendPackets
<1>6. RequestsUnderWay'
  BY <1>2, <1>3, LiveFacts DEF RequestsUnderWay
<1>7. AnswersUnderWay'
  BY <1>2, <1>3, <1>4, <1>5, LiveFacts DEF AnswersUnderWay, Awaited, Unasked
<1>8. OpenedByAnswer'
  BY <1>2, <1>3, <1>5, LiveFacts DEF OpenedByAnswer
<1> QED
  BY <1>6, <1>7, <1>8 DEF Protocol

(* A payload follows its header, so it is never taken for an answer. *)
LEMMA DevDataProtocol ==
    ASSUME AdbAssumption, MainInv, faults = 0, DevData
    PROVE  Protocol'
<1> DEFINE p == DataPkt(Lesser(rem, RBufLen))
<1>1. /\ in' = Append(in, p) /\ link /\ rem > 0
      /\ UNCHANGED <<pc, req, acc, out, link, faults, dev, owed>>
  BY DEF DevData, hostVars
<1>2. p \in Packet /\ p.kind # "head" /\ p.cmd = "other"
  <2>1. Lesser(rem, RBufLen) \in Nat
    BY <1>1, LiveFacts DEF Lesser, AdbAssumption
  <2> QED
    BY <2>1, DataFacts DEF DataPkt
<1> HIDE DEF p
<1>3. Awaited => in # <<>>
  BY <1>1, LiveFacts DEF Awaited
<1>4. /\ in' # <<>> /\ (in # <<>> => in'[1] = in[1])
      /\ \A i \in DOMAIN in' : (i \in DOMAIN in /\ in'[i] = in[i]) \/ in'[i] = p
  BY <1>1, <1>2, LiveFacts, AppendPackets
<1>5. owed = {}
  <2>1. owed # {} => Awaited /\ in = <<>>
    BY <1>1, LiveFacts DEF AnswersUnderWay
  <2> QED
    BY <1>3, <2>1
<1>6. RequestsUnderWay'
  BY <1>1, LiveFacts DEF RequestsUnderWay
<1>7. AnswersUnderWay'
  BY <1>1, <1>2, <1>3, <1>4, <1>5, LiveFacts DEF AnswersUnderWay, Awaited, Unasked
<1>8. OpenedByAnswer'
  BY <1>1, <1>2, <1>4, LiveFacts DEF OpenedByAnswer
<1> QED
  BY <1>6, <1>7, <1>8 DEF Protocol

(* Everything about the protocol, for a step of the daemon. *)
LEMMA DeviceProtocol ==
    ASSUME AdbAssumption, MainInv, Device
    PROVE  Protocol' /\ ProperReply' /\ (OkayMeansOpened')
<1>1. UNCHANGED <<hostVars, faults>>
  BY DEF Device, DevRecv, DevData, DevWrite, DevReply, DevClose, Send
<1>2. Protocol'
  <2>1. CASE faults = 0
    <3>1. DevPayloads \subseteq Nat /\ 0 \in Nat /\ StreamIds \union {dev.id} \subseteq Nat
      BY DEF AdbAssumption, MainInv, TypeOK, AdbTypeOK
    <3> QED
      BY <2>1, <3>1, DevRecvProtocol, DevReplyProtocol, UnaskedProtocol, DevDataProtocol DEF Device
  <2>2. CASE faults # 0
    BY <1>1, <2>2 DEF Protocol
  <2> QED
    BY <2>1, <2>2
<1>3. ProperReply'
  BY <1>1 DEF MainInv, ProperReply, hostVars, Proper
<1>4. OkayMeansOpened'
  <2>1. dev.stream # "none" => dev'.stream # "none"
    <3>1. dev \in DevType
      BY DEF MainInv, TypeOK, AdbTypeOK
    <3> QED
      BY <3>1 DEF Device, DevRecv, DevData, DevWrite, DevReply, DevClose, Serve
  <2> QED
    BY <1>1, <2>1 DEF MainInv, OkayMeansOpened, hostVars
<1> QED
  BY <1>2, <1>3, <1>4

(* Everything about the protocol, for a statement of main. *)
LEMMA StatementProtocol ==
    ASSUME AdbAssumption, MainInv, Statement \/ Rebind
    PROVE  Protocol' /\ ProperReply' /\ OkayMeansOpened' /\ AcksOnlyOpenStream'
<1> USE DEF MainInv
<1>1. Order /\ TypeOK /\ OkayMeansOpened /\ AcksOnlyOpenStream
  OBVIOUS
<1>2. CASE Connect \/ Auth \/ OpenStream
  <2>1. PICK c \in {"CNXN", "AUTH", "OPEN"}, n \in Nat : Handle(c, n, NoStream, BuffLen)
    <3>1. SystemIdLen \in Nat /\ KeyLen \in Nat /\ ServiceLen \in Nat
      BY DEF SystemIdLen, KeyLen, ServiceLen
    <3> HIDE DEF MainInv
    <3> QED
      BY <1>2, <3>1 DEF Connect, Auth, OpenStream, adb_connect, adb_auth, adb_open
  <2>2. req.cmd \in {"CNXN", "AUTH"} /\ mpc' \notin Streaming
    BY <1>1, <1>2, AskedIs DEF Connect, Auth, OpenStream, Order, Before, Goto, Streaming
  <2>3. Protocol'
    BY <2>1, <2>2, AskProtocol
  <2>4. ret' = -1 \/ pc' # "idle"
    BY <2>1 DEF Handle
  <2>5. UNCHANGED <<res, faults, dev>>
    BY <2>1 DEF Handle, devVars
  <2> QED
    BY <1>1, <2>2, <2>3, <2>4, <2>5 DEF ProperReply, OkayMeansOpened, AcksOnlyOpenStream
<1>3. CASE Ready
  <2>1. Handle("OKAY", 0, RemoteId, BuffLen) /\ mpc = "ready"
    BY <1>3 DEF Ready, adb_ready
  <2>2. req.cmd \in {"OPEN", "OKAY"}
    BY <1>1, <2>1, AskedIs DEF Order
  <2>3. Protocol'
    BY <2>1, <2>2, AckProtocol
  <2>4. (ret' = -1 \/ pc' # "idle") /\ UNCHANGED <<res, faults, dev>>
    BY <2>1 DEF Handle, devVars
  <2> QED
    BY <1>1, <2>1, <2>3, <2>4 DEF ProperReply, OkayMeansOpened, AcksOnlyOpenStream, Streaming
<1>4. CASE FOpen \/ Open \/ GetDriver \/ Detach \/ Claim \/ Check \/ Loop \/ Release \/ Rebind
  <2>1. UNCHANGED <<hostVars, out, in, faults, devVars>> /\ (link' = link \/ link' = FALSE)
    BY <1>4 DEF FOpen, Open, GetDriver, Detach, Claim, Check, Loop, Release, Rebind, vars
  <2>2. Protocol'
    BY <2>1 DEF Protocol, RequestsUnderWay, AnswersUnderWay, OpenedByAnswer, Awaited, Unasked, Proper,
                hostVars, devVars
  <2>3. ProperReply' /\ OkayMeansOpened'
    BY <2>1 DEF ProperReply, OkayMeansOpened, Proper, hostVars, devVars
  <2>4. AcksOnlyOpenStream'
    <3>1. mpc' \in Streaming => mpc \in Streaming \/ res.code = "OKAY"
      BY <1>4 DEF FOpen, Open, GetDriver, Detach, Claim, Check, Loop, Release, Rebind, Streaming, Goto
    <3> QED
      BY <1>1, <2>1, <3>1 DEF AcksOnlyOpenStream, OkayMeansOpened, devVars
  <2> QED
    BY <2>2, <2>3, <2>4
<1> QED
  BY <1>2, <1>3, <1>4 DEF Statement

(* MainInv holds in every reachable state when payloads fit one packet. *)
THEOREM MainInvariance == ASSUME PayloadsFit PROVE Spec => []MainInv
<1> USE AdbAssumption, PayloadsFit
<1>1. Init => MainInv
  <2> SUFFICES ASSUME Init PROVE MainInv
    OBVIOUS
  <2>1. Sync
    <3>1. Bounds
      BY BoundsInit DEF Init
    <3>2. Framed(<<>>, 0, 0)
      BY DEF Framed
    <3> QED
      BY <3>1, <3>2 DEF Init, AdbInit, Sync, InSync, WholeReply, NoRes, AdbAssumption
  <2>2. TypeOK /\ Order
    BY <2>1, AskedIs DEF Init, AdbInit, Sync, Bounds, TypeOK, Order, Before
  <2>3. Protocol
    BY DEF Init, AdbInit, Protocol, RequestsUnderWay, AnswersUnderWay, OpenedByAnswer, Awaited
  <2> QED
    BY <2>1, <2>2, <2>3 DEF Init, AdbInit, NoRes, MainInv, ProperReply, OkayMeansOpened,
                            AcksOnlyOpenStream, Streaming
<1>2. MainInv /\ [Next]_allVars => MainInv'
  <2> SUFFICES ASSUME MainInv, [Next]_allVars PROVE MainInv'
    OBVIOUS
  <2>1. TypeOK' /\ Sync' /\ Order'
    BY MainTypeStep, MainSyncStep, OrderStep, SyncFacts DEF MainInv
  <2>2. CASE Statement \/ Rebind
    BY <2>1, <2>2, StatementProtocol DEF MainInv
  <2>3. ASSUME UNCHANGED mainVars, UNCHANGED faults \/ faults' # 0 PROVE AcksOnlyOpenStream'
    BY <2>3, StreamStays DEF MainInv, TypeOK, AcksOnlyOpenStream, mainVars
  <2>4. CASE Transfer /\ UNCHANGED mainVars
    <3>1. UNCHANGED faults
      BY <2>4 DEF Transfer, SendHeader, SendPayload, RecvHeader, RecvData
    <3>2. Protocol' /\ ProperReply' /\ OkayMeansOpened'
      <4>1. CASE SendHeader \/ SendPayload
        <5>1. pc' # "idle" /\ UNCHANGED <<res, faults, dev>>
          BY <4>1 DEF SendHeader, SendPayload, devVars
        <5> QED
          BY <4>1, <5>1, SendProtocol DEF MainInv, ProperReply, OkayMeansOpened
      <4>2. CASE RecvHeader \/ RecvData
        <5>1. CASE faults = 0
          BY <4>2, <5>1, RecvProtocol
        <5>2. CASE faults # 0
          BY <3>1, <5>2 DEF Protocol, ProperReply, OkayMeansOpened
        <5> QED
          BY <5>1, <5>2
      <4> QED
        BY <2>4, <4>1, <4>2 DEF Transfer
    <3> QED
      BY <2>1, <2>3, <2>4, <3>1, <3>2 DEF MainInv
  <2>5. CASE Fault /\ UNCHANGED mainVars
    <3>1. faults \in Nat /\ (faults' = faults \/ faults' = faults + 1)
      BY <2>5 DEF MainInv, TypeOK, AdbTypeOK, Fault, TransferFails, SendError, RecvHeaderError,
                  RecvDataError, Broken
    <3> QED
      BY <2>1, <2>3, <2>5, <3>1, FaultProtocol DEF MainInv
  <2>6. CASE Device /\ UNCHANGED mainVars
    <3>1. UNCHANGED faults
      BY <2>6 DEF Device, DevRecv, DevData, DevWrite, DevReply, DevClose, Send
    <3> QED
      BY <2>1, <2>3, <2>6, <3>1, DeviceProtocol DEF MainInv
  <2>7. CASE Unplug /\ UNCHANGED mainVars
    <3>1. link' = FALSE /\ UNCHANGED <<hostVars, faults, devVars>>
      BY <2>7 DEF Unplug
    <3> QED
      BY <2>1, <2>3, <2>7, <3>1 DEF MainInv, Protocol, ProperReply, OkayMeansOpened, Proper, hostVars, devVars
  <2>8. CASE UNCHANGED allVars
    <3>1. UNCHANGED <<pc, req, acc, res, ret, copied, out, in, link, faults, dev, owed, rem, mpc, holder>>
      BY <2>8 DEF allVars, vars, hostVars, devVars, mainVars
    <3>2. Protocol'
      BY <3>1 DEF MainInv, Protocol, RequestsUnderWay, AnswersUnderWay, OpenedByAnswer, Awaited,
           Unasked, Proper
    <3>3. ProperReply' /\ OkayMeansOpened' /\ AcksOnlyOpenStream'
      BY <3>1 DEF MainInv, ProperReply, Proper, OkayMeansOpened, AcksOnlyOpenStream
    <3> QED
      BY <2>1, <3>2, <3>3 DEF MainInv
  <2> QED
    BY <2>2, <2>4, <2>5, <2>6, <2>7, <2>8 DEF Next
<1> QED
  BY <1>1, <1>2, PTL DEF Spec

(* Until a transfer breaks off, what main reads as the answer to a request *)
(* is one, although nothing pairs answers with requests.                   *)
THEOREM AnswersAreProper == ASSUME PayloadsFit PROVE Spec => []ProperReply
<1>1. Spec => []MainInv
  BY MainInvariance
<1>2. MainInv => ProperReply
  BY DEF MainInv
<1> QED
  BY <1>1, <1>2, PTL

(* Until a transfer breaks off, main sends its OKAYs only once the daemon  *)
(* has opened the stream: the code in adbres that lets it into the loop is *)
(* never that of an earlier answer.                                        *)
THEOREM AcksAfterOpen == ASSUME PayloadsFit PROVE Spec => []AcksOnlyOpenStream
<1>1. Spec => []MainInv
  BY MainInvariance
<1>2. MainInv => AcksOnlyOpenStream
  BY DEF MainInv
<1> QED
  BY <1>1, <1>2, PTL

(* Main's own calls keep the two ends in step as any client's do. *)
THEOREM MainStaysInSync == ASSUME PayloadsFit PROVE Spec => [](InSync /\ WholeReply)
<1>1. Spec => []MainInv
  BY MainInvariance
<1>2. MainInv => InSync /\ WholeReply
  BY DEF MainInv, Sync
<1> QED
  BY <1>1, <1>2, PTL

-----------------------------------------------------------------------------
(* Main and the daemon do not wait for each other. *)

(* A CLSE in adbres is the answer to the last call before the loop's test. *)
LEMMA ClseEndsStep ==
    ASSUME MainInv, MainInv', ClseEnds, [Next]_allVars
    PROVE  ClseEnds'
<1> SUFFICES ASSUME faults' = 0, res'.code = "CLSE"
             PROVE  pc' = "idle" /\ mpc' \in {"check", "loop", "release", "exit"}
  BY DEF ClseEnds
<1>1. faults \in Nat /\ Order /\ TypeOK
  BY DEF MainInv, TypeOK, AdbTypeOK
<1>2. CASE Connect \/ Auth \/ OpenStream \/ Ready
  <2>1. UNCHANGED <<res, faults>> /\ mpc \in {"connect", "auth", "openstream", "ready"}
    BY <1>2 DEF Connect, Auth, OpenStream, Ready, adb_connect, adb_auth, adb_open, adb_ready, Handle
  <2> QED
    BY <2>1 DEF ClseEnds
<1>3. CASE FOpen \/ Open \/ GetDriver \/ Detach \/ Claim \/ Check \/ Loop \/ Release \/ Rebind
  <2>1. UNCHANGED <<pc, res, faults>>
    BY <1>3 DEF FOpen, Open, GetDriver, Detach, Claim, Check, Loop, Release, Rebind, vars, hostVars
  <2>2. mpc \in {"check", "loop", "release", "exit"} /\ pc = "idle"
    BY <2>1 DEF ClseEnds
  <2>3. mpc' \in {"check", "loop", "release", "exit"}
    BY <1>3, <2>1, <2>2 DEF FOpen, Open, GetDriver, Detach, Claim, Check, Loop, Release, Rebind, Goto
  <2> QED
    BY <2>1, <2>2, <2>3
<1>4. CASE (Transfer \/ Fault) /\ UNCHANGED mainVars
  <2>1. /\ pc # "idle" /\ UNCHANGED <<req, mpc>> /\ (faults' = faults \/ faults' = faults + 1)
        /\ res' = res \/ (pc' = "idle" /\ ret' = 0)
    <3>1. UNCHANGED mpc
      BY <1>4 DEF mainVars
    <3>2. CASE Transfer
      BY <3>1, <3>2 DEF Transfer, SendHeader, SendPayload, RecvHeader, RecvData, TakeHeader, Finish
    <3>3. CASE Fault
      BY <3>1, <3>3 DEF Fault, TransferFails, SendError, RecvHeaderError, RecvDataError, TakeHeader,
                        Finish, Broken
    <3> QED
      BY <1>4, <3>2, <3>3
  <2>2. faults = 0
    BY <1>1, <2>1
  <2>3. pc' = "idle" /\ ret' = 0
    BY <2>1, <2>2 DEF ClseEnds
  <2>4. "CLSE" \in Proper(req.cmd)
    BY <2>1, <2>3 DEF MainInv, ProperReply, Proper
  <2>5. mpc \in {"auth", "openstream", "check", "loop"} /\ req.cmd \in Asked(mpc)
    BY <1>1, <2>1 DEF Order
  <2>6. mpc \in {"check", "loop"}
    BY <2>4, <2>5, AskedIs, ProperIs DEF Before
  <2> QED
    BY <2>1, <2>3, <2>6
<1>5. CASE (Device \/ Unplug) /\ UNCHANGED mainVars
  <2>1. UNCHANGED <<pc, res, faults, mpc>>
    BY <1>5 DEF Device, DevRecv, DevData, DevWrite, DevReply, DevClose, Send, Unplug, hostVars, mainVars
  <2> QED
    BY <2>1 DEF ClseEnds
<1>6. CASE UNCHANGED allVars
  BY <1>6 DEF ClseEnds, allVars, vars, hostVars, mainVars
<1> QED
  BY <1>2, <1>3, <1>4, <1>5, <1>6 DEF Next, Statement

(* The last packet of a request makes the daemon serve it. *)
LEMMA LastIsServed ==
    ASSUME AdbAssumption, MainInv, AcksStreamThree, faults = 0, DevRecv, pc = "reply", out' = <<>>
    PROVE  \E id : Serve(req.cmd, id) /\ (req.cmd = "OKAY" => id = RemoteId)
<1>1. /\ out # <<>> /\ out' = Tail(out) /\ link
  BY DEF DevRecv
<1>2. Head(out) = out[1] /\ 1 \in DOMAIN out /\ out[1] \in Packet
  BY <1>1, LiveFacts, TailPackets
<1>3. Follows(out[1], dev.want) /\ Framed(out', Announces(out[1]), 0)
  <2>1. Framed(out, dev.want, 0) /\ out \in Seq(Packet) /\ dev.want \in Nat
    BY <1>1, LiveFacts
  <2> QED
    BY <1>1, <1>2, <2>1, FramedTail
<1>4. out[1].n \in Nat /\ dev.want \in Nat /\ Announces(out[1]) = 0
  BY <1>1, <1>2, <1>3, LiveFacts, PacketFacts DEF Framed
<1>5. CASE dev.want = 0
  <2>1. out[1].kind = "head" /\ out[1].n = 0 /\ out[1].cmd = req.cmd
    BY <1>1, <1>2, <1>3, <1>4, <1>5, FollowsFacts, LiveFacts DEF RequestsUnderWay
  <2> QED
    BY <1>2, <1>5, <2>1 DEF DevRecv, AcksStreamThree
<1>6. CASE dev.want > 0
  <2>1. out[1].kind = "data" /\ dev.cmd = req.cmd
    BY <1>1, <1>2, <1>3, <1>4, <1>6, FollowsFacts, LiveFacts DEF RequestsUnderWay
  <2> QED
    BY <1>2, <1>6, <2>1 DEF DevRecv, AcksStreamThree
<1> QED
  BY <1>4, <1>5, <1>6

(* Every command that main waits for an answer to is answered, unless the  *)
(* connection was not granted; an acknowledgement renews the credit of     *)
(* stream 3.                                                               *)
LEMMA ServedComes ==
    ASSUME AdbAssumption, TurnInv, link, faults = 0, pc = "reply", in' = in, UNCHANGED <<pc, req>>,
           NEW id, Serve(req.cmd, id), req.cmd = "OKAY" => id = RemoteId
    PROVE  SomethingComes'
<1>1. MainInv /\ ClseEnds /\ ClosedIsTold
  BY DEF TurnInv
<1>2. dev'.conn = dev.conn /\ owed' = Answers(req.cmd, id) /\ dev'.id = dev.id
      /\ (req.cmd = "OKAY" =>
             dev'.stream = dev.stream /\ (dev.stream = "open" => dev'.credit \/ dev.id # RemoteId))
  BY <1>1, LiveFacts DEF Serve, Ours
<1>3. CASE req.cmd # "OKAY"
  <2>1. req.cmd \in {"CNXN", "AUTH", "OPEN"}
    BY <1>1, <1>3, LiveFacts
  <2>2. owed' # {} \/ (req.cmd = "OPEN" /\ ~dev'.conn)
    BY <1>2, <2>1 DEF Answers
  <2> QED
    BY <1>3, <2>2 DEF SomethingComes
<1>4. CASE req.cmd = "OKAY"
  <2>1. dev.stream \in {"open", "closed"}
    <3>1. mpc = "loop"
      BY <1>1, <1>4, AskedIs DEF MainInv, Order, Before
    <3> QED
      BY <1>1, <3>1, LiveFacts DEF MainInv, AcksOnlyOpenStream, Streaming
  <2>2. CASE dev.stream = "open"
    BY <1>2, <1>4, <2>2 DEF SomethingComes
  <2>3. CASE dev.stream = "closed"
    <3>1. PICK i \in DOMAIN in : in[i].cmd = "CLSE"
      BY <1>1, <2>3 DEF ClosedIsTold, ClseEnds
    <3>2. in # <<>>
      BY <3>1
    <3> QED
      BY <3>2 DEF SomethingComes
  <2> QED
    BY <2>1, <2>2, <2>3
<1> QED
  BY <1>3, <1>4

(* What the client does to what is under way. *)
LEMMA ClientTurn ==
    ASSUME AdbAssumption, PayloadsFit, TurnInv, MainInv', Transfer \/ TransferFails, link', faults' = 0
    PROVE  ClosedIsTold' /\ SomethingComes'
<1>1. CASE SendHeader \/ SendPayload
  <2>1. /\ UNCHANGED <<in, dev, res, link, faults>> /\ pc # "data" /\ out' # <<>>
    <3>1. out \in Seq(Packet) /\ req.cmd \in Commands /\ req.n \in Nat /\ req.id \in Nat
      BY DEF TurnInv, MainInv, TypeOK, AdbTypeOK
    <3>2. PICK p \in Packet : out' = Append(out, p)
      BY <1>1, <3>1, HeadFacts, DataFacts DEF SendHeader, SendPayload
    <3>3. out' # <<>>
      BY <3>1, <3>2, AppendPackets
    <3> QED
      BY <1>1, <3>3 DEF SendHeader, SendPayload, devVars
  <2>2. ClosedIsTold'
    BY <2>1 DEF TurnInv, ClosedIsTold
  <2> QED
    BY <2>1, <2>2 DEF SomethingComes
<1>2. CASE RecvHeader \/ RecvData
  <2>1. /\ in # <<>> /\ in' = Tail(in) /\ link /\ pc \in {"reply", "data"} /\ pc' \in {"data", "idle"}
        /\ UNCHANGED <<link, faults, dev>>
    BY <1>2 DEF RecvHeader, RecvData, TakeHeader, Finish, devVars
  <2>2. MainInv /\ ClosedIsTold /\ faults = 0 /\ res.code # "CLSE"
    BY <2>1 DEF TurnInv, ClseEnds
  <2>3. /\ Head(in) = in[1] /\ 1 \in DOMAIN in /\ in[1] \in Packet
        /\ \A i \in DOMAIN in : i = 1 \/ (i - 1 \in DOMAIN Tail(in) /\ Tail(in)[i - 1] = in[i])
    <3>1. in \in Seq(Packet)
      BY <2>1, <2>2, LiveFacts
    <3>2. Len(Tail(in)) = Len(in) - 1 /\ \A i \in 1 .. Len(Tail(in)) : Tail(in)[i] = in[i + 1]
      BY <2>1, <3>1, HeadTailProperties
    <3>3. Len(in) \in Nat /\ DOMAIN in = 1 .. Len(in)
      BY <3>1, LenProperties
    <3>4. Tail(in) \in Seq(Packet) /\ DOMAIN Tail(in) = 1 .. Len(in) - 1
      BY <2>1, <3>1, <3>2, LenProperties, HeadTailProperties
    <3> QED
      BY <2>1, <3>1, <3>2, <3>3, <3>4, TailPackets
  <2>4. ASSUME dev.stream = "closed" PROVE ClosedIsTold'
    <3>1. CASE RecvHeader
      <4>1. TakeHeader(HeaderLen, in[1].cmd, in[1].n) /\ pc = "reply"
        BY <2>1, <2>2, <2>3, <3>1, LiveFacts DEF RecvHeader
      <4>2. \/ pc' = "data" /\ acc'.code = in[1].cmd
            \/ pc' = "idle" /\ res'.code = in[1].cmd
        BY <4>1 DEF TakeHeader, Finish
      <4>3. PICK i \in DOMAIN in : in[i].cmd = "CLSE"
        BY <2>2, <2>4, <4>1 DEF ClosedIsTold
      <4> QED
        BY <2>1, <2>3, <4>2, <4>3 DEF ClosedIsTold
    <3>2. CASE RecvData
      <4>1. pc = "data" /\ res'.code = acc.code
        <5>1. acc \in Response
          BY <2>2 DEF MainInv, TypeOK, AdbTypeOK
        <5> QED
          BY <3>2, <5>1 DEF RecvData, Finish, Response
      <4>2. in[1].cmd # "CLSE"
        <5>1. acc.dlen > 0 /\ acc.dlen \in Nat /\ Framed(in, acc.dlen, rem)
          BY <2>1, <2>2, <4>1, LiveFacts, SyncFacts DEF MainInv
        <5>2. in[1] = DataPkt(acc.dlen)
          BY <2>3, <5>1 DEF Framed, Follows
        <5> QED
          BY <5>2 DEF DataPkt
      <4>3. (\E i \in DOMAIN in : in[i].cmd = "CLSE") \/ acc.code = "CLSE"
        BY <2>2, <2>4 DEF ClosedIsTold
      <4> QED
        BY <2>1, <2>3, <4>1, <4>2, <4>3 DEF ClosedIsTold
    <3> QED
      BY <1>2, <3>1, <3>2
  <2> QED
    BY <2>1, <2>4 DEF ClosedIsTold, SomethingComes
<1>3. CASE TransferFails
  <2>1. faults \in Nat
    BY DEF TurnInv, MainInv, TypeOK, AdbTypeOK
  <2>2. UNCHANGED <<in, dev, res, link>> /\ pc' = "idle" /\ pc # "data"
    <3>1. UNCHANGED <<in, dev, res, link>> /\ pc' = "idle"
      BY <1>3 DEF TransferFails, devVars
    <3>2. pc = "data" => faults' = faults + 1
      BY <1>3, <3>1 DEF TransferFails, Broken
    <3>3. faults + 1 # 0
      BY <2>1
    <3> QED
      BY <3>1, <3>2, <3>3
  <2>3. faults = 0
    BY <1>3, <2>1 DEF TransferFails, Broken
  <2> QED
    BY <2>2, <2>3 DEF TurnInv, ClosedIsTold, SomethingComes
<1> QED
  BY <1>1, <1>2, <1>3 DEF Transfer

(* What the daemon does. *)
LEMMA DaemonTurn ==
    ASSUME AdbAssumption, TurnInv, Device, faults = 0
    PROVE  ClosedIsTold' /\ SomethingComes'
<1>1. link /\ UNCHANGED <<hostVars, link, faults>>
  BY DEF Device, DevRecv, DevData, DevWrite, DevReply, DevClose, Send
<1>2. MainInv /\ ClseEnds /\ ClosedIsTold /\ SomethingComes
  BY <1>1 DEF TurnInv
<1>3. in \in Seq(Packet) /\ dev \in DevType
  BY <1>1, <1>2, LiveFacts
<1>4. CASE DevRecv
  <2>1. in' = in
    BY <1>4 DEF DevRecv
  <2>2. ClosedIsTold'
    <3>1. ASSUME NEW c, NEW id, Serve(c, id), c = req.cmd PROVE dev'.stream = dev.stream
      BY <1>1, <1>2, <1>3, <3>1, LiveFacts DEF Serve
    <3>2. /\ dev.want = 0 /\ Head(out).kind = "head" => Head(out).cmd = req.cmd
          /\ dev.want > 0 => dev.cmd = req.cmd
      <4>1. out # <<>> /\ out \in Seq(Packet)
        BY <1>1, <1>2, <1>4, LiveFacts DEF DevRecv
      <4>2. Head(out) = out[1] /\ 1 \in DOMAIN out
        BY <4>1, TailPackets
      <4> QED
        BY <1>1, <1>2, <4>2, LiveFacts DEF RequestsUnderWay
    <3>3. dev'.stream = dev.stream
      BY <1>3, <1>4, <3>1, <3>2 DEF DevRecv
    <3> QED
      BY <1>1, <1>2, <2>1, <3>3 DEF ClosedIsTold, hostVars
  <2>3. SomethingComes'
    <3>1. CASE pc = "reply" /\ out' = <<>>
      <4>1. PICK id : Serve(req.cmd, id) /\ (req.cmd = "OKAY" => id = RemoteId)
        BY <1>2, <1>4, <3>1, LastIsServed DEF TurnInv
      <4> QED
        BY <1>1, <2>1, <3>1, <4>1, ServedComes DEF hostVars
    <3>2. CASE ~(pc = "reply" /\ out' = <<>>)
      BY <1>1, <3>2 DEF SomethingComes, hostVars
    <3> QED
      BY <3>1, <3>2
  <2> QED
    BY <2>2, <2>3
<1>5. ASSUME NEW p \in Packet, in' = Append(in, p), dev'.stream = "closed" => dev.stream = "closed" \/ p.cmd = "CLSE"
      PROVE  ClosedIsTold' /\ SomethingComes'
  <2>1. in' # <<>> /\ (\A i \in DOMAIN in : i \in DOMAIN in' /\ in'[i] = in[i])
        /\ \E i \in DOMAIN in' : in'[i] = p
    <3>1. /\ Len(in') = Len(in) + 1 /\ in' \in Seq(Packet) /\ in' # <<>>
          /\ \A i \in 1 .. Len(in) : in'[i] = in[i]
          /\ in'[Len(in) + 1] = p
      BY <1>3, <1>5, AppendProperties
    <3>2. Len(in) \in Nat /\ DOMAIN in = 1 .. Len(in) /\ DOMAIN in' = 1 .. Len(in) + 1
      BY <1>3, <3>1, LenProperties
    <3> QED
      BY <3>1, <3>2
  <2>2. SomethingComes'
    BY <2>1 DEF SomethingComes
  <2>3. ClosedIsTold'
    BY <1>1, <1>2, <1>5, <2>1 DEF ClosedIsTold, hostVars
  <2> QED
    BY <2>2, <2>3
<1>6. CASE DevData
  <2>1. Lesser(rem, RBufLen) \in Nat
    BY <1>1, <1>2, LiveFacts DEF Lesser, AdbAssumption
  <2> QED
    BY <1>5, <1>6, <2>1, DataFacts DEF DevData
<1>7. ASSUME NEW n \in DevPayloads, NEW c \in Commands, NEW id \in StreamIds \union {dev.id}, DevReply(c, n, id)
      PROVE  ClosedIsTold' /\ SomethingComes'
  <2>1. HeadPkt(c, n, id) \in Packet
    BY <1>3, HeadFacts DEF AdbAssumption
  <2>2. dev'.stream = "closed" => dev.stream = "closed"
    BY <1>3, <1>7 DEF DevReply
  <2> QED
    BY <1>5, <1>7, <2>1, <2>2 DEF DevReply, Send
<1>8. ASSUME NEW n \in DevPayloads, DevWrite(n) PROVE ClosedIsTold' /\ SomethingComes'
  <2>1. HeadPkt("WRTE", n, dev.id) \in Packet
    BY <1>3, HeadFacts DEF AdbAssumption, Commands
  <2>2. dev'.stream = dev.stream
    BY <1>3, <1>8 DEF DevWrite
  <2> QED
    BY <1>5, <1>8, <2>1, <2>2 DEF DevWrite, Send
<1>9. CASE DevClose
  <2>1. HeadPkt("CLSE", 0, dev.id) \in Packet /\ HeadPkt("CLSE", 0, dev.id).cmd = "CLSE"
    BY <1>3, HeadFacts DEF HeadPkt, Commands
  <2> QED
    BY <1>5, <1>9, <2>1 DEF DevClose, Send
<1> QED
  BY <1>4, <1>6, <1>7, <1>8, <1>9 DEF Device

(* Main has no other acknowledgement, and the daemon makes none up. *)
LEMMA AcksStreamThreeStep ==
    ASSUME AdbAssumption, TypeOK, AcksStreamThree, [Next]_allVars
    PROVE  AcksStreamThree'
<1> USE DEF AcksStreamThree
<1>1. out \in Seq(Packet) /\ dev \in DevType /\ req.cmd \in Commands /\ req.n \in Nat /\ req.id \in Nat
  BY DEF TypeOK, AdbTypeOK
<1>2. CASE Statement \/ Rebind
  <2>1. CASE UNCHANGED <<req, out, dev>>
    BY <2>1
  <2>2. ASSUME NEW c, NEW n, NEW id, NEW len, Handle(c, n, id, len), c = "OKAY" => id = RemoteId
        PROVE  AcksStreamThree'
    BY <2>2 DEF Handle, devVars
  <2>3. CASE Connect \/ Auth \/ OpenStream \/ Ready
    BY <2>2, <2>3 DEF Connect, Auth, OpenStream, Ready, adb_connect, adb_auth, adb_open, adb_ready
  <2>4. CASE FOpen \/ Open \/ GetDriver \/ Detach \/ Claim \/ Check \/ Loop \/ Release \/ Rebind
    BY <2>1, <2>4 DEF FOpen, Open, GetDriver, Detach, Claim, Check, Loop, Release, Rebind,
                      vars, hostVars, devVars
  <2> QED
    BY <1>2, <2>3, <2>4 DEF Statement
<1>3. ASSUME NEW p \in Packet, p.cmd = "OKAY" => p.id = RemoteId, out' = Append(out, p), UNCHANGED <<req, dev>>
      PROVE  AcksStreamThree'
  <2>1. \A i \in DOMAIN out' : (i \in DOMAIN out /\ out'[i] = out[i]) \/ out'[i] = p
    BY <1>1, <1>3, AppendPackets
  <2> QED
    BY <1>3, <2>1
<1>4. CASE SendHeader
  BY <1>1, <1>3, <1>4, HeadFacts DEF SendHeader, HeadPkt, devVars
<1>5. CASE SendPayload
  BY <1>1, <1>3, <1>5, DataFacts DEF SendPayload, DataPkt, devVars
<1>6. CASE SendError
  <2>1. DataPkt(1) \in Packet /\ DataPkt(1).cmd = "other"
    BY DataFacts DEF DataPkt
  <2>2. UNCHANGED <<req, dev>> /\ (UNCHANGED out \/ out' = Append(out, DataPkt(1)))
    BY <1>6 DEF SendError, devVars
  <2> QED
    BY <1>3, <2>1, <2>2
<1>7. CASE RecvHeader \/ RecvData \/ TransferFails \/ RecvHeaderError \/ RecvDataError \/ Unplug
  BY <1>7 DEF RecvHeader, RecvData, TransferFails, RecvHeaderError, RecvDataError, Unplug, hostVars, devVars
<1>8. CASE DevRecv
  <2>1. UNCHANGED req /\ out # <<>> /\ out' = Tail(out)
    BY <1>8 DEF DevRecv, hostVars
  <2>2. /\ Head(out) = out[1] /\ 1 \in DOMAIN out /\ out[1] \in Packet
        /\ \A i \in DOMAIN out' : i + 1 \in DOMAIN out /\ out'[i] = out[i + 1]
    BY <1>1, <2>1, TailPackets
  <2>3. dev'.want = 0 \/ (dev'.cmd = out[1].cmd /\ dev'.to = out[1].id)
    <3>1. ASSUME NEW c, NEW id, Serve(c, id) PROVE dev'.want = 0
      BY <1>1, <3>1 DEF Serve
    <3>2. dev'.want = 0 \/ (\E c, id : Serve(c, id))
          \/ dev' = [dev EXCEPT !.want = out[1].n, !.cmd = out[1].cmd, !.to = out[1].id]
      BY <1>1, <1>8, <2>2 DEF DevRecv
    <3> QED
      BY <1>1, <3>1, <3>2
  <2> QED
    BY <2>1, <2>2, <2>3
<1>9. CASE DevData \/ DevClose
  BY <1>1, <1>9 DEF DevData, DevClose, Send, hostVars
<1>10. ASSUME NEW n \in DevPayloads, DevWrite(n) PROVE AcksStreamThree'
  BY <1>1, <1>10 DEF DevWrite, Send, hostVars
<1>11. ASSUME NEW n \in DevPayloads, NEW c \in Commands, NEW id \in StreamIds \union {dev.id}, DevReply(c, n, id)
      PROVE  AcksStreamThree'
  <2>1. UNCHANGED <<req, out>>
    BY <1>11 DEF DevReply, Send, hostVars
  <2>2. dev'.want = dev.want /\ dev'.cmd = dev.cmd /\ dev'.to = dev.to
    <3>1. CASE dev.cmd = "OPEN" /\ c = "OKAY"
      BY <1>1, <1>11, <3>1 DEF DevReply
    <3>2. CASE ~(dev.cmd = "OPEN" /\ c = "OKAY")
      BY <1>1, <1>11, <3>2 DEF DevReply
    <3> QED
      BY <3>1, <3>2
  <2> QED
    BY <2>1, <2>2
<1>12. CASE UNCHANGED allVars
  BY <1>12 DEF allVars, vars, hostVars, devVars
<1> HIDE DEF AcksStreamThree
<1> QED
  BY <1>2, <1>4, <1>5, <1>6, <1>7, <1>8, <1>9, <1>10, <1>11, <1>12 DEF Next, Transfer, Fault, Device

(* TurnInv holds in every reachable state when payloads fit one packet. *)
THEOREM TurnInvariance == ASSUME PayloadsFit PROVE Spec => []TurnInv
<1> USE AdbAssumption, PayloadsFit
<1>1. Spec => []MainInv
  BY MainInvariance
<1> DEFINE Turn == ClseEnds /\ AcksStreamThree /\ (link /\ faults = 0 => ClosedIsTold /\ SomethingComes)
<1>2. Init => Turn
  BY DEF Init, AdbInit, NoRes, ClseEnds, AcksStreamThree, ClosedIsTold, SomethingComes
<1>3. MainInv /\ MainInv' /\ Turn /\ [Next]_allVars => Turn'
  <2> SUFFICES ASSUME MainInv, MainInv', Turn, [Next]_allVars PROVE Turn'
    OBVIOUS
  <2>1. ClseEnds' /\ AcksStreamThree'
    BY ClseEndsStep, AcksStreamThreeStep DEF MainInv
  <2>2. TurnInv /\ TypeOK
    BY DEF TurnInv, MainInv
  <2>3. faults \in Nat
    BY <2>2 DEF TypeOK, AdbTypeOK
  <2>4. CASE Statement \/ Rebind
    <3>1. CASE UNCHANGED vars \/ (link' \in {link, FALSE} /\ UNCHANGED <<hostVars, out, in, faults, devVars>>)
      <4>1. /\ UNCHANGED <<pc, req, acc, res, out, in, faults, dev, owed>>
            /\ link' = link \/ link' = FALSE
        BY <3>1 DEF vars, hostVars, devVars
      <4> QED
        BY <2>1, <4>1 DEF ClosedIsTold, SomethingComes
    <3>2. ASSUME NEW c \in Commands, NEW n \in Nat, NEW id \in Nat, Handle(c, n, id, BuffLen) PROVE Turn'
      <4>1. pc = "idle" /\ pc' \in {"header", "idle"} /\ UNCHANGED <<acc, res, in, link, faults, dev>>
        BY <3>2 DEF Handle, devVars
      <4> QED
        BY <2>1, <4>1 DEF ClosedIsTold, SomethingComes
    <3> QED
      BY <2>4, <3>1, <3>2, StatementIs
  <2>5. CASE Transfer \/ TransferFails
    BY <2>1, <2>2, <2>5, ClientTurn
  <2>6. CASE SendError \/ RecvHeaderError \/ RecvDataError
    <3>1. faults' = faults + 1
      BY <2>6 DEF SendError, RecvHeaderError, RecvDataError, Broken
    <3> QED
      BY <2>1, <2>3, <3>1
  <2>7. CASE Device
    <3>1. UNCHANGED faults
      BY <2>7 DEF Device, DevRecv, DevData, DevWrite, DevReply, DevClose, Send
    <3> QED
      BY <2>1, <2>2, <2>7, <3>1, DaemonTurn
  <2>8. CASE Unplug
    BY <2>1, <2>8 DEF Unplug
  <2>9. CASE UNCHANGED allVars
    <3>1. UNCHANGED <<pc, req, acc, res, out, in, link, faults, dev, owed>>
      BY <2>9 DEF allVars, vars, hostVars, devVars
    <3> QED
      BY <2>1, <3>1 DEF ClosedIsTold, SomethingComes
  <2> QED
    BY <2>4, <2>5, <2>6, <2>7, <2>8, <2>9 DEF Next, Fault
<1>4. MainInv /\ Turn => TurnInv
  BY DEF TurnInv
<1> QED
  BY <1>1, <1>2, <1>3, <1>4, PTL DEF Spec

(* Main's receives have no timeout: until a transfer breaks off the daemon *)
(* can move when main waits, but for an OPEN and for acknowledgements that *)
(* it ignores, those of stream 3 when it has given the stream another id   *)
(* (main.c:268).  A write that overtakes main's acknowledgement is read    *)
(* for its answer, and still the credit main waits on is not lost; nor     *)
(* does main acknowledge on a stream whose CLSE it has read.               *)
THEOREM NoMutualWait == ASSUME PayloadsFit PROVE Spec => []DaemonsTurn
<1> USE AdbAssumption, PayloadsFit
<1>1. Spec => []TurnInv
  BY TurnInvariance
<1>2. ASSUME TurnInv, NothingUnderWay
      PROVE  \/ req.cmd = "OKAY" /\ dev.stream = "open" /\ dev.credit
             \/ OpenIgnored \/ AckIgnored
  <2>1. MainInv /\ SomethingComes /\ link /\ faults = 0 /\ in = <<>> /\ out = <<>> /\ owed = {} /\ rem = 0
    BY <1>2 DEF TurnInv, NothingUnderWay
  <2>2. pc # "data"
    <3>1. pc = "data" => acc.dlen > 0 /\ acc.dlen \in Nat
      BY <2>1, SyncFacts DEF MainInv
    <3>2. pc = "data" => rem = acc.dlen
      BY <2>1, LiveFacts DEF Framed
    <3> QED
      BY <2>1, <3>1, <3>2
  <2>3. pc = "reply"
    BY <1>2, <2>2 DEF NothingUnderWay
  <2> QED
    BY <2>1, <2>3 DEF SomethingComes, OpenIgnored, AckIgnored
<1>3. TurnInv => DaemonsTurn
  BY <1>2 DEF DaemonsTurn
<1> QED
  BY <1>1, <1>3, PTL

=============================================================================
