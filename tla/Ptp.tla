-------------------------------- MODULE Ptp --------------------------------
(***************************************************************************)
(* The PTP initiator of src/lib/ptp/ptp.c: every operation is a command    *)
(* block out, for two of them a data block out, then data blocks in, if    *)
(* there are any, and a response block, all through __handle_request and   *)
(* __send_request.                                                         *)
(*                                                                         *)
(* A bulk call is one atomic step (see BulkPipe).  The return value of     *)
(* usb_bulk_recv is not looked at: a failed or empty receive is decoded    *)
(* from what __rbuffer still holds (rb).  What then is not decided by the  *)
(* code leads to "undefined", where the model stops: a copy of -1 bytes or *)
(* past the end of __rstream, and bytes that are no header (an             *)
(* uninitialized buffer, the middle of an object) when they happen to name *)
(* a block.                                                                *)
(*                                                                         *)
(* External: the responder and the link.                                   *)
(***************************************************************************)
EXTENDS Integers, Sequences

CONSTANTS HeaderLen,          \* HEADER_LEN
          RBufLen,            \* sizeof(__rbuffer)
          ResponseBufferLen,  \* RESPONSE_BUFFER_LEN
          Datasets,           \* lengths of the data blocks of the responder
          CallerLens,         \* lengths of the callers' buffers
          Tids,               \* values of __get_transaction_id
          MaxQueue,           \* packets an endpoint's FIFO holds
          MaxFaults           \* bound: transfers that break off unnoticed

ASSUME PtpAssumption ==
    /\ HeaderLen \in Nat \ {0} /\ RBufLen \in Nat \ {0} /\ ResponseBufferLen \in Nat
    /\ HeaderLen <= RBufLen /\ RBufLen + HeaderLen <= ResponseBufferLen
    /\ Datasets \subseteq Nat \ (0 .. HeaderLen - 1) /\ CallerLens \subseteq Nat
    /\ Tids \subseteq Nat \ {0} /\ MaxQueue \in Nat /\ MaxFaults \in Nat

VARIABLES pc,       \* "idle", "undefined", or the next transfer
          call,     \* the operation being carried out, and its arguments
          rb,       \* what __rbuffer holds: the last packet received
          block,    \* the data block being received: its total and what is left
          offset,   \* bytes written to __rstream
          res, ret, copied,  \* the caller's ptp_res_t, result and buffer
          out, in,  \* packets in the two pipes
          link,     \* the device is attached
          faults,   \* ghost: times a transfer broke off unnoticed
          dev,      \* the responder: its session and what it is doing
          tosend    \* what it has decided to send

hostVars == <<pc, call, rb, block, offset, res, ret, copied>>
devVars == <<dev, tosend>>
vars == <<hostVars, out, in, link, faults, devVars>>

(* Operations with a data phase from and to the responder, in ptp.h. *)
DataIn == {"GetDeviceInfo", "GetStorageIDs", "GetStorageInfo", "GetObjectHandles",
           "GetObjectInfo", "GetObject", "GetThumb", "GetDevicePropDesc",
           "GetDevicePropValue", "GetPartialObject"}
DataOut == {"SendObjectInfo", "SendObject", "SetDevicePropValue"}

NoBuf == -1
NoTid == -1

Packet(k, n, total, tid, code) == [kind |-> k, n |-> n, total |-> total, tid |-> tid, code |-> code]
NoPacket == Packet("none", 0, 0, NoTid, "none")
NoBlock == [total |-> 0, left |-> 0]

Init ==
    /\ pc = "idle"
    /\ call = [op |-> "none", code |-> "none", tid |-> NoTid, len |-> NoBuf, phases |-> 1]
    /\ rb = NoPacket /\ block = NoBlock /\ offset = 0
    /\ res = [length |-> 0, code |-> "none", tid |-> NoTid] /\ ret = 0 /\ copied = 0
    /\ out = <<>> /\ in = <<>> /\ link = TRUE /\ faults = 0
    /\ dev = [session |-> FALSE, state |-> "cmd", tid |-> NoTid, total |-> 0]
    /\ tosend = <<>>

(***************************************************************************)
(* The operations.  op is the function called, code the operation it asks  *)
(* for.  The caller's ptp_res_t is new (zero) or that of its last call.    *)
(***************************************************************************)
Begin(op, code, tid, len, phases) ==
    /\ pc = "idle" /\ pc' = "command"
    /\ call' = [op |-> op, code |-> code, tid |-> tid, len |-> len, phases |-> phases]
    /\ rb' = NoPacket /\ block' = NoBlock /\ offset' = 0
    /\ \/ UNCHANGED res
       \/ res' = [length |-> 0, code |-> "none", tid |-> NoTid]
    /\ UNCHANGED <<ret, copied, out, in, link, faults, devVars>>

(* The data phase is left to the caller. *)
SubmitCommandOnly(c) == \E tid \in Tids : Begin(c, c, tid, NoBuf, 1)

Ask(c, len) == \E tid \in Tids : Begin(c, c, tid, len, 1)
Tell(c) == Ask(c, NoBuf)
Submit(c) == \E tid \in Tids : Begin(c, c, tid, NoBuf, 2)

ptp_get_device_info(len) == Ask("GetDeviceInfo", len)
ptp_open_session == Begin("OpenSession", "OpenSession", 0, NoBuf, 1)
ptp_close_session == Tell("CloseSession")
ptp_get_storage_id(len) == Ask("GetStorageIDs", len)
ptp_get_storage_info(len) == Ask("GetStorageInfo", len)
ptp_get_num_objects == Tell("GetNumObjects")
ptp_get_object_handles(len) == Ask("GetObjectHandles", len)
ptp_get_object_info(len) == Ask("GetObjectInfo", len)
ptp_get_object(len) == Ask("GetObject", len)
ptp_get_thumb(len) == Ask("GetThumb", len)
ptp_delete_object(len) == Ask("DeleteObject", len)
ptp_send_object_info == Submit("SendObjectInfo")
ptp_send_object == Submit("SendObject")
ptp_format_store == \E tid \in Tids : Begin("FormatStore", "DeleteObject", tid, NoBuf, 1)
ptp_reset_device == Tell("ResetDevice")
ptp_self_test == Tell("SelfTest")
ptp_set_object_protection == Tell("SetObjectProtection")
ptp_power_down == Tell("PowerDown")
ptp_get_device_prop_desc(len) == Ask("GetDevicePropDesc", len)
ptp_get_device_prop_value(len) == Ask("GetDevicePropValue", len)
ptp_set_device_prop_value(len) == Ask("SetDevicePropValue", len)
ptp_reset_device_prop_value == Tell("ResetDevicePropValue")
ptp_terminate_open_capture == Tell("TerminateOpenCapture")
ptp_move_object == Tell("MoveObject")
ptp_copy_object == Tell("CopyObject")
ptp_get_partial_object(len) == Ask("GetPartialObject", len)
ptp_initiate_open_capture == Tell("InitiateOpenCapture")

(* Not implemented: returns 0. *)
ptp_initiate_capture ==
    /\ pc = "idle" /\ ret' = 0 /\ copied' = 0
    /\ call' = [op |-> "InitiateCapture", code |-> "none", tid |-> NoTid, len |-> NoBuf, phases |-> 0]
    /\ UNCHANGED <<pc, rb, block, offset, res, out, in, link, faults, devVars>>

(***************************************************************************)
(* Sending.                                                                *)
(***************************************************************************)
SendCommand ==
    /\ pc = "command" /\ link /\ Len(out) < MaxQueue
    /\ out' = Append(out, Packet("command", HeaderLen, HeaderLen, call.tid, call.code))
    /\ pc' = IF call.phases = 2 THEN "data" ELSE "recv"
    /\ UNCHANGED <<call, rb, block, offset, res, ret, copied, in, link, faults, devVars>>

SendData ==
    /\ pc = "data" /\ link /\ Len(out) < MaxQueue
    /\ out' = Append(out, Packet("data", HeaderLen, HeaderLen, call.tid, call.code))
    /\ pc' = "recv"
    /\ UNCHANGED <<call, rb, block, offset, res, ret, copied, in, link, faults, devVars>>

Broken == faults < MaxFaults /\ faults' = faults + 1

(* The 1 of __usb_bulk_msg is handed on. *)
SendFailsOne ==
    /\ pc \in {"command", "data"}
    /\ pc' = "idle" /\ ret' = 1
    /\ IF link /\ pc = "data" THEN Broken ELSE UNCHANGED faults
    /\ UNCHANGED <<call, rb, block, offset, res, copied, out, in, link, devVars>>

(* usb_bulk_send returns -1.  Before the data block the responder is left  *)
(* waiting for it.                                                         *)
SendFails ==
    /\ pc \in {"command", "data"}
    /\ pc' = "idle" /\ ret' = -1
    /\ IF link /\ pc = "data" THEN Broken ELSE UNCHANGED faults
    /\ UNCHANGED <<call, rb, block, offset, res, copied, out, in, link, devVars>>

(* The URB of a send ends with an error, which is taken for success. *)
SendError ==
    /\ pc \in {"command", "data"} /\ Broken
    /\ pc' = IF pc = "command" /\ call.phases = 2 THEN "data" ELSE "recv"
    /\ UNCHANGED <<call, rb, block, offset, res, ret, copied, out, in, link, devVars>>

(***************************************************************************)
(* Receiving.                                                              *)
(***************************************************************************)
Lesser(a, b) == IF a < b THEN a ELSE b

(* What has arrived is not taken off what is still to come. *)
CopyKeepsLeft(k, total, left) ==
    IF offset + k > ResponseBufferLen
    THEN pc' = "undefined" /\ UNCHANGED <<block, offset, res>>
    ELSE /\ offset' = offset + k
         /\ block' = [total |-> total, left |-> left]
         /\ pc' = "more" /\ UNCHANGED res

(* k bytes are copied to __rstream; left of the block are still to come. *)
Copy(k, total, left) ==
    IF offset + k > ResponseBufferLen
    THEN pc' = "undefined" /\ UNCHANGED <<block, offset, res>>
    ELSE /\ offset' = offset + k
         /\ block' = [total |-> total, left |-> left - k]
         /\ IF left = k THEN pc' = "recv" /\ res' = [res EXCEPT !.length = total]
                        ELSE pc' = "more" /\ UNCHANGED res

(* The locals of __send_request are gone when it returns. *)
Forget == rb' = NoPacket /\ block' = NoBlock /\ UNCHANGED offset

RespondUnclipped(p) ==
    /\ res' = [res EXCEPT !.code = p.code, !.tid = p.tid]
    /\ pc' = "idle" /\ ret' = 0
    /\ copied' = IF call.len = NoBuf THEN 0 ELSE res.length
    /\ Forget

(* The response ends the call: its data is copied to the caller. *)
Respond(p) ==
    /\ res' = [res EXCEPT !.code = p.code, !.tid = p.tid]
    /\ pc' = "idle" /\ ret' = 0
    /\ copied' = IF call.len = NoBuf THEN 0 ELSE Lesser(res.length, call.len)
    /\ Forget

(* Bytes that are no header: the loop goes round (default:;), unless they  *)
(* happen to name a block.                                                 *)
NoHeader(p) ==
    /\ p.kind \notin {"data", "response"}
    /\ pc' \in {"recv", "undefined"} /\ rb' = p
    /\ UNCHANGED <<block, offset, res, ret, copied>>

(* A data block that is complete in one packet ends the call. *)
DecodeDataEnds(p, k) ==
    \/ p.kind = "data" /\ k # p.total /\ Copy(k, p.total, p.total) /\ rb' = p
       /\ UNCHANGED <<ret, copied>>
    \/ /\ p.kind = "data" /\ k = p.total
       /\ res' = [length |-> k, code |-> "OK", tid |-> p.tid]
       /\ pc' = "idle" /\ ret' = 0 /\ copied' = Lesser(k, call.len)
       /\ offset' = k /\ rb' = NoPacket /\ block' = NoBlock
    \/ p.kind = "response" /\ Respond(p)
    \/ NoHeader(p)

(* One turn of the outer loop: __rbuffer holds p, of which k bytes are new. *)
Decode(p, k) ==
    \/ p.kind = "data" /\ Copy(k, p.total, p.total) /\ rb' = p /\ UNCHANGED <<ret, copied>>
    \/ p.kind = "response" /\ Respond(p)
    \/ NoHeader(p)

(* What __rbuffer holds once the packet p is received. *)
Received(p) == IF p.n = 0 THEN rb ELSE p

RecvBlock ==
    /\ pc = "recv" /\ link /\ in # <<>> /\ in' = Tail(in)
    /\ Decode(Received(Head(in)), Head(in).n)
    /\ UNCHANGED <<call, out, link, faults, devVars>>

(* The first packet of a block is taken for the whole of it. *)
RecvOnePacket ==
    /\ pc = "more" /\ link /\ in # <<>> /\ in' = Tail(in)
    /\ Decode(Received(Head(in)), Head(in).n)
    /\ UNCHANGED <<call, out, link, faults, devVars>>

(* The rest of a block, whatever it is. *)
RecvMore ==
    /\ pc = "more" /\ link /\ in # <<>> /\ in' = Tail(in)
    /\ rb' = Received(Head(in))
    /\ Copy(Head(in).n, block.total, block.left)
    /\ UNCHANGED <<call, ret, copied, out, link, faults, devVars>>

(* usb_bulk_recv returns -1: that many bytes of a data block are copied,   *)
(* and anything else in __rbuffer is decoded again.                        *)
RecvFails ==
    /\ \/ /\ pc = "more" \/ (pc = "recv" /\ rb.kind = "data")
          /\ pc' = "undefined" /\ UNCHANGED <<rb, block, offset, res, ret, copied>>
       \/ pc = "recv" /\ rb.kind # "data" /\ Decode(rb, 0)
    /\ IF link THEN Broken ELSE UNCHANGED faults
    /\ UNCHANGED <<call, out, in, link, devVars>>

(* The URB of a receive ends with an error: 0 bytes are new. *)
RecvError ==
    /\ pc \in {"recv", "more"} /\ Broken
    /\ IF pc = "recv" THEN Decode(rb, 0) ELSE UNCHANGED <<pc, rb, block, offset, res, ret, copied>>
    /\ UNCHANGED <<call, out, in, link, devVars>>

(***************************************************************************)
(* The responder (external): one transaction at a time, each answered with *)
(* a data block, if there is one and nothing is wrong, and a response.     *)
(***************************************************************************)
(* A block is sent in packets of RBufLen bytes, the last one shorter. *)
Blocks(tid, total) ==
    [i \in 1 .. (total \div RBufLen) + 1 |->
        Packet(IF i = 1 THEN "data" ELSE "rest",
               IF i <= total \div RBufLen THEN RBufLen ELSE total % RBufLen,
               total, tid, "none")]

Response(tid, code) == <<Packet("response", HeaderLen, HeaderLen, tid, code)>>

Refuse(tid) == tosend' = Response(tid, "Error") /\ dev' = [dev EXCEPT !.total = 0]

DevCommand ==
    /\ link /\ out # <<>> /\ tosend = <<>> /\ dev.state = "cmd"
    /\ LET c == Head(out).code  t == Head(out).tid IN
       IF Head(out).kind # "command" THEN UNCHANGED devVars
       ELSE \/ c \in DataOut
               /\ dev' = [dev EXCEPT !.state = "data", !.tid = t] /\ UNCHANGED tosend
            \/ c \notin DataOut /\ Refuse(t)
            \/ /\ c \in DataIn /\ (dev.session \/ c = "GetDeviceInfo")
               /\ \E total \in Datasets :
                     /\ tosend' = Blocks(t, total) \o Response(t, "OK")
                     /\ dev' = [dev EXCEPT !.total = total]
            \/ /\ c \notin DataIn \union DataOut /\ dev.session = (c # "OpenSession")
               /\ tosend' = Response(t, "OK")
               /\ dev' = [dev EXCEPT !.total = 0,
                                     !.session = c \notin {"CloseSession", "ResetDevice", "PowerDown"}]
    /\ out' = Tail(out)
    /\ UNCHANGED <<hostVars, in, link, faults>>

DevData ==
    /\ link /\ out # <<>> /\ dev.state = "data"
    /\ out' = Tail(out)
    /\ IF Head(out).kind # "data" THEN UNCHANGED devVars
       ELSE /\ dev' = [dev EXCEPT !.state = "cmd", !.tid = NoTid]
            /\ \E code \in {"OK", "Error"} : tosend' = Response(dev.tid, code)
    /\ UNCHANGED <<hostVars, in, link, faults>>

DevSend ==
    /\ link /\ tosend # <<>> /\ Len(in) < MaxQueue
    /\ in' = Append(in, Head(tosend)) /\ tosend' = Tail(tosend)
    /\ UNCHANGED <<hostVars, out, link, faults, dev>>

Unplug ==
    /\ link /\ link' = FALSE
    /\ UNCHANGED <<hostVars, out, in, faults, devVars>>

Operation ==
    \/ \E len \in CallerLens :
          \/ ptp_get_device_info(len) \/ ptp_get_storage_id(len) \/ ptp_get_storage_info(len)
          \/ ptp_get_object_handles(len) \/ ptp_get_object_info(len) \/ ptp_get_object(len)
          \/ ptp_get_thumb(len) \/ ptp_delete_object(len) \/ ptp_get_device_prop_desc(len)
          \/ ptp_get_device_prop_value(len) \/ ptp_set_device_prop_value(len)
          \/ ptp_get_partial_object(len)
    \/ ptp_open_session \/ ptp_close_session \/ ptp_get_num_objects
    \/ ptp_send_object_info \/ ptp_send_object \/ ptp_initiate_capture
    \/ ptp_format_store \/ ptp_reset_device \/ ptp_self_test
    \/ ptp_set_object_protection \/ ptp_power_down \/ ptp_reset_device_prop_value
    \/ ptp_terminate_open_capture \/ ptp_move_object \/ ptp_copy_object
    \/ ptp_initiate_open_capture

Transfer == SendCommand \/ SendData \/ RecvBlock \/ RecvMore

Responder == DevCommand \/ DevData \/ DevSend

Next ==
    \/ Operation \/ Transfer \/ Responder \/ Unplug
    \/ SendFails \/ SendError \/ RecvFails \/ RecvError

Spec == Init /\ [][Next]_vars

(* The thread runs and the responder answers what it is asked. *)
FairSpec == Spec /\ WF_vars(Transfer) /\ WF_vars(Responder)

-----------------------------------------------------------------------------
Kinds == {"none", "command", "data", "rest", "response"}
Codes == DataIn \union DataOut \union
    {"OpenSession", "CloseSession", "GetNumObjects", "DeleteObject", "ResetDevice", "SelfTest",
     "SetObjectProtection", "PowerDown", "ResetDevicePropValue", "TerminateOpenCapture",
     "MoveObject", "CopyObject", "InitiateOpenCapture", "OK", "Error", "none"}
Names == Codes \union {"FormatStore", "InitiateCapture"}
Packets == [kind : Kinds, n : Nat, total : Nat, tid : Int, code : Codes]

TypeOK ==
    /\ pc \in {"idle", "command", "data", "recv", "more", "undefined"}
    /\ call \in [op : Names, code : Codes, tid : Int, len : Nat \union {NoBuf}, phases : 0 .. 2]
    /\ rb \in Packets /\ block \in [total : Nat, left : Int] /\ offset \in 0 .. ResponseBufferLen
    /\ res \in [length : Nat, code : Codes, tid : Int]
    /\ ret \in {-1, 0} /\ copied \in Nat
    /\ out \in Seq(Packets) /\ in \in Seq(Packets)
    /\ link \in BOOLEAN /\ faults \in Nat
    /\ dev \in [session : BOOLEAN, state : {"cmd", "data"}, tid : Int, total : Nat]
    /\ tosend \in Seq(Packets)

Answered == pc = "idle" /\ ret = 0 /\ call.phases > 0

(* The response a call returns with is the one to its own command,         *)
(* although the code compares no TransactionID.                            *)
AnswersOwn ==
    (link /\ faults = 0 /\ Answered) => res.tid = call.tid

(* A call answered OK has the whole data block of its own transaction in   *)
(* __rstream, and res->length says so.                                     *)
DataWhole ==
    (link /\ faults = 0 /\ Answered /\ call.code \in DataIn /\ res.code = "OK")
        => res.length = offset /\ offset = dev.total /\ copied <= call.len

(* Where the code is not defined although the device keeps to the standard *)
(* and no transfer breaks off: a block longer than __rstream, and one that *)
(* fills several packets, after which the outer loop (ptp.c:70-72) decodes *)
(* its last 512 bytes when it has received the empty packet.               *)
TooLong == call.code \in DataIn /\ dev.total > ResponseBufferLen
FillsSeveral == call.code \in DataIn /\ dev.total > RBufLen /\ dev.total % RBufLen = 0

(* As long as the device is there and no transfer breaks off, the code     *)
(* decodes only headers it has received and writes only inside __rstream,  *)
(* except for blocks of those lengths, which no line of it looks at.       *)
DefinedUnlessFault ==
    pc = "undefined" => ~link \/ faults > 0 \/ TooLong \/ FillsSeveral

(* Nothing is left in the pipes between calls, so that no answer is read   *)
(* by a later call, and the responder is ready for a command.              *)
PipesDrained ==
    (link /\ faults = 0 /\ pc = "idle") =>
        out = <<>> /\ in = <<>> /\ tosend = <<>> /\ dev.state = "cmd"

(* The initiator and the responder do not wait for one another: when a     *)
(* call waits for an answer, there is one to come.                         *)
BothWait ==
    /\ pc \in {"recv", "more"} /\ link /\ faults = 0
    /\ out = <<>> /\ in = <<>> /\ tosend = <<>>

(* A block that fills one packet is followed by an empty one.  The outer   *)
(* loop (ptp.c:70-85) decodes __rbuffer again as if it were another block, *)
(* takes the response for a part of it and waits for the rest.             *)
FillsOne == call.code \in DataIn /\ dev.total = RBufLen

NeverBothWait == BothWait => call.op = "SetDevicePropValue" \/ FillsOne

(* Every operation returns, SetDevicePropValue and those excepted whose    *)
(* data block fills one packet or makes the code undefined (which it is    *)
(* for no others: DefinedUnlessFault).                                     *)
CallReturns ==
    [](link /\ faults = 0)
        => ((pc # "idle" /\ call.op # "SetDevicePropValue")
               ~> (pc \in {"idle", "undefined"} \/ FillsOne))

(* An operation is a remote procedure call: the responder serves a command *)
(* once, while its call waits, and that call returns with what the command *)
(* came to.  A command is served when it, and its data block, have left    *)
(* the pipe and the responder has decided on its answer.                   *)
BrokenOff == ~link \/ faults > 0 \/ pc = "undefined"
Served == pc \in {"recv", "more"} /\ out = <<>> /\ dev.state = "cmd"
Phase ==
    CASE BrokenOff -> "off"
      [] ~BrokenOff /\ pc = "idle" -> "idle"
      [] ~BrokenOff /\ Served -> "served"
      [] OTHER -> "asked"

Request == [code |-> call.code, tid |-> call.tid, len |-> call.len]
BlockDue == IF Phase = "served" /\ call.code \in DataIn THEN dev.total ELSE 0
NoResult == [ret |-> 0, tid |-> NoTid, ok |-> FALSE, length |-> 0, copied |-> 0]
Result ==
    IF Phase = "idle"
    THEN [ret |-> ret, tid |-> res.tid, ok |-> res.code = "OK",
          length |-> res.length, copied |-> copied]
    ELSE NoResult

Call == INSTANCE RemoteCall WITH
    Operations <- Codes, Nothing <- NoResult,
    phase <- Phase, request <- Request, data <- BlockDue, result <- Result

ImplementsRemoteCall == Call!Spec

-----------------------------------------------------------------------------
(* Properties ptp.h and ptp.c state and the code does not have.            *)

(* ptp.h:575-584: SetDevicePropValue sends the value in a data phase from  *)
(* the initiator; then no operation leaves both ends waiting.              *)
EveryDataPhaseSent == ~BothWait

(* ptp.c:110, "check if provided buffer is large enougth to copy the       *)
(* response": what is copied to the caller is response data received.      *)
CopiesOnlyResponse == Answered => copied <= offset

(* ptp.h:107-115: GetDeviceInfo outside a session has TransactionID 0.     *)
SessionlessTidZero ==
    \A i \in DOMAIN out :
        (out[i].code = "GetDeviceInfo" /\ ~dev.session) => out[i].tid = 0

(* ptp.h:480-492: FormatStore asks for the format of a store.  The command *)
(* of each operation carries the code of that operation.                   *)
SendsOwnCode == pc # "idle" => call.code = call.op

(* ptp.h:276: GetObject "is used for all types of data objects": it stays  *)
(* inside its buffer whatever the object's size.                           *)
ObjectsFit == (pc = "undefined" /\ call.op = "GetObject") => ~link \/ faults > 0

=============================================================================
