-------------------------------- MODULE Adb --------------------------------
(***************************************************************************)
(* The ADB client of src/lib/adb/adb.c: seven requests, each one message   *)
(* out (a header, then its payload if it has one) and one message in, all  *)
(* through __handle_request and __send_request.                            *)
(*                                                                         *)
(* A bulk call is one atomic step, which is what BulkPipe promises and     *)
(* UsbBulk implements: it moves a packet, it fails with -1, or its URB     *)
(* ends with an error and it returns a short count that adb.c takes for    *)
(* success (none of the bytes has then moved, or a byte of a request).  A  *)
(* buffer is its length.  Of a header the code acts on the command and the *)
(* data_length; the third field, id, is the device's id of the stream the  *)
(* message is about: arg1, the callers' remote_id, in what the host sends, *)
(* and arg0, which nothing reads, in what the device sends.                *)
(*                                                                         *)
(* External: the ADB daemon on the device and the link.                    *)
(***************************************************************************)
EXTENDS Integers, Sequences

CONSTANTS HeaderLen,          \* HEADER_LEN
          RBufLen,            \* sizeof(__rbuffer)
          ResponseBufferLen,  \* RESPONSE_BUFFER_LEN
          Payloads,           \* lengths of the payloads of requests
          DevPayloads,        \* lengths of the payloads the device sends
          CallerLens,         \* lengths of the callers' response buffers
          StreamIds,          \* ids the device may give a stream
          MaxQueue,           \* packets an endpoint's FIFO holds
          Garbled,            \* codes that bytes which are no header may show
          MaxFaults           \* bound: transfers that break a message off

Commands == {"CNXN", "STLS", "AUTH", "OPEN", "OKAY", "WRTE", "CLSE"}

(* res->code before any answer, and any code no command has. *)
Codes == Commands \union {"other"}

ASSUME AdbAssumption ==
    /\ HeaderLen \in Nat \ {0} /\ RBufLen \in Nat /\ ResponseBufferLen \in Nat
    /\ HeaderLen <= RBufLen /\ 2 * RBufLen <= ResponseBufferLen
    /\ Payloads \subseteq Nat /\ DevPayloads \subseteq Nat /\ CallerLens \subseteq Nat
    /\ MaxQueue \in Nat /\ MaxFaults \in Nat /\ Garbled \subseteq Codes
    /\ StreamIds \subseteq Nat \ {0}

(* What arg1 is when a message is about no stream of the device. *)
NoStream == 0

VARIABLES pc,       \* "idle", or the next transfer of __send_request
          req,      \* the request being made, and the caller's buffer length
          acc,      \* __res, with the data_length of the header read
          res, ret, \* what the caller has: its adb_res_t and the return value
          copied,   \* bytes of the response copied to the caller
          out, in,  \* packets in the two pipes
          link,     \* transfers can be made: attached and not busy
          faults,   \* ghost: times a transfer broke a message off
          dev,      \* the daemon: what it is reading, and its connection
          owed,     \* the answers one of which the daemon owes
          rem       \* bytes of the message it is sending not yet sent

hostVars == <<pc, req, acc, res, ret, copied>>
devVars == <<dev, owed, rem>>
vars == <<hostVars, out, in, link, faults, devVars>>

HeadPkt(c, n, id) == [kind |-> "head", cmd |-> c, n |-> n, id |-> id]
DataPkt(n) == [kind |-> "data", cmd |-> "other", n |-> n, id |-> NoStream]
PktLen(p) == IF p.kind = "head" THEN HeaderLen ELSE p.n
Packet == [kind : {"head"}, cmd : Commands, n : Nat, id : Nat]
          \union [kind : {"data"}, cmd : {"other"}, n : Nat, id : {NoStream}]

DevType == [want : Nat, cmd : Commands, to : Nat, conn : BOOLEAN,
            stream : {"none", "open", "closed"}, id : Nat, credit : BOOLEAN]

Lesser(a, b) == IF a < b THEN a ELSE b

NoRes == [length |-> 0, code |-> "other", dlen |-> 0]

AdbInit ==
    /\ pc = "idle" /\ req = [cmd |-> "CNXN", n |-> 0, id |-> NoStream, len |-> 0]
    /\ acc = NoRes /\ res = NoRes /\ ret = 0 /\ copied = 0
    /\ out = <<>> /\ in = <<>> /\ link = TRUE /\ faults = 0
    /\ dev = [want |-> 0, cmd |-> "CNXN", to |-> NoStream, conn |-> FALSE,
              stream |-> "none", id |-> NoStream, credit |-> FALSE]
    /\ owed = {} /\ rem = 0

(***************************************************************************)
(* The requests.  malloc may fail: the request then returns -1.            *)
(***************************************************************************)
Handle(c, n, id, len) ==
    /\ pc = "idle"
    /\ req' = [cmd |-> c, n |-> n, id |-> id, len |-> len]
    /\ \/ pc' = "header" /\ UNCHANGED ret
       \/ pc' = "idle" /\ ret' = -1
    /\ UNCHANGED <<acc, res, copied, out, in, link, faults, devVars>>

adb_connect(n, len) == Handle("CNXN", n, NoStream, len)
adb_stls(len) == Handle("STLS", 0, NoStream, len)
adb_auth(n, len) == Handle("AUTH", n, NoStream, len)
adb_open(n, len) == Handle("OPEN", n, NoStream, len)
adb_ready(id, len) == Handle("OKAY", 0, id, len)
adb_write(id, n, len) == Handle("WRTE", n, id, len)
adb_close(id, len) == Handle("CLSE", 0, id, len)

(***************************************************************************)
(* __send_request: the header, the payload, one packet of the answer and,  *)
(* if that has a data_length, one more.                                    *)
(***************************************************************************)
SendHeader ==
    /\ pc = "header" /\ link /\ Len(out) < MaxQueue
    /\ out' = Append(out, HeadPkt(req.cmd, req.n, req.id))
    /\ pc' = IF req.n > 0 THEN "payload" ELSE "reply"
    /\ UNCHANGED <<req, acc, res, ret, copied, in, link, faults, devVars>>

SendPayload ==
    /\ pc = "payload" /\ link /\ Len(out) < MaxQueue
    /\ out' = Append(out, DataPkt(req.n))
    /\ pc' = "reply"
    /\ UNCHANGED <<req, acc, res, ret, copied, in, link, faults, devVars>>

FinishUnclipped(a) ==
    /\ pc' = "idle" /\ ret' = 0 /\ res' = a /\ acc' = NoRes
    /\ copied' = a.length

(* The answer is complete: *res is written and the caller gets what fits. *)
Finish(a) ==
    /\ pc' = "idle" /\ ret' = 0 /\ res' = a /\ acc' = NoRes
    /\ copied' = IF a.length > req.len THEN req.len ELSE a.length

(* k bytes arrive and are read as a header that says c and d. *)
TakeHeader(k, c, d) ==
    LET a == [length |-> acc.length + k, code |-> c, dlen |-> d]
    IN  IF d > 0 THEN pc' = "data" /\ acc' = a /\ UNCHANGED <<res, ret, copied>>
                 ELSE Finish(a)

(* The bytes of a packet that is no header may say anything. *)
RecvHeader ==
    /\ pc = "reply" /\ link /\ in # <<>>
    /\ in' = Tail(in)
    /\ IF Head(in).kind = "head"
       THEN TakeHeader(HeaderLen, Head(in).cmd, Head(in).n)
       ELSE \E c \in Garbled, d \in {0, 1} : TakeHeader(Head(in).n, c, d)
    /\ UNCHANGED <<req, out, link, faults, devVars>>

(* Without the break after the payload packet: read until a short packet. *)
RecvUntilShort ==
    /\ pc = "data" /\ link /\ in # <<>>
    /\ in' = Tail(in)
    /\ LET a == [acc EXCEPT !.length = @ + PktLen(Head(in))]
       IN  IF PktLen(Head(in)) = RBufLen THEN acc' = a /\ UNCHANGED <<pc, res, ret, copied>>
                                         ELSE Finish(a)
    /\ UNCHANGED <<req, out, link, faults, devVars>>

(* The length of the answer is overwritten instead of added to. *)
RecvDataOverwrites ==
    /\ pc = "data" /\ link /\ in # <<>>
    /\ in' = Tail(in)
    /\ Finish([acc EXCEPT !.length = PktLen(Head(in))])
    /\ UNCHANGED <<req, out, link, faults, devVars>>

RecvData ==
    /\ pc = "data" /\ link /\ in # <<>>
    /\ in' = Tail(in)
    /\ Finish([acc EXCEPT !.length = @ + PktLen(Head(in))])
    /\ UNCHANGED <<req, out, link, faults, devVars>>

Broken == faults < MaxFaults /\ faults' = faults + 1

(* The 1 of __usb_bulk_msg is handed on. *)
TransferFailsOne ==
    /\ pc # "idle"
    /\ pc' = "idle" /\ ret' = 1 /\ acc' = NoRes
    /\ IF link /\ pc # "header" THEN Broken ELSE UNCHANGED faults
    /\ UNCHANGED <<req, res, copied, out, in, link, devVars>>

(* A bulk call returns -1; nothing the caller holds is written.  Past the  *)
(* header a message has been broken off.                                   *)
TransferFails ==
    /\ pc # "idle"
    /\ pc' = "idle" /\ ret' = -1 /\ acc' = NoRes
    /\ IF link /\ pc # "header" THEN Broken ELSE UNCHANGED faults
    /\ UNCHANGED <<req, res, copied, out, in, link, devVars>>

(* A send whose URB ends with an error returns a count, not -1, and the    *)
(* code goes on as if it had been sent.                                    *)
SendError ==
    /\ pc \in {"header", "payload"}
    /\ pc' = IF pc = "header" /\ req.n > 0 THEN "payload" ELSE "reply"
    /\ Broken
    /\ \/ UNCHANGED out
       \/ Len(out) < MaxQueue /\ out' = Append(out, DataPkt(1))
    /\ UNCHANGED <<req, acc, res, ret, copied, in, link, devVars>>

(* So does a receive: __rbuffer then holds whatever it held before. *)
RecvHeaderError ==
    /\ pc = "reply"
    /\ \E c \in Garbled, d \in {0, 1} : TakeHeader(0, c, d)
    /\ Broken
    /\ UNCHANGED <<req, out, in, link, devVars>>

RecvDataError ==
    /\ pc = "data"
    /\ Finish(acc) /\ Broken
    /\ UNCHANGED <<req, out, in, link, devVars>>

(***************************************************************************)
(* The daemon (external).  It answers in order, one message at a time; on  *)
(* an open stream it may also write whenever it has credit, which a stream *)
(* has when it opens and an OKAY renews.  It takes no notice of an OKAY, a *)
(* WRTE or a CLSE for a stream it does not have.                           *)
(***************************************************************************)
Ours(id) == dev.stream = "open" /\ id = dev.id

(* What the daemon does with a whole request: the answers it may give. *)
Answers(c, id) ==
    CASE c = "CNXN" -> {"CNXN", "AUTH", "STLS"}
      [] c = "AUTH" -> {"CNXN", "AUTH"}
      [] c = "STLS" -> {"STLS"}
      [] c = "OPEN" -> IF dev.conn THEN {"OKAY", "CLSE"} ELSE {}
      [] c = "OKAY" -> {}
      [] c = "WRTE" -> IF Ours(id) THEN {"OKAY"} ELSE {}
      [] c = "CLSE" -> IF Ours(id) THEN {"CLSE"} ELSE {}

Serve(c, id) ==
    /\ owed' = Answers(c, id)
    /\ dev' = [dev EXCEPT !.want = 0, !.cmd = c, !.to = NoStream,
                          !.credit = @ \/ (c = "OKAY" /\ Ours(id)),
                          !.stream = IF c = "CLSE" /\ Ours(id) THEN "closed" ELSE @]

DevRecv ==
    /\ link /\ out # <<>> /\ owed = {} /\ rem = 0
    /\ out' = Tail(out)
    /\ \/ /\ dev.want = 0 /\ Head(out).kind = "head" /\ Head(out).n > 0
          /\ dev' = [dev EXCEPT !.want = Head(out).n, !.cmd = Head(out).cmd, !.to = Head(out).id]
          /\ UNCHANGED owed
       \/ /\ dev.want = 0 /\ Head(out).kind = "head" /\ Head(out).n = 0
          /\ Serve(Head(out).cmd, Head(out).id)
       \/ dev.want > 0 /\ Head(out).kind = "data" /\ Serve(dev.cmd, dev.to)
       \/ /\ (dev.want > 0) # (Head(out).kind = "data")   \* dropped
          /\ dev' = [dev EXCEPT !.want = 0] /\ UNCHANGED owed
    /\ UNCHANGED <<hostVars, in, link, faults, rem>>

Send(c, n, id) ==
    /\ link /\ rem = 0 /\ Len(in) < MaxQueue
    /\ in' = Append(in, HeadPkt(c, n, id)) /\ rem' = n
    /\ UNCHANGED <<hostVars, out, link, faults>>

(* The answer to a request; an OKAY to an OPEN opens stream id. *)
DevReply(c, n, id) ==
    /\ c \in owed /\ owed' = {} /\ Send(c, n, id)
    /\ IF dev.cmd = "OPEN" /\ c = "OKAY"
       THEN id \in StreamIds /\ dev' = [dev EXCEPT !.stream = "open", !.id = id, !.credit = TRUE]
       ELSE id = dev.id /\ dev' = [dev EXCEPT !.conn = @ \/ c = "CNXN"]

DevWrite(n) ==
    /\ dev.stream = "open" /\ dev.credit /\ owed = {} /\ Send("WRTE", n, dev.id)
    /\ dev' = [dev EXCEPT !.credit = FALSE] /\ UNCHANGED owed

DevClose ==
    /\ dev.stream = "open" /\ owed = {} /\ Send("CLSE", 0, dev.id)
    /\ dev' = [dev EXCEPT !.stream = "closed"] /\ UNCHANGED owed

(* A payload reaches the host in pieces no longer than its buffer. *)
DevData ==
    /\ link /\ rem > 0 /\ Len(in) < MaxQueue
    /\ in' = Append(in, DataPkt(Lesser(rem, RBufLen)))
    /\ rem' = rem - Lesser(rem, RBufLen)
    /\ UNCHANGED <<hostVars, out, link, faults, dev, owed>>

Unplug ==
    /\ link /\ link' = FALSE
    /\ UNCHANGED <<hostVars, out, in, faults, devVars>>

Request ==
    \E len \in CallerLens :
        \/ \E n \in Payloads : adb_connect(n, len) \/ adb_auth(n, len)
                               \/ adb_open(n, len)
        \/ adb_stls(len)
        \/ \E id \in StreamIds :
              adb_ready(id, len) \/ adb_close(id, len) \/ \E n \in Payloads : adb_write(id, n, len)

Transfer == SendHeader \/ SendPayload \/ RecvHeader \/ RecvData

Fault == TransferFails \/ SendError \/ RecvHeaderError \/ RecvDataError

Device ==
    \/ DevRecv \/ DevData
    \/ \E n \in DevPayloads :
          DevWrite(n) \/ \E c \in Commands, id \in StreamIds \union {dev.id} : DevReply(c, n, id)
    \/ DevClose

AdbNext == Request \/ Transfer \/ Fault \/ Device \/ Unplug

AdbSpec == AdbInit /\ [][AdbNext]_vars

-----------------------------------------------------------------------------
Response == [length : Nat, code : Codes, dlen : Nat]

(* Every variable has its type. *)
AdbTypeOK ==
    /\ pc \in {"idle", "header", "payload", "reply", "data"}
    /\ req \in [cmd : Commands, n : Nat, id : Nat, len : Nat]
    /\ acc \in Response /\ res \in Response /\ ret \in {-1, 0} /\ copied \in Nat
    /\ out \in Seq(Packet) /\ in \in Seq(Packet)
    /\ link \in BOOLEAN /\ faults \in Nat
    /\ dev \in DevType
    /\ owed \in SUBSET Commands /\ rem \in Nat

(***************************************************************************)
(* Framing.  A pipe is framed when a data packet is exactly the payload of *)
(* the header before it; head is what the packet before the pipe announced *)
(* and the last packet announces what is still to be written.              *)
(***************************************************************************)
Announces(p) == IF p.kind = "head" THEN p.n ELSE 0

Follows(p, n) == IF n > 0 THEN p = DataPkt(n) ELSE p.kind = "head"

Framed(pipe, first, last) ==
    /\ \A i \in DOMAIN pipe :
          Follows(pipe[i], IF i = 1 THEN first ELSE Announces(pipe[i - 1]))
    /\ last = IF pipe = <<>> THEN first ELSE Announces(pipe[Len(pipe)])

(* While no transfer has failed unnoticed, both ends read messages where   *)
(* messages begin: what __send_request decodes as a header is a header,    *)
(* what it appends as data is the whole payload of the header it has just  *)
(* decoded, and the daemon reads each request as it was meant.  It takes   *)
(* several calls for one that reads too little, or too much, to show.      *)
InSync ==
    (link /\ faults = 0) =>
        /\ Framed(in, IF pc = "data" THEN acc.dlen ELSE 0, rem)
        /\ Framed(out, dev.want, IF pc = "payload" THEN req.n ELSE 0)

(* An answer handed to the caller is a whole message: res->length counts   *)
(* the header and all of the payload the header announced.                 *)
WholeReply ==
    (faults = 0 /\ res.code # "other") => res.length = HeaderLen + res.dlen

(* No copy runs past a buffer, faults included: an answer never outgrows   *)
(* __rstream, and the caller gets neither more than its buffer holds nor   *)
(* bytes of __rstream that no packet wrote.                                *)
CopiesInBounds ==
    /\ acc.length <= ResponseBufferLen /\ res.length <= ResponseBufferLen
    /\ (pc = "idle" /\ ret = 0) => copied <= req.len /\ copied <= res.length

=============================================================================
