----------------------------- MODULE Adb_proofs -----------------------------
(***************************************************************************)
(* Proofs about Adb, for any set of payloads, any buffer lengths that the  *)
(* assumption of Adb allows and any number of requests and faults:         *)
(* no copy runs past a buffer, and, when the device's payloads fit one     *)
(* packet, both ends stay in step and every answer is whole.               *)
(***************************************************************************)
EXTENDS Adb, SequenceTheorems, TLAPS

USE DEF DevType, NoStream

-----------------------------------------------------------------------------
(* The strengthenings that make these inductive: the locals of             *)
(* __send_request between two transfers, and what a packet can hold.       *)
Locals ==
    /\ pc # "data" => acc = NoRes
    /\ pc = "data" => acc.dlen > 0 /\ acc.length <= RBufLen
    /\ pc = "payload" => req.n > 0
    /\ \A i \in DOMAIN in : PktLen(in[i]) <= RBufLen

(* The device's payloads fit the one packet the code reads of them. *)
PayloadsFit == \A n \in DevPayloads : n <= RBufLen

Bounds == AdbTypeOK /\ Locals /\ CopiesInBounds

Sync ==
    /\ Bounds /\ InSync /\ WholeReply
    /\ (pc = "data" /\ faults = 0) => acc.length = HeaderLen
    /\ rem <= RBufLen

-----------------------------------------------------------------------------
(* Packets. *)

(* A header packet: its type and length. *)
LEMMA HeadFacts ==
    ASSUME NEW c \in Commands, NEW n \in Nat, NEW id \in Nat
    PROVE  /\ HeadPkt(c, n, id) \in Packet /\ HeadPkt(c, n, id).kind = "head"
           /\ HeadPkt(c, n, id).n = n /\ HeadPkt(c, n, id).id = id /\ PktLen(HeadPkt(c, n, id)) = HeaderLen
BY DEF HeadPkt, Packet, PktLen

(* A payload packet: its type and length. *)
LEMMA DataFacts ==
    ASSUME NEW n \in Nat
    PROVE  /\ DataPkt(n) \in Packet /\ DataPkt(n).kind = "data"
           /\ DataPkt(n).n = n /\ PktLen(DataPkt(n)) = n
BY DEF DataPkt, Packet, PktLen

(* What every packet has. *)
LEMMA PacketFacts ==
    ASSUME NEW p \in Packet, AdbAssumption
    PROVE  /\ p.kind \in {"head", "data"} /\ p.n \in Nat /\ p.id \in Nat /\ PktLen(p) \in Nat
           /\ p.kind = "head" => p.cmd \in Commands /\ PktLen(p) = HeaderLen
           /\ p.kind = "data" => PktLen(p) = p.n
BY DEF Packet, PktLen, AdbAssumption

(* Removing a packet keeps a bound on the packets of a pipe. *)
LEMMA TailBound ==
    ASSUME NEW s \in Seq(Packet), s # <<>>, \A i \in DOMAIN s : PktLen(s[i]) <= RBufLen
    PROVE  /\ Head(s) \in Packet /\ Tail(s) \in Seq(Packet) /\ PktLen(Head(s)) <= RBufLen
           /\ \A i \in DOMAIN Tail(s) : PktLen(Tail(s)[i]) <= RBufLen
<1>1. Head(s) \in Packet /\ Tail(s) \in Seq(Packet) /\ Len(Tail(s)) = Len(s) - 1
      /\ \A i \in 1 .. Len(Tail(s)) : Tail(s)[i] = s[i + 1]
  BY HeadTailProperties
<1>2. Len(s) \in Nat \ {0} /\ DOMAIN s = 1 .. Len(s) /\ DOMAIN Tail(s) = 1 .. Len(Tail(s))
  BY <1>1, EmptySeq, LenProperties
<1>3. Head(s) = s[1] /\ 1 \in DOMAIN s
  BY <1>2
<1>4. \A i \in 1 .. Len(Tail(s)) : i + 1 \in DOMAIN s
  BY <1>1, <1>2
<1> QED
  BY <1>1, <1>2, <1>3, <1>4

(* So does appending a packet within the bound. *)
LEMMA AppendBound ==
    ASSUME NEW s \in Seq(Packet), NEW p \in Packet,
           \A i \in DOMAIN s : PktLen(s[i]) <= RBufLen, PktLen(p) <= RBufLen
    PROVE  /\ Append(s, p) \in Seq(Packet)
           /\ \A i \in DOMAIN Append(s, p) : PktLen(Append(s, p)[i]) <= RBufLen
<1>1. /\ Append(s, p) \in Seq(Packet) /\ Len(Append(s, p)) = Len(s) + 1
      /\ \A i \in 1 .. Len(s) : Append(s, p)[i] = s[i]
      /\ Append(s, p)[Len(s) + 1] = p
  BY AppendProperties
<1>2. Len(s) \in Nat /\ DOMAIN s = 1 .. Len(s) /\ DOMAIN Append(s, p) = 1 .. Len(Append(s, p))
  BY <1>1, LenProperties
<1> QED
  BY <1>1, <1>2

-----------------------------------------------------------------------------
(* Bounds: types and copies, faults included. *)

(* Finish hands over an answer that is within bounds. *)
LEMMA FinishFacts ==
    ASSUME AdbAssumption, AdbTypeOK, NEW a \in Response, a.length <= ResponseBufferLen,
           Finish(a), UNCHANGED req
    PROVE  /\ pc' = "idle" /\ ret' = 0 /\ res' = a /\ acc' = NoRes
           /\ acc' \in Response /\ res' \in Response /\ copied' \in Nat
           /\ acc'.length = 0
           /\ copied' <= req'.len /\ copied' <= res'.length
<1>1. req.len \in Nat /\ a.length \in Nat /\ req' = req
  BY DEF AdbTypeOK, Response
<1>2. NoRes \in Response /\ NoRes.length = 0
  BY DEF NoRes, Response, Codes
<1> QED
  BY <1>1, <1>2 DEF Finish

(* TakeHeader does, or it waits for the payload. *)
LEMMA TakeHeaderFacts ==
    ASSUME AdbAssumption, AdbTypeOK, Locals, pc = "reply", UNCHANGED req,
           NEW k \in Nat, k <= RBufLen, NEW c \in Codes, NEW d \in Nat, TakeHeader(k, c, d)
    PROVE  /\ pc' \in {"idle", "data"} /\ ret' \in {-1, 0} /\ copied' \in Nat
           /\ acc' \in Response /\ res' \in Response
           /\ pc' # "data" => acc' = NoRes
           /\ pc' = "data" => acc' = [length |-> k, code |-> c, dlen |-> d] /\ d > 0 /\ res' = res
           /\ pc' = "idle" => d = 0 /\ res' = [length |-> k, code |-> c, dlen |-> d]
           /\ acc'.length <= RBufLen
           /\ pc' = "idle" => copied' <= req'.len /\ copied' <= res'.length
<1> DEFINE a == [length |-> acc.length + k, code |-> c, dlen |-> d]
<1>1. acc = NoRes /\ acc.length = 0
  BY DEF Locals, NoRes
<1>2. a = [length |-> k, code |-> c, dlen |-> d] /\ a \in Response
      /\ a.length = k /\ a.length <= ResponseBufferLen
  BY <1>1 DEF Response, AdbAssumption
<1>3. CASE d > 0
  BY <1>2, <1>3 DEF TakeHeader, AdbTypeOK
<1>4. CASE ~(d > 0)
  <2>1. Finish(a)
    BY <1>4 DEF TakeHeader
  <2>2. d = 0
    BY <1>4
  <2> HIDE DEF a
  <2>3. /\ pc' = "idle" /\ ret' = 0 /\ res' = a /\ acc' = NoRes
        /\ acc' \in Response /\ res' \in Response /\ copied' \in Nat
        /\ acc'.length = 0 /\ copied' <= req'.len /\ copied' <= res'.length
    BY <1>2, <2>1, FinishFacts
  <2> QED
    BY <1>2, <2>2, <2>3 DEF AdbAssumption
<1> QED
  BY <1>3, <1>4

(* The daemon's state keeps its type whatever it serves. *)
LEMMA ServeType ==
    ASSUME AdbTypeOK, NEW c \in Commands, NEW id \in Nat, Serve(c, id)
    PROVE  /\ owed' \in SUBSET Commands
           /\ dev' \in DevType
<1>1. owed' \in SUBSET Commands
  BY DEF Serve, Answers, Commands
<1>2. QED
  BY <1>1 DEF Serve, AdbTypeOK

(* A new request touches only the request and, if malloc fails, ret. *)
LEMMA HandleBounds ==
    ASSUME AdbAssumption, Bounds, NEW c \in Commands, NEW n \in Nat, NEW id \in Nat, NEW len \in Nat,
           Handle(c, n, id, len)
    PROVE  Bounds'
<1>1. AdbTypeOK'
  BY DEF Handle, Bounds, AdbTypeOK, devVars
<1>2. Locals'
  BY DEF Handle, Bounds, Locals
<1>3. CopiesInBounds'
  BY DEF Handle, Bounds, CopiesInBounds
<1> QED
  BY <1>1, <1>2, <1>3 DEF Bounds

(* All seven requests are instances of Handle. *)
LEMMA RequestIsHandle ==
    ASSUME AdbAssumption, Request
    PROVE  \E c \in Commands, n \in Nat, id \in Nat, len \in Nat : Handle(c, n, id, len)
<1> DEFINE IsHandle == \E c \in Commands, n \in Nat, id \in Nat, len \in Nat : Handle(c, n, id, len)
<1>1. PICK len \in CallerLens :
        \/ \E n \in Payloads : adb_connect(n, len) \/ adb_auth(n, len) \/ adb_open(n, len)
        \/ adb_stls(len)
        \/ \E id \in StreamIds :
              adb_ready(id, len) \/ adb_close(id, len) \/ \E n \in Payloads : adb_write(id, n, len)
  BY DEF Request
<1>2. len \in Nat
  BY DEF AdbAssumption
<1>3. ASSUME NEW n \in Payloads, adb_connect(n, len) \/ adb_auth(n, len) \/ adb_open(n, len)
      PROVE  IsHandle
  BY <1>2, <1>3 DEF adb_connect, adb_auth, adb_open, Commands, AdbAssumption
<1>4. ASSUME adb_stls(len) PROVE IsHandle
  BY <1>2, <1>4 DEF adb_stls, Commands
<1>5. ASSUME NEW id \in StreamIds, adb_ready(id, len) \/ adb_close(id, len) PROVE IsHandle
  BY <1>2, <1>5 DEF adb_ready, adb_close, Commands, AdbAssumption
<1>6. ASSUME NEW id \in StreamIds, NEW n \in Payloads, adb_write(id, n, len) PROVE IsHandle
  BY <1>2, <1>6 DEF adb_write, Commands, AdbAssumption
<1> HIDE DEF IsHandle
<1>7. IsHandle
  BY <1>1, <1>3, <1>4, <1>5, <1>6
<1> QED
  BY <1>7 DEF IsHandle

(* A send, with or without an error. *)
LEMMA SendBounds ==
    ASSUME AdbAssumption, Bounds, SendHeader \/ SendPayload \/ SendError
    PROVE  Bounds'
<1> USE DEF Bounds
<1>1. req.cmd \in Commands /\ req.n \in Nat /\ req.id \in Nat /\ out \in Seq(Packet)
  BY DEF AdbTypeOK
<1>2. /\ Append(out, HeadPkt(req.cmd, req.n, req.id)) \in Seq(Packet)
      /\ Append(out, DataPkt(req.n)) \in Seq(Packet)
      /\ Append(out, DataPkt(1)) \in Seq(Packet)
  BY <1>1, HeadFacts, DataFacts, AppendProperties
<1>3. AdbTypeOK'
  <2>1. out' \in Seq(Packet)
    BY <1>1, <1>2 DEF SendHeader, SendPayload, SendError
  <2>2. pc' \in {"idle", "header", "payload", "reply", "data"} /\ faults' \in Nat
    BY DEF SendHeader, SendPayload, SendError, Broken, AdbTypeOK
  <2>3. UNCHANGED <<req, acc, res, ret, copied, in, link, devVars>>
    BY DEF SendHeader, SendPayload, SendError
  <2> QED
    BY <2>1, <2>2, <2>3 DEF AdbTypeOK, devVars
<1>4. Locals'
  BY <1>1 DEF SendHeader, SendPayload, SendError, Broken, Locals, AdbTypeOK
<1>5. CopiesInBounds'
  BY DEF SendHeader, SendPayload, SendError, CopiesInBounds
<1> QED
  BY <1>3, <1>4, <1>5

(* A step that changes the device's side of the pipes only, and keeps the  *)
(* packets of in within bounds, keeps Bounds.                              *)
LEMMA DeviceBounds ==
    ASSUME Bounds, UNCHANGED <<hostVars, link, faults>>,
           out' \in Seq(Packet), in' \in Seq(Packet), rem' \in Nat,
           owed' \in SUBSET Commands,
           dev' \in DevType,
           \A i \in DOMAIN in' : PktLen(in'[i]) <= RBufLen
    PROVE  Bounds'
<1>1. AdbTypeOK'
  BY DEF Bounds, AdbTypeOK, hostVars
<1>2. Locals' /\ CopiesInBounds'
  BY DEF Bounds, Locals, CopiesInBounds, hostVars, PktLen
<1> QED
  BY <1>1, <1>2 DEF Bounds

(* The first packet of an answer: a header, bytes that are none, or, after *)
(* an error, nothing new.                                                  *)
LEMMA RecvHeaderBounds ==
    ASSUME AdbAssumption, Bounds, RecvHeader \/ RecvHeaderError
    PROVE  Bounds'
<1> USE DEF Bounds
<1>1. /\ pc = "reply" /\ UNCHANGED <<req, out, link, devVars>> /\ faults' \in Nat
      /\ UNCHANGED req
  BY DEF RecvHeader, RecvHeaderError, Broken, AdbTypeOK
<1>2. /\ in' \in Seq(Packet) /\ \A i \in DOMAIN in' : PktLen(in'[i]) <= RBufLen
      /\ \E k \in Nat, c \in Codes, d \in Nat : k <= RBufLen /\ TakeHeader(k, c, d)
  <2>1. CASE RecvHeader
    <3>1. in \in Seq(Packet) /\ in # <<>> /\ \A i \in DOMAIN in : PktLen(in[i]) <= RBufLen
      BY <2>1 DEF RecvHeader, AdbTypeOK, Locals
    <3>2. /\ Head(in) \in Packet /\ Tail(in) \in Seq(Packet) /\ PktLen(Head(in)) <= RBufLen
          /\ \A i \in DOMAIN Tail(in) : PktLen(Tail(in)[i]) <= RBufLen
      BY <3>1, TailBound
    <3>3. in' = Tail(in)
      BY <2>1 DEF RecvHeader
    <3>4. CASE Head(in).kind = "head"
      <4>1. Head(in).cmd \in Codes /\ Head(in).n \in Nat /\ HeaderLen <= RBufLen /\ HeaderLen \in Nat
        BY <3>2, <3>4, PacketFacts DEF Codes, AdbAssumption
      <4>2. TakeHeader(HeaderLen, Head(in).cmd, Head(in).n)
        BY <2>1, <3>4 DEF RecvHeader
      <4> QED
        BY <3>2, <3>3, <4>1, <4>2
    <3>5. CASE Head(in).kind # "head"
      <4>1. Head(in).n \in Nat /\ Head(in).n <= RBufLen
        BY <3>2, <3>5, PacketFacts
      <4>2. PICK c \in Garbled, d \in {0, 1} : TakeHeader(Head(in).n, c, d)
        BY <2>1, <3>5 DEF RecvHeader
      <4>3. c \in Codes /\ d \in Nat
        BY <4>2 DEF AdbAssumption
      <4> QED
        BY <3>2, <3>3, <4>1, <4>2, <4>3
    <3> QED
      BY <3>4, <3>5
  <2>2. CASE RecvHeaderError
    <3>1. PICK c \in Garbled, d \in {0, 1} : TakeHeader(0, c, d)
      BY <2>2 DEF RecvHeaderError
    <3>2. c \in Codes /\ d \in Nat /\ 0 <= RBufLen
      BY <3>1 DEF AdbAssumption
    <3>3. in' = in
      BY <2>2 DEF RecvHeaderError
    <3> QED
      BY <3>1, <3>2, <3>3 DEF AdbTypeOK, Locals
  <2> QED
    BY <2>1, <2>2
<1>3. PICK k \in Nat, c \in Codes, d \in Nat : k <= RBufLen /\ TakeHeader(k, c, d)
  BY <1>2
<1>4. /\ pc' \in {"idle", "data"} /\ ret' \in {-1, 0} /\ copied' \in Nat
      /\ acc' \in Response /\ res' \in Response
      /\ pc' # "data" => acc' = NoRes
      /\ pc' = "data" => acc' = [length |-> k, code |-> c, dlen |-> d] /\ d > 0 /\ res' = res
      /\ pc' = "idle" => d = 0 /\ res' = [length |-> k, code |-> c, dlen |-> d]
      /\ acc'.length <= RBufLen
      /\ pc' = "idle" => copied' <= req'.len /\ copied' <= res'.length
  BY <1>1, <1>3, TakeHeaderFacts
<1>5. AdbTypeOK'
  BY <1>1, <1>2, <1>4 DEF AdbTypeOK, devVars
<1>6. Locals'
  BY <1>2, <1>4 DEF Locals, PktLen
<1>7. CopiesInBounds'
  <2>1. RBufLen <= ResponseBufferLen /\ RBufLen \in Nat /\ ResponseBufferLen \in Nat
    BY DEF AdbAssumption
  <2>2. acc'.length \in Nat /\ res'.length \in Nat
    BY <1>4 DEF Response
  <2>3. acc'.length <= ResponseBufferLen
    BY <1>4, <2>1, <2>2
  <2>4. res'.length <= ResponseBufferLen
    BY <1>3, <1>4, <2>1 DEF CopiesInBounds
  <2> QED
    BY <1>4, <2>3, <2>4 DEF CopiesInBounds
<1> QED
  BY <1>5, <1>6, <1>7

(* The payload of an answer, or what an error leaves of it. *)
LEMMA RecvDataBounds ==
    ASSUME AdbAssumption, Bounds, RecvData \/ RecvDataError
    PROVE  Bounds'
<1> USE DEF Bounds
<1>0. faults \in Nat
  BY DEF AdbTypeOK
<1>1. /\ pc = "data" /\ UNCHANGED <<req, out, link, devVars>> /\ faults' \in Nat
      /\ UNCHANGED req
  BY <1>0 DEF RecvData, RecvDataError, Broken
<1>2. acc.length \in Nat /\ acc.length <= RBufLen /\ acc \in Response
      /\ in \in Seq(Packet) /\ \A i \in DOMAIN in : PktLen(in[i]) <= RBufLen
  BY <1>1 DEF AdbTypeOK, Locals, Response
<1>3. /\ in' \in Seq(Packet) /\ \A i \in DOMAIN in' : PktLen(in'[i]) <= RBufLen
      /\ \E k \in Nat : k <= RBufLen /\ Finish([acc EXCEPT !.length = @ + k])
  <2>1. CASE RecvData
    <3>1. in # <<>> /\ in' = Tail(in) /\ Finish([acc EXCEPT !.length = @ + PktLen(Head(in))])
      BY <2>1 DEF RecvData
    <3>2. /\ Head(in) \in Packet /\ Tail(in) \in Seq(Packet) /\ PktLen(Head(in)) <= RBufLen
          /\ \A i \in DOMAIN Tail(in) : PktLen(Tail(in)[i]) <= RBufLen
      BY <1>2, <3>1, TailBound
    <3>3. PktLen(Head(in)) \in Nat
      BY <3>2, PacketFacts
    <3> QED
      BY <3>1, <3>2, <3>3
  <2>2. CASE RecvDataError
    <3>1. acc = [acc EXCEPT !.length = @ + 0]
      BY <1>2 DEF Response
    <3>2. in' = in /\ Finish(acc)
      BY <2>2 DEF RecvDataError
    <3>3. Finish([acc EXCEPT !.length = @ + 0])
      BY <3>1, <3>2
    <3>4. 0 \in Nat /\ 0 <= RBufLen
      BY DEF AdbAssumption
    <3>5. \E k \in Nat : k <= RBufLen /\ Finish([acc EXCEPT !.length = @ + k])
      BY <3>3, <3>4
    <3>6. in' \in Seq(Packet) /\ \A i \in DOMAIN in' : PktLen(in'[i]) <= RBufLen
      BY <1>2, <3>2
    <3> QED
      BY <3>5, <3>6
  <2> QED
    BY <2>1, <2>2
<1>4. PICK k \in Nat : k <= RBufLen /\ Finish([acc EXCEPT !.length = @ + k])
  BY <1>3
<1> DEFINE a == [acc EXCEPT !.length = @ + k]
<1>5. a \in Response /\ a.length <= ResponseBufferLen
  <2>1. acc.length + k \in Nat /\ acc.length + k <= ResponseBufferLen
    BY <1>2, <1>4 DEF Response, AdbAssumption
  <2> QED
    BY <1>2, <2>1 DEF Response
<1>6. Finish(a)
  BY <1>4
<1> HIDE DEF a
<1>7. /\ pc' = "idle" /\ ret' = 0 /\ res' = a /\ acc' = NoRes
      /\ acc' \in Response /\ res' \in Response /\ copied' \in Nat /\ acc'.length = 0
      /\ copied' <= req'.len /\ copied' <= res'.length
  BY <1>1, <1>5, <1>6, FinishFacts
<1>8. AdbTypeOK'
  BY <1>1, <1>3, <1>7 DEF AdbTypeOK, devVars
<1>9. Locals'
  BY <1>3, <1>7 DEF Locals, PktLen
<1>10. CopiesInBounds'
  BY <1>5, <1>7 DEF CopiesInBounds, AdbAssumption
<1> QED
  BY <1>8, <1>9, <1>10

(* A call that returns -1 leaves the caller's response as it was. *)
LEMMA FailBounds ==
    ASSUME AdbAssumption, Bounds, TransferFails
    PROVE  Bounds'
<1> USE DEF Bounds
<1>1. NoRes \in Response /\ NoRes.length = 0
  BY DEF NoRes, Response, Codes
<1>2. pc' = "idle" /\ ret' = -1 /\ acc' = NoRes /\ faults' \in Nat
      /\ UNCHANGED <<req, res, copied, out, in, link, devVars>>
  BY DEF TransferFails, Broken, AdbTypeOK
<1>3. AdbTypeOK'
  BY <1>1, <1>2 DEF AdbTypeOK, devVars
<1>4. Locals'
  BY <1>2 DEF Locals, PktLen
<1>5. CopiesInBounds'
  BY <1>1, <1>2 DEF CopiesInBounds, AdbAssumption
<1> QED
  BY <1>3, <1>4, <1>5

(* The daemon's steps. *)
LEMMA DevBounds ==
    ASSUME AdbAssumption, Bounds, Device
    PROVE  Bounds'
<1>1. /\ in \in Seq(Packet) /\ out \in Seq(Packet) /\ rem \in Nat /\ dev \in DevType
      /\ owed \in SUBSET Commands /\ RBufLen \in Nat /\ dev.id \in Nat
      /\ \A i \in DOMAIN in : PktLen(in[i]) <= RBufLen
  BY DEF Bounds, AdbTypeOK, Locals, AdbAssumption
<1>2. CASE DevRecv
  <2>1. out # <<>> /\ out' = Tail(out) /\ UNCHANGED <<hostVars, in, link, faults, rem>>
    BY <1>2 DEF DevRecv
  <2>2. Head(out) \in Packet /\ out' \in Seq(Packet)
    BY <1>1, <2>1, HeadTailProperties
  <2>3. Head(out).n \in Nat /\ Head(out).id \in Nat /\ (Head(out).kind = "head" => Head(out).cmd \in Commands)
        /\ dev.cmd \in Commands /\ dev.to \in Nat
    BY <1>1, <2>2, PacketFacts
  <2>4. owed' \in SUBSET Commands /\ dev' \in DevType
    <3>1. ASSUME NEW c \in Commands, NEW id \in Nat, Serve(c, id)
          PROVE  owed' \in SUBSET Commands /\ dev' \in DevType
      BY <3>1, ServeType DEF Bounds
    <3>2. ASSUME Head(out).kind = "head",
                 dev' = [dev EXCEPT !.want = Head(out).n, !.cmd = Head(out).cmd, !.to = Head(out).id], UNCHANGED owed
          PROVE  owed' \in SUBSET Commands /\ dev' \in DevType
      BY <1>1, <2>3, <3>2
    <3>3. ASSUME dev' = [dev EXCEPT !.want = 0], UNCHANGED owed
          PROVE  owed' \in SUBSET Commands /\ dev' \in DevType
      BY <1>1, <3>3
    <3> QED
      BY <1>2, <2>3, <3>1, <3>2, <3>3 DEF DevRecv
  <2> QED
    BY <1>1, <2>1, <2>2, <2>4, DeviceBounds
<1>3. CASE DevData
  <2> DEFINE m == Lesser(rem, RBufLen)
  <2>1. m \in Nat /\ m <= RBufLen /\ rem - m \in Nat
    BY <1>1 DEF Lesser
  <2>2. in' = Append(in, DataPkt(m)) /\ rem' = rem - m
        /\ UNCHANGED <<hostVars, out, link, faults, dev, owed>>
    BY <1>3 DEF DevData
  <2>3. DataPkt(m) \in Packet /\ PktLen(DataPkt(m)) <= RBufLen
    BY <2>1, DataFacts
  <2> HIDE DEF m
  <2>4. in' \in Seq(Packet) /\ \A i \in DOMAIN in' : PktLen(in'[i]) <= RBufLen
    BY <1>1, <2>2, <2>3, AppendBound
  <2> QED
    BY <1>1, <2>1, <2>2, <2>4, DeviceBounds
<1>4. ASSUME NEW c \in Commands, NEW n \in Nat, NEW id \in Nat, Send(c, n, id),
             owed' \in SUBSET Commands, dev' \in DevType
      PROVE  Bounds'
  <2>1. in' = Append(in, HeadPkt(c, n, id)) /\ rem' = n /\ UNCHANGED <<hostVars, out, link, faults>>
    BY <1>4 DEF Send
  <2>2. HeadPkt(c, n, id) \in Packet /\ PktLen(HeadPkt(c, n, id)) <= RBufLen
    BY HeadFacts DEF AdbAssumption
  <2>3. in' \in Seq(Packet) /\ \A i \in DOMAIN in' : PktLen(in'[i]) <= RBufLen
    BY <1>1, <2>1, <2>2, AppendBound
  <2> QED
    BY <1>1, <1>4, <2>1, <2>3, DeviceBounds
<1>5. ASSUME NEW n \in DevPayloads, DevWrite(n) PROVE Bounds'
  <2>1. Send("WRTE", n, dev.id) /\ owed' \in SUBSET Commands /\ dev' \in DevType
    BY <1>1, <1>5 DEF DevWrite
  <2> QED
    BY <1>1, <1>4, <2>1 DEF Commands, AdbAssumption
<1>6. ASSUME NEW n \in DevPayloads, NEW c \in Commands, NEW id \in StreamIds \union {dev.id}, DevReply(c, n, id)
      PROVE  Bounds'
  <2>1. Send(c, n, id) /\ owed' \in SUBSET Commands
    BY <1>6 DEF DevReply
  <2>2. dev' \in DevType
    <3>1. CASE dev.cmd = "OPEN" /\ c = "OKAY"
      <4>1. id \in Nat /\ dev' = [dev EXCEPT !.stream = "open", !.id = id, !.credit = TRUE]
        BY <1>6, <3>1 DEF DevReply, AdbAssumption
      <4> QED
        BY <1>1, <4>1
    <3>2. CASE ~(dev.cmd = "OPEN" /\ c = "OKAY")
      BY <1>1, <1>6, <3>2 DEF DevReply
    <3> QED
      BY <3>1, <3>2
  <2> QED
    BY <1>1, <1>4, <2>1, <2>2 DEF AdbAssumption
<1>7. CASE DevClose
  <2>1. Send("CLSE", 0, dev.id) /\ owed' \in SUBSET Commands /\ dev' \in DevType
    BY <1>1, <1>7 DEF DevClose
  <2> QED
    BY <1>1, <1>4, <2>1 DEF Commands
<1> QED
  BY <1>2, <1>3, <1>5, <1>6, <1>7 DEF Device

(* Every step keeps Bounds. *)
LEMMA BoundsStep ==
    ASSUME AdbAssumption, Bounds, [AdbNext]_vars
    PROVE  Bounds'
<1>1. CASE Request
  BY <1>1, RequestIsHandle, HandleBounds
<1>2. CASE Transfer
  BY <1>2, SendBounds, RecvHeaderBounds, RecvDataBounds DEF Transfer
<1>3. CASE Fault
  BY <1>3, FailBounds, SendBounds, RecvHeaderBounds, RecvDataBounds DEF Fault
<1>4. CASE Device
  BY <1>4, DevBounds
<1>5. CASE Unplug
  BY <1>5 DEF Unplug, Bounds, AdbTypeOK, Locals, CopiesInBounds, hostVars, devVars, PktLen
<1>6. CASE UNCHANGED vars
  BY <1>6 DEF Bounds, AdbTypeOK, Locals, CopiesInBounds, vars, hostVars, devVars, PktLen
<1> QED
  BY <1>1, <1>2, <1>3, <1>4, <1>5, <1>6 DEF AdbNext

(* The initial state is within bounds. *)
LEMMA BoundsInit ==
    ASSUME AdbAssumption, AdbInit
    PROVE  Bounds
<1>1. NoRes \in Response /\ NoRes.length = 0
  BY DEF NoRes, Response, Codes
<1>2. in \in Seq(Packet) /\ out \in Seq(Packet)
  BY EmptySeq DEF AdbInit
<1>3. AdbTypeOK
  BY <1>1, <1>2 DEF AdbInit, AdbTypeOK, Commands
<1> QED
  BY <1>1, <1>3 DEF AdbInit, Bounds, Locals, CopiesInBounds, AdbAssumption

(* Types and copies are right in every reachable state. *)
THEOREM BoundsHold == AdbSpec => []Bounds
<1> USE AdbAssumption
<1>1. AdbInit => Bounds
  BY BoundsInit
<1>2. Bounds /\ [AdbNext]_vars => Bounds'
  BY BoundsStep
<1> QED
  BY <1>1, <1>2, PTL DEF AdbSpec

(* Type correctness. *)
THEOREM AdbTypeCorrect == AdbSpec => []AdbTypeOK
<1>1. Bounds => AdbTypeOK
  BY DEF Bounds
<1> QED
  BY <1>1, BoundsHold, PTL

(* Whatever the device sends and whichever transfers fail, no copy of      *)
(* __send_request or __handle_request runs past a buffer.                  *)
THEOREM NoOverrun == AdbSpec => []CopiesInBounds
<1>1. Bounds => CopiesInBounds
  BY DEF Bounds
<1> QED
  BY <1>1, BoundsHold, PTL

-----------------------------------------------------------------------------
(* Framing. *)

(* A packet that follows what the pipe announces extends a framed pipe. *)
LEMMA FramedAppend ==
    ASSUME NEW s \in Seq(Packet), NEW p \in Packet, NEW first \in Nat, NEW last \in Nat,
           Framed(s, first, last), Follows(p, last)
    PROVE  Framed(Append(s, p), first, Announces(p))
<1> DEFINE t == Append(s, p)
<1>1. /\ t \in Seq(Packet) /\ Len(t) = Len(s) + 1 /\ t # <<>>
      /\ \A i \in 1 .. Len(s) : t[i] = s[i]
      /\ t[Len(s) + 1] = p
  BY AppendProperties
<1>2. Len(s) \in Nat /\ DOMAIN s = 1 .. Len(s) /\ DOMAIN t = 1 .. Len(s) + 1
      /\ (s = <<>> => Len(s) = 0) /\ (s # <<>> => Len(s) > 0)
  BY <1>1, LenProperties, EmptySeq
<1> HIDE DEF t
<1>3. ASSUME NEW i \in DOMAIN t
      PROVE  Follows(t[i], IF i = 1 THEN first ELSE Announces(t[i - 1]))
  <2>1. CASE i \in DOMAIN s
    <3>1. t[i] = s[i] /\ (i # 1 => t[i - 1] = s[i - 1])
      BY <1>1, <1>2, <2>1
    <3>2. Follows(s[i], IF i = 1 THEN first ELSE Announces(s[i - 1]))
      BY <2>1 DEF Framed
    <3> QED
      BY <3>1, <3>2
  <2>2. CASE i \notin DOMAIN s
    <3>1. i = Len(s) + 1 /\ t[i] = p
      BY <1>1, <1>2, <1>3, <2>2
    <3>2. CASE s = <<>>
      <4>1. i = 1 /\ last = first
        BY <1>2, <3>1, <3>2 DEF Framed
      <4> QED
        BY <3>1, <4>1
    <3>3. CASE s # <<>>
      <4>1. i # 1 /\ i - 1 = Len(s) /\ t[i - 1] = s[Len(s)]
        BY <1>1, <1>2, <3>1, <3>3
      <4>2. last = Announces(s[Len(s)])
        BY <3>3 DEF Framed
      <4> QED
        BY <3>1, <4>1, <4>2
    <3> QED
      BY <3>2, <3>3
  <2> QED
    BY <2>1, <2>2
<1>4. Announces(p) = IF t = <<>> THEN first ELSE Announces(t[Len(t)])
  BY <1>1
<1>5. Framed(t, first, Announces(p))
  BY <1>3, <1>4 DEF Framed
<1> QED
  BY <1>5 DEF t

(* The first packet of a framed pipe follows what came before, and the     *)
(* rest is framed by what that packet announces.                           *)
LEMMA FramedTail ==
    ASSUME NEW s \in Seq(Packet), s # <<>>, NEW first \in Nat, NEW last \in Nat,
           Framed(s, first, last)
    PROVE  Follows(Head(s), first) /\ Framed(Tail(s), Announces(Head(s)), last)
<1> DEFINE t == Tail(s)
<1>1. t \in Seq(Packet) /\ Len(t) = Len(s) - 1 /\ \A i \in 1 .. Len(t) : t[i] = s[i + 1]
  BY HeadTailProperties
<1>2. Len(s) \in Nat \ {0} /\ DOMAIN s = 1 .. Len(s) /\ DOMAIN t = 1 .. Len(t)
      /\ (t = <<>> => Len(t) = 0) /\ (t # <<>> => Len(t) > 0) /\ Len(t) \in Nat
  BY <1>1, LenProperties, EmptySeq
<1>3. Head(s) = s[1] /\ 1 \in DOMAIN s
  BY <1>2
<1>4. \A i \in DOMAIN s : Follows(s[i], IF i = 1 THEN first ELSE Announces(s[i - 1]))
  BY DEF Framed
<1>5. Follows(Head(s), first)
  BY <1>3, <1>4
<1> HIDE DEF t
<1>6. ASSUME NEW i \in DOMAIN t
      PROVE  Follows(t[i], IF i = 1 THEN Announces(Head(s)) ELSE Announces(t[i - 1]))
  <2>1. i \in 1 .. Len(t) /\ i + 1 \in DOMAIN s /\ t[i] = s[i + 1] /\ i + 1 # 1
    BY <1>1, <1>2
  <2>2. Follows(s[i + 1], Announces(s[i]))
    <3>1. (i + 1) - 1 = i
      BY <2>1
    <3> QED
      BY <1>4, <2>1, <3>1
  <2>3. i # 1 => t[i - 1] = s[i]
    <3>1. i # 1 => i - 1 \in 1 .. Len(t) /\ (i - 1) + 1 = i
      BY <1>2, <2>1
    <3> QED
      BY <1>1, <3>1
  <2> QED
    BY <1>3, <2>1, <2>2, <2>3
<1>7. last = IF t = <<>> THEN Announces(Head(s)) ELSE Announces(t[Len(t)])
  <2>1. last = Announces(s[Len(s)])
    BY DEF Framed
  <2>2. CASE t = <<>>
    BY <1>1, <1>2, <1>3, <2>1, <2>2
  <2>3. CASE t # <<>>
    <3>1. t[Len(t)] = s[Len(s)]
      BY <1>1, <1>2, <2>3
    <3> QED
      BY <2>1, <2>3, <3>1
  <2> QED
    BY <2>2, <2>3
<1>8. Framed(t, Announces(Head(s)), last)
  BY <1>6, <1>7 DEF Framed
<1> QED
  BY <1>5, <1>8 DEF t

(* What follows an announced payload is that payload; otherwise a header. *)
LEMMA FollowsFacts ==
    ASSUME NEW p \in Packet, NEW n \in Nat, Follows(p, n)
    PROVE  /\ n > 0 => p = DataPkt(n) /\ p.kind = "data" /\ PktLen(p) = n /\ Announces(p) = 0
           /\ n = 0 => p.kind = "head" /\ Announces(p) = p.n
BY DataFacts DEF Follows, Announces

(* What Sync adds to Bounds, apart from the framing of the pipes. *)
Whole ==
    /\ WholeReply /\ rem <= RBufLen
    /\ (pc = "data" /\ faults = 0) => acc.length = HeaderLen

(* The facts about a state the steps below start from. *)
LEMMA SyncFacts ==
    ASSUME AdbAssumption, Sync
    PROVE  /\ Bounds /\ InSync /\ Whole
           /\ in \in Seq(Packet) /\ out \in Seq(Packet) /\ rem \in Nat /\ dev.want \in Nat
           /\ acc \in Response /\ acc.dlen \in Nat /\ acc.length \in Nat
           /\ req.cmd \in Commands /\ req.n \in Nat /\ req.id \in Nat /\ dev.id \in Nat /\ faults \in Nat
           /\ pc # "data" => acc = NoRes
           /\ pc = "data" => acc.dlen > 0
           /\ pc = "payload" => req.n > 0
           /\ RBufLen \in Nat /\ HeaderLen \in Nat
BY DEF Sync, Whole, Bounds, AdbTypeOK, Locals, Response, AdbAssumption

(* A request starts from a pipe with nothing of another request in it. *)
LEMMA HandleSync ==
    ASSUME AdbAssumption, Sync, NEW c \in Commands, NEW n \in Nat, NEW id \in Nat, NEW len \in Nat,
           Handle(c, n, id, len)
    PROVE  InSync' /\ Whole'
<1>1. /\ pc = "idle" /\ pc' \in {"header", "idle"}
      /\ UNCHANGED <<acc, res, out, in, link, faults, dev, rem>>
  BY DEF Handle, devVars
<1> QED
  BY <1>1, SyncFacts DEF InSync, Whole, WholeReply, Framed, Follows, Announces, DataPkt

(* What is sent is what was announced. *)
LEMMA SendSync ==
    ASSUME AdbAssumption, Sync, SendHeader \/ SendPayload
    PROVE  InSync' /\ Whole'
<1>1. /\ pc \in {"header", "payload"} /\ pc' \in {"payload", "reply"}
      /\ UNCHANGED <<req, acc, res, in, link, faults, dev, rem>>
  BY DEF SendHeader, SendPayload, devVars
<1>2. Whole'
  BY <1>1, SyncFacts DEF Whole, WholeReply
<1>3. ASSUME link, faults = 0
      PROVE  Framed(out', dev.want, IF pc' = "payload" THEN req.n ELSE 0)
  <2>1. Framed(out, dev.want, IF pc = "payload" THEN req.n ELSE 0)
    BY <1>3, SyncFacts DEF InSync
  <2>2. CASE SendHeader
    <3> DEFINE p == HeadPkt(req.cmd, req.n, req.id)
    <3>1. p \in Packet /\ p.kind = "head" /\ p.n = req.n
      <4>1. req.cmd \in Commands /\ req.n \in Nat /\ req.id \in Nat
        BY SyncFacts
      <4> QED
        BY <4>1, HeadFacts
    <3>2. Follows(p, 0) /\ Announces(p) = req.n
      BY <3>1 DEF Follows, Announces
    <3>3. Framed(out, dev.want, 0) /\ out' = Append(out, p)
          /\ req.n = IF pc' = "payload" THEN req.n ELSE 0
      BY <2>1, <2>2, SyncFacts DEF SendHeader
    <3> HIDE DEF p
    <3>4. Framed(Append(out, p), dev.want, Announces(p))
      BY <3>1, <3>2, <3>3, SyncFacts, FramedAppend
    <3> QED
      BY <3>2, <3>3, <3>4
  <2>3. CASE SendPayload
    <3> DEFINE p == DataPkt(req.n)
    <3>1. p \in Packet /\ p.kind = "data" /\ req.n > 0
      BY <2>3, SyncFacts, DataFacts DEF SendPayload
    <3>2. Follows(p, req.n) /\ Announces(p) = 0
      BY <3>1 DEF Follows, Announces
    <3>3. Framed(out, dev.want, req.n) /\ out' = Append(out, p) /\ pc' = "reply"
      BY <2>1, <2>3 DEF SendPayload
    <3> HIDE DEF p
    <3>4. Framed(Append(out, p), dev.want, Announces(p))
      BY <3>1, <3>2, <3>3, SyncFacts, FramedAppend
    <3> QED
      BY <3>2, <3>3, <3>4
  <2> QED
    BY <2>2, <2>3
<1>4. InSync'
  BY <1>1, <1>3, SyncFacts DEF InSync, Framed, Follows, Announces, DataPkt
<1> QED
  BY <1>2, <1>4

(* With faults counted, nothing is claimed of a step that breaks off. *)
LEMMA FaultSync ==
    ASSUME AdbAssumption, Sync, Fault
    PROVE  InSync' /\ Whole'
<1>1. faults \in Nat /\ UNCHANGED rem
  BY SyncFacts DEF Fault, TransferFails, SendError, RecvHeaderError, RecvDataError, devVars
<1>2. CASE faults' = faults + 1
  BY <1>1, <1>2, SyncFacts DEF InSync, Whole, WholeReply
<1>3. CASE faults' # faults + 1
  <2>1. /\ TransferFails /\ (link => pc = "header") /\ pc' = "idle" /\ pc # "idle"
        /\ UNCHANGED <<faults, req, res, out, in, link, dev>>
    BY <1>3 DEF Fault, TransferFails, SendError, RecvHeaderError, RecvDataError, Broken, devVars
  <2>2. Whole'
    BY <1>1, <2>1, SyncFacts DEF Whole, WholeReply
  <2>3. InSync'
    BY <1>1, <2>1, SyncFacts DEF InSync, Framed, Follows, Announces, DataPkt
  <2> QED
    BY <2>2, <2>3
<1> QED
  BY <1>2, <1>3

(* What is decoded as a header is one, and the data after it is its own. *)
LEMMA RecvSync ==
    ASSUME AdbAssumption, Sync, RecvHeader \/ RecvData
    PROVE  InSync' /\ Whole'
<1> DEFINE first == IF pc = "data" THEN acc.dlen ELSE 0
<1>1. /\ in # <<>> /\ in' = Tail(in) /\ link /\ pc \in {"reply", "data"}
      /\ UNCHANGED <<req, out, link, faults, dev, rem>>
  BY DEF RecvHeader, RecvData, devVars
<1>2. pc' \in {"data", "idle"}
  BY DEF RecvHeader, RecvData, TakeHeader, Finish
<1>3. first \in Nat /\ (pc = "reply" => first = 0) /\ (pc = "data" => first > 0)
  BY <1>1, SyncFacts
<1>4. CASE faults # 0
  BY <1>1, <1>4, SyncFacts DEF InSync, Whole, WholeReply
<1>5. CASE faults = 0
  <2>1. Framed(in, first, rem) /\ Framed(out, dev.want, 0)
    BY <1>1, <1>5, SyncFacts DEF InSync
  <2> HIDE DEF first
  <2>2. /\ Head(in) \in Packet /\ Follows(Head(in), first)
        /\ Framed(Tail(in), Announces(Head(in)), rem)
    BY <1>1, <1>3, <2>1, SyncFacts, FramedTail, HeadTailProperties
  <2>3. CASE RecvHeader
    <3>1. Head(in).kind = "head" /\ Announces(Head(in)) = Head(in).n /\ Head(in).n \in Nat
          /\ Head(in).cmd \in Commands
      BY <1>3, <2>2, <2>3, FollowsFacts, PacketFacts DEF RecvHeader
    <3>2. TakeHeader(HeaderLen, Head(in).cmd, Head(in).n) /\ pc = "reply"
      BY <2>3, <3>1 DEF RecvHeader
    <3>3. acc = NoRes /\ acc.length = 0
      BY <3>2, SyncFacts DEF NoRes
    <3>4. \/ /\ pc' = "data" /\ Head(in).n > 0 /\ acc'.length = HeaderLen
             /\ acc'.dlen = Head(in).n /\ res' = res
          \/ /\ pc' = "idle" /\ Head(in).n = 0
             /\ res'.length = HeaderLen /\ res'.dlen = 0
      BY <3>1, <3>2, <3>3, SyncFacts DEF TakeHeader, Finish
    <3>5. Whole'
      BY <1>1, <3>4, SyncFacts DEF Whole, WholeReply
    <3>6. Announces(Head(in)) = IF pc' = "data" THEN acc'.dlen ELSE 0
      BY <3>1, <3>4
    <3>7. InSync'
      <4>1. Framed(in', IF pc' = "data" THEN acc'.dlen ELSE 0, rem')
        BY <1>1, <2>2, <3>6
      <4>2. Framed(out', dev'.want, IF pc' = "payload" THEN req'.n ELSE 0)
        BY <1>1, <1>2, <2>1
      <4> QED
        BY <4>1, <4>2 DEF InSync, Framed, Follows, Announces
    <3> QED
      BY <3>5, <3>7
  <2>4. CASE RecvData
    <3>1. pc = "data" /\ acc.length = HeaderLen /\ first = acc.dlen
      BY <1>5, <2>4, SyncFacts DEF RecvData, Whole, first
    <3>2. PktLen(Head(in)) = acc.dlen /\ Announces(Head(in)) = 0
      BY <1>3, <2>2, <3>1, FollowsFacts
    <3>3. pc' = "idle" /\ res' = [acc EXCEPT !.length = @ + PktLen(Head(in))]
      BY <2>4 DEF RecvData, Finish
    <3>4. res'.length = HeaderLen + acc.dlen /\ res'.dlen = acc.dlen
      BY <3>1, <3>2, <3>3, SyncFacts DEF Response
    <3>5. Whole'
      BY <1>1, <3>3, <3>4, SyncFacts DEF Whole, WholeReply
    <3>6. InSync'
      <4>1. Framed(in', IF pc' = "data" THEN acc'.dlen ELSE 0, rem')
        BY <1>1, <2>2, <3>2, <3>3
      <4>2. Framed(out', dev'.want, IF pc' = "payload" THEN req'.n ELSE 0)
        BY <1>1, <2>1, <3>3
      <4> QED
        BY <4>1, <4>2 DEF InSync, Framed, Follows, Announces
    <3> QED
      BY <3>5, <3>6
  <2> QED
    BY <2>3, <2>4
<1> QED
  BY <1>4, <1>5

(* The daemon sends whole messages, and reads them where they begin. *)
LEMMA DeviceSync ==
    ASSUME AdbAssumption, PayloadsFit, Sync, Device
    PROVE  InSync' /\ Whole'
<1> DEFINE first == IF pc = "data" THEN acc.dlen ELSE 0
           last == IF pc = "payload" THEN req.n ELSE 0
<1>1. UNCHANGED <<hostVars, link, faults>>
  BY DEF Device, DevRecv, DevData, DevWrite, DevReply, DevClose, Send
<1>2. first \in Nat /\ last \in Nat
  BY SyncFacts
<1>3. rem' \in Nat /\ rem' <= RBufLen => Whole'
  BY <1>1, SyncFacts DEF Whole, WholeReply, hostVars
<1>4. CASE ~(link /\ faults = 0)
  <2>1. InSync'
    BY <1>1, <1>4 DEF InSync
  <2>2. rem' \in Nat /\ rem' <= RBufLen
    <3>1. link
      BY DEF Device, DevRecv, DevData, DevWrite, DevReply, DevClose, Send
    <3>2. rem' = rem \/ rem' = rem - Lesser(rem, RBufLen) \/ rem' \in DevPayloads \/ rem' = 0
      BY DEF Device, DevRecv, DevData, DevWrite, DevReply, DevClose, Send
    <3>3. rem \in Nat /\ rem <= RBufLen /\ RBufLen \in Nat
      BY SyncFacts DEF Whole
    <3>4. CASE rem' = rem - Lesser(rem, RBufLen)
      <4>1. Lesser(rem, RBufLen) \in 0..rem
        BY <3>3 DEF Lesser
      <4> HIDE DEF Lesser
      <4> QED
        BY <3>3, <3>4, <4>1
    <3>5. CASE rem' \in DevPayloads
      BY <3>5 DEF PayloadsFit, AdbAssumption
    <3> QED
      BY <3>2, <3>3, <3>4, <3>5
  <2> QED
    BY <1>3, <2>1, <2>2
<1>5. CASE link /\ faults = 0
  <2>1. Framed(in, first, rem) /\ Framed(out, dev.want, last) /\ rem <= RBufLen
    BY <1>5, SyncFacts DEF InSync, Whole
  <2>2. ASSUME Framed(in', first, rem'), Framed(out', dev'.want, last) PROVE InSync'
    <3>1. first = (IF pc' = "data" THEN acc'.dlen ELSE 0) /\ last = (IF pc' = "payload" THEN req'.n ELSE 0)
      BY <1>1 DEF hostVars
    <3> HIDE DEF first, last
    <3> QED
      BY <2>2, <3>1 DEF InSync, Framed, Follows, Announces, DataPkt
  <2> HIDE DEF first, last
  <2>3. ASSUME NEW c \in Commands, NEW n \in Nat, NEW id \in Nat, n <= RBufLen, Send(c, n, id), dev'.want = dev.want
        PROVE  InSync' /\ Whole'
    <3> DEFINE p == HeadPkt(c, n, id)
    <3>1. p \in Packet /\ Follows(p, 0) /\ Announces(p) = n
      BY HeadFacts DEF Follows, Announces
    <3>2. rem = 0 /\ in' = Append(in, p) /\ rem' = n /\ out' = out
      BY <2>3 DEF Send
    <3> HIDE DEF p
    <3>3. Framed(Append(in, p), first, Announces(p))
      BY <1>2, <2>1, <3>1, <3>2, SyncFacts, FramedAppend
    <3> QED
      BY <1>3, <2>1, <2>2, <2>3, <3>1, <3>2, <3>3
  <2>4. CASE DevData
    <3> DEFINE p == DataPkt(rem)
    <3>1. Lesser(rem, RBufLen) = rem /\ rem > 0
      BY <2>1, <2>4, SyncFacts DEF Lesser, DevData
    <3>2. in' = Append(in, p) /\ rem' = 0 /\ out' = out /\ dev' = dev
      BY <2>4, <3>1, SyncFacts DEF DevData
    <3>3. p \in Packet /\ Follows(p, rem) /\ Announces(p) = 0
      BY <3>1, SyncFacts, DataFacts DEF Follows, Announces
    <3> HIDE DEF p
    <3>4. Framed(Append(in, p), first, Announces(p))
      BY <1>2, <2>1, <3>3, SyncFacts, FramedAppend
    <3>5. rem' \in Nat /\ rem' <= RBufLen
      BY <3>2, SyncFacts
    <3> QED
      BY <1>3, <2>1, <2>2, <3>2, <3>3, <3>4, <3>5
  <2>5. CASE DevRecv
    <3>1. out # <<>> /\ out' = Tail(out) /\ in' = in /\ rem' = rem
      BY <2>5 DEF DevRecv
    <3>2. /\ Head(out) \in Packet /\ Follows(Head(out), dev.want)
          /\ Framed(Tail(out), Announces(Head(out)), last)
      BY <1>2, <2>1, <3>1, SyncFacts, FramedTail, HeadTailProperties
    <3>3. Head(out).n \in Nat
      BY <3>2, PacketFacts
    <3>4. CASE dev.want = 0
      <4>1. Head(out).kind = "head" /\ Announces(Head(out)) = Head(out).n
        BY <3>2, <3>4, SyncFacts, FollowsFacts
      <4>2. dev'.want = Head(out).n
        <5>1. dev \in DevType
          BY SyncFacts DEF Bounds, AdbTypeOK
        <5>2. \/ dev' = [dev EXCEPT !.want = Head(out).n, !.cmd = Head(out).cmd, !.to = Head(out).id]
              \/ Head(out).n = 0 /\ dev'.want = 0
          <6>1. CASE Head(out).n > 0
            BY <2>5, <3>4, <4>1, <6>1 DEF DevRecv
          <6>2. CASE Head(out).n = 0 /\ Serve(Head(out).cmd, Head(out).id)
            BY <5>1, <6>2 DEF Serve
          <6>3. Head(out).n > 0 \/ (Head(out).n = 0 /\ Serve(Head(out).cmd, Head(out).id))
            BY <2>5, <3>4, <4>1 DEF DevRecv
          <6> QED
            BY <6>1, <6>2, <6>3
        <5> QED
          BY <5>1, <5>2
      <4> QED
        BY <1>3, <2>1, <2>2, <3>1, <3>2, <4>1, <4>2, SyncFacts
    <3>5. CASE dev.want > 0
      <4>1. Head(out).kind = "data" /\ Announces(Head(out)) = 0
        BY <3>2, <3>5, SyncFacts, FollowsFacts
      <4>2. dev'.want = 0
        <5>1. dev \in DevType
          BY SyncFacts DEF Bounds, AdbTypeOK
        <5> QED
          BY <2>5, <3>5, <4>1, <5>1 DEF DevRecv, Serve
      <4> QED
        BY <1>3, <2>1, <2>2, <3>1, <3>2, <4>1, <4>2, SyncFacts
    <3> QED
      BY <3>4, <3>5, SyncFacts
  <2>6. ASSUME NEW n \in DevPayloads, 
           DevWrite(n) \/ \E c \in Commands, id \in StreamIds \union {dev.id} : DevReply(c, n, id)
        PROVE  InSync' /\ Whole'
    <3>1. n \in Nat /\ n <= RBufLen
      BY DEF PayloadsFit, AdbAssumption
    <3>2. \E c \in Commands, id \in Nat : Send(c, n, id)
      BY <2>6, SyncFacts DEF DevWrite, DevReply, Commands, Bounds, AdbTypeOK, AdbAssumption
    <3>3. dev'.want = dev.want
      <4>1. dev \in DevType
        BY SyncFacts DEF Bounds, AdbTypeOK
      <4> QED
        BY <2>6, <4>1 DEF DevWrite, DevReply
    <3> QED
      BY <2>3, <3>1, <3>2, <3>3
  <2>7. CASE DevClose
    <3>1. Send("CLSE", 0, dev.id) /\ "CLSE" \in Commands /\ 0 <= RBufLen
      BY <2>7, SyncFacts DEF DevClose, Commands
    <3>2. dev'.want = dev.want
      <4>1. dev \in DevType
        BY SyncFacts DEF Bounds, AdbTypeOK
      <4> QED
        BY <2>7, <4>1 DEF DevClose
    <3> QED
      BY <2>3, <3>1, <3>2, SyncFacts
  <2> QED
    BY <2>4, <2>5, <2>6, <2>7 DEF Device
<1> QED
  BY <1>4, <1>5

(* Every step keeps Sync, if payloads fit one packet. *)
LEMMA SyncStep ==
    ASSUME AdbAssumption, PayloadsFit, Sync, [AdbNext]_vars
    PROVE  Sync'
<1>1. Bounds'
  BY SyncFacts, BoundsStep
<1>2. CASE Request
  BY <1>1, <1>2, RequestIsHandle, HandleSync DEF Sync, Whole
<1>3. CASE Transfer
  BY <1>1, <1>3, SendSync, RecvSync DEF Sync, Whole, Transfer
<1>4. CASE Fault
  BY <1>1, <1>4, FaultSync DEF Sync, Whole
<1>5. CASE Device
  BY <1>1, <1>5, DeviceSync DEF Sync, Whole
<1>6. CASE Unplug
  BY <1>1, <1>6 DEF Unplug, Sync, InSync, WholeReply, hostVars, devVars
<1>7. CASE UNCHANGED vars
  BY <1>1, <1>7 DEF Sync, InSync, WholeReply, Framed, Follows, Announces, DataPkt, vars, hostVars, devVars
<1> QED
  BY <1>2, <1>3, <1>4, <1>5, <1>6, <1>7 DEF AdbNext

(* Sync is an inductive invariant of the client on such a device. *)
THEOREM SyncHolds == ASSUME PayloadsFit PROVE AdbSpec => []Sync
<1> USE AdbAssumption, PayloadsFit
<1>1. AdbInit => Sync
  <2> SUFFICES ASSUME AdbInit PROVE Sync
    OBVIOUS
  <2>1. Bounds
    BY BoundsInit
  <2>2. Framed(<<>>, 0, 0)
    BY DEF Framed
  <2> QED
    BY <2>1, <2>2 DEF AdbInit, Sync, InSync, WholeReply, NoRes, AdbAssumption
<1>2. Sync /\ [AdbNext]_vars => Sync'
  BY SyncStep
<1> QED
  BY <1>1, <1>2, PTL DEF AdbSpec

(* If no payload of the device is longer than __rbuffer, then, until a     *)
(* transfer breaks off, both ends read messages where messages begin.      *)
THEOREM StaysInSync == ASSUME PayloadsFit PROVE AdbSpec => []InSync
<1>1. AdbSpec => []Sync
  BY SyncHolds
<1>2. Sync => InSync
  BY DEF Sync
<1> QED
  BY <1>1, <1>2, PTL

(* And what __handle_request gives the caller is one whole message.        *)
THEOREM RepliesWhole == ASSUME PayloadsFit PROVE AdbSpec => []WholeReply
<1>1. AdbSpec => []Sync
  BY SyncHolds
<1>2. Sync => WholeReply
  BY DEF Sync
<1> QED
  BY <1>1, <1>2, PTL

=============================================================================
