----------------------------- MODULE Ptp_proofs -----------------------------
(***************************************************************************)
(* Proofs about Ptp, for any data sets, buffers and transaction numbers    *)
(* and any number of operations: until a transfer breaks off, a call       *)
(* returns with the response and the whole data of its own transaction,    *)
(* leaves nothing in the pipes, and does not wait for a responder that     *)
(* waits for it, the one operation and the block sizes excepted for which  *)
(* the code does.  So an operation is a remote procedure call.             *)
(***************************************************************************)
EXTENDS Ptp, SequenceTheorems, TLAPS

-----------------------------------------------------------------------------
(***************************************************************************)
(* What makes these inductive: where a transaction stands, while no        *)
(* transfer has broken off.  A packet of an answer is known by how many    *)
(* come after it.                                                          *)
(***************************************************************************)
(* The arguments an operation can have. *)
CallOK ==
    /\ call.code \in DataIn => call.len \in Nat
    /\ call.phases = 2 => call.code \in DataOut
    /\ call.code \in DataOut => call.phases = 2 \/ call.op = "SetDevicePropValue"

Drained == out = <<>> /\ in = <<>> /\ tosend = <<>> /\ dev.state = "cmd"

Outgoing(kind) == Packet(kind, HeaderLen, HeaderLen, call.tid, call.code)

(* The command is sent, and the data block if it has one, and the          *)
(* responder has not yet decided on an answer.                             *)
Commanded ==
    LET data == IF call.phases = 2 /\ pc = "recv" THEN <<Outgoing("data")>> ELSE <<>>
    IN  /\ in = <<>> /\ tosend = <<>> /\ offset = 0
        /\ pc = "data" => call.phases = 2
        /\ \/ dev.state = "cmd" /\ out = <<Outgoing("command")>> \o data
           \/ dev.state = "data" /\ dev.tid = call.tid /\ call.code \in DataOut /\ out = data

Full == dev.total \div RBufLen     \* full packets of the data block

(* p is the packet of the answer that d packets follow. *)
Sends(p, d) ==
    IF d = 0
    THEN /\ p.kind = "response" /\ p.n = HeaderLen /\ p.tid = call.tid
         /\ p.code = "OK" /\ call.code \in DataIn => dev.total > 0
    ELSE p = Packet(IF d = Full + 1 THEN "data" ELSE "rest",
                    IF d = 1 THEN dev.total % RBufLen ELSE RBufLen,
                    dev.total, call.tid, "none")

ToCome == Len(in) + Len(tosend)

Coming ==
    /\ \A i \in DOMAIN in : Sends(in[i], ToCome - i)
    /\ \A i \in DOMAIN tosend : Sends(tosend[i], Len(tosend) - i)

(* The bytes of the data block in the last d packets of an answer. *)
BytesIn(d) == IF d <= 1 THEN 0 ELSE (dev.total % RBufLen) + RBufLen * (d - 2)

HasData == dev.total > 0 /\ call.code \in DataIn

(* Nothing of the answer is received. *)
AtStart ==
    /\ pc = "recv" /\ offset = 0
    /\ \/ ToCome = 1 /\ (call.code \in DataIn => dev.total = 0)
       \/ ToCome = Full + 2 /\ HasData

(* A part of the data block is. *)
InBlock ==
    /\ pc = "more" /\ HasData /\ ToCome >= 2
    /\ block = [total |-> dev.total, left |-> BytesIn(ToCome)]
    /\ block.left > 0 /\ offset = dev.total - block.left

(* All of it is; the response comes next, or an empty packet before it. *)
AfterBlock ==
    /\ pc = "recv" /\ HasData
    /\ res.length = dev.total /\ offset = dev.total
    /\ rb.total = dev.total /\ rb.kind = IF ToCome = Full + 1 THEN "data" ELSE "rest"
    /\ ToCome = 1 \/ (ToCome = 2 /\ dev.total % RBufLen = 0)

(* The empty packet was taken for another block. *)
Astray ==
    /\ pc \in {"recv", "more"} /\ HasData /\ dev.total = RBufLen
    /\ ToCome = 0 \/ (ToCome = 1 /\ pc = "more" /\ offset = dev.total)

Answering ==
    /\ out = <<>> /\ dev.state = "cmd" /\ Coming
    /\ AtStart \/ InBlock \/ AfterBlock \/ Astray

Transaction ==
    /\ pc = "idle" =>
          /\ Drained
          /\ Answered => res.tid = call.tid
          /\ (Answered /\ call.code \in DataIn /\ res.code = "OK")
                => res.length = offset /\ offset = dev.total /\ copied <= call.len
    /\ pc = "command" => Drained /\ offset = 0
    /\ pc = "data" => Commanded
    /\ pc = "recv" => Commanded \/ Answering
    /\ pc = "more" => Answering
    /\ pc = "undefined" => out = <<>> /\ (TooLong \/ FillsSeveral)

IInv ==
    /\ TypeOK /\ CallOK /\ dev.total \in Datasets \union {0}
    /\ link /\ faults = 0 => Transaction

-----------------------------------------------------------------------------
(* Sequences of packets. *)

(* The elements of the rest of a pipe. *)
LEMMA TailElements ==
    ASSUME NEW S, NEW s \in Seq(S), s # <<>>
    PROVE  /\ Tail(s) \in Seq(S) /\ Head(s) = s[1] /\ 1 \in DOMAIN s /\ s[1] \in S
           /\ Len(s) \in Nat \ {0} /\ Len(Tail(s)) = Len(s) - 1
           /\ \A i \in DOMAIN Tail(s) : i + 1 \in DOMAIN s /\ Tail(s)[i] = s[i + 1] /\ i \in Nat
<1>1. Tail(s) \in Seq(S) /\ Len(Tail(s)) = Len(s) - 1
      /\ \A i \in 1 .. Len(Tail(s)) : Tail(s)[i] = s[i + 1]
  BY HeadTailProperties
<1>2. Len(s) \in Nat \ {0} /\ DOMAIN s = 1 .. Len(s) /\ DOMAIN Tail(s) = 1 .. Len(Tail(s))
  BY <1>1, EmptySeq, LenProperties
<1>3. Head(s) = s[1] /\ 1 \in DOMAIN s
  BY <1>2
<1>4. \A i \in 1 .. Len(Tail(s)) : i + 1 \in DOMAIN s
  BY <1>1, <1>2
<1>5. s[1] \in S
  BY <1>3
<1> QED
  BY <1>1, <1>2, <1>3, <1>4, <1>5

(* The elements of an extended pipe. *)
LEMMA AppendElements ==
    ASSUME NEW S, NEW s \in Seq(S), NEW e \in S
    PROVE  /\ Append(s, e) \in Seq(S) /\ Len(Append(s, e)) = Len(s) + 1 /\ Len(s) \in Nat
           /\ \A i \in DOMAIN Append(s, e) :
                 \/ i \in DOMAIN s /\ Append(s, e)[i] = s[i]
                 \/ i = Len(s) + 1 /\ Append(s, e)[i] = e
<1>1. /\ Append(s, e) \in Seq(S) /\ Len(Append(s, e)) = Len(s) + 1
      /\ \A i \in 1 .. Len(s) : Append(s, e)[i] = s[i]
      /\ Append(s, e)[Len(s) + 1] = e
  BY AppendProperties
<1>2. Len(s) \in Nat /\ DOMAIN s = 1 .. Len(s) /\ DOMAIN Append(s, e) = 1 .. Len(s) + 1
  BY <1>1, LenProperties
<1> QED
  BY <1>1, <1>2

(* A packet has the type of packets. *)
LEMMA PacketType ==
    ASSUME NEW k \in Kinds, NEW n \in Nat, NEW total \in Nat, NEW tid \in Int, NEW code \in Codes
    PROVE  /\ Packet(k, n, total, tid, code) \in Packets
           /\ Packet(k, n, total, tid, code).kind = k /\ Packet(k, n, total, tid, code).n = n
           /\ Packet(k, n, total, tid, code).total = total
           /\ Packet(k, n, total, tid, code).tid = tid /\ Packet(k, n, total, tid, code).code = code
BY DEF Packet, Packets

(* A response is one packet. *)
LEMMA ResponseFacts ==
    ASSUME PtpAssumption, NEW tid \in Int, NEW code \in Codes
    PROVE  /\ Response(tid, code) \in Seq(Packets) /\ Len(Response(tid, code)) = 1
           /\ DOMAIN Response(tid, code) = {1} /\ Response(tid, code) # <<>>
           /\ Response(tid, code)[1] \in Packets
           /\ Response(tid, code)[1].kind = "response" /\ Response(tid, code)[1].n = HeaderLen
           /\ Response(tid, code)[1].tid = tid /\ Response(tid, code)[1].code = code
<1> DEFINE p == Packet("response", HeaderLen, HeaderLen, tid, code)
<1>1. /\ p \in Packets /\ p.kind = "response" /\ p.n = HeaderLen /\ p.tid = tid /\ p.code = code
  BY PacketType DEF PtpAssumption, Kinds
<1>2. Response(tid, code) = <<p>>
  BY DEF Response
<1> HIDE DEF p
<1> QED
  BY <1>1, <1>2

(* The answer with a data block, and its packets as d packets follow them. *)
Answer(tid, total) == Blocks(tid, total) \o Response(tid, "OK")
FullPackets(total) == total \div RBufLen
BlockPacket(d, tid, total) ==
    Packet(IF d = FullPackets(total) + 1 THEN "data" ELSE "rest",
           IF d = 1 THEN total % RBufLen ELSE RBufLen, total, tid, "none")

(* The packets of a data block and the response after it, counted from the *)
(* end.                                                                    *)
LEMMA AnswerFacts ==
    ASSUME PtpAssumption, NEW tid \in Int, NEW total \in Nat
    PROVE  /\ FullPackets(total) \in Nat /\ Answer(tid, total) \in Seq(Packets)
           /\ Len(Answer(tid, total)) = FullPackets(total) + 2
           /\ Answer(tid, total)[FullPackets(total) + 2] = Response(tid, "OK")[1]
           /\ \A i \in 1 .. FullPackets(total) + 1 :
                 Answer(tid, total)[i] = BlockPacket(FullPackets(total) + 2 - i, tid, total)
<1> DEFINE full == FullPackets(total)
           b == Blocks(tid, total)
           r == Response(tid, "OK")
           e(i) == Packet(IF i = 1 THEN "data" ELSE "rest",
                          IF i <= full THEN RBufLen ELSE total % RBufLen,
                          total, tid, "none")
<1>1. full \in Nat /\ total % RBufLen \in Nat /\ RBufLen \in Nat
  BY DEF PtpAssumption, FullPackets
<1>2. b = [i \in 1 .. full + 1 |-> e(i)]
  BY DEF Blocks, FullPackets
<1>3. \A i \in 1 .. full + 1 : e(i) \in Packets
  <2> TAKE i \in 1 .. full + 1
  <2> DEFINE k == IF i = 1 THEN "data" ELSE "rest"
             n == IF i <= full THEN RBufLen ELSE total % RBufLen
  <2>1. k \in Kinds
    BY DEF Kinds
  <2>2. n \in Nat
    BY <1>1
  <2>3. e(i) = Packet(k, n, total, tid, "none")
    OBVIOUS
  <2>4. "none" \in Codes
    BY DEF Codes
  <2> HIDE DEF k, n, e
  <2>5. Packet(k, n, total, tid, "none") \in Packets
    BY <2>1, <2>2, <2>4, PacketType
  <2> QED
    BY <2>3, <2>5
<1>4. \A i \in 1 .. full + 1 : e(i) = BlockPacket(full + 2 - i, tid, total)
  <2>1. \A i \in 1 .. full + 1 : (i = 1 <=> full + 2 - i = full + 1) /\ (i <= full <=> full + 2 - i # 1)
    BY <1>1
  <2> QED
    BY <1>1, <2>1 DEF BlockPacket
<1>5. r \in Seq(Packets) /\ Len(r) = 1
  BY ResponseFacts DEF Codes
<1> HIDE DEF full, b, r, e
<1>6. b \in Seq(Packets) /\ Len(b) = full + 1 /\ \A i \in 1 .. full + 1 : b[i] = e(i)
  BY <1>1, <1>2, <1>3
<1>7. /\ b \o r \in Seq(Packets) /\ Len(b \o r) = full + 2
      /\ \A i \in 1 .. full + 1 : (b \o r)[i] = b[i]
      /\ (b \o r)[full + 2] = r[1]
  <2>1. /\ b \o r \in Seq(Packets) /\ Len(b \o r) = Len(b) + Len(r)
        /\ \A i \in 1 .. Len(b) + Len(r) : (b \o r)[i] = IF i <= Len(b) THEN b[i] ELSE r[i - Len(b)]
    BY <1>5, <1>6, ConcatProperties
  <2> QED
    BY <1>1, <1>5, <1>6, <2>1
<1> QED
  BY <1>1, <1>4, <1>6, <1>7 DEF full, b, r, Answer

-----------------------------------------------------------------------------
(* Types. *)

(* An operation that starts a call, with arguments it can have. *)
StartsCall ==
    \E op \in Names, code \in Codes, tid \in Nat, len \in Nat \union {NoBuf}, phases \in {1, 2} :
        /\ Begin(op, code, tid, len, phases)
        /\ code \in DataIn => len \in Nat
        /\ phases = 2 => code \in DataOut
        /\ code \in DataOut => phases = 2 \/ op = "SetDevicePropValue"

(* An operation without a data phase, for its arguments. *)
LEMMA PlainStarts ==
    ASSUME NEW op \in Names, NEW code \in Codes, NEW tid \in Nat,
           code \notin DataIn, code \notin DataOut, Begin(op, code, tid, NoBuf, 1)
    PROVE  StartsCall
<1> DEFINE len == NoBuf
           phases == 1
<1>1. /\ len \in Nat \union {NoBuf} /\ phases \in {1, 2} /\ phases # 2
      /\ Begin(op, code, tid, len, phases)
  OBVIOUS
<1> HIDE DEF len, phases
<1> QED
  BY <1>1 DEF StartsCall

(* An operation that receives data, or the one that should send some. *)
LEMMA AskStarts ==
    ASSUME PtpAssumption, NEW c \in DataIn \union {"DeleteObject", "SetDevicePropValue"},
           NEW len \in CallerLens, Ask(c, len)
    PROVE  StartsCall
<1>1. PICK tid \in Tids : Begin(c, c, tid, len, 1)
  BY DEF Ask
<1>2. c \in Names /\ c \in Codes /\ tid \in Nat /\ len \in Nat
  BY DEF PtpAssumption, Names, Codes, DataOut
<1>3. c \in DataOut => c = "SetDevicePropValue"
  BY DEF DataIn, DataOut
<1> QED
  BY <1>1, <1>2, <1>3 DEF StartsCall

(* An operation without a data phase. *)
LEMMA TellStarts ==
    ASSUME PtpAssumption, NEW c \in Codes \ (DataIn \union DataOut), Tell(c)
    PROVE  StartsCall
<1>1. PICK tid \in Tids : Begin(c, c, tid, NoBuf, 1)
  BY DEF Tell, Ask
<1>2. c \in Names /\ tid \in Nat
  BY DEF PtpAssumption, Names
<1> QED
  BY <1>1, <1>2, PlainStarts

(* An operation that sends data. *)
LEMMA SubmitStarts ==
    ASSUME PtpAssumption, NEW c \in DataOut, Submit(c)
    PROVE  StartsCall
<1>1. PICK tid \in Tids : Begin(c, c, tid, NoBuf, 2)
  BY DEF Submit
<1>2. c \in Names /\ c \in Codes /\ tid \in Nat /\ c \notin DataIn
  BY DEF PtpAssumption, Names, Codes, DataIn, DataOut
<1> QED
  BY <1>1, <1>2 DEF StartsCall

(* Every operation starts a call, or is the one that is not implemented. *)
LEMMA OperationStarts ==
    ASSUME PtpAssumption, Operation
    PROVE  StartsCall \/ ptp_initiate_capture
<1>1. ASSUME NEW len \in CallerLens,
             \/ ptp_get_device_info(len) \/ ptp_get_storage_id(len) \/ ptp_get_storage_info(len)
             \/ ptp_get_object_handles(len) \/ ptp_get_object_info(len) \/ ptp_get_object(len)
             \/ ptp_get_thumb(len) \/ ptp_delete_object(len) \/ ptp_get_device_prop_desc(len)
             \/ ptp_get_device_prop_value(len) \/ ptp_set_device_prop_value(len)
             \/ ptp_get_partial_object(len)
      PROVE  StartsCall
  <2>1. PICK c \in DataIn \union {"DeleteObject", "SetDevicePropValue"} : Ask(c, len)
    BY <1>1 DEF DataIn, ptp_get_device_info, ptp_get_storage_id, ptp_get_storage_info,
       ptp_get_object_handles, ptp_get_object_info, ptp_get_object, ptp_get_thumb,
       ptp_delete_object, ptp_get_device_prop_desc, ptp_get_device_prop_value,
       ptp_set_device_prop_value, ptp_get_partial_object
  <2> QED
    BY <2>1, AskStarts
<1>2. ASSUME \/ ptp_close_session \/ ptp_get_num_objects \/ ptp_reset_device \/ ptp_self_test
             \/ ptp_set_object_protection \/ ptp_power_down \/ ptp_reset_device_prop_value
             \/ ptp_terminate_open_capture \/ ptp_move_object \/ ptp_copy_object
             \/ ptp_initiate_open_capture
      PROVE  StartsCall
  <2>1. PICK c \in Codes \ (DataIn \union DataOut) : Tell(c)
    BY <1>2 DEF Codes, DataIn, DataOut, ptp_close_session, ptp_get_num_objects,
       ptp_reset_device, ptp_self_test, ptp_set_object_protection, ptp_power_down,
       ptp_reset_device_prop_value, ptp_terminate_open_capture, ptp_move_object,
       ptp_copy_object, ptp_initiate_open_capture
  <2> QED
    BY <2>1, TellStarts
<1>3. ASSUME ptp_send_object_info \/ ptp_send_object PROVE StartsCall
  <2>1. PICK c \in DataOut : Submit(c)
    BY <1>3 DEF DataOut, ptp_send_object_info, ptp_send_object
  <2> QED
    BY <2>1, SubmitStarts
<1>4. ASSUME ptp_open_session PROVE StartsCall
  <2>1. "OpenSession" \in Names /\ "OpenSession" \in Codes
        /\ "OpenSession" \notin DataIn /\ "OpenSession" \notin DataOut
    BY DEF Names, Codes, DataIn, DataOut
  <2> QED
    BY <1>4, <2>1, PlainStarts DEF ptp_open_session
<1>5. ASSUME ptp_format_store PROVE StartsCall
  <2>1. PICK tid \in Tids : Begin("FormatStore", "DeleteObject", tid, NoBuf, 1)
    BY <1>5 DEF ptp_format_store
  <2>2. "FormatStore" \in Names /\ "DeleteObject" \in Codes /\ tid \in Nat
        /\ "DeleteObject" \notin DataIn /\ "DeleteObject" \notin DataOut
    BY DEF PtpAssumption, Names, Codes, DataIn, DataOut
  <2> QED
    BY <2>1, <2>2, PlainStarts
<1> QED
  BY <1>1, <1>2, <1>3, <1>4, <1>5 DEF Operation

(* The values a packet without content gives. *)
LEMMA NoPacketType == NoPacket \in Packets /\ NoBlock \in [total : Nat, left : Int]
<1>1. "none" \in Kinds /\ "none" \in Codes /\ NoTid \in Int
  BY DEF Kinds, Codes, NoTid
<1> QED
  BY <1>1, PacketType DEF NoPacket, NoBlock

(* Taking over a packet's bytes stays inside __rstream. *)
LEMMA CopyType ==
    ASSUME PtpAssumption, TypeOK, NEW k \in Nat, NEW total \in Nat, NEW left \in Int,
           Copy(k, total, left)
    PROVE  /\ pc' \in {"undefined", "recv", "more"} /\ block' \in [total : Nat, left : Int]
           /\ offset' \in 0 .. ResponseBufferLen /\ res' \in [length : Nat, code : Codes, tid : Int]
<1>1. offset \in 0 .. ResponseBufferLen /\ ResponseBufferLen \in Nat
      /\ block \in [total : Nat, left : Int] /\ res \in [length : Nat, code : Codes, tid : Int]
  BY DEF TypeOK, PtpAssumption
<1>2. CASE offset + k > ResponseBufferLen
  BY <1>1, <1>2 DEF Copy
<1>3. CASE ~(offset + k > ResponseBufferLen)
  BY <1>1, <1>3 DEF Copy
<1> QED
  BY <1>2, <1>3

(* A response ends the call. *)
LEMMA RespondType ==
    ASSUME PtpAssumption, TypeOK, NEW p \in Packets, Respond(p)
    PROVE  /\ pc' = "idle" /\ rb' \in Packets /\ block' \in [total : Nat, left : Int]
           /\ offset' = offset /\ res' \in [length : Nat, code : Codes, tid : Int]
           /\ ret' = 0 /\ copied' \in Nat
<1>1. p.code \in Codes /\ p.tid \in Int /\ res \in [length : Nat, code : Codes, tid : Int]
      /\ call.len \in Nat \union {NoBuf} /\ res.length \in Nat
  BY DEF Packets, TypeOK
<1>2. copied' \in Nat
  <2>1. CASE call.len = NoBuf
    BY <2>1 DEF Respond
  <2>2. CASE call.len # NoBuf
    BY <2>2, <1>1 DEF Respond, Lesser
  <2> QED
    BY <2>1, <2>2
<1> QED
  BY <1>1, <1>2, NoPacketType DEF Respond, Forget

(* A turn of the outer loop, whatever it decodes. *)
LEMMA DecodeType ==
    ASSUME PtpAssumption, TypeOK, NEW p \in Packets, NEW k \in Nat, Decode(p, k)
    PROVE  /\ pc' \in {"idle", "recv", "more", "undefined"} /\ rb' \in Packets
           /\ block' \in [total : Nat, left : Int] /\ offset' \in 0 .. ResponseBufferLen
           /\ res' \in [length : Nat, code : Codes, tid : Int] /\ ret' \in {-1, 0} /\ copied' \in Nat
<1>1. CASE p.kind = "data" /\ Copy(k, p.total, p.total) /\ rb' = p /\ UNCHANGED <<ret, copied>>
  <2>1. p.total \in Nat
    BY DEF Packets
  <2> QED
    BY <1>1, <2>1, CopyType DEF TypeOK
<1>2. CASE p.kind = "response" /\ Respond(p)
  BY <1>2, RespondType DEF TypeOK
<1>3. CASE NoHeader(p)
  BY <1>3 DEF NoHeader, TypeOK
<1> QED
  BY <1>1, <1>2, <1>3 DEF Decode

(* What the responder decides on has the type of packets. *)
LEMMA DevCommandType ==
    ASSUME PtpAssumption, TypeOK, dev.total \in Datasets \union {0}, DevCommand
    PROVE  /\ tosend' \in Seq(Packets) /\ dev'.total \in Datasets \union {0}
           /\ dev' \in [session : BOOLEAN, state : {"cmd", "data"}, tid : Int, total : Nat]
<1> DEFINE c == Head(out).code
           t == Head(out).tid
           D == [session : BOOLEAN, state : {"cmd", "data"}, tid : Int, total : Nat]
<1>1. dev \in D /\ tosend \in Seq(Packets)
  BY DEF TypeOK
<1>2. c \in Codes /\ t \in Int
  <2>1. out \in Seq(Packets) /\ out # <<>>
    BY DEF TypeOK, DevCommand
  <2> QED
    <3>1. Head(out) \in Packets
      BY <2>1, TailElements
    <3> QED
      BY <3>1 DEF Packets
<1>3. "OK" \in Codes /\ "Error" \in Codes
  BY DEF Codes
<1> HIDE DEF c, t
<1>4. CASE UNCHANGED devVars
  BY <1>4, <1>1 DEF devVars
<1>5. CASE dev' = [dev EXCEPT !.state = "data", !.tid = t] /\ UNCHANGED tosend
  BY <1>5, <1>1, <1>2
<1>6. CASE Refuse(t)
  BY <1>6, <1>1, <1>2, <1>3, ResponseFacts DEF Refuse
<1>7. CASE \E total \in Datasets :
              /\ tosend' = Blocks(t, total) \o Response(t, "OK")
              /\ dev' = [dev EXCEPT !.total = total]
  <2>1. PICK total \in Datasets : /\ tosend' = Blocks(t, total) \o Response(t, "OK")
                                  /\ dev' = [dev EXCEPT !.total = total]
    BY <1>7
  <2>2. total \in Nat
    BY DEF PtpAssumption
  <2>3. tosend' \in Seq(Packets)
    BY <2>1, <2>2, <1>2, <1>3, AnswerFacts DEF Answer
  <2> QED
    BY <2>1, <2>2, <2>3, <1>1
<1>8. CASE /\ tosend' = Response(t, "OK")
           /\ dev' = [dev EXCEPT !.total = 0,
                                 !.session = c \notin {"CloseSession", "ResetDevice", "PowerDown"}]
  <2>1. tosend' \in Seq(Packets)
    BY <1>8, <1>2, <1>3, ResponseFacts
  <2> DEFINE b == c \notin {"CloseSession", "ResetDevice", "PowerDown"}
  <2>2. b \in BOOLEAN /\ dev' = [dev EXCEPT !.total = 0, !.session = b]
    BY <1>8
  <2> HIDE DEF b
  <2> QED
    BY <2>1, <2>2, <1>1
<1> QED
  BY <1>4, <1>5, <1>6, <1>7, <1>8 DEF DevCommand, c, t

(* No step leaves the types, or gives a call arguments it cannot have. *)
LEMMA BasicStep ==
    ASSUME PtpAssumption, TypeOK, CallOK, dev.total \in Datasets \union {0}, [Next]_vars
    PROVE  TypeOK' /\ CallOK' /\ dev'.total \in Datasets \union {0}
<1> USE DEF TypeOK
<1>1. /\ HeaderLen \in Nat /\ Datasets \subseteq Nat /\ ResponseBufferLen \in Nat
      /\ "none" \in Names /\ "none" \in Codes /\ "InitiateCapture" \in Names
      /\ NoTid \in Int /\ 0 \in 0 .. ResponseBufferLen
      /\ "none" \notin DataIn /\ "none" \notin DataOut
  BY DEF PtpAssumption, Names, Codes, NoTid, DataIn, DataOut
<1>2. CASE StartsCall
  <2>1. PICK op \in Names, code \in Codes, tid \in Nat, len \in Nat \union {NoBuf}, phases \in {1, 2} :
           /\ Begin(op, code, tid, len, phases)
           /\ code \in DataIn => len \in Nat
           /\ phases = 2 => code \in DataOut
           /\ code \in DataOut => phases = 2 \/ op = "SetDevicePropValue"
    BY <1>2 DEF StartsCall
  <2>2. CallOK'
    BY <2>1 DEF Begin, CallOK
  <2>3. call' \in [op : Names, code : Codes, tid : Int, len : Nat \union {NoBuf}, phases : 0 .. 2]
    BY <2>1 DEF Begin
  <2>4. /\ pc' \in {"command"} /\ rb' \in Packets /\ block' \in [total : Nat, left : Int]
        /\ offset' = 0 /\ res' \in [length : Nat, code : Codes, tid : Int]
    BY <2>1, <1>1, NoPacketType DEF Begin
  <2>5. UNCHANGED <<ret, copied, out, in, link, faults, dev, tosend>>
    BY <2>1 DEF Begin, devVars
  <2> QED
    BY <2>2, <2>3, <2>4, <2>5, <1>1
<1>3. CASE ptp_initiate_capture
  <2>1. CallOK'
    BY <1>3, <1>1 DEF ptp_initiate_capture, CallOK
  <2>2. call' \in [op : Names, code : Codes, tid : Int, len : Nat \union {NoBuf}, phases : 0 .. 2]
    BY <1>3, <1>1 DEF ptp_initiate_capture
  <2> QED
    BY <1>3, <2>1, <2>2 DEF ptp_initiate_capture, devVars
<1>4. ASSUME call' = call PROVE CallOK'
  BY <1>4 DEF CallOK
<1>5. CASE SendCommand
  <2>1. Packet("command", HeaderLen, HeaderLen, call.tid, call.code) \in Packets
    BY <1>1, PacketType DEF Kinds
  <2> QED
    BY <1>4, <1>5, <2>1 DEF SendCommand, devVars
<1>6. CASE SendData
  <2>1. Packet("data", HeaderLen, HeaderLen, call.tid, call.code) \in Packets
    BY <1>1, PacketType DEF Kinds
  <2> QED
    BY <1>4, <1>6, <2>1 DEF SendData, devVars
<1>7. ASSUME link, in # <<>> PROVE Received(Head(in)) \in Packets /\ Head(in).n \in Nat /\ Tail(in) \in Seq(Packets)
  <2>1. Head(in) \in Packets /\ Tail(in) \in Seq(Packets)
    BY <1>7, TailElements
  <2> QED
    BY <2>1 DEF Received, Packets
<1>8. CASE RecvBlock
  BY <1>4, <1>7, <1>8, DecodeType DEF RecvBlock, devVars
<1>9. CASE RecvMore
  BY <1>4, <1>7, <1>9, CopyType DEF RecvMore, devVars
<1>10. CASE SendFails
  BY <1>4, <1>10 DEF SendFails, Broken, devVars
<1>11. CASE SendError
  BY <1>4, <1>11 DEF SendError, Broken, devVars
<1>12. CASE RecvFails
  <2>1. CASE pc = "recv" /\ Decode(rb, 0)
    <3>1. UNCHANGED <<call, out, in, link, dev, tosend>> /\ faults' \in Nat
      BY <1>12 DEF RecvFails, Broken, devVars
    <3>2. rb \in Packets /\ 0 \in Nat
      OBVIOUS
    <3> QED
      BY <2>1, <1>4, <3>1, <3>2, DecodeType
  <2>2. CASE pc' = "undefined" /\ UNCHANGED <<rb, block, offset, res, ret, copied>>
    BY <2>2, <1>4, <1>12 DEF RecvFails, Broken, devVars
  <2> QED
    BY <1>12, <2>1, <2>2 DEF RecvFails
<1>13. CASE RecvError
  <2>1. CASE pc = "recv"
    BY <2>1, <1>4, <1>13, DecodeType DEF RecvError, Broken, devVars
  <2>2. CASE pc # "recv"
    BY <2>2, <1>4, <1>13 DEF RecvError, Broken, devVars
  <2> QED
    BY <2>1, <2>2
<1>14. CASE DevCommand
  <2>1. Tail(out) \in Seq(Packets)
    BY <1>14, TailElements DEF DevCommand
  <2> QED
    BY <1>4, <1>14, <2>1, DevCommandType DEF DevCommand, hostVars
<1>15. CASE DevData
  <2>1. Tail(out) \in Seq(Packets)
    BY <1>15, TailElements DEF DevData
  <2>2. CASE UNCHANGED devVars
    BY <1>4, <1>15, <2>1, <2>2 DEF DevData, hostVars, devVars
  <2>3. CASE ~UNCHANGED devVars
    <3>1. PICK code \in {"OK", "Error"} : tosend' = Response(dev.tid, code)
      BY <1>15, <2>3 DEF DevData
    <3>2. code \in Codes
      BY DEF Codes
    <3>3. tosend' \in Seq(Packets)
      BY <3>1, <3>2, ResponseFacts
    <3>4. dev' = [dev EXCEPT !.state = "cmd", !.tid = NoTid]
      BY <1>15, <2>3 DEF DevData
    <3> QED
      BY <1>1, <1>4, <1>15, <2>1, <3>3, <3>4 DEF DevData, hostVars
  <2> QED
    BY <2>2, <2>3
<1>16. CASE DevSend
  <2>1. Tail(tosend) \in Seq(Packets) /\ Append(in, Head(tosend)) \in Seq(Packets)
    BY <1>16, TailElements, AppendElements DEF DevSend
  <2> QED
    BY <1>4, <1>16, <2>1 DEF DevSend, hostVars
<1>17. CASE Unplug
  BY <1>4, <1>17 DEF Unplug, hostVars, devVars
<1>18. CASE UNCHANGED vars
  BY <1>4, <1>18 DEF vars, hostVars, devVars
<1> QED
  BY <1>2, <1>3, <1>5, <1>6, <1>8, <1>9, <1>10, <1>11, <1>12, <1>13, <1>14, <1>15, <1>16, <1>17,
     <1>18, OperationStarts DEF Next, Transfer, Responder

-----------------------------------------------------------------------------
(* Where a transaction stands. *)

(* The bytes of a data block that the last packets of an answer carry:     *)
(* each packet carries what the receiver counts off for it, and they run   *)
(* out only with the block, or with an empty packet left.                  *)
LEMMA BytesFacts ==
    ASSUME PtpAssumption, dev.total \in Nat
    PROVE  LET n(d) == IF d = 1 THEN dev.total % RBufLen ELSE RBufLen
           IN  /\ Full \in Nat /\ dev.total % RBufLen \in Nat /\ RBufLen \in Nat \ {0}
               /\ BytesIn(Full + 2) = dev.total
               /\ Full = 0 => dev.total % RBufLen = dev.total
               /\ \A d \in Nat \ {0} :
                     /\ BytesIn(d) \in Nat /\ n(d) \in Nat
                     /\ BytesIn(d + 1) = n(d) + BytesIn(d)
                     /\ BytesIn(d) = 0 => d = 1 \/ (d = 2 /\ dev.total % RBufLen = 0)
                     /\ n(d) = 0 => d = 1 /\ BytesIn(d + 1) = 0
<1> DEFINE n(d) == IF d = 1 THEN dev.total % RBufLen ELSE RBufLen
           T == dev.total
           R == RBufLen
           r == T % R
<1>1. T \in Nat /\ R \in Nat \ {0}
  BY DEF PtpAssumption
<1> HIDE DEF T, R
<1>2. T \div R \in Nat /\ r \in Nat /\ T = R * (T \div R) + r
  BY <1>1
<1>3. \A k \in Nat : R * k \in Nat /\ R * (k + 1) = R * k + R /\ (k > 0 => R * k > 0)
  <2> TAKE k \in Nat
  <2>1. R * k \in Nat
    BY <1>1
  <2>2. R * (k + 1) = R * k + R
    BY <1>1
  <2>3. CASE k > 0
    <3>1. R * k = R * (k - 1) + R /\ R * (k - 1) \in Nat
      BY <1>1, <2>3
    <3> QED
      BY <1>1, <2>1, <2>2, <3>1
  <2> QED
    BY <1>1, <2>1, <2>2, <2>3
<1> HIDE DEF r
<1>4. BytesIn(Full + 2) = T
  <2>1. BytesIn(Full + 2) = r + R * (T \div R)
    <3> DEFINE f == T \div R
    <3>1. f \in Nat /\ Full = f
      BY <1>2 DEF Full, T, R
    <3> HIDE DEF f
    <3>2. ~(f + 2 <= 1) /\ (f + 2) - 2 = f
      BY <3>1
    <3>3. BytesIn(f + 2) = r + R * f
      BY <3>2 DEF BytesIn, T, R, r
    <3> QED
      BY <3>1, <3>3 DEF f
  <2> QED
    BY <1>1, <1>2, <1>3, <2>1
<1>5. Full = 0 => r = T
  <2>1. R * 0 = 0 /\ (Full = 0 => T = R * 0 + r)
    BY <1>1, <1>2 DEF Full, T, R
  <2> QED
    BY <1>2, <2>1
<1>6. ASSUME NEW d \in Nat \ {0}
      PROVE  /\ BytesIn(d) \in Nat /\ n(d) \in Nat
             /\ BytesIn(d + 1) = n(d) + BytesIn(d)
             /\ BytesIn(d) = 0 => d = 1 \/ (d = 2 /\ r = 0)
             /\ n(d) = 0 => d = 1 /\ BytesIn(d + 1) = 0
  <2>1. CASE d = 1
    <3>1. BytesIn(1) = 0 /\ BytesIn(2) = r + R * 0 /\ n(1) = r
      BY DEF BytesIn, T, R, r
    <3>2. R * 0 = 0
      BY <1>1
    <3> QED
      BY <1>2, <2>1, <3>1, <3>2
  <2>2. CASE d > 1
    <3> DEFINE k == d - 2
    <3>1. k \in Nat /\ d = k + 2 /\ d + 1 = (k + 1) + 2
      BY <2>2
    <3> HIDE DEF k
    <3>2. ~(k + 2 <= 1) /\ ~((k + 1) + 2 <= 1) /\ (k + 2) - 2 = k /\ ((k + 1) + 2) - 2 = k + 1 /\ k + 2 # 1
      BY <3>1
    <3>3. BytesIn(k + 2) = r + R * k /\ BytesIn((k + 1) + 2) = r + R * (k + 1) /\ n(k + 2) = R
      BY <3>1, <3>2 DEF BytesIn, T, R, r
    <3>4. R * k \in Nat /\ R * (k + 1) = R * k + R /\ (k > 0 => R * k > 0)
      BY <1>3, <3>1
    <3> QED
      BY <1>1, <1>2, <3>1, <3>3, <3>4
  <2> QED
    BY <2>1, <2>2
<1>7. Full \in Nat
  BY <1>2 DEF Full, T, R
<1> QED
  BY <1>1, <1>2, <1>4, <1>5, <1>6, <1>7 DEF T, R, r

(* Nothing to come: both pipes towards the initiator are empty. *)
LEMMA NothingToCome ==
    ASSUME TypeOK
    PROVE  /\ ToCome \in Nat /\ (ToCome = 0 <=> in = <<>> /\ tosend = <<>>)
<1>1. Len(in) \in Nat /\ (Len(in) = 0 <=> in = <<>>)
      /\ Len(tosend) \in Nat /\ (Len(tosend) = 0 <=> tosend = <<>>)
  BY LenProperties, EmptySeq DEF TypeOK
<1> QED
  BY <1>1 DEF ToCome

(* The packet that is received is the one the rest of the answer follows. *)
LEMMA NextOfAnswer ==
    ASSUME TypeOK, Coming, in # <<>>, in' = Tail(in), UNCHANGED <<call, tosend, dev>>
    PROVE  /\ Coming' /\ ToCome \in Nat \ {0} /\ ToCome' = ToCome - 1
           /\ Head(in) \in Packets /\ Sends(Head(in), ToCome - 1)
<1>1. /\ in \in Seq(Packets) /\ tosend \in Seq(Packets)
      /\ Len(in) \in Nat \ {0} /\ Len(in') = Len(in) - 1 /\ Len(tosend) \in Nat
      /\ Head(in) = in[1] /\ 1 \in DOMAIN in /\ in[1] \in Packets
      /\ \A i \in DOMAIN in' : i + 1 \in DOMAIN in /\ in'[i] = in[i + 1] /\ i \in Nat
  BY TailElements, LenProperties DEF TypeOK
<1>2. ToCome \in Nat \ {0} /\ ToCome' = ToCome - 1
  BY <1>1 DEF ToCome
<1>3. \A p, d : Sends(p, d) => (call' = call /\ dev' = dev => Sends(p, d)')
  BY DEF Sends, Full
<1>4. \A i \in DOMAIN in : Sends(in[i], ToCome - i)
  BY DEF Coming
<1>5. \A i \in DOMAIN tosend : Sends(tosend[i], Len(tosend) - i)
  BY DEF Coming
<1>6. \A i \in DOMAIN in' : Sends(in'[i], ToCome' - i)
  <2> TAKE i \in DOMAIN in'
  <2>1. Sends(in[i + 1], ToCome - (i + 1))
    BY <1>1, <1>4
  <2>2. ToCome - (i + 1) = ToCome' - i
    BY <1>1, <1>2
  <2> QED
    BY <1>1, <2>1, <2>2
<1>7. Coming'
  BY <1>3, <1>5, <1>6 DEF Coming, Sends, Full
<1> QED
  BY <1>1, <1>2, <1>4, <1>7

(* A packet the responder sends keeps its place in the answer. *)
LEMMA SentOn ==
    ASSUME TypeOK, Coming, tosend # <<>>, in' = Append(in, Head(tosend)), tosend' = Tail(tosend),
           UNCHANGED <<call, dev>>
    PROVE  Coming' /\ ToCome' = ToCome /\ ToCome # 0
<1>1. /\ tosend \in Seq(Packets) /\ Len(tosend) \in Nat \ {0} /\ Len(tosend') = Len(tosend) - 1
      /\ Head(tosend) = tosend[1] /\ 1 \in DOMAIN tosend /\ tosend[1] \in Packets
      /\ \A i \in DOMAIN tosend' : i + 1 \in DOMAIN tosend /\ tosend'[i] = tosend[i + 1] /\ i \in Nat
  BY TailElements DEF TypeOK
<1>2. /\ Len(in') = Len(in) + 1 /\ Len(in) \in Nat
      /\ \A i \in DOMAIN in' :
            \/ i \in DOMAIN in /\ in'[i] = in[i]
            \/ i = Len(in) + 1 /\ in'[i] = tosend[1]
  BY <1>1, AppendElements DEF TypeOK
<1>3. ToCome' = ToCome /\ ToCome # 0 /\ ToCome \in Nat
  BY <1>1, <1>2 DEF ToCome
<1>4. /\ \A i \in DOMAIN in : Sends(in[i], ToCome - i)
      /\ \A i \in DOMAIN tosend : Sends(tosend[i], Len(tosend) - i)
  BY DEF Coming
<1>5. \A i \in DOMAIN in' : Sends(in'[i], ToCome' - i)
  <2> TAKE i \in DOMAIN in'
  <2>1. CASE i \in DOMAIN in /\ in'[i] = in[i]
    BY <2>1, <1>3, <1>4
  <2>2. CASE i = Len(in) + 1 /\ in'[i] = tosend[1]
    <3>1. ToCome' - i = Len(tosend) - 1
      BY <1>1, <1>2, <1>3, <2>2 DEF ToCome
    <3> QED
      BY <1>1, <1>4, <2>2, <3>1
  <2> QED
    BY <1>2, <2>1, <2>2
<1>6. \A i \in DOMAIN tosend' : Sends(tosend'[i], Len(tosend') - i)
  <2> TAKE i \in DOMAIN tosend'
  <2>1. Sends(tosend[i + 1], Len(tosend) - (i + 1))
    BY <1>1, <1>4
  <2>2. Len(tosend) - (i + 1) = Len(tosend') - i
    BY <1>1
  <2> QED
    BY <1>1, <2>1, <2>2
<1>7. Coming'
  BY <1>5, <1>6 DEF Coming, Sends, Full
<1> QED
  BY <1>3, <1>7

(* The answer the responder decides on: a response,                        *)
LEMMA ResponseComes ==
    ASSUME PtpAssumption, TypeOK, in = <<>>, in' = in, call' = call, NEW code \in Codes,
           tosend' = Response(call.tid, code), (code = "OK" /\ call.code \in DataIn) => dev'.total > 0
    PROVE  Coming' /\ ToCome' = 1
<1>1. /\ Len(tosend') = 1 /\ DOMAIN tosend' = {1}
      /\ tosend'[1].kind = "response" /\ tosend'[1].n = HeaderLen
      /\ tosend'[1].tid = call.tid /\ tosend'[1].code = code
  <2>1. call.tid \in Int
    BY DEF TypeOK
  <2> QED
    BY <2>1, ResponseFacts
<1>2. Len(in') = 0 /\ DOMAIN in' = {}
  OBVIOUS
<1>3. ToCome' = 1
  BY <1>1, <1>2 DEF ToCome
<1>4. \A i \in DOMAIN tosend' : i = 1 /\ Len(tosend') - i = 0
  BY <1>1
<1>5. Coming'
  BY <1>1, <1>2, <1>4 DEF Coming, Sends
<1> QED
  BY <1>3, <1>5

(* or a data block and a response.                                         *)
LEMMA DataComes ==
    ASSUME PtpAssumption, TypeOK, in = <<>>, in' = in, call' = call,
           NEW total \in Nat \ {0}, dev'.total = total, NEW t \in Int, call.tid = t,
           tosend' = Answer(t, total)
    PROVE  Coming' /\ ToCome' = Full' + 2
<1> DEFINE full == FullPackets(total)
<1>1. Full' = full /\ "OK" \in Codes
  BY DEF Full, FullPackets, Codes
<1>2. /\ full \in Nat /\ tosend' \in Seq(Packets) /\ Len(tosend') = full + 2
      /\ tosend'[full + 2] = Response(t, "OK")[1]
      /\ \A i \in 1 .. full + 1 : tosend'[i] = BlockPacket(full + 2 - i, t, total)
  <2>1. total \in Nat
    OBVIOUS
  <2> QED
    BY <2>1, AnswerFacts
<1> HIDE DEF full
<1>3. Len(in') = 0 /\ DOMAIN in' = {}
  OBVIOUS
<1>4. ToCome' = Full' + 2
  BY <1>1, <1>2, <1>3 DEF ToCome
<1>5. \A i \in DOMAIN tosend' : (Sends(tosend[i], Len(tosend) - i))'
  <2>1. DOMAIN tosend' = 1 .. full + 2
    BY <1>2, LenProperties
  <2> TAKE i \in DOMAIN tosend'
  <2>2. CASE i = full + 2
    <3>1. /\ tosend'[i].kind = "response" /\ tosend'[i].n = HeaderLen
          /\ tosend'[i].tid = call.tid
      BY <1>1, <1>2, <2>2, ResponseFacts
    <3>2. Len(tosend') - i = 0
      BY <1>2, <2>2
    <3> QED
      BY <3>1, <3>2 DEF Sends
  <2>3. CASE i # full + 2
    <3>1. i \in 1 .. full + 1 /\ Len(tosend') - i = full + 2 - i /\ full + 2 - i # 0
      BY <1>2, <2>1, <2>3
    <3> QED
      BY <1>1, <1>2, <3>1 DEF Sends, BlockPacket, full
  <2> QED
    BY <2>2, <2>3
<1>6. Coming'
  BY <1>3, <1>5 DEF Coming
<1> QED
  BY <1>4, <1>6

(* Once the first of two packets is taken, the second is left. *)
LEMMA TailOfTwo ==
    ASSUME NEW c, NEW d
    PROVE  Tail(<<c>> \o <<d>>) = <<d>> /\ Head(<<c>> \o <<d>>) = c /\ <<c>> \o <<d>> # <<>>
<1> DEFINE S == {c, d}
           s == <<c>> \o <<d>>
<1>1. s \in Seq(S) /\ Len(s) = 2 /\ s[1] = c /\ s[2] = d
  OBVIOUS
<1>2. <<d>> \in Seq(S) /\ Len(<<d>>) = 1 /\ <<d>>[1] = d
  OBVIOUS
<1> HIDE DEF s, S
<1>3. s # <<>> /\ Head(s) = c
  <2>1. s # <<>>
    BY <1>1, EmptySeq
  <2> QED
    BY <1>1, <2>1, TailElements
<1>4. Tail(s) \in Seq(S) /\ Len(Tail(s)) = 1 /\ \A i \in 1 .. Len(Tail(s)) : Tail(s)[i] = s[i + 1]
  BY <1>1, <1>3, HeadTailProperties
<1>5. \A i \in 1 .. Len(Tail(s)) : Tail(s)[i] = <<d>>[i]
  BY <1>1, <1>2, <1>4
<1>6. Tail(s) = <<d>>
  BY <1>2, <1>4, <1>5, SeqEqual
<1> QED
  BY <1>3, <1>6 DEF s

(* What is under way to the responder is the command, the data block of    *)
(* the same call, both in their order, or nothing any more.                *)
LEMMA CommandedIs ==
    LET send == call.phases = 2 /\ pc = "recv"
    IN  Commanded <=>
          /\ in = <<>> /\ tosend = <<>> /\ offset = 0 /\ (pc = "data" => call.phases = 2)
          /\ \/ dev.state = "cmd" /\ ~send /\ out = <<Outgoing("command")>>
             \/ dev.state = "cmd" /\ send /\ out = <<Outgoing("command")>> \o <<Outgoing("data")>>
             \/ /\ dev.state = "data" /\ dev.tid = call.tid /\ call.code \in DataOut
                /\ out = IF send THEN <<Outgoing("data")>> ELSE <<>>
<1> DEFINE send == call.phases = 2 /\ pc = "recv"
           c == Outgoing("command")
           d == Outgoing("data")
<1>1. <<c>> \o <<>> = <<c>>
  <2> HIDE DEF c, d
  <2> QED
    OBVIOUS
<1>2. CASE send
  BY <1>1, <1>2 DEF Commanded
<1>3. CASE ~send
  BY <1>1, <1>3 DEF Commanded
<1> QED
  BY <1>2, <1>3

(* The command leaves the initiator, and the data block after it.          *)
LEMMA SendsStep ==
    ASSUME PtpAssumption, TypeOK, CallOK, Transaction, SendCommand \/ SendData
    PROVE  Transaction' /\ pc' # "undefined"
<1>1. CASE SendCommand
  <2>1. /\ in' = <<>> /\ tosend' = <<>> /\ offset' = 0 /\ dev'.state = "cmd"
        /\ out' = <<Outgoing("command")'>>
    BY <1>1 DEF SendCommand, Transaction, Drained, Outgoing, devVars
  <2>2. pc' = IF call'.phases = 2 THEN "data" ELSE "recv"
    BY <1>1 DEF SendCommand
  <2>3. Commanded'
    <3>1. ~(call'.phases = 2 /\ pc' = "recv") /\ (pc' = "data" => call'.phases = 2)
      BY <2>2
    <3>2. <<Outgoing("command")'>> \o <<>> = <<Outgoing("command")'>>
      OBVIOUS
    <3> QED
      BY <2>1, <3>1, <3>2 DEF Commanded
  <2> QED
    BY <2>2, <2>3 DEF Transaction
<1>2. CASE SendData
  <2>1. Commanded /\ pc = "data" /\ pc' = "recv" /\ call.phases = 2
    BY <1>2 DEF SendData, Transaction, Commanded
  <2>2. /\ in' = <<>> /\ tosend' = <<>> /\ offset' = 0 /\ call' = call /\ dev' = dev
        /\ out' = Append(out, Outgoing("data")) /\ Outgoing("data")' = Outgoing("data")
        /\ Outgoing("command")' = Outgoing("command")
    BY <1>2, <2>1 DEF SendData, Commanded, Outgoing, devVars
  <2> DEFINE c == Outgoing("command")
             d == Outgoing("data")
  <2>3. \/ dev.state = "cmd" /\ out = <<c>>
        \/ dev.state = "data" /\ dev.tid = call.tid /\ call.code \in DataOut /\ out = <<>>
    BY <2>1, CommandedIs
  <2>4. Append(<<c>>, d) = <<c>> \o <<d>> /\ Append(<<>>, d) = <<d>>
    <3> HIDE DEF c, d
    <3> QED
      OBVIOUS
  <2>5. Commanded'
    BY <2>1, <2>2, <2>3, <2>4 DEF Commanded
  <2> QED
    BY <2>1, <2>5 DEF Transaction
<1> QED
  BY <1>1, <1>2

(* The responder takes a command: it goes on to wait for the data block,   *)
(* or decides on an answer.                                                *)
LEMMA DevCommandStep ==
    ASSUME PtpAssumption, TypeOK, CallOK, Transaction, pc # "undefined", DevCommand
    PROVE  Transaction' /\ pc' # "undefined"
<1> DEFINE send == call.phases = 2 /\ pc = "recv"
           c == Outgoing("command")
           d == Outgoing("data")
<1>1. Commanded /\ pc \in {"data", "recv"}
  BY DEF DevCommand, Transaction, Drained, Answering, TypeOK
<1>2. /\ in' = in /\ call' = call /\ pc' = pc /\ offset' = offset /\ out' = Tail(out)
      /\ tosend = <<>> /\ dev.state = "cmd" /\ out # <<>>
  BY DEF DevCommand, hostVars
<1>3. /\ in = <<>> /\ offset = 0 /\ (pc = "data" => call.phases = 2)
      /\ \/ ~send /\ out = <<c>>
         \/ send /\ out = <<c>> \o <<d>>
  BY <1>1, <1>2, CommandedIs
<1>4. Head(out) = c /\ Tail(out) = IF send THEN <<d>> ELSE <<>>
  <2> HIDE DEF c, d
  <2>1. Head(<<c>>) = c /\ Tail(<<c>>) = <<>>
    OBVIOUS
  <2> QED
    BY <1>3, <2>1, TailOfTwo
<1>5. c.kind = "command" /\ c.code = call.code /\ c.tid = call.tid /\ d' = d
  BY <1>2 DEF Outgoing, Packet
<1>6. call.code \in Codes /\ call.tid \in Int /\ call.phases \in 0 .. 2 /\ dev.total \in Nat
      /\ call.len \in Nat \union {NoBuf} /\ "OK" \in Codes /\ "Error" \in Codes
      /\ dev \in [session : BOOLEAN, state : {"cmd", "data"}, tid : Int, total : Nat]
  BY DEF TypeOK, Codes
<1> HIDE DEF c
<1>7. CASE call.code \in DataOut /\ dev' = [dev EXCEPT !.state = "data", !.tid = call.tid]
           /\ UNCHANGED tosend
  <2>1. dev'.state = "data" /\ dev'.tid = call.tid /\ tosend' = <<>>
    BY <1>2, <1>6, <1>7
  <2>2. Commanded'
    BY <1>2, <1>3, <1>4, <1>5, <1>7, <2>1 DEF Commanded
  <2> QED
    BY <1>1, <1>2, <2>2 DEF Transaction
<1>8. ASSUME call.code \notin DataOut, dev'.state = "cmd", Coming',
             \/ ToCome' = 1 /\ (call.code \in DataIn => dev'.total = 0)
             \/ ToCome' = Full' + 2 /\ dev'.total > 0 /\ call.code \in DataIn
      PROVE  Transaction'
  <2>1. ~send /\ pc = "recv" /\ out' = <<>>
    BY <1>1, <1>2, <1>3, <1>4, <1>8 DEF CallOK
  <2>2. AtStart'
    BY <1>2, <1>3, <1>8, <2>1 DEF AtStart, HasData
  <2>3. Answering'
    BY <1>8, <2>1, <2>2 DEF Answering
  <2> QED
    BY <1>2, <2>1, <2>3 DEF Transaction
<1>9. CASE call.code \notin DataOut /\ Refuse(call.tid)
  <2>1. dev' = [dev EXCEPT !.total = 0] /\ tosend' = Response(call.tid, "Error")
    BY <1>9 DEF Refuse
  <2>2. dev'.state = "cmd" /\ dev'.total = 0
    BY <1>2, <1>6, <2>1
  <2>3. Coming' /\ ToCome' = 1
    BY <1>2, <1>3, <1>6, <2>1, ResponseComes
  <2> QED
    BY <1>2, <1>8, <1>9, <2>2, <2>3
<1>10. CASE /\ call.code \in DataIn
            /\ \E total \in Datasets :
                  /\ tosend' = Blocks(call.tid, total) \o Response(call.tid, "OK")
                  /\ dev' = [dev EXCEPT !.total = total]
  <2>1. PICK total \in Datasets :
                  /\ tosend' = Blocks(call.tid, total) \o Response(call.tid, "OK")
                  /\ dev' = [dev EXCEPT !.total = total]
    BY <1>10
  <2>2. total \in Nat \ {0} /\ call.code \notin DataOut
    BY <1>10 DEF PtpAssumption, DataIn, DataOut
  <2>3. dev'.state = "cmd" /\ dev'.total = total
    BY <1>2, <1>6, <2>1
  <2>4. Coming' /\ ToCome' = Full' + 2
    BY <1>2, <1>3, <1>6, <2>1, <2>2, <2>3, DataComes DEF Answer
  <2> QED
    BY <1>2, <1>8, <1>10, <2>2, <2>3, <2>4
<1>11. CASE /\ call.code \notin DataIn \union DataOut
            /\ tosend' = Response(call.tid, "OK")
            /\ dev' = [dev EXCEPT !.total = 0,
                          !.session = call.code \notin {"CloseSession", "ResetDevice", "PowerDown"}]
  <2>1. dev'.state = "cmd" /\ dev'.total = 0
    BY <1>2, <1>6, <1>11
  <2>2. Coming' /\ ToCome' = 1
    BY <1>2, <1>3, <1>6, <1>11, ResponseComes
  <2> QED
    BY <1>2, <1>8, <1>11, <2>1, <2>2
<1> QED
  BY <1>1, <1>2, <1>4, <1>5, <1>7, <1>9, <1>10, <1>11 DEF DevCommand

(* The responder takes the data block and decides on its answer.           *)
LEMMA DevDataStep ==
    ASSUME PtpAssumption, TypeOK, CallOK, Transaction, pc # "undefined", DevData
    PROVE  Transaction' /\ pc' # "undefined"
<1> DEFINE d == Outgoing("data")
<1>1. Commanded /\ pc \in {"data", "recv"}
  BY DEF DevData, Transaction, Drained, Answering, TypeOK
<1>2. /\ in' = in /\ call' = call /\ pc' = pc /\ offset' = offset /\ out' = Tail(out)
      /\ dev.state = "data" /\ out # <<>>
  BY DEF DevData, hostVars
<1>3. /\ in = <<>> /\ offset = 0 /\ tosend = <<>> /\ pc = "recv" /\ out = <<d>>
      /\ dev.tid = call.tid /\ call.code \in DataOut
  BY <1>1, <1>2, CommandedIs
<1>4. Head(out) = d /\ Tail(out) = <<>> /\ d.kind = "data"
  BY <1>3 DEF Outgoing, Packet
<1>5. PICK code \in {"OK", "Error"} :
         dev' = [dev EXCEPT !.state = "cmd", !.tid = NoTid] /\ tosend' = Response(dev.tid, code)
  BY <1>4 DEF DevData
<1>6. dev'.state = "cmd" /\ code \in Codes /\ call.code \notin DataIn
  BY <1>3, <1>5 DEF TypeOK, Codes, DataIn, DataOut
<1>7. Coming' /\ ToCome' = 1
  BY <1>2, <1>3, <1>5, <1>6, ResponseComes
<1>8. Answering'
  BY <1>2, <1>3, <1>4, <1>6, <1>7 DEF Answering, AtStart
<1> QED
  BY <1>2, <1>3, <1>8 DEF Transaction

(* The responder sends a packet of its answer.                             *)
LEMMA DevSendStep ==
    ASSUME TypeOK, Transaction, pc # "undefined", DevSend
    PROVE  Transaction' /\ pc' # "undefined"
<1>1. Answering /\ pc \in {"recv", "more"}
  BY DEF DevSend, Transaction, Drained, Commanded, TypeOK
<1>2. /\ pc' = pc /\ call' = call /\ rb' = rb /\ block' = block /\ offset' = offset /\ res' = res
      /\ out' = out /\ dev' = dev
  BY DEF DevSend, hostVars
<1>3. Coming' /\ ToCome' = ToCome
  BY <1>1, <1>2, SentOn DEF DevSend, Answering
<1>4. Full' = Full /\ HasData' = HasData /\ BytesIn(ToCome)' = BytesIn(ToCome)
  BY <1>2, <1>3 DEF Full, HasData, BytesIn
<1>5. AtStart => AtStart'
  BY <1>2, <1>3, <1>4 DEF AtStart
<1>6. InBlock => InBlock'
  BY <1>2, <1>3, <1>4 DEF InBlock
<1>7. AfterBlock => AfterBlock'
  BY <1>2, <1>3, <1>4 DEF AfterBlock
<1>8. Astray => Astray'
  BY <1>2, <1>3, <1>4 DEF Astray
<1>9. Answering'
  BY <1>1, <1>2, <1>3, <1>5, <1>6, <1>7, <1>8 DEF Answering
<1> QED
  BY <1>1, <1>2, <1>9 DEF Transaction

(* What a copy to __rstream comes to. *)
LEMMA CopyIs ==
    ASSUME TypeOK, NEW k \in Nat, NEW total \in Nat, NEW left \in Int, Copy(k, total, left)
    PROVE  \/ pc' = "undefined" /\ offset + k > ResponseBufferLen
           \/ /\ offset' = offset + k /\ block' = [total |-> total, left |-> left - k]
              /\ \/ left = k /\ pc' = "recv" /\ res'.length = total
                 \/ left # k /\ pc' = "more"
BY DEF Copy, TypeOK

(* The response ends the call: it is the one of the call, and the data     *)
(* block that came before it is the whole of it.                           *)
LEMMA ResponseEnds ==
    ASSUME PtpAssumption, TypeOK, CallOK, NEW p \in Packets, Sends(p, 0), Respond(p),
           out' = <<>>, dev.state = "cmd", UNCHANGED <<call, dev>>, (ToCome = 0)', TypeOK',
           call.code \in DataIn /\ dev.total > 0 => res.length = dev.total /\ offset = dev.total
    PROVE  Transaction' /\ pc' # "undefined"
<1>1. /\ pc' = "idle" /\ res' = [res EXCEPT !.code = p.code, !.tid = p.tid] /\ offset' = offset
      /\ copied' = IF call.len = NoBuf THEN 0 ELSE Lesser(res.length, call.len)
  BY DEF Respond, Forget
<1>2. /\ p.tid = call.tid /\ (p.code = "OK" /\ call.code \in DataIn => dev.total > 0)
  BY DEF Sends
<1>3. res'.tid = call.tid /\ res'.code = p.code /\ res'.length = res.length
      /\ res.length \in Nat /\ offset \in Nat
  BY <1>1, <1>2 DEF TypeOK
<1>4. in' = <<>> /\ tosend' = <<>>
  <2>1. (TypeOK => (ToCome = 0 <=> in = <<>> /\ tosend = <<>>))'
    BY NothingToCome, PTL
  <2> QED
    BY <2>1
<1>5. Drained'
  BY <1>4 DEF Drained
<1>6. ASSUME call.code \in DataIn, p.code = "OK"
      PROVE  res'.length = offset' /\ offset' = dev.total /\ copied' <= call.len
  <2>1. res.length = dev.total /\ offset = dev.total
    BY <1>2, <1>6
  <2>2. call.len \in Nat /\ call.len # NoBuf
    BY <1>6 DEF CallOK, NoBuf
  <2>3. copied' <= call.len
    BY <1>1, <1>3, <2>2 DEF Lesser
  <2> QED
    BY <1>1, <1>3, <2>1, <2>3
<1> QED
  BY <1>1, <1>3, <1>5, <1>6 DEF Transaction, Answered

(* A block that is not too long, and one that fills its only packet.       *)
LEMMA BlockLengths ==
    ASSUME PtpAssumption, dev.total \in Nat \ {0}, call.code \in DataIn
    PROVE  /\ ~TooLong => dev.total <= ResponseBufferLen
           /\ (dev.total % RBufLen = 0 /\ ~FillsSeveral) <=> dev.total = RBufLen
           /\ (dev.total % RBufLen = 0 /\ Full = 1) <=> dev.total = RBufLen
           /\ RBufLen + HeaderLen <= ResponseBufferLen
<1> DEFINE T == dev.total
           R == RBufLen
           r == T % R
<1>1. /\ T \in Nat \ {0} /\ R \in Nat \ {0} /\ ResponseBufferLen \in Nat /\ HeaderLen \in Nat
      /\ R + HeaderLen <= ResponseBufferLen
  BY DEF PtpAssumption
<1>2. ~TooLong => T <= ResponseBufferLen
  BY <1>1 DEF TooLong
<1>3. FillsSeveral <=> T > R /\ r = 0
  BY DEF FillsSeveral
<1>4. Full = T \div R
  BY DEF Full
<1> HIDE DEF T, R
<1>5. R % R = 0 /\ R \div R = 1
  BY <1>1
<1>6. T \div R \in Nat /\ r \in Nat /\ T = R * (T \div R) + r /\ (T < R => r = T)
  BY <1>1
<1> HIDE DEF r
<1>7. r = 0 /\ T \div R = 1 => T = R
  BY <1>1, <1>6
<1>8. r = 0 => T >= R
  BY <1>1, <1>6
<1>9. T = R => r = 0 /\ T \div R = 1
  BY <1>5 DEF r
<1> QED
  BY <1>1, <1>2, <1>3, <1>4, <1>7, <1>8, <1>9 DEF T, R, r

(* The first packet of the data block is received. *)
LEMMA FirstPacketStep ==
    ASSUME PtpAssumption, TypeOK, CallOK, dev.total \in Datasets \union {0},
           Answering, AtStart, ToCome = Full + 2, HasData, RecvBlock
    PROVE  Transaction'
<1> DEFINE p == Head(in)
           T == dev.total
           n == p.n
<1>1. /\ Coming' /\ ToCome \in Nat \ {0} /\ ToCome' = ToCome - 1
      /\ p \in Packets /\ Sends(p, ToCome - 1)
      /\ call' = call /\ dev' = dev /\ out' = <<>> /\ dev.state = "cmd" /\ in # <<>>
  BY NextOfAnswer DEF RecvBlock, Answering, devVars
<1>2. T \in Nat \ {0} /\ T \in Datasets /\ offset = 0 /\ call.code \in DataIn
      /\ ResponseBufferLen \in Nat
  BY DEF AtStart, HasData, TypeOK, PtpAssumption
<1>3. /\ Full \in Nat /\ T % RBufLen \in Nat /\ RBufLen \in Nat \ {0}
      /\ BytesIn(Full + 2) = T /\ (Full = 0 => T % RBufLen = T)
      /\ BytesIn(Full + 1) \in Nat
      /\ BytesIn((Full + 1) + 1) = (IF Full + 1 = 1 THEN T % RBufLen ELSE RBufLen) + BytesIn(Full + 1)
      /\ BytesIn(Full + 1) = 0 => Full + 1 = 1 \/ (Full + 1 = 2 /\ T % RBufLen = 0)
  <2>1. Full \in Nat
    BY <1>2, BytesFacts
  <2>2. Full + 1 \in Nat \ {0}
    BY <2>1
  <2> QED
    BY <1>2, <2>1, <2>2, BytesFacts
<1>4. /\ p.kind = "data" /\ p.total = T /\ n = IF Full + 1 = 1 THEN T % RBufLen ELSE RBufLen
      /\ n \in Nat \ {0} /\ T = n + BytesIn(Full + 1)
  <2>1. ToCome - 1 = Full + 1 /\ ToCome - 1 # 0 /\ (Full + 1) + 1 = Full + 2
    BY <1>3
  <2>2. p = Packet("data", IF Full + 1 = 1 THEN T % RBufLen ELSE RBufLen, T, call.tid, "none")
    BY <1>1, <2>1 DEF Sends
  <2>3. p.kind = "data" /\ p.total = T /\ n = IF Full + 1 = 1 THEN T % RBufLen ELSE RBufLen
    BY <2>2 DEF Packet
  <2> HIDE DEF p, n, T
  <2> QED
    BY <1>2, <1>3, <2>1, <2>3
<1>5. Received(p) = p
  BY <1>4 DEF Received
<1>6. Copy(n, T, T) /\ rb' = p
  BY <1>4, <1>5 DEF RecvBlock, Decode, NoHeader
<1> HIDE DEF n, p
<1>7. \/ pc' = "undefined" /\ n > ResponseBufferLen
      \/ /\ offset' = n /\ block' = [total |-> T, left |-> T - n]
         /\ \/ T = n /\ pc' = "recv" /\ res'.length = T
            \/ T # n /\ pc' = "more"
  BY <1>2, <1>4, <1>6, CopyIs
<1>8. Full' = Full /\ HasData' /\ dev'.total = T /\ ToCome' = Full + 1
      /\ BytesIn(ToCome)' = BytesIn(Full + 1)
  <2>1. Full' = Full /\ HasData' /\ dev'.total = T
    BY <1>1, <1>2 DEF Full, HasData
  <2>2. ToCome' = Full + 1
    BY <1>1, <1>3
  <2> QED
    BY <1>1, <2>1, <2>2 DEF BytesIn
<1>9. CASE pc' = "undefined"
  <2>1. TooLong'
    <3>1. T > ResponseBufferLen
      BY <1>2, <1>3, <1>4, <1>7, <1>9
    <3> QED
      BY <1>1, <1>2, <3>1 DEF TooLong
  <2> QED
    BY <1>1, <1>9, <2>1 DEF Transaction
<1>10. CASE pc' = "recv"
  <2>1. T = n /\ offset' = T /\ res'.length = T /\ rb'.total = T /\ rb'.kind = "data"
    BY <1>4, <1>6, <1>7, <1>10 DEF n, p
  <2>2. ToCome' = 1 \/ (ToCome' = 2 /\ T % RBufLen = 0)
    BY <1>2, <1>3, <1>4, <1>8, <2>1
  <2>3. AfterBlock'
    BY <1>8, <1>10, <2>1, <2>2 DEF AfterBlock
  <2>4. Answering'
    BY <1>1, <2>3 DEF Answering
  <2> QED
    BY <1>10, <2>4 DEF Transaction
<1>11. CASE pc' = "more"
  <2>1. T # n /\ offset' = n /\ block' = [total |-> T, left |-> BytesIn(Full + 1)]
    BY <1>2, <1>3, <1>4, <1>7, <1>11
  <2>2. BytesIn(Full + 1) > 0 /\ Full + 1 >= 2 /\ n = T - BytesIn(Full + 1)
    BY <1>2, <1>3, <1>4, <2>1
  <2>3. InBlock'
    BY <1>8, <1>11, <2>1, <2>2 DEF InBlock
  <2>4. Answering'
    BY <1>1, <2>3 DEF Answering
  <2> QED
    BY <1>11, <2>4 DEF Transaction
<1> QED
  BY <1>7, <1>9, <1>10, <1>11

(* A block is received, or the response: the outer loop of __send_request. *)
LEMMA RecvBlockStep ==
    ASSUME PtpAssumption, TypeOK, TypeOK', CallOK, dev.total \in Datasets \union {0},
           Transaction, RecvBlock
    PROVE  Transaction'
<1> DEFINE p == Head(in)
           T == dev.total
<1>1. pc = "recv" /\ Answering /\ in # <<>>
  BY DEF RecvBlock, Transaction, Commanded
<1>2. /\ Coming' /\ ToCome \in Nat \ {0} /\ ToCome' = ToCome - 1
      /\ p \in Packets /\ Sends(p, ToCome - 1)
      /\ call' = call /\ dev' = dev /\ out' = <<>> /\ dev.state = "cmd"
  BY <1>1, NextOfAnswer DEF RecvBlock, Answering, devVars
<1>3. ASSUME ToCome = 1,
             call.code \in DataIn /\ T > 0 => res.length = T /\ offset = T
      PROVE  Transaction' /\ pc' # "undefined"
  <2>1. Sends(p, 0) /\ (ToCome = 0)'
    BY <1>2, <1>3
  <2>2. p.kind = "response" /\ p.n # 0
    BY <2>1 DEF Sends, PtpAssumption
  <2>3. Respond(p)
    BY <2>2 DEF RecvBlock, Decode, NoHeader, Received
  <2> HIDE DEF p
  <2> QED
    BY <1>2, <1>3, <2>1, <2>3, ResponseEnds
<1>4. CASE AtStart
  <2>1. CASE ToCome = Full + 2 /\ HasData
    BY <1>1, <1>4, <2>1, FirstPacketStep
  <2>2. CASE ToCome = 1 /\ (call.code \in DataIn => T = 0)
    BY <1>3, <2>2
  <2> QED
    BY <1>4, <2>1, <2>2 DEF AtStart
<1>5. CASE AfterBlock /\ ToCome = 1
  BY <1>3, <1>5 DEF AfterBlock
<1>6. CASE AfterBlock /\ ToCome = 2 /\ T % RBufLen = 0
  <2>1. /\ rb \in Packets /\ rb.total = T /\ rb.kind = IF 2 = Full + 1 THEN "data" ELSE "rest"
        /\ T \in Nat \ {0} /\ offset = T /\ HasData /\ offset \in 0 .. ResponseBufferLen
        /\ ResponseBufferLen \in Nat
    BY <1>6 DEF AfterBlock, HasData, TypeOK, PtpAssumption
  <2>2. p.n = 0
    <3>1. p = Packet(IF 1 = Full + 1 THEN "data" ELSE "rest", T % RBufLen, T, call.tid, "none")
      BY <1>2, <1>6 DEF Sends
    <3> QED
      BY <1>6, <3>1 DEF Packet
  <2>3. Decode(rb, 0)
    BY <2>2 DEF RecvBlock, Received
  <2>4. CASE rb.kind = "data"
    <3>1. Copy(0, T, T)
      BY <2>1, <2>3, <2>4 DEF Decode, NoHeader
    <3>2. pc' = "more" /\ offset' = T
      <4> HIDE DEF T
      <4> QED
        BY <2>1, <3>1, CopyIs
    <3>3. HasData' /\ dev'.total = RBufLen /\ ToCome' = 1
      <4>1. Full = 1
        BY <2>1, <2>4, BytesFacts
      <4> QED
        BY <1>2, <1>6, <2>1, <4>1, BlockLengths DEF HasData
    <3>4. Astray'
      BY <1>2, <3>2, <3>3 DEF Astray
    <3> QED
      BY <1>2, <3>2, <3>4 DEF Answering, Transaction
  <2>5. CASE rb.kind # "data"
    <3>1. /\ pc' \in {"recv", "undefined"} /\ rb' = rb
          /\ UNCHANGED <<offset, res>> /\ Full # 1
      BY <2>1, <2>3, <2>5 DEF Decode, NoHeader
    <3>2. CASE pc' = "recv"
      <4>1. ToCome' = 1 /\ HasData' /\ dev'.total = T /\ Full' = Full /\ Full \in Nat \ {0}
        <5>1. Full \in Nat /\ RBufLen \in Nat \ {0} /\ (Full = 0 => T % RBufLen = T)
          BY <2>1, BytesFacts
        <5> QED
          BY <1>2, <1>6, <2>1, <5>1 DEF HasData, Full
      <4>2. AfterBlock'
        BY <1>6, <2>1, <2>5, <3>1, <3>2, <4>1 DEF AfterBlock
      <4> QED
        BY <1>2, <3>2, <4>2 DEF Answering, Transaction
    <3>3. CASE pc' = "undefined"
      <4>1. FillsSeveral
        BY <1>6, <2>1, <3>1, BlockLengths DEF HasData
      <4> QED
        BY <1>2, <3>3, <4>1 DEF Transaction, FillsSeveral
    <3> QED
      BY <3>1, <3>2, <3>3
  <2> QED
    BY <2>4, <2>5
<1>7. ~Astray
  BY <1>1, <1>2 DEF Astray
<1>8. ~InBlock
  BY <1>1 DEF InBlock
<1> QED
  BY <1>1, <1>4, <1>5, <1>6, <1>7, <1>8 DEF Answering, AfterBlock

(* More of a block is received: the inner loop of __send_request.          *)
LEMMA RecvMoreStep ==
    ASSUME PtpAssumption, TypeOK, CallOK, dev.total \in Datasets \union {0},
           Transaction, RecvMore
    PROVE  Transaction'
<1> DEFINE p == Head(in)
           T == dev.total
           D == ToCome - 1
           n == p.n
           r == T % RBufLen
<1>1. pc = "more" /\ Answering /\ in # <<>>
  BY DEF RecvMore, Transaction
<1>2. /\ Coming' /\ ToCome \in Nat \ {0} /\ ToCome' = D
      /\ p \in Packets /\ Sends(p, D)
      /\ call' = call /\ dev' = dev /\ out' = <<>> /\ dev.state = "cmd"
  BY <1>1, NextOfAnswer DEF RecvMore, Answering, devVars
<1>3. /\ rb' = Received(p) /\ Copy(n, block.total, block.left)
  BY DEF RecvMore
<1>4. /\ T \in Nat /\ offset \in Nat /\ ResponseBufferLen \in Nat /\ D \in Nat
      /\ r \in Nat /\ Full' = Full /\ HeaderLen \in Nat
  BY <1>2, BytesFacts DEF TypeOK, PtpAssumption, Full
<1>5. CASE InBlock
  <2>1. /\ D \in Nat \ {0} /\ HasData /\ HasData' /\ block.total = T
        /\ block.left = BytesIn(D + 1) /\ block.left > 0 /\ offset = T - block.left
    BY <1>2, <1>5 DEF InBlock, HasData
  <2>2. p = Packet(IF D = Full + 1 THEN "data" ELSE "rest", IF D = 1 THEN r ELSE RBufLen,
                   T, call.tid, "none")
    BY <1>2, <2>1 DEF Sends
  <2>3. /\ p.kind = (IF D = Full + 1 THEN "data" ELSE "rest") /\ p.total = T
        /\ n = IF D = 1 THEN r ELSE RBufLen
    BY <2>2 DEF Packet
  <2> HIDE DEF D, p, n, T, r
  <2>4. /\ BytesIn(D) \in Nat /\ n \in Nat /\ BytesIn(D + 1) = n + BytesIn(D)
        /\ BytesIn(D) = 0 => D = 1 \/ (D = 2 /\ r = 0)
        /\ n = 0 => BytesIn(D + 1) = 0
    BY <1>4, <2>1, <2>3, BytesFacts DEF T, r
  <2>5. n # 0 /\ rb' = p
    BY <1>3, <2>1, <2>4 DEF Received, n
  <2>6. BytesIn(ToCome)' = BytesIn(D) /\ dev'.total = T
    BY <1>2 DEF BytesIn, T
  <2>7. \/ pc' = "undefined" /\ offset + n > ResponseBufferLen
        \/ /\ offset' = offset + n /\ block' = [total |-> T, left |-> block.left - n]
           /\ \/ block.left = n /\ pc' = "recv" /\ res'.length = T
              \/ block.left # n /\ pc' = "more"
    BY <1>3, <1>4, <2>1, <2>4, CopyIs
  <2>8. CASE pc' = "undefined"
    <3>1. T > ResponseBufferLen
      BY <1>4, <2>1, <2>4, <2>7, <2>8
    <3>2. TooLong'
      BY <1>2, <2>1, <3>1 DEF TooLong, HasData, T
    <3> QED
      BY <1>2, <2>8, <3>2 DEF Transaction
  <2>9. CASE pc' = "recv"
    <3>1. BytesIn(D) = 0 /\ offset' = T /\ res'.length = T
      BY <1>4, <2>1, <2>4, <2>7, <2>9
    <3>2. AfterBlock'
      BY <1>2, <1>4, <2>1, <2>3, <2>4, <2>5, <2>6, <2>9, <3>1 DEF AfterBlock, r
    <3> QED
      BY <1>2, <2>9, <3>2 DEF Answering, Transaction
  <2>10. CASE pc' = "more"
    <3>1. /\ block' = [total |-> T, left |-> BytesIn(D)] /\ BytesIn(D) > 0
          /\ offset' = T - BytesIn(D)
      BY <1>4, <2>1, <2>4, <2>7, <2>10
    <3>2. D >= 2
      <4>1. BytesIn(1) = 0
        BY DEF BytesIn
      <4> QED
        BY <2>1, <3>1, <4>1
    <3>3. InBlock'
      BY <1>2, <2>1, <2>6, <2>10, <3>1, <3>2 DEF InBlock
    <3> QED
      BY <1>2, <2>10, <3>3 DEF Answering, Transaction
  <2> QED
    BY <2>7, <2>8, <2>9, <2>10
<1>6. CASE Astray
  <2>1. ToCome = 1 /\ offset = T /\ HasData /\ T = RBufLen
    BY <1>1, <1>2, <1>6 DEF Astray
  <2>2. n = HeaderLen
    BY <1>2, <2>1 DEF Sends
  <2>3. pc' \in {"recv", "more"}
    <3>1. block.total \in Nat /\ block.left \in Int
      BY DEF TypeOK
    <3>2. offset + n <= ResponseBufferLen
      BY <2>1, <2>2 DEF PtpAssumption
    <3> HIDE DEF n
    <3> QED
      BY <1>3, <1>4, <2>2, <3>1, <3>2, CopyIs
  <2>4. Astray'
    BY <1>2, <2>1, <2>3 DEF Astray, HasData
  <2> QED
    BY <1>2, <2>3, <2>4 DEF Answering, Transaction
<1>7. ~AtStart /\ ~AfterBlock
  BY <1>1 DEF AtStart, AfterBlock
<1> QED
  BY <1>1, <1>5, <1>6, <1>7 DEF Answering

-----------------------------------------------------------------------------
(* The invariant. *)

(* An operation is asked for when nothing is left of the one before.       *)
LEMMA OperationStep ==
    ASSUME PtpAssumption, Transaction, Operation
    PROVE  Transaction' /\ pc' # "undefined"
<1>1. CASE StartsCall
  <2>1. /\ pc = "idle" /\ pc' = "command" /\ offset' = 0
        /\ UNCHANGED <<out, in, tosend, dev>>
    BY <1>1 DEF StartsCall, Begin, devVars
  <2> QED
    BY <2>1 DEF Transaction, Drained
<1>2. CASE ptp_initiate_capture
  <2>1. /\ pc = "idle" /\ pc' = "idle" /\ call'.phases = 0
        /\ UNCHANGED <<out, in, tosend, dev>>
    BY <1>2 DEF ptp_initiate_capture, devVars
  <2> QED
    BY <2>1 DEF Transaction, Drained, Answered
<1> QED
  BY <1>1, <1>2, OperationStarts

(* A step keeps the transaction in order, unless a transfer breaks off.    *)
LEMMA TransactionStep ==
    ASSUME PtpAssumption, IInv, TypeOK', [Next]_vars, link', faults' = 0
    PROVE  Transaction'
<1>1. TypeOK /\ CallOK /\ dev.total \in Datasets \union {0} /\ faults \in Nat /\ link \in BOOLEAN
  BY DEF IInv, TypeOK
<1>2. link /\ faults = 0 => Transaction
  BY DEF IInv
<1>3. CASE Operation
  <2>1. link' = link /\ faults' = faults
    BY <1>3, OperationStarts DEF StartsCall, Begin, ptp_initiate_capture
  <2> QED
    BY <1>2, <1>3, <2>1, OperationStep
<1>4. CASE SendCommand \/ SendData
  <2>1. link' = link /\ faults' = faults
    BY <1>4 DEF SendCommand, SendData
  <2> QED
    BY <1>1, <1>2, <1>4, <2>1, SendsStep
<1>5. CASE RecvBlock
  <2>1. link' = link /\ faults' = faults
    BY <1>5 DEF RecvBlock
  <2> QED
    BY <1>1, <1>2, <1>5, <2>1, RecvBlockStep
<1>6. CASE RecvMore
  <2>1. link' = link /\ faults' = faults
    BY <1>6 DEF RecvMore
  <2> QED
    BY <1>1, <1>2, <1>6, <2>1, RecvMoreStep
<1>8. CASE Responder
  <2>1. link' = link /\ faults' = faults /\ pc' = pc
    BY <1>8 DEF Responder, DevCommand, DevData, DevSend, hostVars
  <2>2. CASE pc = "undefined"
    <3>1. out = <<>> /\ (TooLong \/ FillsSeveral)
      BY <1>2, <2>1, <2>2 DEF Transaction
    <3>2. UNCHANGED <<out, dev, call>>
      BY <1>8, <3>1 DEF Responder, DevCommand, DevData, DevSend, hostVars
    <3> QED
      BY <2>1, <2>2, <3>1, <3>2 DEF Transaction, TooLong, FillsSeveral
  <2>3. CASE pc # "undefined"
    BY <1>1, <1>2, <1>8, <2>1, <2>3, DevCommandStep, DevDataStep, DevSendStep DEF Responder
  <2> QED
    BY <2>2, <2>3
<1>9. ~Broken
  BY <1>1 DEF Broken
<1>10. CASE SendFails
  <2>1. link' = link /\ pc' = "idle" /\ ret' = -1 /\ UNCHANGED <<out, in, tosend, dev>>
    BY <1>10 DEF SendFails, devVars
  <2>2. link
    BY <2>1
  <2>3. pc = "command" /\ faults' = faults
    BY <1>10, <1>9, <2>2 DEF SendFails
  <2> QED
    BY <1>2, <2>1, <2>2, <2>3 DEF Transaction, Drained, Answered
<1>11. ~SendError /\ ~RecvFails /\ ~RecvError
  <2>1. ~RecvFails
    <3> SUFFICES ASSUME RecvFails PROVE FALSE
      OBVIOUS
    <3>1. link' = link
      BY DEF RecvFails
    <3>2. link
      BY <3>1
    <3> QED
      BY <1>9, <3>2 DEF RecvFails
  <2> QED
    BY <1>9, <2>1 DEF SendError, RecvError
<1>12. ~Unplug
  BY DEF Unplug
<1>13. CASE UNCHANGED vars
  <2>1. Transaction' <=> Transaction
    BY <1>13 DEF vars, hostVars, devVars, Transaction, Drained, Answered, Commanded, Outgoing,
       Answering, Coming, Sends, Full, ToCome, BytesIn, HasData, AtStart, InBlock, AfterBlock, Astray,
       TooLong, FillsSeveral
  <2> QED
    BY <1>2, <1>13, <2>1 DEF vars, hostVars
<1> QED
  BY <1>3, <1>4, <1>5, <1>6, <1>8, <1>10, <1>11, <1>12, <1>13 DEF Next, Transfer

(* The inductive invariant: types, arguments an operation can have, and a  *)
(* transaction that stands where its packets say, whatever the callers     *)
(* ask for, the responder decides and the device's unplugging interrupts.  *)
THEOREM Invariance == Spec => []IInv
<1> USE PtpAssumption
<1>1. Init => IInv
  <2> SUFFICES ASSUME Init PROVE IInv
    OBVIOUS
  <2>1. /\ "none" \in Names /\ "none" \in Codes /\ NoTid \in Int /\ NoBuf \in Int
        /\ "none" \notin DataIn /\ "none" \notin DataOut /\ ResponseBufferLen \in Nat
    BY DEF Names, Codes, NoTid, NoBuf, DataIn, DataOut, PtpAssumption
  <2>2. <<>> \in Seq(Packets)
    BY EmptySeq
  <2>3. TypeOK
    BY <2>1, <2>2, NoPacketType DEF Init, TypeOK
  <2>4. CallOK /\ dev.total \in Datasets \union {0}
    BY <2>1 DEF Init, CallOK
  <2>5. Transaction
    BY <2>1 DEF Init, Transaction, Drained, Answered
  <2> QED
    BY <2>3, <2>4, <2>5 DEF IInv
<1>2. IInv /\ [Next]_vars => IInv'
  <2> SUFFICES ASSUME IInv, [Next]_vars PROVE IInv'
    OBVIOUS
  <2>1. TypeOK' /\ CallOK' /\ dev'.total \in Datasets \union {0}
    BY BasicStep DEF IInv
  <2>2. link' /\ faults' = 0 => Transaction'
    BY <2>1, TransactionStep
  <2> QED
    BY <2>1, <2>2 DEF IInv
<1> QED
  BY <1>1, <1>2, PTL DEF Spec

(* Every variable keeps its type: in particular __rstream is not written   *)
(* past its end in any state the code goes on from (ptp.c:70-108).         *)
THEOREM PtpTypeCorrect == Spec => []TypeOK
<1>1. IInv => TypeOK
  BY DEF IInv
<1> QED
  BY <1>1, Invariance, PTL

(* While no transfer has broken off, a call returns with the response to   *)
(* its own command, although __handle_request compares no TransactionID    *)
(* (ptp.c:46-121): no answer is ever left for a later call.                *)
THEOREM AnswersOwnAlways == Spec => []AnswersOwn
<1>1. IInv => AnswersOwn
  BY DEF IInv, Transaction, AnswersOwn, Answered
<1> QED
  BY <1>1, Invariance, PTL

(* And a call answered OK has the whole data block of its transaction in   *)
(* __rstream, counts it in res->length, and gives the caller no more than  *)
(* his buffer takes (ptp.c:70-118).                                        *)
THEOREM DataWholeAlways == Spec => []DataWhole
<1>1. IInv => DataWhole
  BY DEF IInv, Transaction, DataWhole, Answered
<1> QED
  BY <1>1, Invariance, PTL

(* Between calls both pipes are empty and the responder is ready for a     *)
(* command.                                                                *)
THEOREM PipesDrainedAlways == Spec => []PipesDrained
<1>1. IInv => PipesDrained
  BY DEF IInv, Transaction, Drained, PipesDrained
<1> QED
  BY <1>1, Invariance, PTL

(* The initiator and the responder do not wait for one another, except in  *)
(* ptp_set_device_prop_value, which sends no data block, and after a data  *)
(* block that fills exactly one packet.                                    *)
THEOREM NeverBothWaitAlways == Spec => []NeverBothWait
<1>1. ASSUME IInv, BothWait PROVE call.op = "SetDevicePropValue" \/ FillsOne
  <2>1. TypeOK /\ CallOK /\ (Commanded \/ Answering) /\ out = <<>> /\ in = <<>> /\ tosend = <<>>
        /\ pc \in {"recv", "more"}
    BY <1>1 DEF IInv, Transaction, BothWait
  <2>2. CASE Commanded /\ pc = "recv"
    <3>1. call.phases # 2 /\ call.code \in DataOut
      <4> DEFINE c == Outgoing("command")
                 d == Outgoing("data")
      <4>1. <<c>> # <<>> /\ <<d>> # <<>> /\ <<c>> \o <<d>> # <<>>
        <5> HIDE DEF c, d
        <5> QED
          BY TailOfTwo
      <4> QED
        BY <2>1, <2>2, <4>1, CommandedIs
    <3> QED
      BY <2>1, <3>1 DEF CallOK
  <2>3. CASE Answering
    <3>1. ToCome = 0
      BY <2>1, NothingToCome
    <3>2. Astray
      <4>1. ToCome # Full + 2 \/ ~HasData
        <5>1. dev.total \in Nat => Full \in Nat
          BY <1>1, BytesFacts, PtpAssumption
        <5> QED
          BY <2>1, <3>1, <5>1 DEF TypeOK
      <4> QED
        BY <2>3, <3>1, <4>1 DEF Answering, AtStart, InBlock, AfterBlock
    <3> QED
      BY <3>2 DEF Astray, HasData, FillsOne
  <2>4. CASE Commanded /\ pc = "more"
    BY <1>1, <2>3, <2>4 DEF IInv, Transaction, BothWait
  <2> QED
    BY <2>1, <2>2, <2>3, <2>4
<1>2. IInv => NeverBothWait
  BY <1>1 DEF NeverBothWait
<1> QED
  BY <1>2, Invariance, PTL

(* Until a transfer breaks off, the code decodes only headers it has       *)
(* received and writes only inside __rstream (ptp.c:64-108), whatever the  *)
(* device's data blocks, unless one is longer than __rstream or fills      *)
(* several packets, so that the empty packet behind it is decoded.         *)
THEOREM DefinedUnlessFaultAlways == Spec => []DefinedUnlessFault
<1>1. IInv => DefinedUnlessFault
  <2> SUFFICES ASSUME IInv, link, ~(faults > 0), pc = "undefined" PROVE TooLong \/ FillsSeveral
    BY DEF DefinedUnlessFault
  <2>1. faults = 0
    BY DEF IInv, TypeOK
  <2> QED
    BY <2>1 DEF IInv, Transaction
<1> QED
  BY <1>1, Invariance, PTL

-----------------------------------------------------------------------------
(* The refinement: an operation is a remote procedure call.                *)

(* The phase of a call, by where its transaction stands. *)
PhaseOfCall ==
    IF BrokenOff THEN "off"
    ELSE IF pc = "idle" THEN "idle" ELSE IF Served THEN "served" ELSE "asked"

LEMMA PhaseIs == Phase = PhaseOfCall
BY DEF Phase, PhaseOfCall, Served

(* What a step leaves in order was in order before it. *)
LEMMA OrderBefore ==
    ASSUME TypeOK, [Next]_vars, ~BrokenOff'
    PROVE  ~BrokenOff /\ link /\ link' /\ faults = 0 /\ faults' = 0 /\ pc # "undefined"
<1> DEFINE Kept ==
             /\ link' => link
             /\ faults' = faults \/ faults' = faults + 1
             /\ pc = "undefined" => pc' = "undefined"
<1>1. ASSUME Operation PROVE Kept
  BY <1>1, OperationStarts, PtpAssumption DEF StartsCall, Begin, ptp_initiate_capture
<1>2. ASSUME SendCommand \/ SendData \/ RecvBlock \/ RecvMore PROVE Kept
  BY <1>2 DEF SendCommand, SendData, RecvBlock, RecvMore
<1>3. ASSUME Responder PROVE Kept
  BY <1>3 DEF Responder, DevCommand, DevData, DevSend, hostVars
<1>4. ASSUME SendFails \/ SendError PROVE Kept
  BY <1>4 DEF SendFails, SendError, Broken
<1>5. ASSUME RecvFails \/ RecvError PROVE Kept
  BY <1>5 DEF RecvFails, RecvError, Broken
<1>6. ASSUME Unplug \/ UNCHANGED vars PROVE Kept
  BY <1>6 DEF Unplug, vars, hostVars
<1>7. Kept
  BY <1>1, <1>2, <1>3, <1>4, <1>5, <1>6 DEF Next, Transfer
<1>8. faults \in Nat /\ link' /\ ~(faults' > 0) /\ pc' # "undefined"
  BY DEF TypeOK, BrokenOff
<1> QED
  BY <1>7, <1>8 DEF BrokenOff

(* A call that returns does so with the response to its command, and with  *)
(* the data block that came before it.                                     *)
LEMMA ReturnsResponse ==
    ASSUME PtpAssumption, TypeOK, Transaction, RecvBlock, pc' = "idle"
    PROVE  /\ Head(in) \in Packets /\ Sends(Head(in), 0) /\ Respond(Head(in))
           /\ call.code \in DataIn /\ dev.total > 0 => res.length = dev.total
<1> DEFINE p == Head(in)
           T == dev.total
           r == T % RBufLen
           D == ToCome - 1
<1>1. pc = "recv" /\ Answering /\ in # <<>>
  BY DEF RecvBlock, Transaction, Commanded
<1>2. ToCome \in Nat \ {0} /\ p \in Packets /\ Sends(p, D)
  BY <1>1, NextOfAnswer DEF RecvBlock, Answering, devVars
<1>3. Received(p).kind = "response" /\ Respond(Received(p))
  BY DEF RecvBlock, Decode, NoHeader, Copy
<1>4. T \in Nat /\ Full \in Nat /\ r \in Nat /\ RBufLen # 0 /\ (Full = 0 => r = T)
  <2>1. T \in Nat
    BY DEF TypeOK
  <2> QED
    BY <2>1, BytesFacts
<1>5. CASE D = 0
  <2>1. p.kind = "response" /\ p.n # 0
    BY <1>2, <1>5 DEF Sends, PtpAssumption
  <2>2. call.code \in DataIn /\ T > 0 => res.length = T
    <3>1. CASE AtStart
      BY <1>2, <1>4, <1>5, <3>1 DEF AtStart
    <3>2. CASE AfterBlock
      BY <3>2 DEF AfterBlock
    <3>3. ~InBlock /\ ~Astray
      BY <1>1, <1>2 DEF InBlock, Astray
    <3> QED
      BY <1>1, <3>1, <3>2, <3>3 DEF Answering
  <2> QED
    BY <1>2, <1>3, <1>5, <2>1, <2>2 DEF Received
<1>6. D = 0
  <2> SUFFICES ASSUME D # 0 PROVE FALSE
    OBVIOUS
  <2>1. p.kind \in {"data", "rest"} /\ p.n = IF D = 1 THEN r ELSE RBufLen
    BY <1>2 DEF Sends, Packet
  <2>2. p.n = 0 /\ rb.kind = "response"
    BY <1>3, <2>1 DEF Received
  <2>3. D = 1 /\ r = 0
    BY <1>4, <2>1, <2>2
  <2>4. ~AfterBlock
    BY <2>2 DEF AfterBlock
  <2>5. ~AtStart
    BY <1>2, <1>4, <2>3 DEF AtStart, HasData
  <2>6. ~InBlock /\ ~Astray
    BY <1>1, <1>2 DEF InBlock, Astray
  <2> QED
    BY <1>1, <2>4, <2>5, <2>6 DEF Answering
<1> QED
  BY <1>5, <1>6

(* What the operation's caller asks for reaches the responder at most      *)
(* once, and what he gets is what it came to: as long as no transfer has   *)
(* broken off, every step is one of a remote procedure call, or none.      *)
LEMMA CallStep ==
    ASSUME PtpAssumption, IInv, IInv', [Next]_vars, ~BrokenOff'
    PROVE  [Call!Next]_(Call!callVars)
<1>1. /\ TypeOK /\ TypeOK' /\ CallOK /\ Transaction /\ ~BrokenOff
      /\ link /\ link' /\ faults = 0 /\ faults' = 0 /\ pc # "undefined" /\ pc' # "undefined"
  BY OrderBefore DEF IInv, BrokenOff
<1>2. /\ Phase = IF pc = "idle" THEN "idle" ELSE IF Served THEN "served" ELSE "asked"
      /\ Phase' = IF pc' = "idle" THEN "idle" ELSE IF Served' THEN "served" ELSE "asked"
  <2>1. (Phase = PhaseOfCall)'
    BY PhaseIs, PTL
  <2> QED
    BY <1>1, <2>1, PhaseIs DEF PhaseOfCall
<1>3. Request \in Call!Requests /\ Request' \in Call!Requests
  <2>1. /\ call.code \in Codes /\ call.tid \in Int /\ call.len \in Int
        /\ call'.code \in Codes /\ call'.tid \in Int /\ call'.len \in Int
    <3> DEFINE C == [op : Names, code : Codes, tid : Int, len : Nat \union {NoBuf}, phases : 0 .. 2]
    <3>1. call \in C /\ call' \in C
      BY <1>1 DEF TypeOK
    <3>2. NoBuf \in Int
      BY DEF NoBuf
    <3> QED
      BY <3>1, <3>2
  <2> QED
    BY <2>1 DEF Request, Call!Requests
<1>4. /\ Phase # "served" => BlockDue = 0
      /\ Phase' # "served" => BlockDue' = 0
      /\ Phase # "idle" => Result = NoResult
      /\ Phase' # "idle" => Result' = NoResult
  BY DEF BlockDue, Result
<1>5. CASE StartsCall
  <2>1. pc = "idle" /\ pc' = "command"
    BY <1>5 DEF StartsCall, Begin
  <2>2. Call!Ask
    BY <1>2, <1>3, <1>4, <2>1 DEF Call!Ask, Served
  <2> QED
    BY <2>2 DEF Call!Next
<1>6. CASE ptp_initiate_capture
  <2>1. pc = "idle" /\ pc' = "idle" /\ ret' = 0
    BY <1>6 DEF ptp_initiate_capture
  <2>2. Call!NotImplemented
    BY <1>2, <1>3, <1>4, <2>1 DEF Call!NotImplemented, Result
  <2> QED
    BY <2>2 DEF Call!Next
<1>7. CASE SendCommand \/ SendData
  <2>1. pc \in {"command", "data"} /\ pc' \in {"data", "recv"} /\ out' # <<>> /\ call' = call
    BY <1>7, <1>1, AppendElements DEF SendCommand, SendData
  <2>2. Phase = "asked" /\ Phase' = "asked" /\ Request' = Request
    BY <1>2, <2>1 DEF Served, Request
  <2> QED
    BY <1>4, <2>2 DEF Call!callVars
<1>8. CASE SendFails
  <2>1. pc = "command" /\ pc' = "idle" /\ ret' = -1 /\ call' = call
    BY <1>1, <1>8 DEF SendFails, Broken
  <2>2. Phase = "asked" /\ Phase' = "idle" /\ Request' = Request
    BY <1>2, <2>1 DEF Served, Request
  <2>3. Call!Refuse
    BY <1>4, <2>1, <2>2 DEF Call!Refuse, Result
  <2> QED
    BY <2>3 DEF Call!Next
<1>9. CASE RecvBlock \/ RecvMore
  <2>1. pc \in {"recv", "more"} /\ in # <<>> /\ call' = call /\ out' = out /\ dev' = dev
    BY <1>9 DEF RecvBlock, RecvMore, devVars
  <2>2. Served /\ Phase = "served" /\ Request' = Request
    <3>1. Answering
      BY <1>1, <2>1 DEF Transaction, Commanded
    <3> QED
      BY <1>2, <2>1, <3>1 DEF Answering, Served, Request
  <2>3. CASE pc' # "idle"
    <3>1. pc' \in {"recv", "more"}
      BY <1>1, <1>9, <2>3 DEF RecvBlock, RecvMore, Decode, NoHeader, Copy, Respond
    <3>2. Phase' = "served"
      BY <1>2, <2>1, <2>2, <3>1 DEF Served
    <3>3. BlockDue' = BlockDue
      BY <2>1, <2>2, <3>2 DEF BlockDue
    <3> QED
      BY <1>4, <2>2, <3>2, <3>3 DEF Call!callVars
  <2>4. CASE pc' = "idle"
    <3> DEFINE p == Head(in)
    <3>1. RecvBlock
      BY <1>9, <2>4 DEF RecvMore, Copy
    <3>2. /\ p \in Packets /\ Sends(p, 0) /\ Respond(p)
          /\ call.code \in DataIn /\ dev.total > 0 => res.length = dev.total
      BY <1>1, <2>4, <3>1, ReturnsResponse
    <3>3. /\ p.tid = call.tid /\ (p.code = "OK" /\ call.code \in DataIn => dev.total > 0)
      BY <3>2 DEF Sends
    <3> HIDE DEF p
    <3>4. /\ ret' = 0 /\ res'.tid = call.tid /\ res'.code = p.code /\ res'.length = res.length
          /\ copied' = IF call.len = NoBuf THEN 0 ELSE Lesser(res.length, call.len)
      BY <1>1, <3>2, <3>3 DEF Respond, TypeOK
    <3>5. Phase' = "idle"
      BY <1>2, <2>4
    <3>6. Result' = [ret |-> 0, tid |-> call.tid, ok |-> p.code = "OK",
                     length |-> res.length, copied |-> copied']
      BY <3>4, <3>5 DEF Result
    <3>7. Request.code = call.code /\ Request.tid = call.tid /\ Request.len = call.len
      BY DEF Request
    <3>8. ASSUME p.code = "OK", call.code \in DataIn
          PROVE  /\ BlockDue > 0 /\ res.length = BlockDue
                 /\ copied' = IF BlockDue < call.len THEN BlockDue ELSE call.len
      <4>1. BlockDue = dev.total /\ dev.total > 0 /\ res.length = dev.total
        BY <2>2, <3>2, <3>3, <3>8 DEF BlockDue
      <4>2. call.len # NoBuf
        BY <1>1, <3>8 DEF CallOK, NoBuf
      <4> QED
        BY <3>4, <4>1, <4>2 DEF Lesser
    <3>9. Call!Return
      BY <1>4, <2>2, <3>5, <3>6, <3>7, <3>8 DEF Call!Return
    <3> QED
      BY <3>9 DEF Call!Next
  <2> QED
    BY <2>3, <2>4
<1>10. CASE Responder
  <2>1. UNCHANGED <<pc, call, ret, res, copied>>
    BY <1>10 DEF Responder, DevCommand, DevData, DevSend, hostVars
  <2>2. Request' = Request /\ (Phase' = "idle" <=> Phase = "idle") /\ Result' = Result
    BY <1>2, <2>1 DEF Request, Result
  <2>3. Served => Served' /\ dev' = dev
    BY <1>10, <2>1 DEF Served, Responder, DevCommand, DevData, DevSend
  <2>4. CASE Phase' = Phase
    <3>1. BlockDue' = BlockDue
      BY <1>2, <1>4, <2>1, <2>3, <2>4 DEF BlockDue
    <3> QED
      BY <2>2, <2>4, <3>1 DEF Call!callVars
  <2>5. CASE Phase' # Phase
    <3>1. Phase = "asked" /\ Phase' = "served"
      BY <1>2, <2>1, <2>2, <2>3, <2>5
    <3>2. BlockDue' \in IF Request.code \in DataIn THEN Nat ELSE {0}
      BY <1>1, <2>1, <3>1 DEF BlockDue, Request, TypeOK
    <3>3. Call!Serve
      BY <2>2, <3>1, <3>2 DEF Call!Serve
    <3> QED
      BY <3>3 DEF Call!Next
  <2> QED
    BY <2>4, <2>5
<1>11. ~Unplug /\ ~SendError /\ ~RecvFails /\ ~RecvError
  BY <1>1 DEF Unplug, SendError, RecvFails, RecvError, Broken
<1>12. CASE UNCHANGED vars
  <2>1. Phase' = Phase /\ Request' = Request /\ BlockDue' = BlockDue /\ Result' = Result
    BY <1>12 DEF vars, hostVars, devVars, Phase, BrokenOff, Served, Request, BlockDue, Result
  <2> QED
    BY <2>1 DEF Call!callVars
<1> QED
  BY <1>5, <1>6, <1>7, <1>8, <1>9, <1>10, <1>11, <1>12, OperationStarts DEF Next, Transfer

(* An operation of ptp.c is a remote procedure call: the responder serves  *)
(* its command once, while the call waits, and the call returns with its   *)
(* TransactionID and, if it is answered OK, with the length of the data    *)
(* block it was answered with, as much of it copied as the caller's buffer *)
(* takes; a call that fails has not been served (ptp.c:46-121).            *)
THEOREM ImplementsCall == Spec => ImplementsRemoteCall
<1> USE PtpAssumption
<1>1. Init => Call!Init
  <2> SUFFICES ASSUME Init PROVE Call!Init
    OBVIOUS
  <2>1. Phase = "idle" /\ BlockDue = 0
    BY PhaseIs DEF Init, BrokenOff, PhaseOfCall, BlockDue
  <2> QED
    BY <2>1 DEF Call!Init
<1>2. IInv /\ IInv' /\ [Next]_vars => [Call!Next]_(Call!callVars)
  <2> SUFFICES ASSUME IInv, IInv', [Next]_vars PROVE [Call!Next]_(Call!callVars)
    OBVIOUS
  <2>1. CASE BrokenOff'
    <3>1. (Phase = PhaseOfCall)'
      BY PhaseIs, PTL
    <3>2. Call!BreakOff
      BY <2>1, <3>1 DEF PhaseOfCall, Call!BreakOff
    <3> QED
      BY <3>2 DEF Call!Next
  <2>2. CASE ~BrokenOff'
    BY <2>2, CallStep
  <2> QED
    BY <2>1, <2>2
<1> QED
  BY <1>1, <1>2, Invariance, PTL DEF Spec, ImplementsRemoteCall, Call!Spec

=============================================================================
