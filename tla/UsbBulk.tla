------------------------------- MODULE UsbBulk -------------------------------
(***************************************************************************)
(* The bulk transfer calls of src/lib/usb/usb.c: usb_bulk_send and         *)
(* usb_bulk_recv, both through __usb_bulk_msg, which submits one URB with  *)
(* USBDEVFS_SUBMITURB and collects one completion with USBDEVFS_REAPURB,   *)
(* each ioctl retried while it fails with EINTR.                           *)
(*                                                                         *)
(* External, modelled from how the code uses it: the usbfs driver, which   *)
(* keeps the submitted URBs and queues the completed ones in order, the    *)
(* host controller, the device end of the two pipes, and signals.          *)
(*                                                                         *)
(* REAPURB returns the OLDEST completion of the file descriptor, whichever *)
(* URB that is; the code ignores the identity it is handed (uurb_id) and   *)
(* reads the actual_length of its own URB.                                 *)
(***************************************************************************)
EXTENDS Integers, Sequences

CONSTANTS MaxLen,      \* longest buffer of a call and longest packet
          MaxQueue,    \* packets an endpoint's FIFO holds before it NAKs
          MaxCalls,    \* bound: calls in a behaviour
          MaxSignals   \* bound: signals in a behaviour

ASSUME BulkAssumption ==
    MaxLen \in Nat /\ MaxQueue \in Nat /\ MaxCalls \in Nat /\ MaxSignals \in Nat

VARIABLES pc,          \* "idle" | "submit" | "reap": where __usb_bulk_msg is
          cur,         \* the URB of the call in progress
          calls,       \* calls made so far; a URB's id is its call's number
          pend,        \* URBs submitted to the kernel and not completed
          compl,       \* completions in the order REAPURB hands them out
          ret,         \* what the last call returned
          out, in,     \* the two pipes, host to device and device to host
          up,          \* the device is attached
          sig,         \* a signal is pending
          signals      \* signals raised so far

hostVars == <<pc, cur, calls, ret>>
vars == <<pc, cur, calls, pend, compl, ret, out, in, up, sig, signals>>

Urb == [id : Nat, dir : {"out", "in"}, len : 0 .. MaxLen]
Completion == [id : Nat, actual : 0 .. MaxLen]

Init ==
    /\ pc = "idle" /\ cur = [id |-> 0, dir |-> "out", len |-> 0]
    /\ calls = 0 /\ ret = 0 /\ pend = {} /\ compl = <<>>
    /\ out = <<>> /\ in = <<>> /\ up = TRUE
    /\ sig = FALSE /\ signals = 0

(***************************************************************************)
(* The calling thread.                                                     *)
(***************************************************************************)
Call(d, n) ==
    /\ pc = "idle" /\ calls < MaxCalls
    /\ pc' = "submit" /\ calls' = calls + 1
    /\ cur' = [id |-> calls + 1, dir |-> d, len |-> n]
    /\ UNCHANGED <<pend, compl, ret, out, in, up, sig, signals>>

usb_bulk_send(n) == Call("out", n)

usb_bulk_recv(n) == Call("in", n)

SubmitOk ==
    /\ pc = "submit" /\ up
    /\ pend' = pend \union {cur} /\ pc' = "reap"
    /\ UNCHANGED <<cur, calls, compl, ret, out, in, up, sig, signals>>

(* EINTR at either ioctl leaves the loop where it is. *)
SubmitEINTR ==
    /\ pc = "submit" /\ sig
    /\ sig' = FALSE
    /\ UNCHANGED <<hostVars, pend, compl, out, in, up, signals>>

SubmitErrno ==
    /\ pc = "submit"
    /\ pc' = "idle" /\ ret' = -19
    /\ UNCHANGED <<cur, calls, pend, compl, out, in, up, sig, signals>>

SubmitRetriesForever ==
    /\ pc = "submit" /\ ~up
    /\ UNCHANGED vars

(* Any other error of SUBMITURB: ENODEV, ENOMEM, an unclaimed interface. *)
SubmitFail ==
    /\ pc = "submit"
    /\ pc' = "idle" /\ ret' = -1
    /\ UNCHANGED <<cur, calls, pend, compl, out, in, up, sig, signals>>

ReapResubmits ==
    /\ pc = "reap" /\ sig /\ compl = <<>>
    /\ sig' = FALSE /\ pc' = "submit"
    /\ UNCHANGED <<cur, calls, ret, pend, compl, out, in, up, signals>>

ReapGivesUp ==
    /\ pc = "reap" /\ sig /\ compl = <<>>
    /\ sig' = FALSE /\ pc' = "idle" /\ ret' = -1
    /\ UNCHANGED <<cur, calls, pend, compl, out, in, up, signals>>

ReapEINTR ==
    /\ pc = "reap" /\ sig /\ compl = <<>>
    /\ sig' = FALSE
    /\ UNCHANGED <<hostVars, pend, compl, out, in, up, signals>>

ReapBufferLength ==
    /\ pc = "reap" /\ compl # <<>>
    /\ compl' = Tail(compl) /\ pc' = "idle" /\ ret' = cur.len
    /\ UNCHANGED <<cur, calls, pend, out, in, up, sig, signals>>

(* The oldest completion is written back to its own URB.  If that is not   *)
(* the call's URB its address is a dead stack frame, which this call's URB *)
(* may or may not occupy: actual_length is then 0 or the other URB's.      *)
ReapOk ==
    /\ pc = "reap" /\ compl # <<>>
    /\ compl' = Tail(compl) /\ pc' = "idle"
    /\ \/ ret' = Head(compl).actual
       \/ Head(compl).id # cur.id /\ ret' = 0
    /\ UNCHANGED <<cur, calls, pend, out, in, up, sig, signals>>

ReapRetriesForever ==
    /\ pc = "reap" /\ compl = <<>> /\ ~up
    /\ UNCHANGED vars

(* ENODEV: the device is gone and nothing has completed.  The URB stays    *)
(* with the kernel.                                                        *)
ReapFail ==
    /\ pc = "reap" /\ compl = <<>> /\ ~up
    /\ pc' = "idle" /\ ret' = -1
    /\ UNCHANGED <<cur, calls, pend, compl, out, in, up, sig, signals>>

(***************************************************************************)
(* The host controller completes URBs (external).                          *)
(***************************************************************************)
Complete(u, k) ==
    /\ u \in pend
    /\ pend' = pend \ {u}
    /\ compl' = Append(compl, [id |-> u.id, actual |-> k])
    /\ UNCHANGED <<hostVars, up, sig, signals>>

HcdOut(u) ==
    /\ u.dir = "out" /\ up /\ Len(out) < MaxQueue
    /\ out' = Append(out, u.len)
    /\ Complete(u, u.len)
    /\ UNCHANGED in

HcdIn(u) ==
    /\ u.dir = "in" /\ up /\ in # <<>> /\ Head(in) <= u.len
    /\ in' = Tail(in)
    /\ Complete(u, Head(in))
    /\ UNCHANGED out

(* The packet is longer than the buffer. *)
HcdOverflow(u) ==
    /\ u.dir = "in" /\ up /\ in # <<>> /\ Head(in) > u.len
    /\ in' = Tail(in)
    /\ Complete(u, u.len)
    /\ UNCHANGED out

PartialOut(u, k) ==
    /\ u.dir = "out" /\ (k < u.len \/ k = 0)
    /\ IF up /\ k > 0 THEN Len(out) < MaxQueue /\ out' = Append(out, k)
                      ELSE UNCHANGED out
    /\ UNCHANGED in

PartialIn(u, k) ==
    /\ u.dir = "in"
    /\ IF up /\ k > 0 THEN in # <<>> /\ k < Head(in) /\ in' = [in EXCEPT ![1] = @ - k]
                      ELSE UNCHANGED in
    /\ UNCHANGED out

(* The transfer ends with an error status (a stall, a disconnect) after k  *)
(* bytes.  uurb.status is never examined.                                  *)
HcdError(u) ==
    \E k \in 0 .. u.len :
        /\ PartialOut(u, k) \/ PartialIn(u, k)
        /\ Complete(u, k)

(***************************************************************************)
(* The device end of the pipes, the cable and signals (external).          *)
(***************************************************************************)
DeviceTake ==
    /\ up /\ out # <<>>
    /\ out' = Tail(out)
    /\ UNCHANGED <<hostVars, pend, compl, in, up, sig, signals>>

DevicePut(n) ==
    /\ up /\ Len(in) < MaxQueue
    /\ in' = Append(in, n)
    /\ UNCHANGED <<hostVars, pend, compl, out, up, sig, signals>>

Unplug ==
    /\ up /\ up' = FALSE
    /\ UNCHANGED <<hostVars, pend, compl, out, in, sig, signals>>

Signal ==
    /\ ~sig /\ signals < MaxSignals
    /\ sig' = TRUE /\ signals' = signals + 1
    /\ UNCHANGED <<hostVars, pend, compl, out, in, up>>

Host ==
    SubmitOk \/ SubmitEINTR \/ SubmitFail \/ ReapEINTR \/ ReapOk \/ ReapFail

Next ==
    \/ \E n \in 0 .. MaxLen : usb_bulk_send(n) \/ usb_bulk_recv(n)
    \/ SubmitOk \/ SubmitEINTR \/ SubmitFail
    \/ ReapEINTR \/ ReapOk \/ ReapFail
    \/ \E u \in pend : HcdOut(u) \/ HcdIn(u) \/ HcdOverflow(u) \/ HcdError(u)
    \/ DeviceTake \/ (\E n \in 0 .. MaxLen : DevicePut(n))
    \/ Unplug \/ Signal

Spec == Init /\ [][Next]_vars

(* The thread keeps running; the controller performs an OUT transfer there *)
(* is room for; the device drains its OUT endpoint.                        *)
FairSpec ==
    /\ Spec
    /\ WF_vars(Host)
    /\ WF_vars(\E u \in pend : HcdOut(u))
    /\ WF_vars(DeviceTake)

-----------------------------------------------------------------------------
(* Every variable has its type. *)
TypeOK ==
    /\ pc \in {"idle", "submit", "reap"}
    /\ cur \in Urb /\ calls \in Nat
    /\ pend \in SUBSET Urb
    /\ compl \in Seq(Completion)
    /\ ret \in -1 .. MaxLen
    /\ out \in Seq(0 .. MaxLen) /\ in \in Seq(0 .. MaxLen)
    /\ up \in BOOLEAN /\ sig \in BOOLEAN /\ signals \in Nat

(* While __usb_bulk_msg waits in REAPURB the only URB the kernel holds, in *)
(* flight or completed, is the one the call submitted: the completion it   *)
(* is handed can only be its own, although it never looks at uurb_id, and  *)
(* the kernel never writes to the dead stack frame of an earlier call.     *)
ReapsOwnUrb ==
    pc = "reap" => /\ \A u \in pend : u = cur
                   /\ \A i \in DOMAIN compl : compl[i].id = cur.id
                   /\ Len(compl) = IF cur \in pend THEN 0 ELSE 1

(* A URB is abandoned in the kernel only when the device is gone, so no    *)
(* later call can submit, and reap that URB's completion as its own.       *)
LeftoverMeansGone ==
    (pc # "reap" /\ (pend # {} \/ compl # <<>>)) => ~up

(* One call is one transfer, made at one instant: the calls implement      *)
(* BulkPipe, with the transfer at the URB's completion.                    *)
Done == pc = "reap" /\ cur \notin pend

Pipe == INSTANCE BulkPipe WITH
    phase <- IF pc = "idle" THEN "idle" ELSE IF Done THEN "done" ELSE "pending",
    dir <- cur.dir,
    len <- cur.len,
    moved <- IF Done /\ compl # <<>> THEN Head(compl).actual ELSE 0

ImplementsBulkPipe == Pipe!Spec

(* A call in progress when the cable is pulled returns: REAPURB does not   *)
(* wait for a completion that cannot come.                                 *)
UnplugEndsCall == (pc # "idle" /\ ~up) ~> (pc = "idle")

(* A send returns as long as the device drains its endpoint, whatever      *)
(* signals arrive at the two ioctls.  (A receive may wait for ever: no URB *)
(* carries a timeout.)                                                     *)
SendReturns == (pc # "idle" /\ cur.dir = "out") ~> (pc = "idle")

=============================================================================
