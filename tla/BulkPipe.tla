------------------------------ MODULE BulkPipe ------------------------------
(***************************************************************************)
(* What a caller of usb_bulk_send and usb_bulk_recv (src/lib/usb/usb.c) is *)
(* promised: one transfer per call, performed at one instant between the   *)
(* call and its return, over two FIFO pipes.  URBs, ioctl retries and the  *)
(* kernel's completion queue are hidden; UsbBulk implements this module.   *)
(*                                                                         *)
(* A buffer is represented by its length.                                  *)
(***************************************************************************)
EXTENDS Integers, Sequences

CONSTANTS MaxLen,     \* longest buffer of a call and longest packet
          MaxQueue    \* packets an endpoint's FIFO holds before it NAKs

VARIABLES phase,      \* "idle" | "pending" | "done"
          dir,        \* direction of the call in progress
          len,        \* its buffer length
          moved,      \* its outcome while "done", else 0
          ret,        \* what the last call returned
          out, in,    \* the two pipes, host to device and device to host
          up          \* the device is attached

pipeVars == <<phase, dir, len, moved, ret, out, in, up>>

Init ==
    /\ phase = "idle" /\ dir = "out" /\ len = 0 /\ moved = 0 /\ ret = 0
    /\ out = <<>> /\ in = <<>> /\ up = TRUE

Begin(d, n) ==
    /\ phase = "idle"
    /\ phase' = "pending" /\ dir' = d /\ len' = n /\ moved' = 0
    /\ UNCHANGED <<ret, out, in, up>>

(* k bytes of a transfer of n reach the pipe, or leave it; once the       *)
(* device is gone what is in the pipes no longer matters.                  *)
PartialOut(d, n, k) ==
    /\ d = "out" /\ (k < n \/ k = 0)
    /\ IF up /\ k > 0 THEN Len(out) < MaxQueue /\ out' = Append(out, k)
                      ELSE UNCHANGED out
    /\ UNCHANGED in

PartialIn(d, k) ==
    /\ d = "in"
    /\ IF up /\ k > 0 THEN in # <<>> /\ k < Head(in) /\ in' = [in EXCEPT ![1] = @ - k]
                      ELSE UNCHANGED in
    /\ UNCHANGED out

(* The whole buffer is appended to the pipe. *)
TransferOut ==
    /\ phase = "pending" /\ dir = "out" /\ up /\ Len(out) < MaxQueue
    /\ out' = Append(out, len)
    /\ phase' = "done" /\ moved' = len
    /\ UNCHANGED <<dir, len, ret, in, up>>

(* The oldest packet is taken from the pipe. *)
TransferIn ==
    /\ phase = "pending" /\ dir = "in" /\ up /\ in # <<>> /\ Head(in) <= len
    /\ in' = Tail(in)
    /\ phase' = "done" /\ moved' = Head(in)
    /\ UNCHANGED <<dir, len, ret, out, up>>

(* A packet the buffer has no room for is lost; the buffer is filled. *)
TransferOverflow ==
    /\ phase = "pending" /\ dir = "in" /\ up /\ in # <<>> /\ Head(in) > len
    /\ in' = Tail(in)
    /\ phase' = "done" /\ moved' = len
    /\ UNCHANGED <<dir, len, ret, out, up>>

(* The transfer ends with an error after k bytes: the caller is told k,    *)
(* never -1, and the pipe has k bytes more, or fewer.                      *)
TransferError ==
    /\ phase = "pending"
    /\ \E k \in 0 .. len :
          /\ PartialOut(dir, len, k) \/ PartialIn(dir, k)
          /\ moved' = k
    /\ phase' = "done"
    /\ UNCHANGED <<dir, len, ret, up>>

Return ==
    /\ phase = "done"
    /\ phase' = "idle" /\ ret' = moved /\ moved' = 0
    /\ UNCHANGED <<dir, len, out, in, up>>

(* The call fails and nothing has moved. *)
Refuse ==
    /\ phase = "pending"
    /\ phase' = "idle" /\ ret' = -1
    /\ UNCHANGED <<dir, len, moved, out, in, up>>

DeviceTake ==
    /\ up /\ out # <<>>
    /\ out' = Tail(out)
    /\ UNCHANGED <<phase, dir, len, moved, ret, in, up>>

DevicePut(n) ==
    /\ up /\ Len(in) < MaxQueue
    /\ in' = Append(in, n)
    /\ UNCHANGED <<phase, dir, len, moved, ret, out, up>>

Unplug ==
    /\ up' = FALSE
    /\ UNCHANGED <<phase, dir, len, moved, ret, out, in>>

Next ==
    \/ \E d \in {"out", "in"}, n \in 0 .. MaxLen : Begin(d, n)
    \/ TransferOut \/ TransferIn \/ TransferOverflow \/ TransferError
    \/ Return \/ Refuse
    \/ DeviceTake \/ (\E n \in 0 .. MaxLen : DevicePut(n)) \/ Unplug

Spec == Init /\ [][Next]_pipeVars

=============================================================================
