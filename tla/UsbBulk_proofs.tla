--------------------------- MODULE UsbBulk_proofs ---------------------------
(***************************************************************************)
(* Proofs about UsbBulk: for any number of calls, signals and packets, the *)
(* completion __usb_bulk_msg reaps is that of its own URB.                 *)
(***************************************************************************)
EXTENDS UsbBulk, SequenceTheorems, TLAPS

(* The inductive invariant: ids grow, and what the kernel still holds      *)
(* while a call waits is that call's URB, once.                            *)
IInv ==
    /\ TypeOK /\ ReapsOwnUrb /\ LeftoverMeansGone

(* Taking k bytes from the packet at the head of a pipe leaves a pipe of   *)
(* packets (HcdError on an IN endpoint).                                   *)
LEMMA PartialPipe ==
    ASSUME NEW s \in Seq(0 .. MaxLen), s # <<>>, NEW k \in Nat, k < Head(s), MaxLen \in Nat
    PROVE  [s EXCEPT ![1] = @ - k] \in Seq(0 .. MaxLen)
<1>1. s[1] = Head(s) /\ 1 \in DOMAIN s
  OBVIOUS
<1>2. s[1] - k \in 0 .. MaxLen
  BY <1>1
<1> QED
  BY <1>1, <1>2

(* The effects of an URB's completion on types, whatever the transfer. *)
LEMMA CompleteType ==
    ASSUME TypeOK, BulkAssumption, NEW u \in pend, NEW k \in 0 .. MaxLen, Complete(u, k)
    PROVE  /\ pend' \in SUBSET Urb
           /\ compl' \in Seq(Completion)
           /\ pc' = pc /\ cur' = cur /\ calls' = calls /\ ret' = ret
           /\ up' = up /\ sig' = sig /\ signals' = signals
<1>1. u.id \in Nat
  BY DEF TypeOK, Urb
<1>2. [id |-> u.id, actual |-> k] \in Completion
  BY <1>1 DEF Completion
<1> QED
  BY <1>2 DEF TypeOK, Complete, hostVars, Completion

(* The kernel queues the completion of a waiting call's URB as its only    *)
(* one, and that of an abandoned URB only when the device is gone.         *)
LEMMA CompletePreserves ==
    ASSUME IInv, BulkAssumption, NEW u \in pend, NEW k \in 0 .. MaxLen, Complete(u, k)
    PROVE  ReapsOwnUrb' /\ LeftoverMeansGone'
<1>1. pc' = pc /\ cur' = cur /\ up' = up
  BY DEF Complete, hostVars
<1>2. LeftoverMeansGone'
  BY <1>1 DEF IInv, LeftoverMeansGone, Complete
<1>3. ASSUME pc = "reap" PROVE ReapsOwnUrb'
  <2>1. u = cur /\ cur \in pend /\ Len(compl) = 0 /\ \A v \in pend : v = cur
    BY <1>3 DEF IInv, ReapsOwnUrb
  <2>2. pend' = {} /\ compl' = <<[id |-> cur.id, actual |-> k]>>
    <3>1. compl = <<>>
      BY <2>1 DEF IInv, TypeOK
    <3> QED
      BY <2>1, <3>1 DEF Complete
  <2> QED
    BY <1>1, <2>2 DEF ReapsOwnUrb
<1>4. ASSUME pc # "reap" PROVE ReapsOwnUrb'
  BY <1>1, <1>4 DEF ReapsOwnUrb
<1> QED
  BY <1>2, <1>3, <1>4

(* The four ways the controller completes a URB. *)
LEMMA HcdStep ==
    ASSUME IInv, BulkAssumption, NEW u \in pend,
           HcdOut(u) \/ HcdIn(u) \/ HcdOverflow(u) \/ HcdError(u)
    PROVE  IInv'
<1>1. u.len \in 0 .. MaxLen
  BY DEF IInv, TypeOK, Urb
<1>2. CASE HcdOut(u)
  <2>1. Complete(u, u.len)
    BY <1>2 DEF HcdOut
  <2>2. out' \in Seq(0 .. MaxLen) /\ in' \in Seq(0 .. MaxLen)
    BY <1>1, <1>2 DEF HcdOut, IInv, TypeOK
  <2> QED
    BY <1>1, <2>1, <2>2, CompleteType, CompletePreserves DEF IInv, TypeOK
<1>3. CASE HcdIn(u)
  <2>1. Complete(u, Head(in)) /\ Head(in) \in 0 .. MaxLen
    BY <1>3 DEF HcdIn, IInv, TypeOK
  <2>2. out' \in Seq(0 .. MaxLen) /\ in' \in Seq(0 .. MaxLen)
    BY <1>3 DEF HcdIn, IInv, TypeOK
  <2> QED
    BY <2>1, <2>2, CompleteType, CompletePreserves DEF IInv, TypeOK
<1>4. CASE HcdOverflow(u)
  <2>1. Complete(u, u.len)
    BY <1>4 DEF HcdOverflow
  <2>2. out' \in Seq(0 .. MaxLen) /\ in' \in Seq(0 .. MaxLen)
    BY <1>4 DEF HcdOverflow, IInv, TypeOK
  <2> QED
    BY <1>1, <2>1, <2>2, CompleteType, CompletePreserves DEF IInv, TypeOK
<1>5. CASE HcdError(u)
  <2>1. PICK k \in 0 .. u.len : (PartialOut(u, k) \/ PartialIn(u, k)) /\ Complete(u, k)
    BY <1>5 DEF HcdError
  <2>2. k \in 0 .. MaxLen /\ k \in Nat
    BY <1>1, <2>1 DEF BulkAssumption
  <2>3. out' \in Seq(0 .. MaxLen) /\ in' \in Seq(0 .. MaxLen)
    <3>1. PartialOut(u, k) => out' \in Seq(0 .. MaxLen) /\ in' \in Seq(0 .. MaxLen)
      <4>1. out \in Seq(0 .. MaxLen) /\ in \in Seq(0 .. MaxLen)
        BY DEF IInv, TypeOK
      <4>2. Append(out, k) \in Seq(0 .. MaxLen)
        BY <2>2, <4>1, AppendProperties
      <4> QED
        BY <4>1, <4>2 DEF PartialOut
    <3>2. PartialIn(u, k) => out' \in Seq(0 .. MaxLen) /\ in' \in Seq(0 .. MaxLen)
      <4>1. CASE up /\ k > 0
        BY <2>2, <4>1, PartialPipe DEF PartialIn, IInv, TypeOK, BulkAssumption
      <4>2. CASE ~(up /\ k > 0)
        BY <4>2 DEF PartialIn, IInv, TypeOK
      <4> QED
        BY <4>1, <4>2
    <3> QED
      BY <2>1, <3>1, <3>2
  <2> QED
    BY <2>1, <2>2, <2>3, CompleteType, CompletePreserves DEF IInv, TypeOK
<1> QED
  BY <1>2, <1>3, <1>4, <1>5

(* Every reachable state satisfies the inductive invariant. *)
THEOREM Invariance == Spec => []IInv
<1> USE BulkAssumption DEF BulkAssumption
<1>1. Init => IInv
  <2> SUFFICES ASSUME Init PROVE IInv
    OBVIOUS
  <2>1. cur \in Urb
    BY DEF Init, Urb
  <2>2. compl \in Seq(Completion) /\ out \in Seq(0 .. MaxLen) /\ in \in Seq(0 .. MaxLen)
    BY EmptySeq DEF Init
  <2>3. TypeOK
    <3>1. ret \in -1 .. MaxLen
      BY DEF Init
    <3>2. pc \in {"idle", "submit", "reap"} /\ pend \in SUBSET Urb /\ calls \in Nat
          /\ up \in BOOLEAN /\ sig \in BOOLEAN /\ signals \in Nat
      BY DEF Init
    <3> QED
      BY <2>1, <2>2, <3>1, <3>2 DEF TypeOK
  <2> QED
    BY <2>3 DEF Init, IInv, ReapsOwnUrb, LeftoverMeansGone
<1>2. IInv /\ [Next]_vars => IInv'
  <2> SUFFICES ASSUME IInv, [Next]_vars PROVE IInv'
    OBVIOUS
  <2> USE DEF IInv, TypeOK, ReapsOwnUrb, LeftoverMeansGone
  <2>1. ASSUME NEW n \in 0 .. MaxLen, usb_bulk_send(n) \/ usb_bulk_recv(n) PROVE IInv'
    BY <2>1 DEF usb_bulk_send, usb_bulk_recv, Call, Urb
  <2>2. CASE SubmitOk
    BY <2>2 DEF SubmitOk
  <2>3. CASE SubmitEINTR
    BY <2>3 DEF SubmitEINTR, hostVars
  <2>4. CASE SubmitFail
    BY <2>4 DEF SubmitFail
  <2>5. CASE ReapEINTR
    BY <2>5 DEF ReapEINTR, hostVars
  <2>6. CASE ReapOk
    <3>1. Len(compl) = 1 /\ pend = {}
      BY <2>6 DEF ReapOk
    <3>2. compl' = <<>>
      BY <2>6, <3>1 DEF ReapOk
    <3>3. Head(compl) \in Completion
      <4>1. compl \in Seq(Completion) /\ compl # <<>>
        BY <2>6 DEF ReapOk
      <4> HIDE DEF IInv, TypeOK
      <4> QED
        BY <4>1, HeadTailProperties
    <3>4. ret' \in -1 .. MaxLen
      BY <2>6, <3>3 DEF ReapOk, Completion
    <3> QED
      BY <2>6, <3>1, <3>2, <3>4 DEF ReapOk
  <2>7. CASE ReapFail
    BY <2>7 DEF ReapFail
  <2>8. ASSUME NEW u \in pend, HcdOut(u) \/ HcdIn(u) \/ HcdOverflow(u) \/ HcdError(u) PROVE IInv'
    BY <2>8, HcdStep
  <2>9. CASE DeviceTake
    BY <2>9 DEF DeviceTake, hostVars
  <2>10. ASSUME NEW n \in 0 .. MaxLen, DevicePut(n) PROVE IInv'
    BY <2>10 DEF DevicePut, hostVars
  <2>11. CASE Unplug
    BY <2>11 DEF Unplug, hostVars
  <2>12. CASE Signal
    BY <2>12 DEF Signal, hostVars
  <2>13. CASE UNCHANGED vars
    BY <2>13 DEF vars
  <2> QED
    BY <2>1, <2>2, <2>3, <2>4, <2>5, <2>6, <2>7, <2>8, <2>9, <2>10, <2>11, <2>12, <2>13
    DEF Next
<1> QED
  BY <1>1, <1>2, PTL DEF Spec

(* Type correctness, for every value of the constants. *)
THEOREM TypeCorrect == Spec => []TypeOK
<1>1. IInv => TypeOK
  BY DEF IInv
<1> QED
  BY <1>1, Invariance, PTL

(* __usb_bulk_msg ignores which URB REAPURB returns; it is always its own. *)
THEOREM ReapsOwn == Spec => []ReapsOwnUrb
<1>1. IInv => ReapsOwnUrb
  BY DEF IInv
<1> QED
  BY <1>1, Invariance, PTL

(* No URB is left behind in the kernel while the device is attached. *)
THEOREM NoLeftover == Spec => []LeftoverMeansGone
<1>1. IInv => LeftoverMeansGone
  BY DEF IInv
<1> QED
  BY <1>1, Invariance, PTL

-----------------------------------------------------------------------------
(***************************************************************************)
(* The refinement.  The transfer of BulkPipe happens at the completion of  *)
(* the call's URB; a completion of an abandoned URB is invisible, because  *)
(* LeftoverMeansGone leaves it nothing to move.                            *)
(***************************************************************************)

(* Where a call stands, as its caller sees it: it is done from the         *)
(* completion of its own URB to its return.                                *)
LEMMA PhaseFacts ==
    ASSUME IInv
    PROVE  /\ Done <=> pc = "reap" /\ compl # <<>>
           /\ Done => Head(compl) \in Completion /\ Head(compl).id = cur.id
           /\ Done => Len(compl) = 1 /\ pend = {}
<1>1. compl \in Seq(Completion)
  BY DEF IInv, TypeOK
<1>2. ASSUME pc = "reap" PROVE cur \in pend <=> compl = <<>>
  BY <1>1, <1>2, EmptySeq DEF IInv, ReapsOwnUrb
<1>3. ASSUME pc = "reap", compl # <<>>
      PROVE Head(compl) \in Completion /\ Head(compl).id = cur.id /\ Len(compl) = 1 /\ pend = {}
  <2>1. cur \notin pend /\ Len(compl) = 1 /\ pend = {}
    BY <1>2, <1>3 DEF IInv, ReapsOwnUrb
  <2>2. Head(compl) = compl[1] /\ 1 \in DOMAIN compl /\ compl[1] \in Completion
    BY <1>1, <2>1
  <2> QED
    BY <1>3, <2>1, <2>2 DEF IInv, ReapsOwnUrb
<1> QED
  BY <1>2, <1>3 DEF Done

(* The completion of the waiting call's URB with k bytes is the end of its *)
(* transfer with outcome k.                                                *)
LEMMA OwnCompletion ==
    ASSUME IInv, pc = "reap", NEW u \in pend, NEW k, Complete(u, k)
    PROVE  /\ u = cur /\ ~Done /\ pc' = "reap" /\ Done'
           /\ compl' # <<>> /\ Head(compl').actual = k
           /\ cur' = cur /\ ret' = ret /\ up' = up
<1>1. u = cur /\ cur \in pend /\ compl = <<>>
  <2>1. u = cur /\ cur \in pend /\ Len(compl) = 0
    BY DEF IInv, ReapsOwnUrb
  <2> QED
    BY <2>1, EmptySeq DEF IInv, TypeOK
<1>2. pc' = "reap" /\ cur' = cur /\ ret' = ret /\ up' = up /\ cur \notin pend'
  BY <1>1 DEF Complete, hostVars
<1>3. compl' = <<[id |-> cur.id, actual |-> k]>>
  BY <1>1 DEF Complete
<1> QED
  BY <1>1, <1>2, <1>3 DEF Done

(* A completion by the host controller is the call's transfer, or nothing  *)
(* a caller can see.                                                       *)
LEMMA HcdImplements ==
    ASSUME IInv, BulkAssumption, NEW u \in pend,
           HcdOut(u) \/ HcdIn(u) \/ HcdOverflow(u) \/ HcdError(u)
    PROVE  [Pipe!Next]_(Pipe!pipeVars)
<1>1. PICK k : Complete(u, k)
  BY DEF HcdOut, HcdIn, HcdOverflow, HcdError
<1>2. CASE pc = "reap"
  <2>1. u = cur /\ ~Done /\ pc' = "reap" /\ Done' /\ compl' # <<>>
        /\ cur' = cur /\ ret' = ret /\ up' = up
    BY <1>1, <1>2, OwnCompletion
  <2>2. CASE HcdOut(u)
    <3>0. Complete(u, u.len)
      BY <2>2 DEF HcdOut
    <3>1. Head(compl').actual = u.len
      BY <1>2, <3>0, OwnCompletion
    <3>2. Pipe!TransferOut
      BY <1>2, <2>1, <2>2, <3>1 DEF HcdOut, Pipe!TransferOut
    <3> QED
      BY <3>2 DEF Pipe!Next
  <2>3. CASE HcdIn(u)
    <3>1. Head(compl').actual = Head(in)
      BY <1>2, <2>3, OwnCompletion DEF HcdIn
    <3>2. Pipe!TransferIn
      BY <1>2, <2>1, <2>3, <3>1 DEF HcdIn, Pipe!TransferIn
    <3> QED
      BY <3>2 DEF Pipe!Next
  <2>4. CASE HcdOverflow(u)
    <3>0. Complete(u, u.len)
      BY <2>4 DEF HcdOverflow
    <3>1. Head(compl').actual = u.len
      BY <1>2, <3>0, OwnCompletion
    <3>2. Pipe!TransferOverflow
      BY <1>2, <2>1, <2>4, <3>1 DEF HcdOverflow, Pipe!TransferOverflow
    <3> QED
      BY <3>2 DEF Pipe!Next
  <2>5. CASE HcdError(u)
    <3>1. PICK j \in 0 .. u.len : (PartialOut(u, j) \/ PartialIn(u, j)) /\ Complete(u, j)
      BY <2>5 DEF HcdError
    <3>2. Head(compl').actual = j
      BY <1>2, <3>1, OwnCompletion
    <3>3. Pipe!PartialOut(cur.dir, cur.len, j) \/ Pipe!PartialIn(cur.dir, j)
      BY <2>1, <3>1 DEF PartialOut, PartialIn, Pipe!PartialOut, Pipe!PartialIn
    <3>4. Pipe!TransferError
      BY <1>2, <2>1, <3>1, <3>2, <3>3 DEF Pipe!TransferError
    <3> QED
      BY <3>4 DEF Pipe!Next
  <2> QED
    BY <2>2, <2>3, <2>4, <2>5
<1>3. CASE pc # "reap"
  <2>1. ~up /\ pc' = pc /\ cur' = cur /\ ret' = ret /\ up' = up
    BY <1>1, <1>3 DEF IInv, LeftoverMeansGone, Complete, hostVars
  <2>2. out' = out /\ in' = in
    BY <2>1 DEF HcdOut, HcdIn, HcdOverflow, HcdError, PartialOut, PartialIn
  <2> QED
    BY <1>3, <2>1, <2>2 DEF Done, Pipe!pipeVars
<1> QED
  BY <1>2, <1>3

(* The calls of usb.c implement BulkPipe: each is one transfer, made at    *)
(* one instant between the call and its return, and a return value other   *)
(* than -1 is that transfer's outcome (ImplementsBulkPipe).                *)
THEOREM ImplementsPipe == Spec => ImplementsBulkPipe
<1>1. Init => Pipe!Init
  BY DEF Init, Pipe!Init, Done
<1>2. IInv /\ [Next]_vars => [Pipe!Next]_(Pipe!pipeVars)
  <2> SUFFICES ASSUME IInv, [Next]_vars PROVE [Pipe!Next]_(Pipe!pipeVars)
    OBVIOUS
  <2>1. ASSUME NEW n \in 0 .. MaxLen, usb_bulk_send(n) \/ usb_bulk_recv(n) PROVE Pipe!Next
    <3>1. Pipe!Begin("out", n) \/ Pipe!Begin("in", n)
      BY <2>1 DEF usb_bulk_send, usb_bulk_recv, Call, Done, Pipe!Begin
    <3> QED
      BY <3>1 DEF Pipe!Next
  <2>2. CASE SubmitOk
    BY <2>2 DEF SubmitOk, Done, Pipe!pipeVars
  <2>3. CASE SubmitEINTR
    BY <2>3 DEF SubmitEINTR, hostVars, Done, Pipe!pipeVars
  <2>4. CASE SubmitFail
    <3>1. Pipe!Refuse
      BY <2>4 DEF SubmitFail, Done, Pipe!Refuse
    <3> QED
      BY <3>1 DEF Pipe!Next
  <2>5. CASE ReapEINTR
    BY <2>5 DEF ReapEINTR, hostVars, Done, Pipe!pipeVars
  <2>6. CASE ReapOk
    <3>1. Done /\ Head(compl).id = cur.id /\ pc' = "idle"
      BY <2>6, PhaseFacts DEF ReapOk
    <3>2. Pipe!Return
      BY <2>6, <3>1 DEF ReapOk, Done, Pipe!Return
    <3> QED
      BY <3>2 DEF Pipe!Next
  <2>7. CASE ReapFail
    <3>1. ~Done /\ pc = "reap" /\ pc' = "idle"
      BY <2>7, PhaseFacts DEF ReapFail
    <3>2. Pipe!Refuse
      BY <2>7, <3>1 DEF ReapFail, Done, Pipe!Refuse
    <3> QED
      BY <3>2 DEF Pipe!Next
  <2>8. ASSUME NEW u \in pend, HcdOut(u) \/ HcdIn(u) \/ HcdOverflow(u) \/ HcdError(u)
        PROVE  [Pipe!Next]_(Pipe!pipeVars)
    BY <2>8, HcdImplements, BulkAssumption
  <2>9. CASE DeviceTake
    <3>1. Pipe!DeviceTake
      BY <2>9 DEF DeviceTake, hostVars, Done, Pipe!DeviceTake
    <3> QED
      BY <3>1 DEF Pipe!Next
  <2>10. ASSUME NEW n \in 0 .. MaxLen, DevicePut(n) PROVE Pipe!Next
    <3>1. Pipe!DevicePut(n)
      BY <2>10 DEF DevicePut, hostVars, Done, Pipe!DevicePut
    <3> QED
      BY <3>1 DEF Pipe!Next
  <2>11. CASE Unplug
    <3>1. Pipe!Unplug
      BY <2>11 DEF Unplug, hostVars, Done, Pipe!Unplug
    <3> QED
      BY <3>1 DEF Pipe!Next
  <2>12. CASE Signal
    BY <2>12 DEF Signal, hostVars, Done, Pipe!pipeVars
  <2>13. CASE UNCHANGED vars
    BY <2>13 DEF vars, Done, Pipe!pipeVars
  <2> QED
    BY <2>1, <2>2, <2>3, <2>4, <2>5, <2>6, <2>7, <2>8, <2>9, <2>10, <2>11, <2>12, <2>13
    DEF Next
<1> QED
  BY <1>1, <1>2, Invariance, PTL DEF Spec, ImplementsBulkPipe, Pipe!Spec

=============================================================================
