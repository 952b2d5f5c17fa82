----------------------------- MODULE RemoteCall -----------------------------
(***************************************************************************)
(* What an operation of src/lib/ptp/ptp.c is for its caller: a remote      *)
(* procedure call.  The responder carries a request out once, after it was *)
(* made and before its call returns, and that call returns with what came  *)
(* of it.  Blocks, packets, pipes and __rbuffer are hidden; Ptp implements *)
(* this module.  Once a transfer breaks off nothing is promised any more.  *)
(*                                                                         *)
(* A data block is represented by its length.                              *)
(***************************************************************************)
EXTENDS Integers

CONSTANTS Operations,   \* codes of operations
          DataIn,       \* those that return a data block
          Nothing       \* no result

VARIABLES phase,    \* "idle" | "asked" | "served" | "off"
          request,  \* the call in progress, or the last one
          data,     \* while "served", the data block it is answered with
          result    \* while "idle", what the last call returned with

callVars == <<phase, request, data, result>>

Requests == [code : Operations, tid : Int, len : Int]

Init == phase = "idle" /\ data = 0

Ask ==
    /\ phase = "idle" /\ phase' = "asked"
    /\ request' \in Requests
    /\ data' = 0 /\ result' = Nothing

(* The responder does what it is asked, or refuses to. *)
Serve ==
    /\ phase = "asked" /\ phase' = "served"
    /\ data' \in IF request.code \in DataIn THEN Nat ELSE {0}
    /\ UNCHANGED <<request, result>>

(* The caller has the whole block, as far as its buffer goes. *)
Return ==
    /\ phase = "served" /\ phase' = "idle"
    /\ result'.ret = 0 /\ result'.tid = request.tid
    /\ result'.ok /\ request.code \in DataIn =>
          /\ data > 0 /\ result'.length = data
          /\ result'.copied = IF data < request.len THEN data ELSE request.len
    /\ data' = 0 /\ UNCHANGED request

(* The call fails, and the responder never sees the request. *)
Refuse ==
    /\ phase = "asked" /\ phase' = "idle"
    /\ result'.ret = -1
    /\ data' = 0 /\ UNCHANGED request

(* ptp_initiate_capture. *)
NotImplemented ==
    /\ phase = "idle"
    /\ request' \in Requests /\ result'.ret = 0
    /\ UNCHANGED <<phase, data>>

(* A transfer breaks off, or one has before. *)
BreakOff == phase' = "off"

Next == Ask \/ Serve \/ Return \/ Refuse \/ NotImplemented \/ BreakOff

Spec == Init /\ [][Next]_callVars

=============================================================================
