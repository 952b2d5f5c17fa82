---------------------------- MODULE MCUsbControl ----------------------------
(***************************************************************************)
(* A device with one interface for TLC: every endpoint is its.             *)
(***************************************************************************)
EXTENDS UsbControl

MCOwner == [e \in Endpoints |-> 0]
=============================================================================
