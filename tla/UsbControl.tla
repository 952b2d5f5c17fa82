------------------------------ MODULE UsbControl ------------------------------
(***************************************************************************)
(* The requests of src/lib/usb/usb.c that are one ioctl: the control       *)
(* requests usb_clear_feature to usb_synch_frame, usb_set_interface, and   *)
(* the interface requests usb_detach_interface to usb_get_driver.          *)
(* usb_get_descriptor and its users are in UsbDescriptors.                 *)
(*                                                                         *)
(* A control request is a setup packet: the functions differ in the packet *)
(* they build and in what they do with the answer.  The packet goes        *)
(* through usbfs, which knows the interfaces of the configuration it       *)
(* selected, their alternate settings and their drivers, to a device that  *)
(* does what chapter 9 of the USB specification says, and has a timeout of *)
(* one second, after which the device may or may not have acted.           *)
(*                                                                         *)
(* External: usbfs, the device, other drivers.                             *)
(***************************************************************************)
EXTENDS Integers, Sequences

CONSTANTS Interfaces,     \* interfaces of the device
          Alternates,     \* alternate settings of an interface
          Endpoints,      \* endpoints of the device
          Isochronous,    \* those of them that are isochronous
          Owner,          \* the interface an endpoint belongs to
          Configurations, \* configuration values; 0 is the address state
          KernelAddress,  \* the address the kernel gave the device
          Addresses       \* addresses a caller may set

ASSUME ControlAssumption ==
    /\ Interfaces \subseteq Nat /\ Endpoints \subseteq Nat \ {0}
    /\ Isochronous \subseteq Endpoints
    /\ Owner \in [Endpoints -> Interfaces]
    /\ Alternates \subseteq Nat /\ 0 \in Alternates
    /\ Configurations \subseteq Nat \ {0} /\ Configurations # {}
    /\ KernelAddress \in Addresses

VARIABLES up,     \* the device is attached
          dev,    \* the device: its configuration, settings and features
          kern,   \* the kernel: alternate settings and drivers of interfaces
          call,   \* the last call: function and argument
          errno,  \* why its ioctl failed, or "none"
          ret,    \* what it returned
          wlen,   \* *wlen, or NoLen while the call has not set it
          val     \* the answer in the caller's buffer, or NoVal

controlVars == <<up, dev, kern, call, errno, ret, wlen, val>>

NoLen == -1
NoVal == -1

Features == {"ENDPOINT_HALT", "REMOTE_WAKEUP", "TEST_MODE"}

ControlInit ==
    /\ up = TRUE
    /\ dev = [address |-> KernelAddress, config |-> CHOOSE c \in Configurations : TRUE,
              alt |-> [i \in Interfaces |-> 0], halted |-> {}, wakeup |-> FALSE]
    /\ kern = [alt |-> [i \in Interfaces |-> 0], driver |-> [i \in Interfaces |-> "driver"]]
    /\ call = <<"none", 0>> /\ errno = "none" /\ ret = 0 /\ wlen = NoLen /\ val = NoVal

(***************************************************************************)
(* The device (external): what it supports, answers and becomes.           *)
(***************************************************************************)
Setup(dir, recip, request, value, index, length) ==
    [dir |-> dir, recip |-> recip, request |-> request,
     value |-> value, index |-> index, length |-> length]

Configured == dev.config # 0

Present(s) ==
    CASE s.recip = "device"    -> TRUE
      [] s.recip = "interface" -> Configured /\ s.index \in Interfaces
      [] s.recip = "endpoint"  -> Configured /\ s.index \in Endpoints

(* The requests a device must support; any other is answered by a STALL.   *)
Supported(s) ==
    /\ Present(s)
    /\ \/ /\ s.request = "CLEAR_FEATURE" /\ s.dir = "out" /\ s.length = 0
          /\ <<s.recip, s.value>> \in {<<"endpoint", "ENDPOINT_HALT">>, <<"device", "REMOTE_WAKEUP">>}
       \/ /\ s.request = "GET_CONFIGURATION" /\ s.dir = "in" /\ s.recip = "device" /\ s.length = 1
       \/ /\ s.request = "GET_INTERFACE" /\ s.dir = "in" /\ s.recip = "interface" /\ s.length = 1
       \/ /\ s.request = "GET_STATUS" /\ s.dir = "in" /\ s.length = 2
       \/ /\ s.request = "SYNCH_FRAME" /\ s.dir = "in" /\ s.recip = "endpoint" /\ s.length = 2
          /\ s.index \in Isochronous
       \/ /\ s.request = "SET_ADDRESS" /\ s.dir = "out" /\ s.recip = "device" /\ s.length = 0
       \/ /\ s.request = "SET_CONFIGURATION" /\ s.dir = "out" /\ s.recip = "device" /\ s.length = 0
          /\ s.value \in Configurations \union {0}
       \/ /\ s.request = "SET_INTERFACE" /\ s.dir = "out" /\ s.recip = "interface" /\ s.length = 0
          /\ s.value \in Alternates

(* Selecting a configuration or a setting resets the halts it reaches.     *)
After(s) ==
    CASE s.request = "CLEAR_FEATURE" /\ s.recip = "endpoint" ->
            [dev EXCEPT !.halted = @ \ {s.index}]
      [] s.request = "CLEAR_FEATURE" /\ s.recip = "device" -> [dev EXCEPT !.wakeup = FALSE]
      [] s.request = "SET_ADDRESS" -> [dev EXCEPT !.address = s.value]
      [] s.request = "SET_CONFIGURATION" ->
            [dev EXCEPT !.config = s.value, !.alt = [i \in Interfaces |-> 0], !.halted = {}]
      [] s.request = "SET_INTERFACE" ->
            [dev EXCEPT !.alt[s.index] = s.value, !.halted = {e \in @ : Owner[e] # s.index}]
      [] OTHER -> dev

Answer(s) ==
    CASE s.request = "GET_CONFIGURATION" -> dev.config
      [] s.request = "GET_INTERFACE" -> dev.alt[s.index]
      [] s.request = "GET_STATUS" /\ s.recip = "endpoint" -> IF s.index \in dev.halted THEN 1 ELSE 0
      [] s.request = "GET_STATUS" /\ s.recip = "device" -> IF dev.wakeup THEN 2 ELSE 0
      [] s.request = "GET_STATUS" /\ s.recip = "interface" -> 0
      [] s.request = "SYNCH_FRAME" -> 0
      [] OTHER -> NoVal

(***************************************************************************)
(* The kernel (external).  A request for an interface, or for an endpoint  *)
(* of one, claims the interface and is refused while a driver has it.      *)
(***************************************************************************)
Aims(s) ==
    CASE s.recip = "device"    -> {}
      [] s.recip = "interface" -> {s.index}
      [] s.recip = "endpoint"  -> {Owner[s.index]}

Claiming(I) == [kern EXCEPT !.driver = [i \in Interfaces |-> IF i \in I THEN "usbfs" ELSE @[i]]]

Reachable == up /\ dev.address = KernelAddress

Fails(e) == errno' = e /\ UNCHANGED <<dev, kern>>

(* The packet is sent; after is the kernel's state when it is answered.    *)
Exchange(s, after) ==
    \/ ~up /\ Fails("ENODEV")
    \/ up /\ (\E i \in Aims(s) : kern.driver[i] = "driver") /\ Fails("EBUSY")
    \/ /\ up /\ \A i \in Aims(s) : kern.driver[i] # "driver"
       /\ \/ /\ Reachable /\ Supported(s)
             /\ errno' = "none" /\ dev' = After(s) /\ kern' = after
          \/ /\ Reachable /\ ~Supported(s)
             /\ errno' = "EPIPE" /\ UNCHANGED dev /\ kern' = Claiming(Aims(s))
          \/ /\ errno' = "ETIMEDOUT" /\ kern' = Claiming(Aims(s))
             /\ \/ UNCHANGED dev
                \/ Reachable /\ Supported(s) /\ dev' = After(s)

(* USBDEVFS_CONTROL: the kernel does not look at what it passes on.        *)
Control(s) == Exchange(s, Claiming(Aims(s)))

(* A driver lets go: the kernel returns the interface to setting 0.        *)
Unbind(i) ==
    /\ errno' = "none"
    /\ kern' = [kern EXCEPT !.driver[i] = "none", !.alt[i] = IF Reachable THEN 0 ELSE @]
    /\ dev' = IF Reachable /\ kern.alt[i] # 0
              THEN After(Setup("out", "interface", "SET_INTERFACE", 0, i, 0)) ELSE dev

(***************************************************************************)
(* The functions.  Each returns 1 when its ioctl fails and 0 otherwise;    *)
(* Before and Upon say whether *wlen is set before the ioctl or upon its   *)
(* success.                                                                *)
(***************************************************************************)
ReturnsMinusOne(name, arg) ==
    /\ call' = <<name, arg>> /\ UNCHANGED up
    /\ ret' = IF errno' = "none" THEN 0 ELSE -1

Returns(name, arg) ==
    /\ call' = <<name, arg>> /\ UNCHANGED up
    /\ ret' = IF errno' = "none" THEN 0 ELSE 1

Send(name, arg, s) == Control(s) /\ Returns(name, arg) /\ wlen' = NoLen /\ val' = NoVal

Read(s) == Control(s) /\ val' = IF errno' = "none" THEN Answer(s) ELSE NoVal
Before(n) == wlen' = n
Upon(n) == wlen' = IF errno' = "none" THEN n ELSE NoLen

DeviceAlways(feature) == "device"

(* switch (feature_selector) *)
FeatureRecipient(feature) ==
    CASE feature \in {"REMOTE_WAKEUP", "TEST_MODE"} -> "device"
      [] feature = "ENDPOINT_HALT" -> "endpoint"

usb_clear_feature(feature, index) ==
    Send("clear_feature", <<feature, index>>,
         Setup("out", FeatureRecipient(feature), "CLEAR_FEATURE", feature, index, 0))

usb_get_configuration ==
    /\ Read(Setup("in", "device", "GET_CONFIGURATION", 0, 0, 1))
    /\ Returns("get_configuration", 0) /\ Before(1)

usb_get_interface(i) ==
    /\ Read(Setup("in", "interface", "GET_INTERFACE", 0, i, 1))
    /\ Returns("get_interface", i) /\ Upon(1)

StatusOfDevice(recipient, index) ==
    /\ Read(Setup("in", "device", "GET_STATUS", 0, index, 2))
    /\ Returns("get_status", <<recipient, index>>) /\ Before(2)

usb_get_status(recipient, index) ==
    /\ Read(Setup("in", recipient, "GET_STATUS", 0, index, 2))
    /\ Returns("get_status", <<recipient, index>>) /\ Before(2)

usb_set_address(a) ==
    Send("set_address", a, Setup("out", "device", "SET_ADDRESS", a, 0, 0))

usb_set_configuration(c) ==
    Send("set_configuration", c, Setup("out", "device", "SET_CONFIGURATION", c, 0, 0))

(* The control request that is commented out in usb_set_interface.         *)
SetInterfaceByControl(i, a) ==
    Send("set_interface", i, Setup("out", "interface", "SET_INTERFACE", a, i, 0))

(* USBDEVFS_SETINTERFACE: the kernel sends the packet and remembers it.    *)
usb_set_interface(i, a) ==
    /\ Exchange(Setup("out", "interface", "SET_INTERFACE", a, i, 0),
                [Claiming({i}) EXCEPT !.alt[i] = a])
    /\ Returns("set_interface", i) /\ wlen' = NoLen /\ val' = NoVal

usb_synch_frame(e) ==
    /\ Read(Setup("in", "endpoint", "SYNCH_FRAME", 0, e, 2))
    /\ Returns("synch_frame", e) /\ wlen' = NoLen

(* The interface requests.                                                 *)
Interface(name, i, done, otherwise) ==
    /\ \/ ~up /\ Fails("ENODEV")
       \/ up /\ done
       \/ up /\ otherwise
    /\ Returns(name, i) /\ wlen' = NoLen /\ val' = NoVal

usb_detach_interface(i) ==
    Interface("detach_interface", i, kern.driver[i] # "none" /\ Unbind(i),
              kern.driver[i] = "none" /\ Fails("ENODATA"))

usb_claim_interface(i) ==
    Interface("claim_interface", i,
              /\ kern.driver[i] # "driver"
              /\ errno' = "none" /\ kern' = Claiming({i}) /\ UNCHANGED dev,
              kern.driver[i] = "driver" /\ Fails("EBUSY"))

usb_release_interface(i) ==
    Interface("release_interface", i, kern.driver[i] = "usbfs" /\ Unbind(i),
              kern.driver[i] # "usbfs" /\ Fails("EINVAL"))

usb_get_driver(i) ==
    Interface("get_driver", i, kern.driver[i] # "none" /\ Fails("none"),
              kern.driver[i] = "none" /\ Fails("ENODATA"))

(***************************************************************************)
(* What the device, the cable and other drivers do (external).             *)
(***************************************************************************)
Halt(e) == Reachable /\ Configured /\ dev' = [dev EXCEPT !.halted = @ \union {e}] /\ UNCHANGED kern
Wakeup == Reachable /\ dev' = [dev EXCEPT !.wakeup = TRUE] /\ UNCHANGED kern
Bind(i) ==
    /\ up /\ kern.driver[i] = "none"
    /\ kern' = [kern EXCEPT !.driver[i] = "driver"] /\ UNCHANGED dev

Unplug == up /\ up' = FALSE /\ UNCHANGED <<dev, kern, call, errno, ret, wlen, val>>

ControlEnvironment ==
    \/ /\ \/ \E e \in Endpoints : Halt(e)
          \/ Wakeup
          \/ \E i \in Interfaces : Bind(i)
       /\ UNCHANGED <<up, call, errno, ret, wlen, val>>
    \/ Unplug

ControlRequest ==
    \/ usb_get_configuration
    \/ \E feature \in Features \ {"ENDPOINT_HALT"} : usb_clear_feature(feature, 0)
    \/ usb_get_status("device", 0)
    \/ \E a \in Addresses : usb_set_address(a)
    \/ \E c \in Configurations \union {0} : usb_set_configuration(c)
    \/ \E e \in Endpoints :
          \/ usb_clear_feature("ENDPOINT_HALT", e)
          \/ usb_get_status("endpoint", e)
          \/ usb_synch_frame(e)
    \/ \E i \in Interfaces :
          \/ usb_get_interface(i) \/ usb_get_status("interface", i)
          \/ \E a \in Alternates : usb_set_interface(i, a)
          \/ usb_detach_interface(i) \/ usb_claim_interface(i)
          \/ usb_release_interface(i) \/ usb_get_driver(i)

ControlNext == ControlRequest \/ ControlEnvironment

ControlSpec == ControlInit /\ [][ControlNext]_controlVars

(***************************************************************************)
(* Properties.                                                             *)
(***************************************************************************)

(* The type invariant of the requests of usb.c:79-330.                     *)
ControlTypeOK ==
    /\ up \in BOOLEAN
    /\ dev \in [address : Addresses, config : Configurations \union {0},
                alt : [Interfaces -> Alternates], halted : SUBSET Endpoints, wakeup : BOOLEAN]
    /\ kern \in [alt : [Interfaces -> Alternates],
                 driver : [Interfaces -> {"none", "usbfs", "driver"}]]
    /\ errno \in {"none", "ENODEV", "EBUSY", "EPIPE", "ETIMEDOUT", "ENODATA", "EINVAL", "EFAULT"}
    /\ ret \in {0, 1} /\ (ret = 1 <=> errno # "none")

(* The recipients of usb.c:88-98 and the fields of every other request are *)
(* such that a configured device answers: it STALLs only what it may, the  *)
(* end of a test mode and the frame of an endpoint that has none.          *)
NoStall ==
    errno = "EPIPE" =>
        \/ dev.config = 0
        \/ call[1] = "clear_feature" /\ call[2][1] = "TEST_MODE"
        \/ call[1] = "synch_frame" /\ call[2] \notin Isochronous
        \/ call[1] \in {"get_descriptor", "get_string", "set_descriptor"}

(* The kernel and the device agree on the alternate settings: what makes   *)
(* them part is the configuration that usb_set_configuration selects       *)
(* without the kernel (usb.c:223-236), or a request that was reported as   *)
(* failed, and never usb_set_interface (usb.c:253-275).                    *)
KernelInStep ==
    [][kern.alt = dev.alt /\ kern'.alt # dev'.alt =>
          \/ \E c \in Configurations \union {0} : usb_set_configuration(c)
          \/ ret' = 1]_controlVars

(* A request that returns 0 has done to the device what its name says and  *)
(* nothing else, and a query returns what it asks for and does nothing.    *)
EffectAsNamed ==
    [][ret' = 0 =>
          /\ \A e \in Endpoints :
                /\ usb_clear_feature("ENDPOINT_HALT", e) => dev' = [dev EXCEPT !.halted = @ \ {e}]
                /\ usb_get_status("endpoint", e) =>
                      dev' = dev /\ (val' = 1 <=> e \in dev.halted)
          /\ \A i \in Interfaces, a \in Alternates :
                usb_set_interface(i, a) =>
                      dev'.alt = [dev.alt EXCEPT ![i] = a] /\ dev'.config = dev.config
          /\ \A i \in Interfaces : usb_get_interface(i) => dev' = dev /\ val' = dev.alt[i]
          /\ usb_get_configuration => dev' = dev /\ val' = dev.config
          /\ \A c \in Configurations \union {0} :
                usb_set_configuration(c) => dev'.config = c /\ dev'.address = dev.address
      ]_controlVars
=============================================================================
