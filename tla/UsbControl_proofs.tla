-------------------------- MODULE UsbControl_proofs --------------------------
(***************************************************************************)
(* Proofs about UsbControl, for any interfaces, settings, endpoints and    *)
(* configurations: the types, that a configured device answers what these  *)
(* functions ask, and what a step may do to the device and to what the     *)
(* kernel knows of it.                                                     *)
(***************************************************************************)
EXTENDS UsbControl, TLAPS

Devices ==
    [address : Addresses, config : Configurations \union {0},
     alt : [Interfaces -> Alternates], halted : SUBSET Endpoints, wakeup : BOOLEAN]
Kernels == [alt : [Interfaces -> Alternates], driver : [Interfaces -> {"none", "usbfs", "driver"}]]
Errors == {"none", "ENODEV", "EBUSY", "EPIPE", "ETIMEDOUT", "ENODATA", "EINVAL", "EFAULT"}

-----------------------------------------------------------------------------
(* A packet and its fields. *)
LEMMA SetupFields ==
    ASSUME NEW dir, NEW recip, NEW request, NEW value, NEW index, NEW length
    PROVE  LET s == Setup(dir, recip, request, value, index, length)
           IN  /\ s.dir = dir /\ s.recip = recip /\ s.request = request
               /\ s.value = value /\ s.index = index /\ s.length = length
BY DEF Setup

(* A device that has done what it supports is a device. *)
LEMMA AfterType ==
    ASSUME ControlAssumption, dev \in Devices, NEW s, Supported(s),
           s.request = "SET_ADDRESS" => s.value \in Addresses
    PROVE  After(s) \in Devices
<1>1. CASE s.request = "CLEAR_FEATURE"
  BY <1>1 DEF Supported, After, Devices
<1>2. CASE s.request = "SET_ADDRESS"
  BY <1>2 DEF After, Devices
<1>3. CASE s.request = "SET_CONFIGURATION"
  <2>1. s.value \in Configurations \union {0} /\ 0 \in Alternates
    BY <1>3 DEF Supported, ControlAssumption
  <2> QED
    BY <1>3, <2>1 DEF After, Devices
<1>4. CASE s.request = "SET_INTERFACE"
  <2>1. s.value \in Alternates /\ s.index \in Interfaces
    BY <1>4 DEF Supported, Present
  <2> QED
    BY <1>4, <2>1 DEF After, Devices
<1>5. CASE s.request \notin {"CLEAR_FEATURE", "SET_ADDRESS", "SET_CONFIGURATION", "SET_INTERFACE"}
  BY <1>5 DEF After
<1> QED
  BY <1>1, <1>2, <1>3, <1>4, <1>5

(* Claiming changes drivers only. *)
LEMMA ClaimingFacts ==
    ASSUME kern \in Kernels, NEW I
    PROVE  Claiming(I) \in Kernels /\ Claiming(I).alt = kern.alt
BY DEF Claiming, Kernels

(* What can come of sending a packet. *)
LEMMA ExchangeIs ==
    ASSUME NEW s, NEW after, Exchange(s, after)
    PROVE  \/ errno' \in {"ENODEV", "EBUSY"} /\ dev' = dev /\ kern' = kern
           \/ errno' = "none" /\ Reachable /\ Supported(s) /\ dev' = After(s) /\ kern' = after
           \/ /\ errno' = "EPIPE" /\ Reachable /\ ~Supported(s)
              /\ dev' = dev /\ kern' = Claiming(Aims(s))
           \/ /\ errno' = "ETIMEDOUT" /\ kern' = Claiming(Aims(s))
              /\ dev' = dev \/ (Supported(s) /\ dev' = After(s))
BY DEF Exchange, Fails

(* What the functions that send a packet have in common: the device and    *)
(* the kernel stay what they are, and only what the packet asks for STALLs.*)
LEMMA ExchangeStep ==
    ASSUME ControlAssumption, ControlTypeOK, NEW s, NEW after, Exchange(s, after),
           after \in Kernels, s.request = "SET_ADDRESS" => s.value \in Addresses,
           NEW name, NEW arg, Returns(name, arg)
    PROVE  /\ ControlTypeOK' /\ call' = <<name, arg>> /\ call'[1] = name /\ call'[2] = arg
           /\ errno' = "EPIPE" => dev' = dev /\ ~Supported(s)
           /\ ret' = 0 => dev' = After(s) /\ kern' = after /\ errno' = "none"
<1>1. dev \in Devices /\ kern \in Kernels
  BY DEF ControlTypeOK, Devices, Kernels
<1>2. Claiming(Aims(s)) \in Kernels /\ (Supported(s) => After(s) \in Devices)
  BY <1>1, AfterType, ClaimingFacts
<1>3. dev' \in Devices /\ kern' \in Kernels /\ errno' \in Errors
  BY <1>1, <1>2, ExchangeIs DEF Errors
<1>4. up' \in BOOLEAN /\ ret' = (IF errno' = "none" THEN 0 ELSE 1) /\ call' = <<name, arg>>
  BY DEF Returns, ControlTypeOK
<1>5. ControlTypeOK'
  BY <1>3, <1>4 DEF ControlTypeOK, Devices, Kernels, Errors
<1>6. errno' = "EPIPE" => dev' = dev /\ ~Supported(s)
  BY ExchangeIs
<1>7. ret' = 0 => dev' = After(s) /\ kern' = after /\ errno' = "none"
  BY <1>4, ExchangeIs
<1> QED
  BY <1>4, <1>5, <1>6, <1>7

(* A driver that lets go leaves the device and the kernel agreeing on the  *)
(* setting, if they did.                                                   *)
LEMMA UnbindFacts ==
    ASSUME ControlAssumption, dev \in Devices, kern \in Kernels, NEW i \in Interfaces, Unbind(i)
    PROVE  /\ dev' \in Devices /\ kern' \in Kernels /\ errno' = "none"
           /\ kern.alt = dev.alt => kern'.alt = dev'.alt
<1> DEFINE s == Setup("out", "interface", "SET_INTERFACE", 0, i, 0)
<1>1. s.request = "SET_INTERFACE" /\ s.value = 0 /\ s.index = i /\ s.recip = "interface"
  BY SetupFields
<1>2. After(s) = [dev EXCEPT !.alt[i] = 0, !.halted = {e \in @ : Owner[e] # i}]
  BY <1>1 DEF After
<1>3. 0 \in Alternates
  BY DEF ControlAssumption
<1>4. After(s) \in Devices /\ After(s).alt = [dev.alt EXCEPT ![i] = 0]
  <2> DEFINE h == {e \in dev.halted : Owner[e] # i}
  <2>1. h \in SUBSET Endpoints
    BY DEF Devices
  <2> DEFINE a == [dev.alt EXCEPT ![i] = 0]
  <2>2. a \in [Interfaces -> Alternates]
    BY <1>3 DEF Devices
  <2>3. After(s) = [dev EXCEPT !.alt = a, !.halted = h]
    BY <1>2
  <2> HIDE DEF h, a, s
  <2>4. After(s) \in Devices /\ After(s).alt = a
    BY <2>1, <2>2, <2>3 DEF Devices
  <2> QED
    BY <2>4 DEF a
<1>5. /\ errno' = "none"
      /\ dev' = IF Reachable /\ kern.alt[i] # 0 THEN After(s) ELSE dev
  BY DEF Unbind
<1> HIDE DEF s
<1>6. kern' \in Kernels /\ kern'.alt = [kern.alt EXCEPT ![i] = IF Reachable THEN 0 ELSE kern.alt[i]]
  <2>1. CASE Reachable
    <3>1. kern' = [kern EXCEPT !.driver[i] = "none", !.alt[i] = 0]
      BY <2>1 DEF Unbind
    <3> QED
      BY <1>3, <2>1, <3>1 DEF Kernels
  <2>2. CASE ~Reachable
    <3>1. kern' = [kern EXCEPT !.driver[i] = "none", !.alt[i] = @]
      BY <2>2 DEF Unbind
    <3> QED
      BY <2>2, <3>1 DEF Kernels
  <2> QED
    BY <2>1, <2>2
<1>7. kern.alt \in [Interfaces -> Alternates] /\ dev.alt \in [Interfaces -> Alternates]
  BY DEF Devices, Kernels
<1>8. ASSUME kern.alt = dev.alt PROVE kern'.alt = dev'.alt
  <2>1. CASE Reachable /\ kern.alt[i] # 0
    BY <1>4, <1>5, <1>6, <1>8, <2>1
  <2>2. CASE ~(Reachable /\ kern.alt[i] # 0)
    <3>1. kern'.alt = kern.alt
      BY <1>6, <1>7, <1>8, <2>2
    <3>2. dev' = dev
      BY <1>5, <2>2
    <3> QED
      BY <1>8, <3>1, <3>2
  <2> QED
    BY <2>1, <2>2
<1>9. dev' \in Devices
  BY <1>4, <1>5
<1> QED
  BY <1>5, <1>6, <1>8, <1>9

(* The interface requests: the ioctl that detaches a driver, claims or     *)
(* releases an interface or asks for its driver.                           *)
LEMMA InterfaceStep ==
    ASSUME ControlAssumption, ControlTypeOK, NEW i \in Interfaces,
           usb_detach_interface(i) \/ usb_claim_interface(i)
              \/ usb_release_interface(i) \/ usb_get_driver(i)
    PROVE  ControlTypeOK' /\ errno' # "EPIPE" /\ (kern.alt = dev.alt => kern'.alt = dev'.alt)
<1>1. dev \in Devices /\ kern \in Kernels
  BY DEF ControlTypeOK, Devices, Kernels
<1>2. \/ errno' \in {"ENODEV", "EBUSY", "ENODATA", "EINVAL", "none"} /\ dev' = dev /\ kern' = kern
      \/ errno' = "none" /\ kern' = Claiming({i}) /\ dev' = dev
      \/ Unbind(i)
  BY DEF usb_detach_interface, usb_claim_interface, usb_release_interface, usb_get_driver,
     Interface, Fails
<1>3. /\ dev' \in Devices /\ kern' \in Kernels /\ errno' \in Errors \ {"EPIPE"}
      /\ kern.alt = dev.alt => kern'.alt = dev'.alt
  BY <1>1, <1>2, ClaimingFacts, UnbindFacts DEF Errors
<1>4. up' = up /\ ret' = IF errno' = "none" THEN 0 ELSE 1
  BY DEF usb_detach_interface, usb_claim_interface, usb_release_interface, usb_get_driver,
     Interface, Returns
<1> QED
  BY <1>3, <1>4 DEF ControlTypeOK, Devices, Kernels, Errors

(* What the device, the cable and other drivers do is no answer to a call. *)
LEMMA EnvironmentStep ==
    ASSUME ControlAssumption, ControlTypeOK, ControlEnvironment
    PROVE  /\ ControlTypeOK' /\ UNCHANGED <<call, errno, ret>>
           /\ dev'.config = dev.config /\ dev'.alt = dev.alt /\ kern'.alt = kern.alt
<1>1. dev \in Devices /\ kern \in Kernels
  BY DEF ControlTypeOK, Devices, Kernels
<1>2. /\ UNCHANGED <<call, errno, ret>> /\ up' \in BOOLEAN
      /\ \/ \E e \in Endpoints : dev' = [dev EXCEPT !.halted = @ \union {e}] /\ kern' = kern
         \/ dev' = [dev EXCEPT !.wakeup = TRUE] /\ kern' = kern
         \/ \E i \in Interfaces : kern' = [kern EXCEPT !.driver[i] = "driver"] /\ dev' = dev
         \/ UNCHANGED <<dev, kern>>
  BY DEF ControlEnvironment, Halt, Wakeup, Bind, Unplug, ControlTypeOK
<1>3. dev' \in Devices /\ dev'.config = dev.config /\ dev'.alt = dev.alt
  <2>1. ASSUME NEW e \in Endpoints, dev' = [dev EXCEPT !.halted = @ \union {e}]
        PROVE  dev' \in Devices /\ dev'.config = dev.config /\ dev'.alt = dev.alt
    BY <1>1, <2>1 DEF Devices
  <2>2. CASE dev' = [dev EXCEPT !.wakeup = TRUE]
    BY <1>1, <2>2 DEF Devices
  <2> QED
    BY <1>1, <1>2, <2>1, <2>2
<1>4. kern' \in Kernels /\ kern'.alt = kern.alt
  <2>1. ASSUME NEW i \in Interfaces, kern' = [kern EXCEPT !.driver[i] = "driver"]
        PROVE  kern' \in Kernels /\ kern'.alt = kern.alt
    BY <1>1, <2>1 DEF Kernels
  <2> QED
    BY <1>1, <1>2, <2>1
<1> QED
  BY <1>2, <1>3, <1>4 DEF ControlTypeOK, Devices, Kernels

-----------------------------------------------------------------------------
(* What each function asks for, and what has become of it when it returns. *)

(* A step of a function that sends a packet: it keeps the types, is        *)
(* STALLed only where NoStall says, and leaves the settings agreed on.     *)
Proper ==
    /\ ControlTypeOK'
    /\ errno' = "EPIPE" => NoStall'
    /\ kern.alt = dev.alt /\ kern'.alt # dev'.alt =>
          \/ \E c \in Configurations \union {0} : usb_set_configuration(c)
          \/ ret' = 1

(* A packet whose effect leaves the settings alone.                        *)
LEMMA PacketProper ==
    ASSUME ControlAssumption, ControlTypeOK, NEW s, Control(s), NEW name, NEW arg, Returns(name, arg),
           s.request = "SET_ADDRESS" => s.value \in Addresses,
           s.request \in {"CLEAR_FEATURE", "GET_CONFIGURATION", "GET_INTERFACE", "GET_STATUS",
                          "SET_ADDRESS", "SYNCH_FRAME"},
           dev.config # 0 /\ ~Supported(s) =>
              \/ name = "clear_feature" /\ arg[1] = "TEST_MODE"
              \/ name = "synch_frame" /\ arg \notin Isochronous
    PROVE  Proper
<1>1. kern \in Kernels /\ dev \in Devices
  BY DEF ControlTypeOK, Kernels, Devices
<1>2. Exchange(s, Claiming(Aims(s))) /\ Claiming(Aims(s)) \in Kernels
      /\ Claiming(Aims(s)).alt = kern.alt
  BY <1>1, ClaimingFacts DEF Control
<1>3. /\ ControlTypeOK' /\ call'[1] = name /\ call'[2] = arg
      /\ errno' = "EPIPE" => dev' = dev /\ ~Supported(s)
      /\ ret' = 0 => dev' = After(s) /\ kern' = Claiming(Aims(s))
  BY <1>2, ExchangeStep
<1>4. errno' = "EPIPE" => NoStall'
  BY <1>3 DEF NoStall
<1>5. After(s).alt = dev.alt
  BY <1>1 DEF After, Devices
<1>6. ret' = 0 \/ ret' = 1
  BY <1>3 DEF ControlTypeOK
<1> QED
  BY <1>2, <1>3, <1>4, <1>5, <1>6 DEF Proper

(* Every request is proper: the packets usb.c:79-330 builds are ones the   *)
(* device knows.                                                           *)
LEMMA RequestStep ==
    ASSUME ControlAssumption, ControlTypeOK, ControlRequest
    PROVE  Proper
<1> USE DEF Send, Read, Before, Upon
<1>1. dev \in Devices /\ kern \in Kernels
  BY DEF ControlTypeOK, Devices, Kernels
<1>2. CASE usb_get_configuration
  <2> DEFINE s == Setup("in", "device", "GET_CONFIGURATION", 0, 0, 1)
  <2>1. s.request = "GET_CONFIGURATION" /\ Supported(s)
    BY DEF Setup, Supported, Present
  <2>2. Control(s) /\ Returns("get_configuration", 0)
    BY <1>2 DEF usb_get_configuration
  <2> HIDE DEF s
  <2> QED
    BY <2>1, <2>2, PacketProper
<1>3. ASSUME NEW feature \in Features \ {"ENDPOINT_HALT"}, usb_clear_feature(feature, 0)
      PROVE  Proper
  <2> DEFINE s == Setup("out", "device", "CLEAR_FEATURE", feature, 0, 0)
             arg == <<feature, 0>>
  <2>1. FeatureRecipient(feature) = "device"
    BY DEF FeatureRecipient, Features
  <2>2. Control(s) /\ Returns("clear_feature", arg)
    BY <1>3, <2>1 DEF usb_clear_feature
  <2>3. feature = "REMOTE_WAKEUP" => Supported(s)
    BY DEF Setup, Supported, Present
  <2>4. s.request = "CLEAR_FEATURE" /\ arg[1] = feature /\ feature \in {"REMOTE_WAKEUP", "TEST_MODE"}
    BY DEF Setup, Features
  <2> HIDE DEF s, arg
  <2> QED
    BY <2>2, <2>3, <2>4, PacketProper
<1>4. CASE usb_get_status("device", 0)
  <2> DEFINE s == Setup("in", "device", "GET_STATUS", 0, 0, 2)
             arg == <<"device", 0>>
  <2>1. s.request = "GET_STATUS" /\ Supported(s)
    BY DEF Setup, Supported, Present
  <2>2. Control(s) /\ Returns("get_status", arg)
    BY <1>4 DEF usb_get_status
  <2> HIDE DEF s, arg
  <2> QED
    BY <2>1, <2>2, PacketProper
<1>5. ASSUME NEW a \in Addresses, usb_set_address(a) PROVE Proper
  <2> DEFINE s == Setup("out", "device", "SET_ADDRESS", a, 0, 0)
  <2>1. s.request = "SET_ADDRESS" /\ s.value \in Addresses /\ Supported(s)
    BY DEF Setup, Supported, Present
  <2>2. Control(s) /\ Returns("set_address", a)
    BY <1>5 DEF usb_set_address
  <2> HIDE DEF s
  <2> QED
    BY <2>1, <2>2, PacketProper
<1>6. ASSUME NEW c \in Configurations \union {0}, usb_set_configuration(c) PROVE Proper
  <2> DEFINE s == Setup("out", "device", "SET_CONFIGURATION", c, 0, 0)
  <2>1. s.request = "SET_CONFIGURATION" /\ Supported(s)
    BY DEF Setup, Supported, Present
  <2>2. Exchange(s, Claiming(Aims(s))) /\ Returns("set_configuration", c)
    BY <1>6 DEF usb_set_configuration, Control
  <2> HIDE DEF s
  <2>3. ControlTypeOK' /\ errno' # "EPIPE"
    BY <1>1, <2>1, <2>2, ExchangeStep, ClaimingFacts
  <2> QED
    BY <1>6, <2>3 DEF Proper
<1>7. ASSUME NEW e \in Endpoints, usb_clear_feature("ENDPOINT_HALT", e) PROVE Proper
  <2> DEFINE s == Setup("out", "endpoint", "CLEAR_FEATURE", "ENDPOINT_HALT", e, 0)
             arg == <<"ENDPOINT_HALT", e>>
  <2>1. Control(s) /\ Returns("clear_feature", arg)
    BY <1>7 DEF usb_clear_feature, FeatureRecipient
  <2>2. s.request = "CLEAR_FEATURE" /\ (dev.config # 0 => Supported(s))
    BY DEF Setup, Supported, Present, Configured
  <2> HIDE DEF s, arg
  <2> QED
    BY <2>1, <2>2, PacketProper
<1>8. ASSUME NEW e \in Endpoints, usb_get_status("endpoint", e) PROVE Proper
  <2> DEFINE s == Setup("in", "endpoint", "GET_STATUS", 0, e, 2)
             arg == <<"endpoint", e>>
  <2>1. Control(s) /\ Returns("get_status", arg)
    BY <1>8 DEF usb_get_status
  <2>2. s.request = "GET_STATUS" /\ (dev.config # 0 => Supported(s))
    BY DEF Setup, Supported, Present, Configured
  <2> HIDE DEF s, arg
  <2> QED
    BY <2>1, <2>2, PacketProper
<1>9. ASSUME NEW e \in Endpoints, usb_synch_frame(e) PROVE Proper
  <2> DEFINE s == Setup("in", "endpoint", "SYNCH_FRAME", 0, e, 2)
  <2>1. Control(s) /\ Returns("synch_frame", e)
    BY <1>9 DEF usb_synch_frame
  <2>2. s.request = "SYNCH_FRAME" /\ (dev.config # 0 /\ e \in Isochronous => Supported(s))
    BY DEF Setup, Supported, Present, Configured
  <2> HIDE DEF s
  <2> QED
    BY <2>1, <2>2, PacketProper
<1>10. ASSUME NEW i \in Interfaces, usb_get_interface(i) PROVE Proper
  <2> DEFINE s == Setup("in", "interface", "GET_INTERFACE", 0, i, 1)
  <2>1. Control(s) /\ Returns("get_interface", i)
    BY <1>10 DEF usb_get_interface
  <2>2. s.request = "GET_INTERFACE" /\ (dev.config # 0 => Supported(s))
    BY DEF Setup, Supported, Present, Configured
  <2> HIDE DEF s
  <2> QED
    BY <2>1, <2>2, PacketProper
<1>11. ASSUME NEW i \in Interfaces, usb_get_status("interface", i) PROVE Proper
  <2> DEFINE s == Setup("in", "interface", "GET_STATUS", 0, i, 2)
             arg == <<"interface", i>>
  <2>1. Control(s) /\ Returns("get_status", arg)
    BY <1>11 DEF usb_get_status
  <2>2. s.request = "GET_STATUS" /\ (dev.config # 0 => Supported(s))
    BY DEF Setup, Supported, Present, Configured
  <2> HIDE DEF s, arg
  <2> QED
    BY <2>1, <2>2, PacketProper
<1>12. ASSUME NEW i \in Interfaces, NEW a \in Alternates, usb_set_interface(i, a) PROVE Proper
  <2> DEFINE s == Setup("out", "interface", "SET_INTERFACE", a, i, 0)
             after == [Claiming({i}) EXCEPT !.alt[i] = a]
  <2>1. Exchange(s, after) /\ Returns("set_interface", i)
    BY <1>12 DEF usb_set_interface
  <2>2. s.request = "SET_INTERFACE" /\ s.index = i /\ s.value = a /\ (dev.config # 0 => Supported(s))
    BY DEF Setup, Supported, Present, Configured
  <2>3. after \in Kernels /\ after.alt = [kern.alt EXCEPT ![i] = a]
    BY <1>1, ClaimingFacts DEF Kernels
  <2>4. After(s).alt = [dev.alt EXCEPT ![i] = a]
    BY <1>1, <2>2 DEF After, Devices
  <2> HIDE DEF s, after
  <2>5. /\ ControlTypeOK' /\ (errno' = "EPIPE" => dev' = dev /\ ~Supported(s))
        /\ ret' = 0 => dev' = After(s) /\ kern' = after
    BY <2>1, <2>2, <2>3, ExchangeStep
  <2>6. errno' = "EPIPE" => NoStall'
    BY <2>2, <2>5 DEF NoStall
  <2>7. kern.alt = dev.alt /\ ret' = 0 => kern'.alt = dev'.alt
    BY <2>3, <2>4, <2>5
  <2>8. ret' = 0 \/ ret' = 1
    BY <2>5 DEF ControlTypeOK
  <2> QED
    BY <2>5, <2>6, <2>7, <2>8 DEF Proper
<1>13. ASSUME NEW i \in Interfaces,
              usb_detach_interface(i) \/ usb_claim_interface(i)
                 \/ usb_release_interface(i) \/ usb_get_driver(i)
       PROVE  Proper
  BY <1>13, InterfaceStep DEF Proper
<1> QED
  BY <1>2, <1>3, <1>4, <1>5, <1>6, <1>7, <1>8, <1>9, <1>10, <1>11, <1>12, <1>13
  DEF ControlRequest

(* Before the first request the device is configured and drivers have its  *)
(* interfaces.                                                             *)
LEMMA ControlInitHolds ==
    ASSUME ControlAssumption, ControlInit
    PROVE  ControlTypeOK
<1>1. 0 \in Alternates /\ KernelAddress \in Addresses
      /\ (CHOOSE c \in Configurations : TRUE) \in Configurations
  BY DEF ControlAssumption
<1>2. dev \in Devices /\ kern \in Kernels
  BY <1>1 DEF ControlInit, Devices, Kernels
<1> QED
  BY <1>2 DEF ControlInit, ControlTypeOK, Devices, Kernels

-----------------------------------------------------------------------------
(* Every variable of the requests of usb.c:79-330 keeps its type: the      *)
(* device and the kernel stay inside the settings and drivers there are,   *)
(* and a call returns 1 exactly when its ioctl failed.                     *)
THEOREM ControlTypeCorrect == ControlSpec => []ControlTypeOK
<1> USE ControlAssumption
<1>1. ControlInit => ControlTypeOK
  BY ControlInitHolds
<1>2. ControlTypeOK /\ [ControlNext]_controlVars => ControlTypeOK'
  <2> SUFFICES ASSUME ControlTypeOK, [ControlNext]_controlVars PROVE ControlTypeOK'
    OBVIOUS
  <2>1. CASE ControlRequest
    BY <2>1, RequestStep DEF Proper
  <2>2. CASE ControlEnvironment
    BY <2>2, EnvironmentStep
  <2>3. CASE UNCHANGED controlVars
    BY <2>3 DEF controlVars, ControlTypeOK
  <2> QED
    BY <2>1, <2>2, <2>3 DEF ControlNext
<1> QED
  BY <1>1, <1>2, PTL DEF ControlSpec

(* The recipients of usb.c:88-98 and the fields of every other request are *)
(* ones a configured device answers, whatever its interfaces and endpoints *)
(* are and whatever was asked of it before.                                *)
THEOREM ConfiguredAnswers == ControlSpec => []NoStall
<1> USE ControlAssumption
<1>1. ControlInit => NoStall
  BY DEF ControlInit, NoStall
<1>2. ControlTypeOK /\ NoStall /\ [ControlNext]_controlVars => NoStall'
  <2> SUFFICES ASSUME ControlTypeOK, NoStall, [ControlNext]_controlVars PROVE NoStall'
    OBVIOUS
  <2>1. CASE ControlRequest
    <3>1. errno' = "EPIPE" => NoStall'
      BY <2>1, RequestStep DEF Proper
    <3> QED
      BY <3>1 DEF NoStall
  <2>2. CASE ControlEnvironment
    BY <2>2, EnvironmentStep DEF NoStall
  <2>3. CASE UNCHANGED controlVars
    BY <2>3 DEF controlVars, NoStall
  <2> QED
    BY <2>1, <2>2, <2>3 DEF ControlNext
<1> QED
  BY <1>1, <1>2, ControlTypeCorrect, PTL DEF ControlSpec

(* The kernel and the device part over an alternate setting only when a    *)
(* configuration is selected behind the kernel's back, or in a request     *)
(* that is reported as failed: not in usb_set_interface (usb.c:253-275),   *)
(* nor when a driver is detached or an interface released.                 *)
THEOREM SettingsAgree == ControlSpec => KernelInStep
<1> USE ControlAssumption
<1> DEFINE Step ==
      kern.alt = dev.alt /\ kern'.alt # dev'.alt =>
          \/ \E c \in Configurations \union {0} : usb_set_configuration(c)
          \/ ret' = 1
<1>1. ControlTypeOK /\ [ControlNext]_controlVars => [Step]_controlVars
  <2> SUFFICES ASSUME ControlTypeOK, ControlNext PROVE Step
    OBVIOUS
  <2>1. CASE ControlRequest
    BY <2>1, RequestStep DEF Proper
  <2>2. CASE ControlEnvironment
    BY <2>2, EnvironmentStep
  <2> QED
    BY <2>1, <2>2 DEF ControlNext
<1> QED
  BY <1>1, ControlTypeCorrect, PTL DEF ControlSpec, KernelInStep

(* What a request that returned 0 has done, and what a query returns.      *)
LEMMA DoneAsNamed ==
    ASSUME ControlAssumption, ControlTypeOK, ret' = 0
    PROVE  /\ \A e \in Endpoints :
                /\ usb_clear_feature("ENDPOINT_HALT", e) => dev' = [dev EXCEPT !.halted = @ \ {e}]
                /\ usb_get_status("endpoint", e) =>
                      dev' = dev /\ (val' = 1 <=> e \in dev.halted)
           /\ \A i \in Interfaces, a \in Alternates :
                usb_set_interface(i, a) =>
                      dev'.alt = [dev.alt EXCEPT ![i] = a] /\ dev'.config = dev.config
           /\ \A i \in Interfaces : usb_get_interface(i) => dev' = dev /\ val' = dev.alt[i]
           /\ usb_get_configuration => dev' = dev /\ val' = dev.config
           /\ \A c \in Configurations \union {0} :
                usb_set_configuration(c) => dev'.config = c /\ dev'.address = dev.address
<1> USE DEF Send, Control, Read
<1>1. dev \in Devices /\ kern \in Kernels
  BY DEF ControlTypeOK, Devices, Kernels
<1>2. ASSUME NEW s, NEW after, Exchange(s, after), NEW name, NEW arg, Returns(name, arg)
      PROVE  errno' = "none" /\ dev' = After(s)
  <2>1. errno' = "none"
    BY <1>2 DEF Returns
  <2> QED
    BY <1>2, <2>1, ExchangeIs
<1>3. ASSUME NEW e \in Endpoints, usb_clear_feature("ENDPOINT_HALT", e)
      PROVE  dev' = [dev EXCEPT !.halted = @ \ {e}]
  <2> DEFINE s == Setup("out", "endpoint", "CLEAR_FEATURE", "ENDPOINT_HALT", e, 0)
  <2>1. dev' = After(s)
    BY <1>2, <1>3 DEF usb_clear_feature, FeatureRecipient
  <2> QED
    BY <2>1 DEF After, Setup
<1>4. ASSUME NEW e \in Endpoints, usb_get_status("endpoint", e)
      PROVE  dev' = dev /\ (val' = 1 <=> e \in dev.halted)
  <2> DEFINE s == Setup("in", "endpoint", "GET_STATUS", 0, e, 2)
  <2>1. errno' = "none" /\ dev' = After(s) /\ val' = Answer(s)
    BY <1>2, <1>4 DEF usb_get_status
  <2>2. s.request = "GET_STATUS" /\ s.recip = "endpoint" /\ s.index = e
    BY SetupFields
  <2> HIDE DEF s
  <2>3. dev' = dev
    BY <2>1, <2>2 DEF After
  <2>4. Answer(s) = IF e \in dev.halted THEN 1 ELSE 0
    BY <2>2 DEF Answer
  <2> QED
    BY <2>1, <2>3, <2>4
<1>5. ASSUME NEW i \in Interfaces, NEW a \in Alternates, usb_set_interface(i, a)
      PROVE  dev'.alt = [dev.alt EXCEPT ![i] = a] /\ dev'.config = dev.config
  <2> DEFINE s == Setup("out", "interface", "SET_INTERFACE", a, i, 0)
  <2>1. dev' = After(s)
    BY <1>2, <1>5 DEF usb_set_interface
  <2> QED
    BY <1>1, <2>1 DEF After, Setup, Devices
<1>6. ASSUME NEW i \in Interfaces, usb_get_interface(i)
      PROVE  dev' = dev /\ val' = dev.alt[i]
  <2> DEFINE s == Setup("in", "interface", "GET_INTERFACE", 0, i, 1)
  <2>1. errno' = "none" /\ dev' = After(s) /\ val' = Answer(s)
    BY <1>2, <1>6 DEF usb_get_interface
  <2> QED
    BY <2>1 DEF After, Answer, Setup
<1>7. ASSUME usb_get_configuration PROVE dev' = dev /\ val' = dev.config
  <2> DEFINE s == Setup("in", "device", "GET_CONFIGURATION", 0, 0, 1)
  <2>1. errno' = "none" /\ dev' = After(s) /\ val' = Answer(s)
    BY <1>2, <1>7 DEF usb_get_configuration
  <2> QED
    BY <2>1 DEF After, Answer, Setup
<1>8. ASSUME NEW c \in Configurations \union {0}, usb_set_configuration(c)
      PROVE  dev'.config = c /\ dev'.address = dev.address
  <2> DEFINE s == Setup("out", "device", "SET_CONFIGURATION", c, 0, 0)
  <2>1. dev' = After(s)
    BY <1>2, <1>8 DEF usb_set_configuration
  <2> QED
    BY <1>1, <2>1 DEF After, Setup, Devices
<1> QED
  BY <1>3, <1>4, <1>5, <1>6, <1>7, <1>8

(* A request that returns 0 has done to the device what its name says and  *)
(* nothing else, and a query returns what it asks for and does nothing     *)
(* (usb.c:79-330), from every state the requests before it can leave.      *)
THEOREM DoesAsNamed == ControlSpec => EffectAsNamed
<1> USE ControlAssumption
<1>1. ControlTypeOK /\ [ControlNext]_controlVars =>
        [ret' = 0 =>
          /\ \A e \in Endpoints :
                /\ usb_clear_feature("ENDPOINT_HALT", e) => dev' = [dev EXCEPT !.halted = @ \ {e}]
                /\ usb_get_status("endpoint", e) =>
                      dev' = dev /\ (val' = 1 <=> e \in dev.halted)
          /\ \A i \in Interfaces, a \in Alternates :
                usb_set_interface(i, a) =>
                      dev'.alt = [dev.alt EXCEPT ![i] = a] /\ dev'.config = dev.config
          /\ \A i \in Interfaces : usb_get_interface(i) => dev' = dev /\ val' = dev.alt[i]
          /\ usb_get_configuration => dev' = dev /\ val' = dev.config
          /\ \A c \in Configurations \union {0} :
                usb_set_configuration(c) => dev'.config = c /\ dev'.address = dev.address
        ]_controlVars
  BY DoneAsNamed
<1> QED
  BY <1>1, ControlTypeCorrect, PTL DEF ControlSpec, EffectAsNamed

=============================================================================
