---------------------------- MODULE UsbDescriptors ----------------------------
(***************************************************************************)
(* usb_get_descriptor and what is built on it in src/lib/usb/usb.c:        *)
(* usb_get_string, usb_dump_device with the strings its printers fetch,    *)
(* parse_descriptor and release_descriptor; and usb_set_descriptor.  Of    *)
(* the requests of UsbControl the one whose effect these functions see,    *)
(* usb_set_address, is composed with them.                                 *)
(*                                                                         *)
(* Each ioctl, each turn of the loop over a configuration and each fetch   *)
(* of a string is a step.  A buffer is the number of bytes the device has  *)
(* put into it, followed by zeros; a configuration is the descriptors its  *)
(* bytes spell, each with the bLength the loops advance by.  A read or a   *)
(* write outside of a buffer, a block or what was received into an         *)
(* uninitialized one leads to "undefined", where the model stops.          *)
(*                                                                         *)
(* External: the device's descriptors, usbfs, malloc, the application,     *)
(* whose buffers are as large as BUFF_MAX_SIZE and zero.                   *)
(***************************************************************************)
EXTENDS UsbControl, SequencesExt

CONSTANTS Contents,      \* descriptors a device may have
          BufferMaxSize, \* BUFF_MAX_SIZE, the page size of usbfs as well
          MaxStringLen,  \* USB_MAX_STRING_LEN, sizeof(__buff) in usb_get_string
          UnsetLengths,  \* values of a wLength that is not initialized
          ShortReads,    \* bytes of a transfer that ends early
          MaxFaults      \* bound: transfers that end early and mallocs that fail

DeviceSize == 18          \* USB_DT_*_SIZE of linux/usb/ch9.h
ConfigSize == 9
SizeOf(type) == CASE type = "interface" -> 9 [] type = "endpoint" -> 7 [] type = "association" -> 8
                  [] OTHER -> 2
EndpointStruct == 9       \* sizeof(struct usb_endpoint_descriptor)
SizeT == 8                \* sizeof(__ued_size)

DescriptorTypes == {"interface", "endpoint", "association", "other"}

(* len: bLength.  endpoints: bNumEndpoints.  name: iInterface.  Of an      *)
(* endpoint also bEndpointAddress, bmAttributes and wMaxPacketSize.        *)
Byte == 0 .. 255
MaxWord == 65535
Word == 0 .. MaxWord
Descriptor == [type : DescriptorTypes, len : Byte, endpoints : Byte, name : Nat,
               address : Byte, attributes : Byte, packet : Word]
(* total: wTotalLength.  interfaces: bNumInterfaces.  name: iConfiguration.*)
Configuration == [total : Nat, interfaces : Byte, name : Nat, descriptors : Seq(Descriptor)]

(* Where iManufacturer, iProduct and iSerialNumber are.                    *)
NameAt(n) == 13 + n

(* names: the three strings of the device.  strings: their bLengths by     *)
(* index, 0 where there is none; string 0 is the table of languages, and   *)
(* of so few that they end before NameAt(1) in the buffer of a dump.       *)
ASSUME DescriptorsAssumption ==
    /\ \A c \in Contents :
          /\ c.names \in Seq(DOMAIN c.strings) /\ Len(c.names) = 3
          /\ 0 \in DOMAIN c.strings /\ DOMAIN c.strings \subseteq Nat
          /\ c.strings[0] <= NameAt(1)
          /\ \A s \in DOMAIN c.strings : c.strings[s] \in Byte
          /\ c.configurations \in Seq(Configuration)
    /\ BufferMaxSize \in Nat /\ MaxStringLen \in Nat /\ MaxFaults \in Nat
    /\ UnsetLengths \subseteq Nat /\ ShortReads \subseteq Nat

VARIABLES content,  \* the descriptors of the device
          pos,      \* where the function is, "idle" or "undefined"
          user,     \* "app", "dump", or "done" when a dump has come to its end
          buf,      \* the descriptor asked for, and how much of it was received
          offset,   \* offset of the loop over a configuration, and
          k,        \* the number of the descriptor there
          printed,  \* what the dump has printed
          tree,     \* what parse_descriptor returns
          blocks,   \* blocks on the heap
          faults    \* ghost: transfers that ended early and mallocs that failed

descVars == <<content, pos, user, buf, offset, k, printed, tree, blocks, faults>>
allVars == <<controlVars, descVars>>

NoString == -1
NoBuffer == [type |-> "none", index |-> 0, got |-> 0]
Zeros == [type |-> "other", len |-> 0, endpoints |-> 0, name |-> 0,
          address |-> 0, attributes |-> 0, packet |-> 0]
NoConfiguration == [total |-> 0, interfaces |-> 0, name |-> 0, descriptors |-> <<>>]
NoTree == [kind |-> "none", of |-> NoConfiguration, interfaces |-> <<>>]

Init ==
    /\ ControlInit
    /\ content \in Contents
    /\ pos = "idle" /\ user = "app" /\ buf = NoBuffer
    /\ offset = 0 /\ k = 0 /\ printed = <<>>
    /\ tree = NoTree /\ blocks = {} /\ faults = 0

(* Where the descriptors end, one after the other behind the configuration *)
(* descriptor, and the last of them.                                       *)
Ends(ds) ==
    LET end[n \in 0 .. Len(ds)] == IF n = 0 THEN ConfigSize ELSE end[n - 1] + ds[n].len IN end
TotalOf(ds) == Ends(ds)[Len(ds)]

HasConfiguration(i) == i < Len(content.configurations)
Conf == content.configurations[buf.index + 1]

(* What is there of a byte, and of the two bytes of a word, of a           *)
(* descriptor of which the buffer holds what was received.                 *)
Given(byte, at) == IF at < buf.got THEN byte ELSE 0
GivenWord(word, at) == IF at + 1 < buf.got THEN word ELSE Given(word % 256, at)
Header == [Conf EXCEPT !.total = GivenWord(@, 2), !.interfaces = Given(@, 4), !.name = Given(@, 6)]

(* The bLength of a descriptor, 0 if the device does not give it.          *)
Held(type, index) ==
    CASE type = "device" -> DeviceSize
      [] type = "config" -> IF HasConfiguration(index) THEN ConfigSize ELSE 0
      [] type = "string" -> IF index \in DOMAIN content.strings THEN content.strings[index] ELSE 0
      [] type = "qualifier" -> 10
      [] type = "bos" -> 5
      [] OTHER -> 0

(***************************************************************************)
(* usb_get_descriptor.                                                     *)
(***************************************************************************)
ShortStrings(type) == IF type = "string" THEN {ConfigSize} ELSE {DeviceSize}

(* switch (type); a type that is not listed leaves wLength as it is.       *)
RequestLen(type) ==
    CASE type = "device" -> {DeviceSize} [] type = "config" -> {ConfigSize}
      [] type = "string" -> {MaxStringLen}
      [] type \in {"interface", "endpoint"} -> {SizeOf(type)}
      [] type \in {"qualifier", "other_speed"} -> {32}
      [] OTHER -> UnsetLengths

Lesser(m, n) == IF m < n THEN m ELSE n

Fault == faults < MaxFaults /\ faults' = faults + 1

(* The ioctl of a request for len bytes of a descriptor of full bytes.     *)
Received(len, full) == Reachable /\ len <= BufferMaxSize /\ full > 0 /\ errno' = "none"

Refused(len, full) ==
    \/ ~up /\ errno' = "ENODEV"
    \/ up /\ len > BufferMaxSize /\ errno' = "EINVAL"
    \/ up /\ len <= BufferMaxSize /\ errno' = "ETIMEDOUT"
    \/ Reachable /\ len <= BufferMaxSize /\ full = 0 /\ errno' = "EPIPE"

Inner(name) ==
    /\ call' = <<name, 0>> /\ ret' = (IF errno' = "none" THEN 0 ELSE 1)
    /\ UNCHANGED <<up, dev, kern, val, content, tree, blocks>>

usb_get_descriptor(type, index) ==
    /\ pos = "idle" /\ pos' = "first" /\ user' = "app"
    /\ buf' = [type |-> type, index |-> index, got |-> 0] /\ printed' = <<>>
    /\ offset' = 0 /\ k' = 0
    /\ UNCHANGED <<controlVars, content, tree, blocks, faults>>

FailureIgnored ==
    /\ pos' = (IF user = "dump" THEN "confname" ELSE "idle") /\ buf' = NoBuffer /\ wlen' = NoLen
    /\ UNCHANGED <<user, offset, k, printed>>

(* A failure ends the dump as well; it has no result.                      *)
GetFails ==
    /\ pos' = "idle" /\ buf' = NoBuffer /\ wlen' = NoLen
    /\ UNCHANGED <<user, offset, k, printed>>

(* *wlen = buff[0]: if nothing was received, what the buffer held before.  *)
GetReturns(got) ==
    /\ wlen' \in IF got = 0 THEN {0, 255} ELSE {Held(buf.type, buf.index)}
    /\ CASE user = "app" -> pos' = "idle" /\ buf' = [buf EXCEPT !.got = got] /\ UNCHANGED k
         [] user = "dump" /\ buf.type = "string" ->
               pos' = "first" /\ buf' = [type |-> "device", index |-> 0, got |-> 0] /\ UNCHANGED k
         [] user = "dump" /\ buf.type = "device" ->
               pos' = "names" /\ k' = 1 /\ buf' = [buf EXCEPT !.got = got]
         [] user = "dump" /\ buf.type = "config" ->
               pos' = "confname" /\ buf' = [buf EXCEPT !.got = got] /\ UNCHANGED k
    /\ UNCHANGED <<user, offset, printed>>

(* The ioctl's count of bytes is not looked at: of the got bytes it may    *)
(* have been fewer.  What the buffer held beyond them stays.               *)
Transferred(got, Then(_)) ==
    \/ Then(got) /\ UNCHANGED faults
    \/ \E short \in ShortReads : short < got /\ Then(short) /\ Fault

FirstRead ==
    /\ pos = "first"
    /\ \E len \in RequestLen(buf.type) :
          LET full == Held(buf.type, buf.index)
          IN \/ Refused(len, full) /\ GetFails /\ UNCHANGED faults
             \/ /\ Received(len, full)
                /\ Transferred(Lesser(len, full), LAMBDA got :
                      IF buf.type = "config"
                      THEN /\ pos' = "second" /\ buf' = [buf EXCEPT !.got = got]
                           /\ UNCHANGED <<wlen, user, offset, k, printed>>
                      ELSE GetReturns(got))
    /\ Inner("get_descriptor")

HeaderLen == ConfigSize

(* wLength = (buff[3] << 8) | buff[2]                                      *)
WholeLen == Header.total

SecondRead ==
    /\ pos = "second"
    /\ LET full == TotalOf(Conf.descriptors)
       IN \/ Refused(WholeLen, full) /\ GetFails /\ UNCHANGED faults
          \/ /\ Received(WholeLen, full)
             /\ Transferred(Lesser(WholeLen, full), LAMBDA got :
                   GetReturns(IF got < buf.got THEN buf.got ELSE got))
    /\ Inner("get_descriptor")

(***************************************************************************)
(* usb_get_string, which goes on with Got(s); s is the string's index, or  *)
(* NoString for "".  All bLength bytes of __buff are read, whatever was    *)
(* received into it.                                                       *)
(***************************************************************************)
GetString(index, Got(_)) ==
    LET full == Held("string", index)
    IN /\ \/ Refused(MaxStringLen, full) /\ Got(NoString) /\ UNCHANGED faults
          \/ Received(MaxStringLen, full) /\ full <= MaxStringLen /\ Got(index) /\ UNCHANGED faults
          \/ /\ Received(MaxStringLen, full)
             /\ \/ full > MaxStringLen /\ UNCHANGED faults
                \/ Fault
             /\ pos' = "undefined" /\ UNCHANGED <<user, buf, offset, k, printed>>
       /\ wlen' = NoLen
       /\ Inner("get_string")

usb_get_string(index) ==
    /\ pos = "idle"
    /\ GetString(index, LAMBDA s : UNCHANGED <<pos, user, buf, offset, k, printed>>)

(***************************************************************************)
(* What an endpoint is decoded to.  The masked bits are not shifted before *)
(* the switch, so of the fields above bit 0 only 0 and the default match.  *)
(***************************************************************************)
Masked(bits, low) == ((bits \div low) % 4) * low   \* bits & (3 * low)

Choice(n, zero, one, two, otherwise) ==
    CASE n = 0 -> zero [] n = 1 -> one [] n = 2 -> two [] OTHER -> otherwise

(* A mask one field off.                                                   *)
TransferOfSync(d) == Choice(Masked(d.attributes, 4) \div 4, "control", "isochronous", "bulk", "interrupt")

TransferType(d) == Choice(Masked(d.attributes, 1), "control", "isochronous", "bulk", "interrupt")
SyncType(d) == Choice(Masked(d.attributes, 4), "none", "asynchronous", "adaptive", "synchronous")
UsageType(d) == Choice(Masked(d.attributes, 16), "data", "feedback", "implicit", "reserved")
Transactions(d) == Choice(Masked(d.packet, 2048), "one", "two", "three", "reserved")

Decoded(d) ==
    [number |-> d.address % 8, direction |-> IF d.address >= 128 THEN "IN" ELSE "OUT",
     transfer |-> TransferType(d), sync |-> SyncType(d), usage |-> UsageType(d),
     packet |-> d.packet % 2048, transactions |-> Transactions(d)]

(***************************************************************************)
(* usb_dump_device.  What is printed is a sequence of entries: of which    *)
(* configuration, which descriptor of it, with which string, decoded how.  *)
(***************************************************************************)
Entry(kind, i, j, s) == [kind |-> kind, conf |-> i, at |-> j, name |-> s, shown |-> Decoded(Zeros)]

NamePrinted(s) == printed' = Append(printed, Entry("device", 0, k, s))
ConfPrinted(s) == printed' = Append(printed, Entry("config", buf.index, 0, s))
DescPrinted(d, s) ==
    printed' = Append(printed, [Entry(d.type, buf.index, k, s) EXCEPT
                                   !.shown = IF d.type = "endpoint" THEN Decoded(d) ELSE @])

usb_dump_device ==
    /\ pos = "idle" /\ pos' = "first" /\ user' = "dump"
    /\ buf' = [type |-> "string", index |-> 0, got |-> 0]
    /\ printed' = <<>> /\ offset' = 0 /\ k' = 0
    /\ UNCHANGED <<controlVars, content, tree, blocks, faults>>

ToConfiguration(i) == pos' = "first" /\ buf' = [type |-> "config", index |-> i, got |-> 0] /\ UNCHANGED user
DumpEnds == pos' = "idle" /\ user' = "done" /\ buf' = NoBuffer

LastSkipped(i) == IF HasConfiguration(i + 1) THEN ToConfiguration(i) ELSE DumpEnds

(* for (i = 0; i < __n_config; ++i): memset, usb_get_descriptor.           *)
NextConfiguration(i) == IF HasConfiguration(i) THEN ToConfiguration(i) ELSE DumpEnds

(* __print_device_descriptor fetches three strings before it prints.  Of   *)
(* a device descriptor that is not all there bNumConfigurations is 0.      *)
PrintDevice ==
    /\ pos = "names"
    /\ GetString(Given(content.names[k], NameAt(k)), LAMBDA s :
          /\ NamePrinted(s) /\ UNCHANGED offset
          /\ IF k < Len(content.names) THEN k' = k + 1 /\ UNCHANGED <<pos, user, buf>>
             ELSE k' = 0 /\ IF buf.got = DeviceSize THEN NextConfiguration(0) ELSE DumpEnds)

PrintConfig ==
    /\ pos = "confname"
    /\ GetString(Header.name, LAMBDA s :
          /\ ConfPrinted(s) /\ pos' = "walk" /\ offset' = ConfigSize /\ k' = 1
          /\ UNCHANGED <<user, buf>>)

(* The descriptor at offset: after what was received there are zeros,      *)
(* within a descriptor as well.                                            *)
CutOff(d) ==
    [type       |-> IF offset + 1 < buf.got THEN d.type ELSE "other",
     len        |-> Given(d.len, offset),
     endpoints  |-> Given(d.endpoints, offset + 4),
     name       |-> Given(d.name, offset + 8),
     address    |-> Given(d.address, offset + 2),
     attributes |-> Given(d.attributes, offset + 3),
     packet     |-> GivenWord(d.packet, offset + 4)]

At(c) ==
    IF k > Len(c.descriptors) THEN Zeros
    ELSE LET d == c.descriptors[k]
         IN IF offset + SizeOf(d.type) <= buf.got THEN d ELSE CutOff(d)

Advance(d) == offset' = offset + d.len /\ k' = IF d.len = 0 THEN k ELSE k + 1

InBuffer(d) == offset + SizeOf(d.type) <= BufferMaxSize

Outside == pos' = "undefined" /\ UNCHANGED <<offset, k>>

Walk ==
    /\ pos = "walk"
    /\ LET d == At(Conf)
       IN CASE offset >= Header.total ->
                  NextConfiguration(buf.index + 1) /\ offset' = 0 /\ k' = 0 /\ UNCHANGED printed
            [] offset < Header.total /\ ~InBuffer(d) ->
                  Outside /\ UNCHANGED <<user, buf, printed>>
            [] OTHER ->
                  /\ CASE d.type = "interface" ->
                             pos' = "ifname" /\ UNCHANGED <<offset, k, printed>>
                       [] d.type \in {"endpoint", "association"} ->
                             DescPrinted(d, NoString) /\ Advance(d) /\ UNCHANGED pos
                       [] d.type = "other" -> Advance(d) /\ UNCHANGED <<pos, printed>>
                  /\ UNCHANGED <<user, buf>>
    /\ UNCHANGED <<controlVars, content, tree, blocks, faults>>

PrintInterface ==
    /\ pos = "ifname"
    /\ LET d == At(Conf)
       IN GetString(d.name, LAMBDA s :
             DescPrinted(d, s) /\ Advance(d) /\ pos' = "walk" /\ UNCHANGED <<user, buf>>)

(***************************************************************************)
(* parse_descriptor and release_descriptor.  The indices are those of the  *)
(* code: __iface_offset counts USB_DT_INTERFACE_SIZE for every interface   *)
(* and indexes the array of bNumInterfaces elements; __endp_offset counts  *)
(* USB_DT_ENDPOINT_SIZE for every endpoint and indexes an array whose      *)
(* bytes are SizeT for every endpoint of the FIRST interface.              *)
(***************************************************************************)
Block(kind, n) == <<kind, n>>
IfaceIndex == SizeOf("interface") * Len(tree.interfaces)
IndexOfNext(node) == SizeOf("endpoint") * (Len(node.endpoints) + 1)
EndpIndex(node) == SizeOf("endpoint") * Len(node.endpoints)
EndpFits(node) == EndpointStruct * EndpIndex(node) + SizeOf("endpoint") <= node.bytes
FirstEndpoints(d) == IF tree.interfaces = <<>> THEN d.endpoints ELSE tree.interfaces[1].of.endpoints

Pure == user' = "app" /\ printed' = <<>> /\ UNCHANGED <<controlVars, content, buf>>

ParseDevice ==
    /\ pos = "idle" /\ buf.type = "device" /\ buf.got = DeviceSize /\ tree = NoTree
    /\ \/ /\ tree' = [NoTree EXCEPT !.kind = "device"] /\ blocks' = blocks \union {Block("top", 0)}
          /\ UNCHANGED <<pos, faults>>
       \/ Fault /\ pos' = "undefined" /\ UNCHANGED <<tree, blocks>>
    /\ Pure /\ UNCHANGED <<offset, k>>

ParseConfig ==
    /\ pos = "idle" /\ buf.type = "config" /\ buf.got >= ConfigSize /\ tree = NoTree
    /\ \/ /\ pos' = "parse" /\ offset' = ConfigSize /\ k' = 1
          /\ tree' = [kind |-> "config", of |-> Conf, interfaces |-> <<>>]
          /\ blocks' = blocks \union {Block("top", 0), Block("ifaced", 0)}
          /\ UNCHANGED faults
       \/ Fault /\ pos' = "undefined" /\ UNCHANGED <<tree, blocks, offset, k>>
    /\ Pure

InterfaceParsed(d) ==
    /\ \E bytes \in {SizeT * FirstEndpoints(d), 0} :
          /\ tree' = [tree EXCEPT !.interfaces = Append(@, [of |-> d, bytes |-> bytes, endpoints |-> <<>>])]
          /\ \/ /\ bytes = SizeT * FirstEndpoints(d) /\ UNCHANGED faults
                /\ blocks' = blocks \union {Block("endpoints", Len(tree.interfaces) + 1)}
             \/ bytes = 0 /\ Fault /\ UNCHANGED blocks
    /\ Advance(d) /\ UNCHANGED pos

EndpointLost(d) ==
    Advance(d) /\ UNCHANGED <<pos, tree, blocks, faults>>

EndpointParsed(d) ==
    /\ tree' = [tree EXCEPT !.interfaces[Len(tree.interfaces)].endpoints = Append(@, d)]
    /\ Advance(d) /\ UNCHANGED <<pos, blocks, faults>>

InterfaceAt(d) == d.type = "interface" /\ InBuffer(d) /\ IfaceIndex < tree.of.interfaces
EndpointAt(d) ==
    d.type = "endpoint" /\ InBuffer(d) /\ tree.interfaces # <<>> /\ EndpFits(Last(tree.interfaces))

ParseStep ==
    /\ pos = "parse"
    /\ LET d == At(tree.of)
       IN CASE offset >= tree.of.total ->
                  pos' = "idle" /\ offset' = 0 /\ k' = 0 /\ UNCHANGED <<tree, blocks, faults>>
            [] offset < tree.of.total /\ InterfaceAt(d) -> InterfaceParsed(d)
            [] offset < tree.of.total /\ EndpointAt(d) -> EndpointParsed(d)
            [] offset < tree.of.total /\ d.type \notin {"interface", "endpoint"} /\ InBuffer(d) ->
                  Advance(d) /\ UNCHANGED <<pos, tree, blocks, faults>>
            [] OTHER -> Outside /\ UNCHANGED <<tree, blocks, faults>>
    /\ Pure

ReleaseTopOnly ==
    /\ pos = "idle" /\ tree.kind # "none"
    /\ IF tree.kind = "config" /\ tree.interfaces = <<>>
       THEN pos' = "undefined" /\ UNCHANGED <<tree, blocks>>
       ELSE /\ blocks' = blocks \ {Block("top", 0), Block("ifaced", 0)}
            /\ tree' = NoTree /\ UNCHANGED pos
    /\ Pure /\ UNCHANGED <<offset, k, faults>>

(* Of the endpoint arrays the first interface's is freed; where there is   *)
(* no interface that pointer was never set.                                *)
release_descriptor ==
    /\ pos = "idle" /\ tree.kind # "none"
    /\ IF tree.kind = "config" /\ tree.interfaces = <<>>
       THEN pos' = "undefined" /\ UNCHANGED <<tree, blocks>>
       ELSE /\ blocks' = blocks \ {Block("top", 0), Block("ifaced", 0), Block("endpoints", 1)}
            /\ tree' = NoTree /\ UNCHANGED pos
    /\ Pure /\ UNCHANGED <<offset, k, faults>>

(***************************************************************************)
(* usb_set_descriptor never sets the data pointer of its request: what the *)
(* device receives is whatever lies at an arbitrary address.               *)
(***************************************************************************)
usb_set_descriptor ==
    /\ pos = "idle"
    /\ \/ ~up /\ errno' = "ENODEV" /\ UNCHANGED content
       \/ up /\ errno' \in {"EFAULT", "ETIMEDOUT"} /\ UNCHANGED content
       \/ Reachable /\ errno' = "EPIPE" /\ UNCHANGED content
       \/ Reachable /\ errno' \in {"none", "ETIMEDOUT"} /\ content' \in Contents
    /\ call' = <<"set_descriptor", 0>> /\ ret' = (IF errno' = "none" THEN 0 ELSE 1)
    /\ wlen' = NoLen /\ val' = NoVal
    /\ user' = "app" /\ buf' = NoBuffer /\ printed' = <<>>
    /\ UNCHANGED <<up, dev, kern, pos, offset, k, tree, blocks, faults>>

(***************************************************************************)
(* The application and the environment.                                    *)
(***************************************************************************)
AppTypes == {"device", "endpoint", "qualifier", "bos"}

(* It parses a descriptor whose header it has received whole, and releases *)
(* what it has parsed before its next call.                                *)
Application ==
    \/ release_descriptor
    \/ /\ tree = NoTree
       /\ \/ \E type \in AppTypes : usb_get_descriptor(type, 0)
          \/ \E i \in DOMAIN content.configurations : usb_get_descriptor("config", i - 1)
          \/ \E s \in DOMAIN content.strings : usb_get_descriptor("string", s)
          \/ \E index \in DOMAIN content.strings : usb_get_string(index)
          \/ usb_dump_device \/ usb_set_descriptor
          \/ ParseDevice \/ ParseConfig
          \/ \E a \in Addresses : pos = "idle" /\ usb_set_address(a) /\ UNCHANGED descVars

Step ==
    \/ FirstRead \/ SecondRead
    \/ PrintDevice \/ PrintConfig \/ Walk \/ PrintInterface
    \/ ParseStep

Next ==
    \/ Application \/ Step
    \/ pos # "undefined" /\ Unplug /\ UNCHANGED descVars

Spec == Init /\ [][Next]_allVars

(* The calling thread runs; its ioctls time out if nothing answers.        *)
FairSpec == Spec /\ WF_allVars(Step)

(***************************************************************************)
(* Properties.                                                             *)
(***************************************************************************)

(* The type invariant of usb_get_descriptor and its users.                 *)
TypeOK ==
    /\ ControlTypeOK
    /\ content \in Contents
    /\ pos \in {"idle", "first", "second", "names", "confname", "walk", "ifname", "parse", "undefined"}
    /\ user \in {"app", "dump", "done"}
    /\ buf \in [type : AppTypes \union {"config", "string", "none"}, index : Nat, got : 0 .. BufferMaxSize]
    /\ offset \in Nat /\ k \in Nat /\ faults \in 0 .. MaxFaults
    /\ (pos \in {"second", "confname", "walk", "ifname"} => buf.type = "config" /\ HasConfiguration(buf.index))
    /\ (pos = "parse" => tree.kind = "config")

(* What makes a device sound: strings fit, every configuration is as long  *)
(* as it says and its descriptors as long as their types are.              *)
Advancing(c) ==
    /\ c.total <= TotalOf(c.descriptors)
    /\ \A j \in DOMAIN c.descriptors : c.descriptors[j].len > 0
StringsFit == \A s \in DOMAIN content.strings : content.strings[s] <= MaxStringLen
Sound(c) ==
    /\ ConfigSize <= c.total /\ c.total = TotalOf(c.descriptors) /\ c.total <= BufferMaxSize
    /\ \A j \in DOMAIN c.descriptors : c.descriptors[j].len >= SizeOf(c.descriptors[j].type)
SoundDevice == StringsFit /\ \A c \in Range(content.configurations) : Sound(c)

(* One interface, before its only endpoint: what the parser is right for.  *)
OfType(c, type) == {j \in DOMAIN c.descriptors : c.descriptors[j].type = type}
Simple(c) ==
    /\ c.interfaces > 0
    /\ \E i \in OfType(c, "interface") :
          /\ OfType(c, "interface") = {i}
          /\ \A j, l \in OfType(c, "endpoint") : j = l /\ i < j /\ c.descriptors[i].endpoints > 0

(* *wlen is the bLength the device states (usb.c:168): the caller has that *)
(* many bytes in its buffer if the type is one for which a length is set,  *)
(* strings are no longer than USB_MAX_STRING_LEN and no transfer ended     *)
(* early, which usb.c:158 and usb.c:164 do not look at.                    *)
LengthIsDelivered ==
    call[1] = "get_descriptor" /\ pos = "idle" /\ wlen # NoLen /\ buf.type # "bos" /\ StringsFit
        /\ faults = 0
        => wlen <= buf.got

(* What a whole dump has to print, each in its place.                      *)
DueOf(i) ==
    LET c == content.configurations[i]
    IN {Entry("config", i - 1, 0, c.name)} \union
       {LET d == c.descriptors[j]
        IN Entry(d.type, i - 1, j, IF d.type = "interface" THEN d.name ELSE NoString) :
           j \in DOMAIN c.descriptors \ OfType(c, "other")}
Due ==
    {Entry("device", 0, j, content.names[j]) : j \in DOMAIN content.names} \union
    UNION {DueOf(i) : i \in DOMAIN content.configurations}

Precedes(p, q) ==
    IF p.kind = "device" THEN q.kind = "device" => p.at < q.at
    ELSE q.kind # "device" /\ (p.conf < q.conf \/ (p.conf = q.conf /\ p.at < q.at))

SameEntry(p, e) == p.kind = e.kind /\ p.conf = e.conf /\ p.at = e.at /\ p.name \in {e.name, NoString}

(* usb_dump_device (usb.c:372-424) prints every descriptor of every        *)
(* configuration of a sound device once, in order and with its own string  *)
(* or none, as far as it comes; and when it comes to its end, all of them. *)
DumpExact ==
    SoundDevice /\ faults = 0 /\ user \in {"dump", "done"} =>
        /\ \A j \in DOMAIN printed :
              /\ \E e \in Due : SameEntry(printed[j], e)
              /\ \A i \in 1 .. j - 1 : Precedes(printed[i], printed[j])
              /\ \A e \in Due : Precedes(e, printed[j]) =>
                    \E i \in 1 .. j - 1 : SameEntry(printed[i], e)
        /\ user = "done" => \A e \in Due : \E j \in DOMAIN printed : SameEntry(printed[j], e)

(* What is shown of an endpoint tells of its descriptor d.                 *)
Tells(d, p) ==
    LET bits(n) == (d.attributes \div n) % 4
    IN /\ p.direction = "IN" <=> d.address \div 128 = 1
       /\ d.address % 16 < 8 => p.number = d.address % 16
       /\ p.transfer = <<"control", "isochronous", "bulk", "interrupt">>[bits(1) + 1]
       /\ p.sync = "none" <=> bits(4) = 0
       /\ p.usage = "data" <=> bits(16) = 0
       /\ p.transactions = "one" <=> (d.packet \div 2048) % 4 = 0
       /\ p.packet + 2048 * ((d.packet \div 2048) % 4) = d.packet % 8192

(* An endpoint of a sound configuration is printed with its direction,     *)
(* transfer type and packet size, and with its number if that is below 8.  *)
(* Of the synchronization, usage and transactions (usb.c:708-748) only     *)
(* whether there is any can be told from what is printed: the values are   *)
(* compared unshifted.                                                     *)
EndpointsNamed ==
    faults = 0 => \A j \in DOMAIN printed :
        LET c == content.configurations[printed[j].conf + 1]
        IN printed[j].kind = "endpoint" /\ Sound(c) =>
              Tells(c.descriptors[printed[j].at], printed[j].shown)

(* No read or write leaves its buffer, and no uninitialized pointer is     *)
(* freed, but for a string longer than __buff, a configuration that is not *)
(* as long as it says, and the parser's indices where there is more than   *)
(* one interface with one endpoint (usb.c:461-496).                        *)
DefinedUnlessFault ==
    pos = "undefined" /\ faults = 0 =>
        \/ ~StringsFit
        \/ user = "dump" /\ \E c \in Range(content.configurations) : ~Sound(c)
        \/ user # "dump" /\ tree.kind = "config" /\ ~(Simple(tree.of) /\ Sound(tree.of))

(* What parse_descriptor returns for a configuration of one interface and  *)
(* at most one endpoint is that interface with that endpoint.              *)
ParseExact ==
    pos = "idle" /\ tree.kind = "config" /\ Simple(tree.of) /\ Sound(tree.of) /\ faults = 0 =>
        /\ Len(tree.interfaces) = 1
        /\ \E i \in OfType(tree.of, "interface") : tree.interfaces[1].of = tree.of.descriptors[i]
        /\ IF OfType(tree.of, "endpoint") = {} THEN tree.interfaces[1].endpoints = <<>>
           ELSE \E j \in OfType(tree.of, "endpoint") :
                   tree.interfaces[1].endpoints = <<tree.of.descriptors[j]>>

(* After release_descriptor (usb.c:512-537) nothing is left on the heap    *)
(* but the endpoint arrays of second and later interfaces.                 *)
LeaksLaterEndpointsOnly ==
    pos = "idle" /\ tree.kind = "none" =>
        \A b \in blocks : b[1] = "endpoints" /\ b[2] > 1

(* A dump, a parse or a read ends, unless the device's descriptors state a *)
(* length of 0 or a total that they do not have: then the loops of         *)
(* usb.c:407 and usb.c:477 stand still on zeros.                           *)
LoopsEnd ==
    (pos \in {"first", "second", "names", "confname", "walk", "ifname", "parse"}
        /\ (\A c \in Range(content.configurations) \union {tree.of} : Advancing(c)))
    ~> (pos \in {"idle", "undefined"} \/ faults > 0)

=============================================================================
