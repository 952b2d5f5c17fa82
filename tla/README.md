# droidbox: models, checks and proofs

droidbox talks to an Android device over usbfs. `src/main.c` opens a device
file, takes an interface from its driver and runs an ADB conversation over two
bulk pipes; `src/lib/ptp` is a PTP (picture transfer) initiator over the same
bulk calls. It is sequential C. What is hard about it is not its own
concurrency but its partners': signals, the kernel's queue of completed
transfers, a device that answers in its own time, fails a transfer half-way or
is pulled out, and a code that checks few results and has no timeouts on bulk
transfers.

## 1. Inventory

| component | state | operations | hard about it | correct when |
|---|---|---|---|---|
| USB bulk transfers, `lib/usb/usb.c:42-64, 332-361` | one URB on the stack per call; in the kernel, URBs in flight and completed | `usb_bulk_send`, `usb_bulk_recv` | EINTR at two ioctls; `REAPURB` gives the oldest completion, whose identity is ignored; URB status never read; unplug | a call reaps its own URB; one call is one transfer; a call on a device that is gone returns |
| ADB client, `lib/adb/adb.c:114-323` | locals of `__send_request`; the caller's `adb_res_t` and buffer | seven `adb_*` requests | message boundaries are implied by the number of packets read; unsolicited writes; errors seen as short counts | each answer is a whole message and starts where a message starts; copies stay in bounds |
| Main program, `main.c:138-286` | its position, `adbres`, the interface | open, detach, claim, connect, auth, open stream, acknowledge loop, release | nearly no result is checked; the loop is steered by `adbres.code`, which a failing call leaves alone; it acknowledges a fixed stream id; a driver may rebind | it acknowledges only an open stream, waits for no daemon that waits for it, ends, and gives the interface back |
| PTP initiator, `lib/ptp/ptp.c` | locals of `__send_request`; the caller's `ptp_res_t` and buffer | 28 `ptp_*` operations | two or three phases; data blocks of several packets counted down to 0; results of receives ignored; stale `res->length` | a call returns with its own response and whole data, leaves nothing in the pipes, and never waits for a responder that waits for it |
| USB interface requests, `usb.c:293-330` | the holder of the interface, in the kernel | get driver, detach, claim, release | races with other drivers; a release returns the interface to setting 0 | a request does what it is named for or says that it failed |
| USB control requests, `usb.c:79-291` | none; in the kernel, alternate settings and claims; in the device, configuration, settings, halts, address | nine requests, one ioctl each | the fields of the packet decide who does what; a timeout leaves the outcome open; `usb_set_configuration` bypasses the kernel's bookkeeping and `usb_set_interface` does not | no request is malformed; effects are those named; kernel and device agree on settings |
| Descriptor reads, dump and parser, `usb.c:124-170, 238-251, 363-537` | buffers, offsets, the parsed tree on the heap | `usb_get_descriptor`, `usb_set_descriptor`, `usb_get_string`, `usb_dump_device`, `parse_descriptor`, `release_descriptor` | lengths stated by the device drive the walks, the reads and the array indices; any of many requests may fail in between | the dump lists every descriptor once with its own string; the tree is the configuration; the loops end; accesses stay in their buffers; nothing is leaked |
| Descriptor printing, `usb.c:539-798` | none | print, decode | the printers fetch strings | order, strings and endpoints' fields modelled, formatting not |
| Checksums, `adb.c:29-112` | none | `checksum`, four CRCs | - | not modelled, see 5 |
| PTP error table, storage masks, datasets | none | lookups, masks, layouts | index range | not modelled, see 5 |
| Keys, signing, daemon | none that lasts | not called | - | not modelled |

They interact by calls only: `main` calls `usb_*` and `adb_*`; ADB and PTP call
`usb_bulk_send` and `usb_bulk_recv`; those call the kernel. Nothing is shared
but the file descriptor and the caller's result structure, which survives from
one call to the next.

## 2. Modules

```
BulkPipe        what a bulk call promises             <- UsbBulk implements it
UsbBulk         usb.c over usbfs                      <- UsbBulk_proofs
Adb             adb.c, a bulk call being one step     <- MCAdb (TLC), Adb_proofs
DroidboxMain    main.c, EXTENDS Adb                   <- DroidboxMain_proofs
RemoteCall      what an operation of ptp.c promises   <- Ptp implements it
Ptp             ptp.c, a bulk call being one step     <- Ptp_proofs
UsbControl      the control and interface requests    <- MCUsbControl (TLC),
                of usb.c                                 UsbControl_proofs
UsbDescriptors  the descriptor functions of usb.c,    <- MCUsbDescriptors (TLC),
                EXTENDS UsbControl                       UsbDescriptors_proofs,
                                                         UsbDescriptorsExact_proofs
```

`DroidboxMain_proofs` extends `Adb_proofs`, as `DroidboxMain` extends `Adb`, and
`UsbDescriptors_proofs` extends `UsbControl_proofs`; `UsbDescriptorsExact_proofs`
goes on where `UsbDescriptors_proofs` ends.

The composition is by promise: `UsbBulk` shows that a bulk call is one transfer
performed at one instant, fails without effect, or is broken off with a short
count (`BulkPipe`); `Adb` and `Ptp` use a bulk call as such a step. That every
call of theirs may also fail, be broken off, or not be possible because the
device has gone is in `TransferFails`, `SendError`, `RecvHeaderError`,
`RecvDataError`, `link` (and `SendFails`, `RecvFails`, `RecvError` in `Ptp`).

What the callers of `ptp.c` may rely on in turn is `RemoteCall`: the responder
serves a command once, after it was asked and before the call returns, and the
call returns with what came of it. `Ptp` implements it with its blocks, packets
and pipes hidden: `served` is when the command, and its data block if it has one,
have left the pipe and the responder has decided on an answer.

Buffers are lengths. A packet is a record of what the code reads of it. What only
a proof speaks of, such as where a transaction stands between two packets, is
defined at the head of the proof module; the modules of the models hold the code,
its environment and the properties that runs check.

**UsbBulk.** `pc` is where `__usb_bulk_msg` stands (`submit` and `reap` are its
two loops), `cur` the URB on its stack, `pend` and `compl` what the kernel holds.
`SubmitEINTR` and `ReapEINTR` are the loops' conditions, `SubmitFail` and
`ReapFail` the two `return 1`, `ReapOk` the return of `actual_length`. `ReapOk`
takes the oldest completion, whosever it is: a completion of another URB is
written to a dead stack frame, and the call returns that URB's length or 0. The
controller (`Hcd*`), the device, the cable and signals are external.

**Adb.** `pc` names the next transfer of `__send_request`. `acc` is `__res`
together with the header's data length; `res`, `ret` and `copied` are what the
caller has. `Handle` is the common part of the seven requests, with the failing
`malloc`; `Finish` is the end of `__send_request` and the copy of
`__handle_request`. What is decoded from a packet that is no header, or from a
buffer nothing was received into, is any code of `Garbled` and any length. The
daemon answers in order, and on an open stream may also write unasked whenever
it has credit, or close. It gives a stream any id of `StreamIds` when it opens
it, and an acknowledgement renews the credit, or a CLSE closes the stream, only
if it names that id (`Ours`); any other it drops, as adbd does. `faults` counts the transfers that broke a message off:
it appears in properties only.

**DroidboxMain.** `mpc` is the next statement of `main`, `holder` the owner of
the interface. `RemoteId` is the id that `main.c:268` acknowledges whichever the
stream has. `usb_dump_device`, which `UsbDescriptors`
models, changes nothing that main uses later but may never come back (`LoopsEnd`):
`dumping` is where main is then, for good. A claim that fails while another driver holds it makes every
transfer fail, as the kernel does; `Rebind` is that other driver.

**Ptp.** `call` is the operation with its code, TransactionID and buffer;
`rb` is what `__rbuffer` holds, `block` and `offset` the two counters of the
receive loop. A packet that is neither a data nor a response block sends the loop
round (`NoHeader`, the `default` of the switch); where its bytes are out of the
middle of a data block they may also look like a header, and the model goes to
`undefined`. A failed receive is decoded all the same, as in the code; where
the outcome is not decided by the program (a copy of -1 bytes, an
uninitialized buffer, a copy past `__rstream`) the model goes to `undefined`
and stops. The TransactionID of the response is kept in `res` although the
code does not store it: `AnswersOwn` is about it.

**UsbControl.** A request is one step, from its setup packet to its answer.
`Setup` is the structure the functions fill in and each `usb_*` operator builds
its own; `Exchange` is the ioctl: `ENODEV` after an unplug, `EBUSY` while a
driver has the interface the packet is for (usbfs claims it for the request
otherwise), `EPIPE` for what the device does not support, and a timeout, after
which the device may or may not have done it. `dev` and `kern` are the device
and the kernel as their documentation has them (external); only
`usb_set_interface`, and an unbound driver, change an alternate setting in both.
`Before` and `Upon` are the two places where the functions set `*wlen`. Halts,
wakeups, other drivers and the cable are `ControlEnvironment`.

**UsbDescriptors.** A device's descriptors are `content`; a configuration is its
stated total, its stated number of interfaces, and a sequence of descriptors
with their lengths (and endpoints with the fields that are decoded). `buf` says
what the caller's buffer holds and how much of it was received, after which
there are zeros; `At` is what a loop finds at its offset, `Header` what the buffer says of a
configuration: bytes that were not received are 0 (`Given`). Neither ioctl's count
is looked at (`usb.c:158, 164`), so either may be short (`Transferred`). `NameAt`
bounds the table of languages that a dump leaves in the same buffer before the
device descriptor. `pos` is where the
function stands: `first` and `second` are the two ioctls of
`usb_get_descriptor`, `names`, `confname` and `ifname` the string fetches of the
printers, `walk` the loop of `usb_dump_device`, `parse` the one of
`__parse_config_descriptor`; `undefined` follows a read or a write outside of a
buffer or block, or through a pointer that was never set, and the model stops
there. The sizes are those of the structures, and the indices of the parser are
computed as in the code (`IfaceIndex`, `EndpIndex`, `EndpFits`). `Decoded` is
what is printed of an endpoint, with the masks of the code as arithmetic. `tree`
and `blocks` are what the parser built and what is on the heap. The module is
composed with `UsbControl` through `usb_set_address` and the cable, which are
what makes the device unreachable; no other request changes what these functions
read. The application releases a tree before its next call, and hands in buffers
of `BUFF_MAX_SIZE` bytes of zeros.

Definitions that precede a definition and vary it (`ReapResubmits`,
`RecvUntilShort`, `CheckRetOnly`, `CopyKeepsLeft`, `DeviceAlways`, `HeaderLen`
and the like) are the plausible mistakes each property is known to catch; no
specification uses them.

## 3. Runs

Run inside this directory, e.g. `tlc -config MCAdb.cfg MCAdb`.

| run | states | shows |
|---|---|---|
| `usb_bulk` (`UsbBulk`, `MCUsbBulk.cfg`) | 207,922 | `ReapsOwnUrb`, `LeftoverMeansGone`, `ImplementsBulkPipe`, `UnplugEndsCall`, `SendReturns` |
| `adb` (`MCAdb`, `MCAdb.cfg`) | 2,024,108 | `InSync`, `WholeReply`, `CopiesInBounds` with payloads of up to one packet |
| `adb_large` (`MCAdb`, `MCAdbLarge.cfg`) | violation | `WholeReply` fails with a payload of 600 bytes |
| `main` (`DroidboxMain`, `MCDroidboxMain.cfg`) | 124,184 | `ProperReply`, `AcksOnlyOpenStream`, `ReleasedAtExit`, `DaemonsTurn`, `Ends`, `UnplugBeforeStreamEnds` |
| `usb_control` (`MCUsbControl`, `MCUsbControl.cfg`) | 12,224 | `NoStall`, `KernelInStep`, `EffectAsNamed` |
| `usb_descriptors` (`MCUsbDescriptors`, `MCUsbDescriptors.cfg`) | 238,380 | `LengthIsDelivered`, `DumpExact`, `EndpointsNamed`, `DefinedUnlessFault`, `ParseExact`, `LeaksLaterEndpointsOnly`, `LoopsEnd` |
| `ptp` (`Ptp`, `MCPtp.cfg`) | 2,228,646 | `AnswersOwn`, `DataWhole`, `DefinedUnlessFault`, `PipesDrained`, `NeverBothWait`, `ImplementsRemoteCall`, `CallReturns` |
| `ptp_set_prop`, `ptp_stale`, `ptp_tid`, `ptp_format`, `ptp_object` (`Ptp`) | violations | five statements of `ptp.h` and `ptp.c` that the code does not meet, see 6 |

Every passing run also checks a type invariant.

**Bounds.** `usb_bulk`: lengths up to 2 (a packet shorter than, as long as and
longer than a buffer), two packets per FIFO (empty, partly full, full), three
calls (a URB left by the first could be reaped by the second and shift the
third), two signals (one for each ioctl, or two at one). `adb`: the real buffer
sizes; payloads of none, of a few bytes and of exactly one packet; four
requests (connect, open, two on the stream), one fault, which desynchronizes as
many as follow; a caller's buffer shorter than an answer; stream ids 3,
which main acknowledges, and 5, which it does not. `MCAdb` adds only the
count of requests. `main` needs no bound but `MaxFaults`: the program is its own;
garbled headers may show every command. `ptp`: data blocks of one packet, of
exactly one and two full packets, of three, and of more than `__rstream` holds, a
caller's buffer (600) between them, two
TransactionIDs so that a response can be told from the one before, one fault;
calls are not bounded.
`usb_control`: one interface with two settings, an
endpoint that is isochronous and one that is not, two addresses, one
configuration; histories are not bounded. `usb_descriptors`: sizes are the real
ones; seven devices: two configurations with one interface and an endpoint
(`Phone`), two endpoints and two interfaces (`Camera`), room for ten interfaces
and an endpoint before its interface (`Dock`), no interface and a descriptor of
length 0 (`Odd`), one that ends past the buffer (`Liar`), strings longer than
the buffer and a total usbfs refuses (`LongString`), no strings and a total no
bytes follow (`NoStrings`); two faults: a transfer that ends at once,
within a configuration's header, behind it or with its first interface, or a
failing `malloc`.
`MaxQueue = 2` throughout: a pipe that is empty, holds one packet, or is full.

Deadlock checking is off in every run: the device may be pulled out between
calls and nothing need happen then, the bounded runs end, a receive for which no
answer comes waits for ever (`Adb`, with nothing to answer an OKAY), and the
program exits.

**Fairness.** `UsbBulk`: the calling thread runs (`Host`), the controller makes
an OUT transfer there is room for, the device drains its OUT endpoint; nothing
is assumed of incoming data, so no receive is claimed to return. `DroidboxMain`:
the program runs, its transfers happen when they can and fail when the device is
gone; the daemon reads, answers what it owes and sends what it began (weak), and
closes a stream it could always close again (strong, a screen dump is finite).
A transfer on an attached device is never assumed to fail, so waiting for ever is
possible, and `Ends` says when it happens; and `usb_dump_device` is not assumed to return. `Ptp`: the thread's transfers happen
and the responder serves and sends (weak). `UsbDescriptors`: the calling thread
runs (`Step`); its ioctls have a timeout of one second, so each of them returns.
`UsbControl` states no liveness: each of its functions is one such ioctl.

## 4. Proofs

Checked with `tlapm <module>_proofs.tla`, seven modules. Every theorem holds for
all values of the constants that satisfy the module's assumption: bounds are
naturals; a header fits the receive buffer and two receive buffers fit the
response buffer (24, 512, 2048 in the code); the PTP header fits its packet, a packet and a
header fit `__rstream`, and the header is part of every data block; the daemon's
stream ids are any numbers but 0; interfaces, endpoints and settings are any sets of
numbers; a device has a string 0 (which may be missing, and as a table of languages ends
before `NameAt(1)`) and three names;
descriptors, strings and
configurations are of any number and length, those that state false lengths
included, and the sizes of the structures are those of the headers. Histories,
calls, signals and faults are not bounded unless a bound is one of the
constants. One hypothesis is about the device and is written where it is
needed: `PayloadsFit` (no payload is longer than the receive buffer). It is
needed: run `adb_large`. What `Ptp` excepts of data blocks is not a hypothesis but
part of the properties (7).

All invariants that passing runs check are proved, and so are the two action
properties (`KernelInStep`, `EffectAsNamed`) and the two refinements
(`ImplementsBulkPipe`, `ImplementsRemoteCall`).

| module | theorem | property | from |
|---|---|---|---|
| `UsbBulk_proofs` | `TypeCorrect`, `ReapsOwn`, `NoLeftover` | `TypeOK`, `ReapsOwnUrb`, `LeftoverMeansGone` | `IInv` |
| | `ImplementsPipe` | `ImplementsBulkPipe` | `IInv` |
| `Adb_proofs` | `AdbTypeCorrect`, `NoOverrun` | `AdbTypeOK`, `CopiesInBounds` | `Bounds` |
| | `StaysInSync`, `RepliesWhole` | `InSync`, `WholeReply` | `Sync`, `PayloadsFit` |
| `DroidboxMain_proofs` | `MainTypeCorrect`, `MainNoOverrun` | `TypeOK`, `CopiesInBounds` | `Bounds` |
| | `ReleasesAtExit` | `ReleasedAtExit` | `HoldsWhileUsed` |
| | `AnswersAreProper`, `AcksAfterOpen`, `MainStaysInSync` | `ProperReply`, `AcksOnlyOpenStream`, `InSync /\ WholeReply` | `MainInv`, `PayloadsFit` |
| | `NoMutualWait` | `DaemonsTurn` | `TurnInv`, `PayloadsFit` |
| `Ptp_proofs` | `PtpTypeCorrect`, `AnswersOwnAlways`, `DataWholeAlways`, `PipesDrainedAlways`, `NeverBothWaitAlways` | `TypeOK`, `AnswersOwn`, `DataWhole`, `PipesDrained`, `NeverBothWait` | `IInv` |
| | `DefinedUnlessFaultAlways` | `DefinedUnlessFault` | `IInv` |
| | `ImplementsCall` | `ImplementsRemoteCall` | `IInv` |
| `UsbControl_proofs` | `ControlTypeCorrect`, `ConfiguredAnswers` | `ControlTypeOK`, `NoStall` | `ControlTypeOK` |
| | `SettingsAgree`, `DoesAsNamed` | `KernelInStep`, `EffectAsNamed` | `ControlTypeOK` |
| `UsbDescriptors_proofs` | `DescTypeCorrect`, `LengthDelivered`, `LeaksOnlyLater` | `TypeOK`, `LengthIsDelivered`, `LeaksLaterEndpointsOnly` | `DescInv` |
| `UsbDescriptorsExact_proofs` | `DefinedOtherwise`, `ParsesExactly` | `DefinedUnlessFault`, `ParseExact` | `LoopInv` |
| | `EndpointsAsNamed` | `EndpointsNamed` | `LoopInv`, `OwnDecoding` |
| | `DumpsExactly` | `DumpExact` | `ExactInv` |

The arguments, and why each invariant is what it is:

* `UsbBulk`. `IInv == TypeOK /\ ReapsOwnUrb /\ LeftoverMeansGone`. Neither of the
  last two is inductive alone. A call that submits finds nothing in the kernel
  only because whatever is left there means `~up`, and submission needs `up`; and
  nothing is left by a call that returns through `ReapOk` because the one
  completion was its own. The device does not come back on the same descriptor,
  so `~up` lasts. The refinement needs the same: a step of `ReapOk` is the return
  of `BulkPipe` with the length that went over the wire only because the URB it
  reaps is its own. Submission and EINTR are stutters; the controller's
  completion is the instant at which the transfer happens.
* `Adb`. `Bounds == AdbTypeOK /\ Locals /\ CopiesInBounds`; `Locals` is what makes
  it inductive: no packet is longer than the receive buffer, and before the
  second packet of an answer at most one has been counted, so two must fit
  `__rstream`. Faults and garbled headers are included. `Sync`: both pipes are
  `Framed`, and the locals of the code say what the last packet read, or written,
  announced. The argument is two lemmas on a framed pipe, `FramedAppend` (the
  writer appends what the last packet announced) and `FramedTail` (the reader
  takes what the packet before announced), used once for each transfer at either
  end. Nothing is claimed after a transfer that broke off or an unplug.
* `DroidboxMain`. A step of the client is a step of `Adb`, so `Bounds` and `Sync`
  carry over. `ProperReply` fails to be inductive by itself: nothing pairs an
  answer with its request. `Protocol` says what does. Up to the answer to
  `adb_open` there is one message under way, main's request or the daemon's
  answer (`RequestsUnderWay`, `AnswersUnderWay`); after it the daemon sends
  nothing but writes and CLSE, and it opens a stream only with the answer
  (`OpenedByAnswer`). `OkayMeansOpened` is what `AcksOnlyOpenStream` needs, because
  `adbres` keeps an earlier answer's code when a call fails.
  `TurnInv` adds that what main waits for is with the daemon or on its way
  (`SomethingComes`). In the stream that is delicate: a write may overtake main's
  acknowledgement, so that the call which sent it returns with a block that was
  written before, and the daemon still has the credit for the next. The sum is
  right because each call reads one message and each acknowledgement gives one
  credit; it stops being right at a CLSE, so a closed stream has to have been told
  (`ClosedIsTold`) and main must make no request once it has read it (`ClseEnds`).
  The sum is that of a stream whose id is 3. On any other an acknowledgement gives
  nothing: the daemon writes once with the credit it opened the stream with, and
  then both wait (`AckIgnored`).
* `Ptp`. `Transaction` says where a call stands: all of its own packets are still
  with the responder (`Commanded`), or it is `Answering`, and then a packet of the
  answer is known by how many come after it (`Sends`). In the receive loop the
  counter `block.left` is the number of bytes in the packets to come (`InBlock`,
  `BytesIn`), which is why the loop ends with the block and not within it.
  `Astray` is where a call is that took the empty packet for another block: one of
  exactly one packet, whose header is still in `__rbuffer`; after a longer one of
  full packets there is no header, and the call ends in `NoHeader`.
  The refinement is of a later state than the code shows: the responder serves at
  `DevCommand`, or at `DevData`, of which the initiator knows nothing until the
  response. `Transaction` is what makes a return the return of `RemoteCall`: the
  packet a call ends with is the response to this command (`ReturnsResponse`), and
  what `res->length` holds then is this block's length and not one of an earlier
  call. A call that fails and had sent its command cannot do so without a transfer
  that broke off (`CallStep`), from where on nothing is promised.
* `UsbControl`. The properties follow from the type invariant by the tables
  `Supported` and `After`. A request is identified by its `call`, so that a step
  is one request and no other.
* `UsbDescriptors`. `DescInv` is types, what has been asked for at each position
  (`Asked`, `Placed`), `Delivered` and who owns which block (`Heap`). `LoopInv`
  adds that both loops stand where a descriptor begins (`Stands`, `InStep`), that
  all of a sound configuration was received (`AllThere`), and what was parsed so
  far. With it each endpoint that is printed was decoded from its own descriptor
  (`OwnDecoding`), which was received as a whole and not cut off. `ExactInv`
  adds that what was printed is what the dump has passed (`Prints(printed,
  Passed)`): each step passes one entry, at most, and prints it.
  `UsbDescriptorsExact_proofs` needs that offsets grow with the number of the
  descriptor, for configurations of any number of descriptors. That is an
  induction, and the induction theorems of the library are out of reach (they
  take an operator): it is done by the least counterexample, whose predecessor is
  none. The decoding's lemmas hold for each byte and each word.

What the proofs changed in the models, each a thing TLC had not shown:
`Masked` in `UsbDescriptors` grouped `%` and `\div` otherwise than `&` does, which
no device of the run told apart (the decoding of usage is now also run with a
feedback endpoint); what `Ptp` excepts of data blocks also spoke of calls without a
data phase; that every packet decoded has a header takes a `__rstream` that holds a
packet and a header more; the cases of `Answer` in `UsbControl` overlapped; the printers' positions
need that something of the configuration was received (`Separate`); what a dump
owes, `Due`, and what the parser returns are now stated as sets of entries where
they were sequences built by recursion.

Only model-checked: `UnplugEndsCall`, `SendReturns`, `Ends`,
`UnplugBeforeStreamEnds`, `LoopsEnd` and `CallReturns`. They are liveness under
fairness and out of the prover's reach.

## 5. Not modelled, and why

Contents of payloads, parameters of PTP commands and responses, printing, OpenSSL,
sockets. Of arguments 0 and 1 of ADB messages only the stream's id is modelled,
as the daemon compares it; the code never reads those it receives. `main.c:233`
takes `strlen` of the 20 bytes of the token, which no zero ends; the length is only
printed. A failed receive of the ADB client is modelled with no bytes received,
although `BulkPipe` allows any short count: what is decoded is arbitrary in either
case.
Two processes on one descriptor: nothing in the code does that. Reattaching a
device: the program opens a fixed device file once. The PTP data block that is
sent carries the bytes of a pointer where its dataset should be (a TODO in the
code, `ptp.c:362, 395`); its content is not modelled, nor
that the transfer reads `ContaierLength` bytes from a structure of 20
(`ptp.c:357, 390`). The copy of a response's parameters to `rparams`
(`ptp.c:89-90`), with a length the responder states, is not modelled either: no
operation of the model reads them, and `DefinedUnlessFault` does not speak of them.

Of the ADB daemon: one stream, payloads of the lengths in `DevPayloads`, and no
empty packet after a payload of exactly 512 bytes: the code reads none.
Of the PTP responder: it reports errors with a response block and does not
stall its endpoints, and sends no events on the bulk pipe.

Of the device's control endpoint: requests of a class or a vendor, remote
wakeups and test modes beyond their bit, the time after which an address counts.
Of the descriptors: their fields other than lengths, counts, string indices and
those of endpoints,
and the text of strings. `usb_get_string` leaves out zero bytes and so is not the
identity, but nothing depends on the text.

Formatting: `usb.c:546-577, 585-602, 610-678` and the names of classes
(`usb.c:680-692, 750-798`) are output; they change nothing and fail silently.
The copy of the driver's name in `usb_get_driver` is bounded by both lengths,
and its result is only printed.

Checksums: `checksum` is a sum of bytes that goes into a header field no code of
the repository reads (`adb.h:12` calls it a crc32; `adb.c:24` sends the sum), and
the four CRC functions have no caller. Each is a function of its bytes with no
state. `ptp_get_error`, the storage masks of `storage.h` and the dataset
structures have no caller either: tables and layouts. Keys are a table of
bytes, the signing functions of `main.c` are not called, and `start_daemon` opens
a socket nobody accepts on and is not called.

## 6. Where code and documentation disagree

* `adb.h:11, 33` and `main.c:200` (payloads up to a `maxdata` of 4096) against
  `adb.c:171` (one packet of 512): run `adb_large`.
* `ptp.h:577-582` (SetDevicePropValue sends its value in a data phase) against
  `ptp.c:559`: run `ptp_set_prop`; both ends wait.
* `ptp.c:110` (the copy is of the response) against `ptp.c:111`: run `ptp_stale`.
* `ptp.h:113-115` (TransactionID 0 outside a session) against `ptp.c:135`: run
  `ptp_tid`.
* `ptp.h:480-491` (FormatStore formats a store) against `ptp.c:419` (DeleteObject):
  run `ptp_format`.
* `ptp.h:276-277` (GetObject is for all objects) against `ptp.c:68` (2048 bytes):
  run `ptp_object`.

## 7. What the code does not do well, and how the models say it

Properties name what they except, where no text of the repository says
otherwise and so no run can call it a violation:

* `DroidboxMain!AckIgnored`: main acknowledges stream 3 and never reads the id the
  daemon gave the stream (`main.c:268`). With another id the daemon drops the
  acknowledgement: it writes once and has no credit for more, and main waits for
  ever. `DaemonsTurn` and `Ends` except it, and the run reaches it with id 5.
  `OpenIgnored` is the other exception: whether the connection was granted is not
  looked at before the OPEN (`main.c:255`).
* `Ptp!FillsOne`: a data block of exactly 512 bytes is followed by an empty packet;
  the initiator takes the packet in `__rbuffer` for another block, appends the
  response to it and waits for ever (`ptp.c:70-85`). `NeverBothWait` and
  `CallReturns` except it.
* `Ptp!FillsSeveral`: after a block of 1024, 1536 or 2048 bytes the empty packet has
  the last 512 bytes of the block decoded again. They are data, and so whatever
  they look like: the loop goes round, as it should, or takes them for a block or a
  response of any length. `DefinedUnlessFault` excepts it.
* `Ptp!TooLong`: a block of more than 2048 bytes is written past `__rstream`
  (`ptp.c:68`). `DefinedUnlessFault` excepts it; run `ptp_object` shows it. All
  three are in run `ptp`.
* `UsbDescriptors!LengthIsDelivered` holds while no transfer is short: the counts of
  both ioctls are dropped (`usb.c:158, 164`), so of a descriptor that was cut off
  `*wlen` says the length it would have had.
* `UsbDescriptors!DefinedUnlessFault` names when the descriptor functions leave
  their buffers without any failure: a string longer than `USB_MAX_STRING_LEN`
  (`usb.c:438`); a dump of a configuration that is not as long as it says, or whose
  descriptors are shorter than their types (`usb.c:407`); and a parse of anything
  but one interface followed by at most one endpoint (`usb.c:481-490`). The second
  element of either array is written at 9 or 7 times its size.
* `UsbDescriptors!LoopsEnd` excepts descriptors of length 0 and totals no bytes
  follow, where both loops stand still (`usb.c:407, 477`). `usb_dump_device` is
  called by main (`main.c:161`), so `Ends` and `UnplugBeforeStreamEnds` except a
  main that never comes back from it.
* `UsbDescriptors!EndpointsNamed`, of sound configurations (in others a descriptor
  may be cut off, and the missing bytes are decoded as 0): endpoints from 8 on are printed with another
  number (`usb.c:22` masks with 0x07), and synchronization, usage and transactions
  are right only when they are 0 (`usb.c:711, 725, 739` compare masked bits that are
  not shifted, so every other value is printed as the last).
* `UsbDescriptors!LeaksLaterEndpointsOnly`: the endpoints of the second and later
  interfaces are not freed (`usb.c:519`).
* `UsbControl!KernelInStep`: after `usb_set_configuration` the kernel and the
  device may disagree on alternate settings until the next `usb_set_interface`.

## 8. Plan

Done: 1. `BulkPipe`, `UsbBulk` and its proofs; 2. `Adb` and its proofs;
3. `DroidboxMain`; 4. `Ptp`; 5. `UsbControl`; 6. `UsbDescriptors`.

Done, proofs: 7. the refinement of `BulkPipe`; 8. `DroidboxMain`; 9. `Ptp`;
10. `UsbControl`; 11. `UsbDescriptors`, its types and the heap first, then the
parser and the dump; 12. the refinement of `RemoteCall`; 13. `DaemonsTurn`.

Open:

14. What `Adb` and `Ptp` assume of a bulk call is compared with `BulkPipe` by
    reading, not by a theorem: a transfer of theirs is one step where `BulkPipe`
    takes three (`Begin`, the transfer, `Return`), so a refinement would need the
    transfers of both modules split, or an argument about actions composed.
15. After a transfer that broke off nothing is claimed but types and bounds. What
    main could still be sure of (that a CLSE it reads is one the daemon sent, if
    the break was in a payload) is not stated.
16. Liveness stays with TLC. The safety behind it is proved: `NeverBothWait` and
    `DaemonsTurn` say when both ends can wait with nothing under way, and that
    it is in no other case.
