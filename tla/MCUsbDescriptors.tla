-------------------------- MODULE MCUsbDescriptors --------------------------
(***************************************************************************)
(* Devices for TLC.                                                        *)
(***************************************************************************)
EXTENDS UsbDescriptors

Interface0(n) == [Zeros EXCEPT !.type = "interface", !.len = 9, !.endpoints = n, !.name = 2]
(* 1 IN, bulk, 512 bytes; 9 OUT, isochronous, asynchronous, implicit       *)
(* feedback, three transactions of 1024 bytes in a microframe.             *)
AnEndpoint == [Zeros EXCEPT !.type = "endpoint", !.len = 7,
                            !.address = 129, !.attributes = 2, !.packet = 512]
AudioEndpoint == [AnEndpoint EXCEPT !.len = 9,
                            !.address = 9, !.attributes = 37, !.packet = 5120]
(* 1 IN, isochronous, no synchronization, feedback, two transactions.      *)
FeedbackEndpoint == [AnEndpoint EXCEPT !.attributes = 17, !.packet = 3072]
Association == [Zeros EXCEPT !.type = "association", !.len = 8]
Other(n) == [Zeros EXCEPT !.len = n]

Conf0(n, ds) == [total |-> TotalOf(ds), interfaces |-> n, name |-> 3, descriptors |-> ds]
Claiming0(total, n, ds) == [Conf0(n, ds) EXCEPT !.total = total]

Strings == [s \in 0 .. 3 |-> IF s = 0 THEN 4 ELSE IF s = 3 THEN 0 ELSE IF s = 1 THEN 126 ELSE 20]
With(confs) == [names |-> <<1, 2, 0>>, strings |-> Strings, configurations |-> confs]

TwoEndpoints == Conf0(1, <<Interface0(2), AnEndpoint, AudioEndpoint>>)
TwoInterfaces == Conf0(2, <<Association, Interface0(1), FeedbackEndpoint, Interface0(0)>>)
TenInterfaces == Conf0(10, <<Interface0(1), AnEndpoint, Interface0(1), AnEndpoint>>)
EndpointFirst == Conf0(1, <<AnEndpoint, Interface0(1)>>)
NoInterface == Conf0(0, <<>>)
ZeroLength == Conf0(1, <<Interface0(0), Other(0), AnEndpoint>>)
TooLong == Claiming0(30, 1, <<Interface0(0)>>)
TooLongForUsbfs == Claiming0(5000, 1, <<Interface0(0)>>)
AtTheEnd == Conf0(1, [j \in 1 .. 16 |-> Other(255)] \o <<[Interface0(0) EXCEPT !.len = 7]>>)

Phone == With(<<Conf0(1, <<Other(5), Interface0(1), AnEndpoint>>), Conf0(1, <<Interface0(0), Other(5)>>)>>)
Camera == With(<<TwoEndpoints, TwoInterfaces>>)
Dock == With(<<TenInterfaces, EndpointFirst>>)
Odd == With(<<NoInterface, ZeroLength>>)
Liar == With(<<AtTheEnd>>)
LongString == [With(<<TooLongForUsbfs>>) EXCEPT !.strings[2] = 200]
NoStrings == [With(<<TooLong>>) EXCEPT !.strings = [s \in 0 .. 3 |-> 0]]

MCContents == {Phone, Camera, Dock, Odd, Liar, LongString, NoStrings}
MCOwner == [e \in Endpoints |-> 0]
=============================================================================
