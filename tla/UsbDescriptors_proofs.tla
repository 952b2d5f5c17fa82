------------------------ MODULE UsbDescriptors_proofs ------------------------
(***************************************************************************)
(* Proofs about UsbDescriptors, for any device: the types, what a caller   *)
(* of usb_get_descriptor may rely on, what is printed of an endpoint, and  *)
(* what release_descriptor leaves behind.                                  *)
(***************************************************************************)
EXTENDS UsbDescriptors, UsbControl_proofs, SequenceTheorems, WellFoundedInduction

-----------------------------------------------------------------------------
(***************************************************************************)
(* What makes TypeOK, LengthIsDelivered and LeaksLaterEndpointsOnly        *)
(* inductive.                                                              *)
(***************************************************************************)
Nodes == [of : Descriptor, bytes : Nat, endpoints : Seq(Descriptor)]
Trees == [kind : {"none", "device", "config"}, of : Configuration, interfaces : Seq(Nodes)]
Decodings ==
    [number : 0 .. 7, direction : {"IN", "OUT"},
     transfer : {"control", "isochronous", "bulk", "interrupt"},
     sync : {"none", "asynchronous", "adaptive", "synchronous"},
     usage : {"data", "feedback", "implicit", "reserved"},
     packet : Nat, transactions : {"one", "two", "three", "reserved"}]
Entries ==
    [kind : {"device", "config"} \union DescriptorTypes, conf : Nat, at : Nat,
     name : Int, shown : Decodings]

(* A configuration some of which was received is one the device has.       *)
Asked == buf.type = "config" /\ buf.got # 0 => HasConfiguration(buf.index)

(* Where a function is says what it has asked for.                         *)
Placed ==
    /\ pos \notin {"idle", "undefined"} => user \in {"app", "dump"}
    /\ pos = "first" /\ user = "dump" => buf.type \in {"string", "device", "config"}
    /\ pos = "second" /\ faults = 0 => buf.got = ConfigSize
    /\ pos = "names" => k \in 1 .. Len(content.names)
    /\ pos \in {"walk", "ifname", "parse"} => k > 0
    /\ pos \in {"walk", "ifname"} => call[1] = "get_string"

(* The length a call delivered is still there while its answer is parsed.  *)
Delivered ==
    call[1] = "get_descriptor" /\ pos \in {"idle", "parse"} /\ wlen # NoLen
        /\ buf.type # "bos" /\ StringsFit /\ faults = 0
    => wlen <= buf.got

Heap ==
    \A b \in blocks :
        \/ b \in {Block("top", 0), Block("ifaced", 0), Block("endpoints", 1)} /\ tree.kind # "none"
        \/ b[1] = "endpoints" /\ b[2] \in Nat \ {0, 1}

DescInv ==
    /\ TypeOK /\ tree \in Trees /\ printed \in Seq(Entries)
    /\ Asked /\ Placed /\ Delivered /\ Heap

-----------------------------------------------------------------------------
(* Where descriptors end.  Induction over their number takes the least     *)
(* number for which a fact fails.                                          *)

(* A set of numbers that is not empty has a least one.                     *)
LEMMA NatMin == ASSUME NEW T, T \subseteq Nat, T # {} PROVE \E x \in T : \A y \in T : x <= y
<1> DEFINE R == OpToRel(<, Nat)
<1>1. \A x, y \in Nat : <<x, y>> \in R <=> x < y
  BY DEF OpToRel
<1>2. IsWellFoundedOn(R, Nat)
  BY NatLessThanWellFounded
<1> HIDE DEF R
<1>3. PICK x \in T : \A y \in T : ~ (<<y, x>> \in R)
  BY <1>2, WFMin
<1>4. ASSUME NEW y \in T PROVE x <= y
  <2>1. x \in Nat /\ y \in Nat /\ ~ (y < x)
    BY <1>1, <1>3
  <2> QED
    BY <2>1
<1> QED
  BY <1>4

(* A word is a number.                                                     *)
LEMMA WordsAreNumbers ==
    Word \subseteq Nat
<1>1. MaxWord \in Nat
  BY DEF MaxWord
<1> QED
  BY <1>1 DEF Word

(* The first byte of a word, when it is all there is of it.                *)
LEMMA LowByte ==
    0 \in Word /\ \A n \in Word : n % 256 \in Word
<1>1. 0 .. 255 \subseteq Word
  <2>1. MaxWord \in Nat /\ 255 <= MaxWord
    BY DEF MaxWord
  <2> QED
    BY <2>1 DEF Word
<1>2. \A n \in Nat : n % 256 \in 0 .. 255
  OBVIOUS
<1>3. 0 \in 0 .. 255
  OBVIOUS
<1> QED
  BY <1>1, <1>2, <1>3, WordsAreNumbers, Zenon

(* The bytes of a descriptor are natural numbers. *)
LEMMA FieldsAreNat ==
    ASSUME NEW d \in Descriptor
    PROVE  d.address \in Nat /\ d.attributes \in Nat /\ d.packet \in Nat /\ d.len \in Nat
           /\ d.address < 256 /\ d.name \in Nat /\ d.endpoints \in Nat
<1>1. d.address \in Byte /\ d.attributes \in Byte /\ d.packet \in Word
      /\ d.len \in Byte /\ d.endpoints \in Byte /\ d.name \in Nat
  BY DEF Descriptor
<1>2. \A n \in Byte : n \in Nat /\ n < 256
  BY DEF Byte
<1> QED
  BY <1>1, <1>2, WordsAreNumbers

(* Where each descriptor ends: the recursion that Ends is defined by has a *)
(* solution, and it is one in the natural numbers.                         *)
LEMMA EndsAre ==
    ASSUME NEW ds \in Seq(Descriptor)
    PROVE  /\ Ends(ds) \in [0 .. Len(ds) -> Nat] /\ Ends(ds)[0] = ConfigSize
           /\ \A n \in 1 .. Len(ds) : Ends(ds)[n] = Ends(ds)[n - 1] + ds[n].len
<1> DEFINE N == Len(ds)
           Ext(g, n) == IF n = 0 THEN ConfigSize ELSE g[n - 1] + ds[n].len
           Some(m) == \E g \in [0 .. m -> Nat] : \A n \in 0 .. m : g[n] = Ext(g, n)
           T == {m \in 0 .. N : ~Some(m)}
<1>1. N \in Nat /\ \A n \in 1 .. N : ds[n].len \in Nat
  BY FieldsAreNat
<1> HIDE DEF Some
<1>2. T = {}
  <2> SUFFICES ASSUME T # {} PROVE FALSE
    OBVIOUS
  <2>1. T \subseteq Nat
    BY <1>1
  <2>2. PICK m \in T : \A y \in T : m <= y
    <3> HIDE DEF T
    <3> QED
      BY <2>1, NatMin
  <2>3. m \in 0 .. N /\ ~Some(m) /\ m - 1 \notin T
    BY <1>1, <2>1, <2>2
  <2>4. CASE m = 0
    <3> DEFINE g == [n \in 0 .. 0 |-> ConfigSize]
    <3>1. g \in [0 .. 0 -> Nat] /\ \A n \in 0 .. 0 : g[n] = Ext(g, n)
      BY DEF ConfigSize
    <3> QED
      BY <2>3, <2>4, <3>1 DEF Some
  <2>5. CASE m # 0
    <3>1. m \in 1 .. N /\ m - 1 \in 0 .. N
      BY <1>1, <2>3, <2>5
    <3>2. Some(m - 1)
      BY <2>3, <3>1
    <3>3. PICK g \in [0 .. m - 1 -> Nat] : \A n \in 0 .. m - 1 : g[n] = Ext(g, n)
      BY <3>2 DEF Some
    <3> DEFINE last == g[m - 1] + ds[m].len
               h == [n \in 0 .. m |-> IF n = m THEN last ELSE g[n]]
    <3>4. last \in Nat
      BY <1>1, <3>1
    <3> HIDE DEF last
    <3>5. h \in [0 .. m -> Nat]
      BY <3>1, <3>4
    <3>6. ASSUME NEW n \in 0 .. m PROVE h[n] = Ext(h, n)
      <4>1. CASE n = m
        <5>1. m - 1 \in 0 .. m /\ m - 1 # m
          BY <3>1
        <5>2. h[n] = last /\ h[n - 1] = g[m - 1]
          BY <4>1, <5>1
        <5> HIDE DEF h
        <5> QED
          BY <3>1, <4>1, <5>2 DEF last
      <4>2. CASE n # m
        <5>1. n \in 0 .. m - 1
          BY <3>1, <4>2
        <5>2. h[n] = g[n] /\ g[n] = Ext(g, n)
          BY <3>1, <3>3, <4>2, <5>1
        <5>3. n # 0 => n - 1 \in 0 .. m /\ n - 1 # m
          BY <3>1, <5>1
        <5>4. n # 0 => h[n - 1] = g[n - 1]
          BY <5>3
        <5> HIDE DEF h
        <5> QED
          BY <5>2, <5>4
      <4> QED
        BY <4>1, <4>2
    <3> HIDE DEF h
    <3> QED
      BY <2>3, <3>5, <3>6 DEF Some
  <2> QED
    BY <2>4, <2>5
<1>3. PICK g \in [0 .. N -> Nat] : \A n \in 0 .. N : g[n] = Ext(g, n)
  <2>1. N \in 0 .. N /\ N \notin T
    BY <1>1, <1>2
  <2> QED
    BY <2>1 DEF Some
<1>4. g = [n \in 0 .. N |-> Ext(g, n)]
  BY <1>3
<1> DEFINE Fix(e) == e = [n \in 0 .. N |-> Ext(e, n)]
<1>5. Ends(ds) = CHOOSE e : Fix(e)
  BY DEF Ends
<1>6. Fix(Ends(ds))
  BY <1>4, <1>5
<1> DEFINE E == Ends(ds)
<1> HIDE DEF E
<1>7. /\ DOMAIN E = 0 .. N /\ E = [n \in 0 .. N |-> E[n]]
      /\ \A n \in 0 .. N : E[n] = Ext(E, n)
  BY <1>6 DEF E
<1>8. E[0] = ConfigSize
  <2>1. 0 \in 0 .. N
    BY <1>1
  <2>2. E[0] = Ext(E, 0)
    BY <1>7, <2>1
  <2> QED
    BY <2>2
<1> DEFINE U == {n \in 0 .. N : E[n] \notin Nat}
<1>9. U = {}
  <2> SUFFICES ASSUME U # {} PROVE FALSE
    OBVIOUS
  <2>1. U \subseteq Nat
    BY <1>1
  <2>2. PICK n \in U : \A y \in U : n <= y
    <3> HIDE DEF U
    <3> QED
      BY <2>1, NatMin
  <2>3. n \in 0 .. N /\ E[n] \notin Nat /\ n - 1 \notin U
    BY <1>1, <2>1, <2>2
  <2>4. n # 0
    BY <1>8, <2>3 DEF ConfigSize
  <2>5. n \in 1 .. N /\ n - 1 \in 0 .. N
    BY <1>1, <2>3, <2>4
  <2>6. E[n - 1] \in Nat /\ ds[n].len \in Nat
    BY <1>1, <2>3, <2>5
  <2>7. E[n] = E[n - 1] + ds[n].len
    BY <1>7, <2>3, <2>4
  <2> QED
    BY <2>3, <2>6, <2>7
<1>10. E \in [0 .. N -> Nat]
  BY <1>7, <1>9
<1>11. ASSUME NEW n \in 1 .. N PROVE E[n] = E[n - 1] + ds[n].len
  <2>1. n \in 0 .. N /\ n # 0
    BY <1>1
  <2> QED
    BY <1>7, <2>1
<1> QED
  BY <1>10, <1>8, <1>11 DEF E
(* The length of a configuration. *)
LEMMA TotalIsNat == ASSUME NEW ds \in Seq(Descriptor) PROVE TotalOf(ds) \in Nat
<1>1. Len(ds) \in 0 .. Len(ds) /\ Ends(ds) \in [0 .. Len(ds) -> Nat]
  BY EndsAre
<1> QED
  BY <1>1 DEF TotalOf

(* A descriptor that is not empty ends behind those before it.             *)
LEMMA EndsGrow ==
    ASSUME NEW ds \in Seq(Descriptor), NEW i \in 0 .. Len(ds), NEW j \in 0 .. Len(ds), i <= j
    PROVE  Ends(ds)[i] <= Ends(ds)[j]
<1> DEFINE E == Ends(ds)
           N == Len(ds)
           T == {m \in 0 .. N : i <= m /\ ~(E[i] <= E[m])}
<1>1. /\ N \in Nat /\ E \in [0 .. N -> Nat] /\ \A n \in 1 .. N : E[n] = E[n - 1] + ds[n].len
      /\ \A n \in 1 .. N : ds[n].len \in Nat
  BY EndsAre, FieldsAreNat
<1> HIDE DEF E
<1>2. SUFFICES ASSUME T # {} PROVE FALSE
  BY DEF E
<1>3. PICK m \in T : \A y \in T : m <= y
  <2>1. T \subseteq Nat
    BY <1>1
  <2> HIDE DEF T
  <2> QED
    BY <1>2, <2>1, NatMin
<1>4. m \in 0 .. N /\ i <= m /\ ~(E[i] <= E[m])
  BY <1>3
<1>5. E[i] \in Nat /\ i \in 0 .. N
  BY <1>1
<1>6. m # i
  BY <1>4, <1>5
<1>7. m \in 1 .. N /\ m - 1 \in 0 .. N /\ i <= m - 1 /\ m - 1 < m
  BY <1>1, <1>4, <1>5, <1>6
<1>8. m - 1 \notin T
  BY <1>1, <1>3, <1>7
<1>9. E[i] <= E[m - 1]
  BY <1>7, <1>8
<1>10. E[m] = E[m - 1] + ds[m].len /\ E[m - 1] \in Nat /\ ds[m].len \in Nat
  BY <1>1, <1>7
<1> QED
  BY <1>4, <1>5, <1>9, <1>10

-----------------------------------------------------------------------------
(* What a device holds. *)

(* A configuration the device has, and the sum of its descriptors.         *)
LEMMA ConfigurationFacts ==
    ASSUME DescriptorsAssumption, content \in Contents,
           NEW i \in Nat, HasConfiguration(i)
    PROVE  /\ content.configurations[i + 1] \in Configuration
           /\ TotalOf(content.configurations[i + 1].descriptors) \in Nat
<1>1. content.configurations \in Seq(Configuration)
  BY DEF DescriptorsAssumption
<1>2. i + 1 \in DOMAIN content.configurations
  BY <1>1 DEF HasConfiguration
<1>3. content.configurations[i + 1] \in Configuration
  BY <1>1, <1>2
<1>4. TotalOf(content.configurations[i + 1].descriptors) \in Nat
  <2>1. content.configurations[i + 1].descriptors \in Seq(Descriptor)
    BY <1>3 DEF Configuration
  <2>2. Len(content.configurations[i + 1].descriptors) \in Nat
    BY <2>1, LenProperties
  <2> QED
    BY <2>1, <2>2, TotalIsNat
<1> QED
  BY <1>3, <1>4

(* A descriptor has a bLength, 0 if the device does not give it.           *)
LEMMA HeldFacts ==
    ASSUME DescriptorsAssumption, content \in Contents, NEW type, NEW index
    PROVE  /\ Held(type, index) \in Nat
           /\ type = "device" => Held(type, index) = DeviceSize
           /\ type = "config" => Held(type, index) = IF HasConfiguration(index) THEN ConfigSize ELSE 0
           /\ type = "string" => Held(type, index) =
                 IF index \in DOMAIN content.strings THEN content.strings[index] ELSE 0
           /\ type = "qualifier" => Held(type, index) = 10
           /\ type \notin {"device", "config", "string", "qualifier", "bos"} => Held(type, index) = 0
<1>1. \A s \in DOMAIN content.strings : content.strings[s] \in Byte
  BY DEF DescriptorsAssumption
<1>2. type = "device" => Held(type, index) = DeviceSize
  BY DEF Held
<1>3. type = "config" => Held(type, index) = IF HasConfiguration(index) THEN ConfigSize ELSE 0
  BY DEF Held
<1>4. type = "string" => Held(type, index) =
         IF index \in DOMAIN content.strings THEN content.strings[index] ELSE 0
  BY DEF Held
<1>5. /\ type = "qualifier" => Held(type, index) = 10
      /\ type = "bos" => Held(type, index) = 5
      /\ type \notin {"device", "config", "string", "qualifier", "bos"} => Held(type, index) = 0
  BY DEF Held
<1>6. Held(type, index) \in Nat
  <2>1. CASE type = "string" /\ index \in DOMAIN content.strings
    <3>1. Held(type, index) = content.strings[index]
      BY <1>4, <2>1
    <3>2. content.strings[index] \in Nat
      <4>1. content.strings[index] \in Byte
        BY <1>1, <2>1
      <4>2. \A n \in Byte : n \in Nat
        BY DEF Byte
      <4> QED
        BY <4>1, <4>2
    <3> QED
      BY <3>1, <3>2
  <2>2. CASE ~(type = "string" /\ index \in DOMAIN content.strings)
    BY <1>2, <1>3, <1>4, <1>5, <2>2 DEF DeviceSize, ConfigSize
  <2> QED
    BY <2>1, <2>2
<1> QED
  BY <1>2, <1>3, <1>4, <1>5, <1>6

(* Zeros decode to a descriptor. *)
LEMMA ZerosType == Zeros \in Descriptor
<1>1. 0 \in Byte /\ 0 \in Word
  BY LowByte DEF Byte
<1> QED
  BY <1>1 DEF Zeros, Descriptor, DescriptorTypes

(* The descriptor the loops are at.                                        *)
LEMMA AtType ==
    ASSUME NEW c \in Configuration, k \in Nat, k > 0
    PROVE  At(c) \in Descriptor
<1>1. c.descriptors \in Seq(Descriptor) /\ Len(c.descriptors) \in Nat
  BY DEF Configuration
<1>2. CASE k > Len(c.descriptors)
  BY <1>2, ZerosType DEF At
<1>3. CASE ~(k > Len(c.descriptors))
  <2> DEFINE d == c.descriptors[k]
  <2>1. d \in Descriptor
    BY <1>1, <1>3
  <2>2. d.name \in Nat /\ d.packet \in Word
        /\ \A n \in {d.len, d.endpoints, d.address, d.attributes} : n \in Byte
    BY <2>1 DEF Descriptor
  <2>3. \A n \in Byte : \A at : Given(n, at) \in Byte
    BY DEF Given, Byte
  <2>4. \A n \in Nat : \A at : Given(n, at) \in Nat
    BY DEF Given
  <2>5. \A n \in Word : \A at : GivenWord(n, at) \in Word
    BY LowByte DEF GivenWord, Given
  <2>6. d.type \in DescriptorTypes /\ "other" \in DescriptorTypes
    BY <2>1 DEF Descriptor, DescriptorTypes
  <2> HIDE DEF d
  <2>7. CutOff(d) \in Descriptor
    BY <2>2, <2>3, <2>4, <2>5, <2>6 DEF CutOff, Descriptor
  <2>8. At(c) = IF offset + SizeOf(d.type) <= buf.got THEN d ELSE CutOff(d)
    BY <1>3 DEF At, d
  <2> QED
    BY <2>1, <2>7, <2>8
<1> QED
  BY <1>2, <1>3

(* What the buffer shows of a configuration's own descriptor.              *)
LEMMA HeaderFacts ==
    ASSUME Conf \in Configuration, buf.got \in Nat
    PROVE  /\ Header.total \in Nat /\ Header.name \in Nat
           /\ buf.got >= ConfigSize => Header.total = Conf.total /\ Header.name = Conf.name
<1>1. Conf.total \in Nat /\ Conf.name \in Nat
  BY DEF Configuration
<1>2. Header.total = GivenWord(Conf.total, 2) /\ Header.name = Given(Conf.name, 6)
  BY DEF Header, Configuration
<1>3. GivenWord(Conf.total, 2) \in Nat /\ Given(Conf.name, 6) \in Nat
  <2>1. Conf.total % 256 \in Nat
    BY <1>1
  <2> QED
    BY <1>1, <2>1 DEF GivenWord, Given
<1>4. buf.got >= ConfigSize => 3 < buf.got /\ 6 < buf.got
  BY DEF ConfigSize
<1>5. buf.got >= ConfigSize => GivenWord(Conf.total, 2) = Conf.total /\ Given(Conf.name, 6) = Conf.name
  BY <1>4 DEF GivenWord, Given
<1> QED
  BY <1>2, <1>3, <1>5

-----------------------------------------------------------------------------
(* What an endpoint is decoded to (usb.c:694-748). *)

(* A switch names one of its four cases.                                   *)
LEMMA ChoiceType ==
    ASSUME NEW n, NEW zero, NEW one, NEW two, NEW otherwise
    PROVE  /\ Choice(n, zero, one, two, otherwise) \in {zero, one, two, otherwise}
           /\ n = 0 => Choice(n, zero, one, two, otherwise) = zero
           /\ n = 1 => Choice(n, zero, one, two, otherwise) = one
           /\ n = 2 => Choice(n, zero, one, two, otherwise) = two
           /\ n \notin {0, 1, 2} => Choice(n, zero, one, two, otherwise) = otherwise
BY DEF Choice

(* What is masked is a multiple of the mask's lowest bit.                  *)
LEMMA MaskedIs ==
    ASSUME NEW bits \in Nat
    PROVE  /\ Masked(bits, 1) = bits % 4 /\ bits \div 1 = bits
           /\ Masked(bits, 4) = 4 * ((bits \div 4) % 4)
           /\ Masked(bits, 16) = 16 * ((bits \div 16) % 4)
           /\ Masked(bits, 2048) = 2048 * ((bits \div 2048) % 4)
<1>1. Masked(bits, 1) = bits % 4 /\ bits \div 1 = bits
  BY DEF Masked
<1>3. Masked(bits, 4) = 4 * ((bits \div 4) % 4)
  BY DEF Masked
<1>4. Masked(bits, 16) = 16 * ((bits \div 16) % 4)
  BY DEF Masked
<1>5. Masked(bits, 2048) = 2048 * ((bits \div 2048) % 4)
  BY DEF Masked
<1> QED
  BY <1>1, <1>3, <1>4, <1>5

(* A field of two bits.                                                    *)
LEMMA TwoBits ==
    ASSUME NEW n \in Nat
    PROVE  /\ n % 4 \in {0, 1, 2, 3} /\ (n \div 4) % 4 \in {0, 1, 2, 3}
           /\ (n \div 16) % 4 \in {0, 1, 2, 3} /\ (n \div 2048) % 4 \in {0, 1, 2, 3}
<1>1. \A m \in Nat : m % 4 \in {0, 1, 2, 3}
  OBVIOUS
<1>2. n \div 4 \in Nat
  OBVIOUS
<1>3. n \div 16 \in Nat
  OBVIOUS
<1>4. n \div 2048 \in Nat
  OBVIOUS
<1> QED
  BY <1>1, <1>2, <1>3, <1>4

(* The whole of a number's parts.                                          *)
LEMMA PacketParts ==
    ASSUME NEW n \in Nat
    PROVE  (n % 2048) + 2048 * ((n \div 2048) % 4) = n % 8192
OBVIOUS

(* Whatever the bytes of an endpoint are, there is a name for each field.  *)
LEMMA DecodedType ==
    ASSUME NEW d \in Descriptor
    PROVE  Decoded(d) \in Decodings
<1>1. TransferType(d) \in {"control", "isochronous", "bulk", "interrupt"}
  BY ChoiceType DEF TransferType
<1>2. SyncType(d) \in {"none", "asynchronous", "adaptive", "synchronous"}
  BY ChoiceType DEF SyncType
<1>3. UsageType(d) \in {"data", "feedback", "implicit", "reserved"}
  BY ChoiceType DEF UsageType
<1>4. Transactions(d) \in {"one", "two", "three", "reserved"}
  BY ChoiceType DEF Transactions
<1>5. d.address % 8 \in 0 .. 7 /\ d.packet % 2048 \in Nat
  <2>1. \A n \in Nat : n % 8 \in 0 .. 7 /\ n % 2048 \in Nat
    OBVIOUS
  <2> QED
    BY <2>1, FieldsAreNat
<1> QED
  BY <1>1, <1>2, <1>3, <1>4, <1>5 DEF Decoded, Decodings

(* What can be told from what is printed of an endpoint.                   *)
LEMMA DecodedNames ==
    ASSUME NEW d \in Descriptor
    PROVE  Tells(d, Decoded(d))
<1> DEFINE p == Decoded(d)
           a == d.attributes
<1>1. /\ p.number = d.address % 8 /\ p.direction = IF d.address >= 128 THEN "IN" ELSE "OUT"
      /\ p.transfer = TransferType(d) /\ p.sync = SyncType(d) /\ p.usage = UsageType(d)
      /\ p.packet = d.packet % 2048 /\ p.transactions = Transactions(d)
  BY DEF Decoded
<1>2. a \in Nat /\ d.packet \in Nat /\ d.address \in Nat /\ d.address < 256
  BY FieldsAreNat
<1>3. p.direction = "IN" <=> d.address \div 128 = 1
  BY <1>1, <1>2
<1>4. d.address % 16 < 8 => p.number = d.address % 16
  BY <1>1, <1>2
<1>5. p.transfer = <<"control", "isochronous", "bulk", "interrupt">>[((a \div 1) % 4) + 1]
  <2>1. Masked(a, 1) = a % 4 /\ a \div 1 = a /\ a % 4 \in {0, 1, 2, 3}
    BY <1>2, MaskedIs, TwoBits
  <2>2. p.transfer = Choice(a % 4, "control", "isochronous", "bulk", "interrupt")
    BY <1>1, <2>1 DEF TransferType
  <2>3. a % 4 = 0 \/ a % 4 = 1 \/ a % 4 = 2 \/ a % 4 = 3
    BY <2>1
  <2> QED
    BY <2>1, <2>2, <2>3, ChoiceType
<1>6. p.sync = "none" <=> (a \div 4) % 4 = 0
  <2> DEFINE f == (a \div 4) % 4
  <2>1. Masked(a, 4) = 4 * f
    BY <1>2, MaskedIs
  <2>2. f \in {0, 1, 2, 3}
    BY <1>2, TwoBits
  <2>3. p.sync = Choice(4 * f, "none", "asynchronous", "adaptive", "synchronous")
    BY <1>1, <2>1 DEF SyncType
  <2>4. (f = 0 => 4 * f = 0) /\ (f # 0 => 4 * f \notin {0, 1, 2})
    BY <2>2
  <2> HIDE DEF f
  <2> QED
    BY <2>3, <2>4, ChoiceType DEF f
<1>7. p.usage = "data" <=> (a \div 16) % 4 = 0
  <2> DEFINE f == (a \div 16) % 4
  <2>1. Masked(a, 16) = 16 * f
    BY <1>2, MaskedIs
  <2>2. f \in {0, 1, 2, 3}
    BY <1>2, TwoBits
  <2>3. p.usage = Choice(16 * f, "data", "feedback", "implicit", "reserved")
    BY <1>1, <2>1 DEF UsageType
  <2>4. (f = 0 => 16 * f = 0) /\ (f # 0 => 16 * f \notin {0, 1, 2})
    BY <2>2
  <2> HIDE DEF f
  <2> QED
    BY <2>3, <2>4, ChoiceType DEF f
<1>8. p.transactions = "one" <=> (d.packet \div 2048) % 4 = 0
  <2> DEFINE f == (d.packet \div 2048) % 4
  <2>1. Masked(d.packet, 2048) = 2048 * f
    BY <1>2, MaskedIs
  <2>2. f \in {0, 1, 2, 3}
    BY <1>2, TwoBits
  <2>3. p.transactions = Choice(2048 * f, "one", "two", "three", "reserved")
    BY <1>1, <2>1 DEF Transactions
  <2>4. (f = 0 => 2048 * f = 0) /\ (f # 0 => 2048 * f \notin {0, 1, 2})
    BY <2>2
  <2> HIDE DEF f
  <2> QED
    BY <2>3, <2>4, ChoiceType DEF f
<1>9. p.packet + 2048 * ((d.packet \div 2048) % 4) = d.packet % 8192
  BY <1>1, <1>2, PacketParts
<1> QED
  BY <1>3, <1>4, <1>5, <1>6, <1>7, <1>8, <1>9 DEF Tells

-----------------------------------------------------------------------------
(* Parts of the invariant that a step does not reach. *)

(* A call into UsbControl's state: one ioctl. *)
LEMMA InnerFacts ==
    ASSUME ControlTypeOK, NEW name, Inner(name), errno' \in Errors
    PROVE  /\ ControlTypeOK' /\ call'[1] = name
           /\ content' = content /\ tree' = tree /\ blocks' = blocks
<1>1. call' = <<name, 0>> /\ ret' = (IF errno' = "none" THEN 0 ELSE 1)
      /\ UNCHANGED <<up, dev, kern, content, tree, blocks>>
  BY DEF Inner
<1>2. ControlTypeOK'
  BY <1>1 DEF ControlTypeOK, Errors
<1> QED
  BY <1>1, <1>2

(* Blocks and what points to them. *)
LEMMA HeapKept == ASSUME Heap, tree' = tree, blocks' = blocks PROVE Heap'
BY DEF Heap, Block

(* What was asked for. *)
LEMMA AskedKept ==
    ASSUME Asked, content' = content, buf' = buf \/ buf'.got = 0 \/ buf'.type # "config"
    PROVE  Asked'
BY DEF Asked, HasConfiguration

(* What is printed: nothing yet. *)
LEMMA PrintedNone ==
    ASSUME printed' = <<>>
    PROVE  printed' \in Seq(Entries)
BY EmptySeq

(* One more is. *)
LEMMA PrintedMore ==
    ASSUME printed \in Seq(Entries), NEW e \in Entries, printed' = Append(printed, e)
    PROVE  printed' \in Seq(Entries)
BY AppendProperties

(* Faults are not undone. *)
LEMMA FaultsStay ==
    ASSUME faults \in Nat, Fault \/ UNCHANGED faults
    PROVE  faults' = 0 => faults' = faults
BY DEF Fault

-----------------------------------------------------------------------------
(* The steps. *)

(* A call of usb_get_descriptor begins. *)
LEMMA GetBegins ==
    ASSUME DescInv, NEW type \in AppTypes \union {"config", "string"}, NEW index \in Nat,
           BufferMaxSize \in Nat, usb_get_descriptor(type, index)
    PROVE  DescInv'
<1> USE DEF DescInv
<1>1. /\ pos' = "first" /\ user' = "app" /\ buf' = [type |-> type, index |-> index, got |-> 0]
      /\ printed' = <<>> /\ offset' = 0 /\ k' = 0 /\ UNCHANGED controlVars
      /\ content' = content /\ tree' = tree /\ blocks' = blocks /\ faults' = faults
  BY DEF usb_get_descriptor
<1>2. ControlTypeOK'
  BY <1>1 DEF TypeOK, ControlTypeOK, controlVars
<1>3. TypeOK'
  BY <1>1, <1>2 DEF TypeOK
<1>4. Placed' /\ Delivered'
  BY <1>1 DEF Placed, Delivered
<1> QED
  BY <1>1, <1>3, <1>4, HeapKept, AskedKept, PrintedNone

(* A dump begins. *)
LEMMA DumpBegins ==
    ASSUME DescInv, BufferMaxSize \in Nat, usb_dump_device
    PROVE  DescInv'
<1> USE DEF DescInv
<1>1. /\ pos' = "first" /\ user' = "dump" /\ buf' = [type |-> "string", index |-> 0, got |-> 0]
      /\ printed' = <<>> /\ offset' = 0 /\ k' = 0 /\ UNCHANGED controlVars
      /\ content' = content /\ tree' = tree /\ blocks' = blocks /\ faults' = faults
  BY DEF usb_dump_device
<1>2. ControlTypeOK'
  BY <1>1 DEF TypeOK, ControlTypeOK, controlVars
<1>3. TypeOK'
  BY <1>1, <1>2 DEF TypeOK
<1>4. Placed' /\ Delivered'
  BY <1>1 DEF Placed, Delivered
<1> QED
  BY <1>1, <1>3, <1>4, HeapKept, AskedKept, PrintedNone

-----------------------------------------------------------------------------
(* The steps that send a request. *)

(* How a request of usb_get_descriptor ends.                               *)
LEMMA RequestEnds ==
    ASSUME NEW len, NEW full
    PROVE  /\ Refused(len, full) => errno' \in Errors
           /\ Received(len, full) => errno' \in Errors /\ len <= BufferMaxSize /\ full > 0
BY DEF Refused, Received, Errors

(* A fault is one of those there may be.                                   *)
LEMMA FaultCounted ==
    ASSUME faults \in 0 .. MaxFaults, MaxFaults \in Nat, Fault \/ UNCHANGED faults
    PROVE  faults' \in 0 .. MaxFaults
BY DEF Fault

(* Outside of a buffer nothing more is claimed than before.                *)
LEMMA UndefinedStep ==
    ASSUME DescInv, ControlTypeOK', pos' = "undefined", user' = user, buf' = buf,
           offset' = offset, k' = k, printed' = printed, content' = content,
           tree' = tree, blocks' = blocks, faults' \in 0 .. MaxFaults
    PROVE  DescInv'
<1> USE DEF DescInv
<1>1. TypeOK'
  BY DEF TypeOK
<1>2. Placed' /\ Delivered'
  BY DEF Placed, Delivered
<1> QED
  BY <1>1, <1>2, HeapKept, AskedKept

(* One fetch of a string, whoever asks for it: it was received or refused  *)
(* and the caller goes on with it, or what is read of it is undefined.     *)
LEMMA FetchStep ==
    ASSUME DescInv, MaxFaults \in Nat, Inner("get_string"), wlen' = NoLen, errno' \in Errors,
           Fault \/ UNCHANGED faults
    PROVE  /\ ControlTypeOK' /\ call'[1] = "get_string" /\ faults' \in 0 .. MaxFaults
           /\ content' = content /\ tree' = tree /\ blocks' = blocks
           /\ tree' \in Trees /\ Heap' /\ Delivered'
<1> USE DEF DescInv
<1>1. /\ ControlTypeOK' /\ call'[1] = "get_string"
      /\ content' = content /\ tree' = tree /\ blocks' = blocks
  BY InnerFacts DEF TypeOK
<1>2. faults' \in 0 .. MaxFaults
  BY FaultCounted DEF TypeOK
<1>3. Delivered'
  BY <1>1 DEF Delivered
<1> QED
  BY <1>1, <1>2, <1>3, HeapKept

(* usb_get_string called by the application (usb.c:426-444).               *)
LEMMA GetStringStep ==
    ASSUME DescInv, MaxFaults \in Nat, NEW index, usb_get_string(index)
    PROVE  DescInv'
<1> USE DEF DescInv
<1>1. /\ pos = "idle" /\ Inner("get_string") /\ wlen' = NoLen /\ errno' \in Errors
      /\ Fault \/ UNCHANGED faults
      /\ \/ pos' = pos
         \/ pos' = "undefined"
      /\ UNCHANGED <<user, buf, offset, k, printed>>
  BY RequestEnds DEF usb_get_string, GetString
<1>2. /\ ControlTypeOK' /\ call'[1] = "get_string" /\ faults' \in 0 .. MaxFaults
      /\ content' = content /\ tree' = tree /\ blocks' = blocks
      /\ tree' \in Trees /\ Heap' /\ Delivered'
  BY <1>1, FetchStep
<1>3. CASE pos' = pos
  <2>1. TypeOK'
    BY <1>1, <1>2, <1>3 DEF TypeOK
  <2>2. Placed'
    BY <1>1, <1>2, <1>3 DEF Placed
  <2> QED
    BY <1>1, <1>2, <2>1, <2>2, AskedKept
<1>4. CASE pos' = "undefined"
  BY <1>1, <1>2, <1>4, UndefinedStep
<1> QED
  BY <1>1, <1>3, <1>4

(* A request that failed ends usb_get_descriptor.                          *)
LEMMA FailsStep ==
    ASSUME DescInv, BufferMaxSize \in Nat, GetFails, Inner("get_descriptor"), errno' \in Errors,
           faults' = faults
    PROVE  DescInv'
<1> USE DEF DescInv
<1>1. /\ ControlTypeOK' /\ content' = content /\ tree' = tree /\ blocks' = blocks
  BY InnerFacts DEF TypeOK
<1>2. /\ pos' = "idle" /\ buf' = NoBuffer /\ wlen' = NoLen
      /\ user' = user /\ offset' = offset /\ k' = k /\ printed' = printed
  BY DEF GetFails
<1>3. TypeOK'
  BY <1>1, <1>2 DEF TypeOK, NoBuffer
<1>4. Placed' /\ Delivered'
  BY <1>2 DEF Placed, Delivered
<1>5. buf'.got = 0
  BY <1>2 DEF NoBuffer
<1> QED
  BY <1>1, <1>2, <1>3, <1>4, <1>5, HeapKept, AskedKept

(* One that succeeded returns to the application or to the dump, with as   *)
(* many bytes in the buffer as *wlen says.                                 *)
LEMMA ReturnsStep ==
    ASSUME DescriptorsAssumption, DescInv, pos \in {"first", "second"},
           NEW got \in 0 .. BufferMaxSize, GetReturns(got),
           buf.type = "config" => HasConfiguration(buf.index),
           user = "dump" => buf.type \in {"string", "device", "config"},
           StringsFit /\ buf.type # "bos" /\ faults' = 0 => got > 0 /\ Held(buf.type, buf.index) <= got,
           Inner("get_descriptor"), errno' \in Errors, faults' \in 0 .. MaxFaults
    PROVE  DescInv'
<1> USE DEF DescInv
<1>1. /\ ControlTypeOK' /\ content' = content /\ tree' = tree /\ blocks' = blocks
  BY InnerFacts DEF TypeOK
<1>2. /\ wlen' \in IF got = 0 THEN {0, 255} ELSE {Held(buf.type, buf.index)}
      /\ user' = user /\ offset' = offset /\ printed' = printed
  BY DEF GetReturns
<1>3. user \in {"app", "dump"} /\ BufferMaxSize \in Nat /\ Len(content.names) = 3
  BY DEF Placed, TypeOK, DescriptorsAssumption
<1>4. buf \in [type : AppTypes \union {"config", "string", "none"}, index : Nat, got : 0 .. BufferMaxSize]
  BY DEF TypeOK
<1>5. [buf EXCEPT !.got = got] \in
         [type : AppTypes \union {"config", "string", "none"}, index : Nat, got : 0 .. BufferMaxSize]
  BY <1>4
<1>6. /\ [buf EXCEPT !.got = got].type = buf.type /\ [buf EXCEPT !.got = got].index = buf.index
      /\ [buf EXCEPT !.got = got].got = got
  BY <1>4
<1>7. CASE user = "app"
  <2>1. pos' = "idle" /\ buf' = [buf EXCEPT !.got = got] /\ k' = k
    BY <1>7 DEF GetReturns
  <2>2. TypeOK'
    BY <1>1, <1>2, <1>5, <2>1 DEF TypeOK
  <2>3. Placed'
    BY <2>1 DEF Placed
  <2>4. Delivered'
    <3>1. StringsFit' = StringsFit
      BY <1>1 DEF StringsFit
    <3>2. buf'.got = got /\ buf'.type = buf.type
      BY <1>6, <2>1
    <3>3. got > 0 => wlen' = Held(buf.type, buf.index)
      BY <1>2
    <3> QED
      BY <3>1, <3>2, <3>3 DEF Delivered
  <2>5. Asked'
    BY <1>1, <1>6, <2>1 DEF Asked, HasConfiguration
  <2> QED
    BY <1>1, <1>2, <2>2, <2>3, <2>4, <2>5, HeapKept
<1>8. CASE user = "dump"
  <2>1. /\ pos' \in {"first", "names", "confname"}
        /\ \/ /\ pos' = "first" /\ k' = k
              /\ buf' = [type |-> "device", index |-> 0, got |-> 0]
           \/ pos' = "names" /\ k' = 1 /\ buf' = [buf EXCEPT !.got = got]
           \/ /\ pos' = "confname" /\ k' = k /\ buf' = [buf EXCEPT !.got = got]
              /\ buf.type = "config"
    BY <1>8 DEF GetReturns
  <2>2. TypeOK'
    <3>1. buf' \in [type : AppTypes \union {"config", "string", "none"}, index : Nat, got : 0 .. BufferMaxSize]
      <4>1. [type |-> "device", index |-> 0, got |-> 0] \in
               [type : AppTypes \union {"config", "string", "none"}, index : Nat, got : 0 .. BufferMaxSize]
        BY <1>3 DEF AppTypes
      <4> QED
        BY <1>5, <2>1, <4>1
    <3>2. pos' = "confname" => buf'.type = "config" /\ HasConfiguration(buf.index)'
      BY <1>1, <1>6, <2>1 DEF HasConfiguration
    <3>3. k' \in Nat
      BY <2>1 DEF TypeOK
    <3> QED
      BY <1>1, <1>2, <2>1, <3>1, <3>2, <3>3 DEF TypeOK
  <2>3. Placed'
    <3>1. pos' = "first" => buf'.type = "device"
      BY <2>1
    <3>2. pos' = "names" => k' \in 1 .. Len(content'.names)
      <4>1. pos' = "names" => k' = 1 /\ Len(content'.names) = 3
        BY <1>1, <1>3, <2>1
      <4>2. 1 \in 1 .. 3
        OBVIOUS
      <4> QED
        BY <4>1, <4>2, Zenon
    <3>3. user' = "dump"
      BY <1>2, <1>8
    <3>4. pos' \in {"first", "names", "confname"}
      BY <2>1
    <3> QED
      BY <3>1, <3>2, <3>3, <3>4 DEF Placed
  <2>4. Delivered'
    BY <2>1 DEF Delivered
  <2>5. Asked'
    <3>1. buf' = [buf EXCEPT !.got = got] => buf'.type = buf.type /\ buf'.index = buf.index
      BY <1>6
    <3>2. buf' = [buf EXCEPT !.got = got] \/ buf'.type = "device"
      BY <2>1
    <3> QED
      BY <1>1, <3>1, <3>2 DEF Asked, HasConfiguration
  <2> QED
    BY <1>1, <1>2, <2>2, <2>3, <2>4, <2>5, HeapKept
<1> QED
  BY <1>3, <1>7, <1>8

(* The first read of usb_get_descriptor (usb.c:134-159), of any type and   *)
(* any length that its wLength may have.                                   *)
LEMMA FirstReadStep ==
    ASSUME DescriptorsAssumption, DescInv, FirstRead
    PROVE  DescInv'
<1> USE DEF DescInv
<1> DEFINE full == Held(buf.type, buf.index)
           most(len) == Lesser(len, full)
<1>1. PICK len \in RequestLen(buf.type) :
         \/ Refused(len, full) /\ GetFails /\ UNCHANGED faults
         \/ /\ Received(len, full)
            /\ \E got \in {most(len)} \union ShortReads :
                  /\ (got = most(len) /\ UNCHANGED faults) \/ (got < most(len) /\ Fault)
                  /\ IF buf.type = "config"
                     THEN /\ pos' = "second" /\ buf' = [buf EXCEPT !.got = got]
                          /\ UNCHANGED <<wlen, user, offset, k, printed>>
                     ELSE GetReturns(got)
  BY DEF FirstRead, Transferred
<1>2. pos = "first" /\ Inner("get_descriptor")
  BY DEF FirstRead
<1>3. /\ content \in Contents /\ buf.type \in AppTypes \union {"config", "string", "none"}
      /\ buf \in [type : AppTypes \union {"config", "string", "none"}, index : Nat, got : 0 .. BufferMaxSize]
      /\ faults \in 0 .. MaxFaults /\ user \in {"app", "dump"}
      /\ user = "dump" => buf.type \in {"string", "device", "config"}
  BY <1>2 DEF TypeOK, Placed
<1>4. /\ BufferMaxSize \in Nat /\ MaxStringLen \in Nat /\ UnsetLengths \subseteq Nat
      /\ MaxFaults \in Nat /\ ShortReads \subseteq Nat
  BY DEF DescriptorsAssumption
<1>5. len \in Nat
  BY <1>1, <1>4 DEF RequestLen, DeviceSize, ConfigSize, SizeOf
<1>6. full \in Nat
  BY <1>3, HeldFacts
<1>7. errno' \in Errors
  BY <1>1, RequestEnds
<1>8. CASE Refused(len, full) /\ GetFails /\ UNCHANGED faults
  BY <1>2, <1>4, <1>7, <1>8, FailsStep
<1>9. ASSUME Received(len, full), NEW got \in {most(len)} \union ShortReads,
             (got = most(len) /\ UNCHANGED faults) \/ (got < most(len) /\ Fault),
             IF buf.type = "config"
             THEN /\ pos' = "second" /\ buf' = [buf EXCEPT !.got = got]
                  /\ UNCHANGED <<wlen, user, offset, k, printed>>
             ELSE GetReturns(got)
      PROVE  DescInv'
  <2>1. len <= BufferMaxSize /\ full > 0
    BY <1>9, RequestEnds
  <2>2. most(len) \in Nat /\ most(len) <= len /\ (full <= len => most(len) = full)
    BY <1>5, <1>6 DEF Lesser
  <2> HIDE DEF most
  <2>3. got \in 0 .. BufferMaxSize
    BY <1>4, <1>5, <1>9, <2>1, <2>2
  <2>4. faults' \in 0 .. MaxFaults /\ (faults' = 0 => faults' = faults /\ got = most(len))
    BY <1>3, <1>4, <1>9 DEF Fault
  <2>5. CASE buf.type = "config"
    <3>1. /\ pos' = "second" /\ buf' = [buf EXCEPT !.got = got]
          /\ UNCHANGED <<wlen, user, offset, k, printed>>
      BY <1>9, <2>5
    <3>2. len = ConfigSize /\ full = ConfigSize /\ HasConfiguration(buf.index)
      BY <1>3, <2>1, <2>5, HeldFacts DEF RequestLen
    <3>3. faults' = 0 => got = ConfigSize
      BY <2>2, <2>4, <3>2 DEF ConfigSize
    <3> HIDE DEF full
    <3>4. /\ ControlTypeOK' /\ content' = content /\ tree' = tree /\ blocks' = blocks
      BY <1>2, <1>7, InnerFacts DEF TypeOK
    <3>5. /\ buf'.type = "config" /\ buf'.index = buf.index /\ buf'.got = got
          /\ buf' \in [type : AppTypes \union {"config", "string", "none"}, index : Nat, got : 0 .. BufferMaxSize]
      BY <1>3, <2>3, <2>5, <3>1
    <3>6. TypeOK'
      BY <1>3, <2>4, <3>1, <3>2, <3>4, <3>5 DEF TypeOK, HasConfiguration
    <3>7. Placed' /\ Delivered'
      BY <1>3, <3>1, <3>3, <3>5 DEF Placed, Delivered
    <3>8. Asked'
      BY <3>2, <3>4, <3>5 DEF Asked, HasConfiguration
    <3> QED
      BY <3>1, <3>4, <3>6, <3>7, <3>8, HeapKept
  <2>6. CASE buf.type # "config"
    <3>1. ASSUME StringsFit, buf.type # "bos" PROVE full <= len
      <4>1. CASE buf.type = "device"
        BY <1>3, <4>1, HeldFacts DEF RequestLen, DeviceSize
      <4>2. CASE buf.type = "string"
        <5>1. buf.index \in DOMAIN content.strings /\ full = content.strings[buf.index]
          BY <1>3, <2>1, <4>2, HeldFacts
        <5>2. full <= MaxStringLen /\ len = MaxStringLen
          BY <3>1, <4>2, <5>1 DEF StringsFit, RequestLen
        <5> QED
          BY <1>4, <1>6, <5>2
      <4>3. CASE buf.type = "qualifier"
        BY <1>3, <4>3, HeldFacts DEF RequestLen
      <4>4. CASE buf.type \in {"endpoint", "none"}
        <5>1. buf.type \notin {"device", "config", "string", "qualifier", "bos"}
          BY <4>4
        <5>2. full = 0
          BY <1>3, <5>1, HeldFacts
        <5> QED
          BY <2>1, <5>2
      <4> QED
        BY <1>3, <2>6, <3>1, <4>1, <4>2, <4>3, <4>4 DEF AppTypes
    <3>2. StringsFit /\ buf.type # "bos" /\ faults' = 0 => got > 0 /\ Held(buf.type, buf.index) <= got
      BY <1>6, <2>1, <2>2, <2>4, <3>1
    <3>3. GetReturns(got)
      BY <1>9, <2>6
    <3> QED
      BY <1>2, <1>3, <1>7, <2>3, <2>4, <2>6, <3>2, <3>3, ReturnsStep
  <2> QED
    BY <2>5, <2>6
<1> QED
  BY <1>1, <1>8, <1>9

(* The second read, of as much as the configuration says it has            *)
(* (usb.c:162-166): what the first one left in the buffer is still there.  *)
LEMMA SecondReadStep ==
    ASSUME DescriptorsAssumption, DescInv, SecondRead
    PROVE  DescInv'
<1> USE DEF DescInv
<1> DEFINE len == WholeLen
           full == TotalOf(Conf.descriptors)
           most == Lesser(len, full)
           n(got) == IF got < buf.got THEN buf.got ELSE got
<1>1. /\ pos = "second" /\ Inner("get_descriptor")
      /\ \/ Refused(len, full) /\ GetFails /\ UNCHANGED faults
         \/ /\ Received(len, full)
            /\ \E got \in {most} \union ShortReads :
                  /\ (got = most /\ UNCHANGED faults) \/ (got < most /\ Fault)
                  /\ GetReturns(n(got))
  BY DEF SecondRead, Transferred
<1>2. /\ content \in Contents /\ faults \in 0 .. MaxFaults /\ buf.type = "config"
      /\ HasConfiguration(buf.index) /\ buf.index \in Nat
      /\ buf.got \in 0 .. BufferMaxSize /\ (faults = 0 => buf.got = ConfigSize)
  BY <1>1 DEF TypeOK, Placed
<1>3. BufferMaxSize \in Nat /\ MaxFaults \in Nat /\ ShortReads \subseteq Nat
  BY DEF DescriptorsAssumption
<1>4. Conf \in Configuration /\ full \in Nat
  BY <1>2, ConfigurationFacts DEF Conf
<1>5. len \in Nat
  BY <1>2, <1>3, <1>4, HeaderFacts DEF WholeLen
<1>6. errno' \in Errors /\ (Received(len, full) => len <= BufferMaxSize)
  BY <1>1, RequestEnds
<1>7. Held(buf.type, buf.index) = ConfigSize
  BY <1>2, HeldFacts
<1>8. CASE Refused(len, full) /\ GetFails /\ UNCHANGED faults
  BY <1>1, <1>3, <1>6, <1>8, FailsStep
<1>9. ASSUME Received(len, full), NEW got \in {most} \union ShortReads,
             (got = most /\ UNCHANGED faults) \/ (got < most /\ Fault),
             GetReturns(n(got))
      PROVE  DescInv'
  <2>1. most \in Nat /\ most <= len
    BY <1>4, <1>5 DEF Lesser
  <2> HIDE DEF most, len, full
  <2>2. got \in Nat /\ got <= BufferMaxSize
    <3>1. len <= BufferMaxSize /\ len \in Nat
      BY <1>5, <1>6, <1>9
    <3>2. got \in Nat /\ got <= most
      <4>1. got = most \/ (got \in ShortReads /\ got < most)
        BY <1>9, Zenon
      <4>2. got \in Nat
        BY <1>3, <2>1, <4>1, Zenon
      <4> QED
        BY <2>1, <4>1, <4>2
    <3> QED
      BY <1>3, <2>1, <3>1, <3>2
  <2>3. n(got) \in 0 .. BufferMaxSize /\ n(got) >= buf.got
    BY <1>2, <1>3, <2>2
  <2>4. faults' \in 0 .. MaxFaults /\ (faults' = 0 => faults = 0)
    BY <1>2, <1>3, <1>9, FaultCounted, FaultsStay
  <2>5. faults' = 0 => n(got) > 0 /\ ConfigSize <= n(got)
    BY <1>2, <2>3, <2>4 DEF ConfigSize
  <2> HIDE DEF n
  <2> QED
    BY <1>1, <1>2, <1>6, <1>7, <1>9, <2>3, <2>4, <2>5, ReturnsStep
<1> QED
  BY <1>1, <1>8, <1>9

-----------------------------------------------------------------------------
(* The steps of a dump. *)

(* What is printed of the device and of a configuration.                   *)
LEMMA EntryType ==
    ASSUME NEW kind \in {"device", "config"} \union DescriptorTypes,
           NEW i \in Nat, NEW j \in Nat, NEW s \in Int
    PROVE  Entry(kind, i, j, s) \in Entries
BY DecodedType, ZerosType DEF Entry, Entries

(* The string fetched, or none.                                            *)
LEMMA PrintedOne ==
    ASSUME DescInv, NEW kind \in {"device", "config"},
           NEW i \in Nat, NEW j \in Nat, NEW s \in Int,
           printed' = Append(printed, Entry(kind, i, j, s))
    PROVE  printed' \in Seq(Entries)
<1>1. Entry(kind, i, j, s) \in Entries
  BY EntryType
<1> QED
  BY <1>1, PrintedMore DEF DescInv

(* What is printed of the descriptor at the loop's offset.                 *)
LEMMA PrintedDescriptor ==
    ASSUME DescriptorsAssumption, DescInv, pos \in {"walk", "ifname"},
           NEW s \in Int, NEW d, d = At(Conf), DescPrinted(d, s)
    PROVE  printed' \in Seq(Entries)
<1> USE DEF DescInv
<1> DEFINE e == [Entry(d.type, buf.index, k, s) EXCEPT
                    !.shown = IF d.type = "endpoint" THEN Decoded(d) ELSE @]
<1>1. /\ content \in Contents /\ HasConfiguration(buf.index) /\ buf.index \in Nat
      /\ k \in Nat /\ k > 0
  BY DEF TypeOK, Placed
<1>2. Conf \in Configuration
  BY <1>1, ConfigurationFacts DEF Conf
<1>3. d \in Descriptor
  BY <1>1, <1>2, AtType
<1>4. d.type \in DescriptorTypes
  BY <1>3 DEF Descriptor
<1>5. Entry(d.type, buf.index, k, s) \in Entries /\ Decoded(d) \in Decodings
  BY <1>1, <1>3, <1>4, EntryType, DecodedType
<1>6. e \in Entries
  BY <1>5 DEF Entry, Entries
<1>7. printed' = Append(printed, e)
  BY DEF DescPrinted
<1> HIDE DEF e
<1> QED
  BY <1>6, <1>7, PrintedMore

(* The next configuration, or the end of the dump.                         *)
LEMMA NextConfigurationIs ==
    ASSUME BufferMaxSize \in Nat, NEW i \in Nat, NextConfiguration(i) \/ DumpEnds, user \in {"app", "dump"}
    PROVE  /\ pos' \in {"first", "idle"} /\ user' \in {"app", "dump", "done"}
           /\ buf' \in [type : AppTypes \union {"config", "string", "none"}, index : Nat, got : 0 .. BufferMaxSize]
           /\ pos' = "first" => buf'.type = "config" /\ user' = user
           /\ buf'.got = 0
BY DEF NextConfiguration, ToConfiguration, DumpEnds, NoBuffer

(* __print_device_descriptor (usb.c:539-578) fetches its strings one after *)
(* the other; after the last one the configurations are asked for.         *)
LEMMA PrintDeviceStep ==
    ASSUME DescriptorsAssumption, DescInv, PrintDevice
    PROVE  DescInv'
<1> USE DEF DescInv
<1> DEFINE index == Given(content.names[k], NameAt(k))
<1>1. /\ pos = "names" /\ Inner("get_string") /\ wlen' = NoLen /\ errno' \in Errors
      /\ Fault \/ UNCHANGED faults
      /\ \/ pos' = "undefined" /\ UNCHANGED <<user, buf, offset, k, printed>>
         \/ \E s \in {NoString, index} :
              /\ NamePrinted(s) /\ UNCHANGED offset
              /\ IF k < Len(content.names) THEN k' = k + 1 /\ UNCHANGED <<pos, user, buf>>
                                           ELSE (NextConfiguration(0) \/ DumpEnds) /\ k' = 0
  BY RequestEnds DEF PrintDevice, GetString
<1>2. /\ content \in Contents /\ k \in 1 .. Len(content.names) /\ user \in {"app", "dump"}
      /\ BufferMaxSize \in Nat /\ MaxFaults \in Nat
  BY <1>1 DEF TypeOK, Placed, DescriptorsAssumption
<1>3. Len(content.names) = 3 /\ index \in Nat
  <2>1. content.names \in Seq(DOMAIN content.strings) /\ DOMAIN content.strings \subseteq Nat
        /\ Len(content.names) = 3
    BY <1>2 DEF DescriptorsAssumption
  <2>2. content.names[k] \in Nat
    BY <1>2, <2>1, ElementOfSeq
  <2> QED
    BY <2>1, <2>2 DEF Given
<1> HIDE DEF index
<1>4. /\ ControlTypeOK' /\ call'[1] = "get_string" /\ faults' \in 0 .. MaxFaults
      /\ content' = content /\ tree' = tree /\ blocks' = blocks
      /\ tree' \in Trees /\ Heap' /\ Delivered'
  BY <1>1, <1>2, FetchStep
<1>5. CASE pos' = "undefined" /\ UNCHANGED <<user, buf, offset, k, printed>>
  BY <1>4, <1>5, UndefinedStep
<1>6. ASSUME NEW s \in {NoString, index}, NamePrinted(s), UNCHANGED offset,
             IF k < Len(content.names) THEN k' = k + 1 /\ UNCHANGED <<pos, user, buf>>
                                       ELSE (NextConfiguration(0) \/ DumpEnds) /\ k' = 0
      PROVE  DescInv'
  <2>1. s \in Int /\ k \in Nat
    BY <1>2, <1>3 DEF NoString
  <2>2. printed' \in Seq(Entries)
    BY <1>4, <1>6, <2>1, PrintedOne DEF NamePrinted
  <2>3. CASE k < Len(content.names)
    <3>1. k' = k + 1 /\ UNCHANGED <<pos, user, buf>>
      BY <1>6, <2>3
    <3>2. Len(content'.names) = 3 /\ k' \in 1 .. 3
      <4>1. k \in 1 .. 3 /\ k < 3
        BY <1>2, <1>3, <2>3
      <4> QED
        BY <1>3, <1>4, <3>1, <4>1
    <3>3. TypeOK'
      BY <1>1, <1>4, <1>6, <2>1, <3>1 DEF TypeOK
    <3>4. Placed'
      BY <1>1, <1>2, <3>1, <3>2 DEF Placed
    <3> QED
      BY <1>4, <2>2, <3>3, <3>1, <3>4, AskedKept
  <2>4. CASE ~(k < Len(content.names))
    <3>1. /\ pos' \in {"first", "idle"} /\ user' \in {"app", "dump", "done"} /\ k' = 0
          /\ buf' \in [type : AppTypes \union {"config", "string", "none"}, index : Nat, got : 0 .. BufferMaxSize]
          /\ pos' = "first" => buf'.type = "config" /\ user' = user
          /\ buf'.got = 0
      BY <1>2, <1>6, <2>4, NextConfigurationIs
    <3>2. TypeOK'
      BY <1>4, <1>6, <3>1 DEF TypeOK
    <3>3. Placed'
      BY <1>2, <3>1 DEF Placed
    <3> QED
      BY <1>4, <2>2, <3>2, <3>1, <3>3, AskedKept
  <2> QED
    BY <2>3, <2>4
<1> QED
  BY <1>1, <1>5, <1>6

(* The string of a configuration (usb.c:580-603).                          *)
LEMMA PrintConfigStep ==
    ASSUME DescriptorsAssumption, DescInv, PrintConfig
    PROVE  DescInv'
<1> USE DEF DescInv
<1>1. /\ pos = "confname" /\ Inner("get_string") /\ wlen' = NoLen /\ errno' \in Errors
      /\ Fault \/ UNCHANGED faults
      /\ \/ pos' = "undefined" /\ UNCHANGED <<user, buf, offset, k, printed>>
         \/ \E s \in {NoString, Header.name} :
              /\ ConfPrinted(s) /\ pos' = "walk" /\ offset' = ConfigSize /\ k' = 1
              /\ UNCHANGED <<user, buf>>
  BY RequestEnds DEF PrintConfig, GetString
<1>2. /\ content \in Contents /\ user \in {"app", "dump"} /\ MaxFaults \in Nat
      /\ HasConfiguration(buf.index) /\ buf.index \in Nat /\ buf.type = "config"
  BY <1>1 DEF TypeOK, Placed, DescriptorsAssumption
<1>3. Header.name \in Nat
  <2>1. Conf \in Configuration /\ buf.got \in Nat
    BY <1>2, ConfigurationFacts DEF Conf, TypeOK, DescriptorsAssumption
  <2> QED
    BY <2>1, HeaderFacts
<1>4. /\ ControlTypeOK' /\ call'[1] = "get_string" /\ faults' \in 0 .. MaxFaults
      /\ content' = content /\ tree' = tree /\ blocks' = blocks
      /\ tree' \in Trees /\ Heap' /\ Delivered'
  BY <1>1, <1>2, FetchStep
<1>5. CASE pos' = "undefined" /\ UNCHANGED <<user, buf, offset, k, printed>>
  BY <1>4, <1>5, UndefinedStep
<1>6. ASSUME NEW s \in {NoString, Header.name}, ConfPrinted(s), pos' = "walk",
             offset' = ConfigSize, k' = 1, UNCHANGED <<user, buf>>
      PROVE  DescInv'
  <2>1. s \in Int /\ 0 \in Nat
    BY <1>3 DEF NoString
  <2>2. printed' \in Seq(Entries)
    BY <1>2, <1>4, <1>6, <2>1, PrintedOne DEF ConfPrinted
  <2>3. TypeOK'
    BY <1>2, <1>4, <1>6 DEF TypeOK, HasConfiguration, ConfigSize
  <2>4. Placed'
    BY <1>2, <1>4, <1>6 DEF Placed
  <2> QED
    BY <1>4, <2>2, <2>3, <1>6, <2>4, AskedKept
<1> QED
  BY <1>1, <1>5, <1>6

(* The offset of the loops is a number of bytes and their descriptor one   *)
(* that is counted from 1.                                                 *)
LEMMA AdvanceType ==
    ASSUME NEW d \in Descriptor, offset \in Nat, k \in Nat, k > 0, Advance(d)
    PROVE  offset' \in Nat /\ k' \in Nat /\ k' > 0
BY FieldsAreNat DEF Advance

(* The string of an interface (usb.c:605-633).                             *)
LEMMA PrintInterfaceStep ==
    ASSUME DescriptorsAssumption, DescInv, PrintInterface
    PROVE  DescInv'
<1> USE DEF DescInv
<1> DEFINE d == At(Conf)
<1>1. /\ pos = "ifname" /\ Inner("get_string") /\ wlen' = NoLen /\ errno' \in Errors
      /\ Fault \/ UNCHANGED faults
      /\ \/ pos' = "undefined" /\ UNCHANGED <<user, buf, offset, k, printed>>
         \/ \E s \in {NoString, d.name} :
              DescPrinted(d, s) /\ Advance(d) /\ pos' = "walk" /\ UNCHANGED <<user, buf>>
  BY RequestEnds DEF PrintInterface, GetString
<1>2. /\ content \in Contents /\ user \in {"app", "dump"} /\ MaxFaults \in Nat
      /\ HasConfiguration(buf.index) /\ buf.index \in Nat /\ buf.type = "config"
      /\ k \in Nat /\ k > 0 /\ offset \in Nat
  BY <1>1 DEF TypeOK, Placed, DescriptorsAssumption
<1>3. d \in Descriptor
  <2>1. Conf \in Configuration
    BY <1>2, ConfigurationFacts DEF Conf
  <2> QED
    BY <1>2, <2>1, AtType
<1>4. /\ ControlTypeOK' /\ call'[1] = "get_string" /\ faults' \in 0 .. MaxFaults
      /\ content' = content /\ tree' = tree /\ blocks' = blocks
      /\ tree' \in Trees /\ Heap' /\ Delivered'
  BY <1>1, <1>2, FetchStep
<1> HIDE DEF d
<1>5. CASE pos' = "undefined" /\ UNCHANGED <<user, buf, offset, k, printed>>
  BY <1>4, <1>5, UndefinedStep
<1>6. ASSUME NEW s \in {NoString, d.name}, DescPrinted(d, s), Advance(d), pos' = "walk",
             UNCHANGED <<user, buf>>
      PROVE  DescInv'
  <2>1. s \in Int
    BY <1>3, FieldsAreNat DEF NoString
  <2>2. printed' \in Seq(Entries)
    BY <1>1, <1>4, <1>6, <2>1, PrintedDescriptor DEF d
  <2>3. offset' \in Nat /\ k' \in Nat /\ k' > 0
    BY <1>2, <1>3, <1>6, AdvanceType
  <2>4. TypeOK'
    BY <1>2, <1>4, <1>6, <2>3 DEF TypeOK, HasConfiguration
  <2>5. Placed'
    BY <1>2, <1>4, <1>6, <2>3 DEF Placed
  <2> QED
    BY <1>4, <1>6, <2>2, <2>4, <2>5, AskedKept
<1> QED
  BY <1>1, <1>5, <1>6

(* What a turn of the dump's loop does (usb.c:407-422).                    *)
LEMMA WalkCases ==
    ASSUME DescriptorsAssumption, DescInv, Walk
    PROVE  LET d == At(Conf)
           IN \/ /\ ~(offset < Header.total) /\ NextConfiguration(buf.index + 1)
                 /\ offset' = 0 /\ k' = 0 /\ UNCHANGED printed
              \/ /\ offset < Header.total /\ UNCHANGED <<user, buf>>
                 /\ \/ ~InBuffer(d) /\ Outside /\ UNCHANGED printed
                    \/ d.type = "interface" /\ pos' = "ifname" /\ UNCHANGED <<offset, k, printed>>
                    \/ /\ d.type \in {"endpoint", "association"} /\ pos' = pos
                       /\ DescPrinted(d, NoString) /\ Advance(d)
                    \/ d.type = "other" /\ pos' = pos /\ Advance(d) /\ UNCHANGED printed
<1> DEFINE d == At(Conf)
<1>1. /\ Conf \in Configuration /\ Header.total \in Nat
      /\ offset \in Nat /\ k \in Nat /\ k > 0
  <2>1. /\ HasConfiguration(buf.index) /\ buf.index \in Nat /\ content \in Contents
        /\ offset \in Nat /\ k \in Nat /\ k > 0 /\ buf.got \in Nat
    BY DEF Walk, DescInv, TypeOK, Placed, DescriptorsAssumption
  <2>2. Conf \in Configuration
    BY <2>1, ConfigurationFacts DEF Conf
  <2> QED
    BY <2>1, <2>2, HeaderFacts
<1>2. d.type \in DescriptorTypes
  BY <1>1, AtType DEF Descriptor
<1>3. CASE offset >= Header.total
  <2>1. ~(offset < Header.total)
    BY <1>1, <1>3
  <2>2. NextConfiguration(buf.index + 1) /\ offset' = 0 /\ k' = 0 /\ UNCHANGED printed
    BY <1>3, <2>1 DEF Walk
  <2> QED
    BY <2>1, <2>2
<1>4. CASE offset < Header.total /\ ~InBuffer(d)
  <2>1. ~(offset >= Header.total)
    BY <1>1, <1>4
  <2> QED
    BY <1>4, <2>1 DEF Walk
<1>5. CASE ~(offset >= Header.total) /\ ~(offset < Header.total /\ ~InBuffer(d))
  <2>1. /\ CASE d.type = "interface" ->
                    pos' = "ifname" /\ UNCHANGED <<offset, k, printed>>
              [] d.type \in {"endpoint", "association"} ->
                    DescPrinted(d, NoString) /\ Advance(d) /\ UNCHANGED pos
              [] d.type = "other" -> Advance(d) /\ UNCHANGED <<pos, printed>>
        /\ UNCHANGED <<user, buf>>
    BY <1>5 DEF Walk
  <2>2. offset < Header.total
    BY <1>1, <1>5
  <2> QED
    BY <1>2, <2>1, <2>2 DEF DescriptorTypes
<1> QED
  BY <1>3, <1>4, <1>5

(* The loop over a configuration (usb.c:406-423): at its end the next      *)
(* configuration, in it what is printed without a string.                  *)
LEMMA WalkStep ==
    ASSUME DescriptorsAssumption, DescInv, Walk
    PROVE  DescInv'
<1> USE DEF DescInv
<1> DEFINE d == At(Conf)
<1>1. pos = "walk" /\ UNCHANGED <<controlVars, content, tree, blocks, faults>>
  BY DEF Walk
<1>2. /\ content \in Contents /\ user \in {"app", "dump"} /\ BufferMaxSize \in Nat
      /\ HasConfiguration(buf.index) /\ buf.index \in Nat /\ buf.type = "config"
      /\ k \in Nat /\ k > 0 /\ offset \in Nat /\ call[1] = "get_string"
      /\ buf \in [type : AppTypes \union {"config", "string", "none"}, index : Nat, got : 0 .. BufferMaxSize]
  BY <1>1 DEF TypeOK, Placed, DescriptorsAssumption
<1>3. d \in Descriptor
  <2>1. Conf \in Configuration
    BY <1>2, ConfigurationFacts DEF Conf
  <2> QED
    BY <1>2, <2>1, AtType
<1>4. \/ NextConfiguration(buf.index + 1) /\ offset' \in Nat /\ k' \in Nat /\ UNCHANGED printed
      \/ Outside /\ UNCHANGED <<user, buf, printed>>
      \/ pos' = "ifname" /\ UNCHANGED <<offset, k, printed, user, buf>>
      \/ DescPrinted(d, NoString) /\ Advance(d) /\ UNCHANGED <<pos, user, buf>>
      \/ Advance(d) /\ UNCHANGED <<pos, printed, user, buf>>
  BY WalkCases
<1>5. /\ ControlTypeOK' /\ faults' \in 0 .. MaxFaults /\ call' = call
      /\ content' = content /\ tree' = tree /\ blocks' = blocks
      /\ tree' \in Trees /\ Heap'
  BY <1>1, HeapKept DEF TypeOK, ControlTypeOK, controlVars
<1>6. Delivered'
  BY <1>2, <1>5 DEF Delivered
<1> HIDE DEF d
<1>7. CASE NextConfiguration(buf.index + 1) /\ offset' \in Nat /\ k' \in Nat /\ UNCHANGED printed
  <2>1. /\ pos' \in {"first", "idle"} /\ user' \in {"app", "dump", "done"}
        /\ buf' \in [type : AppTypes \union {"config", "string", "none"}, index : Nat, got : 0 .. BufferMaxSize]
        /\ pos' = "first" => buf'.type = "config" /\ user' = user
        /\ buf'.got = 0
    BY <1>2, <1>7, NextConfigurationIs
  <2>2. TypeOK'
    BY <1>5, <1>7, <2>1 DEF TypeOK
  <2>3. Placed'
    BY <1>2, <2>1 DEF Placed
  <2> QED
    BY <1>5, <1>6, <1>7, <2>2, <2>3, <2>1, AskedKept
<1>8. CASE Outside /\ UNCHANGED <<user, buf, printed>>
  BY <1>5, <1>8, UndefinedStep DEF Outside
<1>9. ASSUME pos' \in {"walk", "ifname"}, UNCHANGED <<user, buf>>,
             offset' \in Nat, k' \in Nat, k' > 0, printed' \in Seq(Entries)
      PROVE  DescInv'
  <2>1. TypeOK'
    BY <1>2, <1>5, <1>9 DEF TypeOK, HasConfiguration
  <2>2. Placed'
    BY <1>2, <1>5, <1>9 DEF Placed
  <2> QED
    BY <1>5, <1>6, <1>9, <2>1, <2>2, AskedKept
<1>10. CASE pos' = "ifname" /\ UNCHANGED <<offset, k, printed, user, buf>>
  BY <1>2, <1>5, <1>9, <1>10
<1>11. CASE DescPrinted(d, NoString) /\ Advance(d) /\ UNCHANGED <<pos, user, buf>>
  <2>1. printed' \in Seq(Entries)
    BY <1>1, <1>5, <1>11, PrintedDescriptor DEF d, NoString
  <2>2. offset' \in Nat /\ k' \in Nat /\ k' > 0
    BY <1>2, <1>3, <1>11, AdvanceType
  <2> QED
    BY <1>1, <1>9, <1>11, <2>1, <2>2
<1>12. CASE Advance(d) /\ UNCHANGED <<pos, printed, user, buf>>
  <2>1. offset' \in Nat /\ k' \in Nat /\ k' > 0
    BY <1>2, <1>3, <1>12, AdvanceType
  <2> QED
    BY <1>1, <1>5, <1>9, <1>12, <2>1
<1> QED
  BY <1>7, <1>8, <1>10, <1>11, <1>12, <1>4

-----------------------------------------------------------------------------
(* The steps of parse_descriptor and release_descriptor. *)

(* They touch neither the device nor the buffer they parse.                *)
LEMMA PureFacts ==
    ASSUME DescInv, MaxFaults \in Nat, Pure, Fault \/ UNCHANGED faults,
           pos \in {"idle", "parse"}, pos' \in {"idle", "parse", "undefined"},
           k' \in Nat, pos' = "parse" => k' > 0
    PROVE  /\ ControlTypeOK' /\ content' = content /\ buf' = buf /\ user' = "app"
           /\ printed' \in Seq(Entries) /\ Asked' /\ Delivered' /\ Placed'
<1> USE DEF DescInv
<1>1. /\ user' = "app" /\ printed' = <<>> /\ content' = content /\ buf' = buf
      /\ UNCHANGED controlVars
  BY DEF Pure
<1>2. ControlTypeOK' /\ call' = call /\ wlen' = wlen
  BY <1>1 DEF TypeOK, ControlTypeOK, controlVars
<1>3. Delivered'
  <2>1. faults' = 0 => faults = 0
    BY FaultsStay DEF TypeOK
  <2> QED
    BY <1>1, <1>2, <2>1 DEF Delivered, StringsFit
<1>4. Placed'
  BY <1>1 DEF Placed
<1> QED
  BY <1>1, <1>2, <1>3, <1>4, AskedKept, PrintedNone

(* A step that leaves a well-formed tree and heap behind.                  *)
LEMMA PureStep ==
    ASSUME DescInv, MaxFaults \in Nat, Pure, Fault \/ UNCHANGED faults,
           pos \in {"idle", "parse"}, pos' \in {"idle", "parse", "undefined"},
           offset' \in Nat, k' \in Nat,
           pos' = "parse" => k' > 0 /\ tree'.kind = "config",
           tree' \in Trees, Heap'
    PROVE  DescInv'
<1> USE DEF DescInv
<1>1. /\ ControlTypeOK' /\ content' = content /\ buf' = buf /\ user' = "app"
      /\ printed' \in Seq(Entries) /\ Asked' /\ Delivered' /\ Placed'
  BY PureFacts
<1>2. faults' \in 0 .. MaxFaults
  BY FaultCounted DEF TypeOK
<1>3. TypeOK'
  BY <1>1, <1>2 DEF TypeOK
<1> QED
  BY <1>1, <1>3

(* The configuration that is parsed is one.                                *)
LEMMA NoTreeType == NoTree \in Trees
<1>1. 0 \in Byte
  BY DEF Byte
<1>2. NoConfiguration \in Configuration
  BY <1>1, EmptySeq DEF NoConfiguration, Configuration
<1> QED
  BY <1>2, EmptySeq DEF NoTree, Trees

(* parse_descriptor of a device (usb.c:451-459).                           *)
LEMMA ParseDeviceStep ==
    ASSUME DescriptorsAssumption, DescInv, ParseDevice
    PROVE  DescInv'
<1> USE DEF DescInv
<1>1. /\ pos = "idle" /\ tree = NoTree /\ Pure /\ offset' = offset /\ k' = k
      /\ Fault \/ UNCHANGED faults
      /\ \/ /\ tree' = [NoTree EXCEPT !.kind = "device"] /\ pos' = pos
            /\ blocks' = blocks \union {Block("top", 0)}
         \/ pos' = "undefined" /\ tree' = tree /\ blocks' = blocks
  BY DEF ParseDevice
<1>2. offset \in Nat /\ k \in Nat /\ MaxFaults \in Nat
  BY DEF TypeOK, DescriptorsAssumption
<1>3. CASE tree' = [NoTree EXCEPT !.kind = "device"] /\ pos' = pos
             /\ blocks' = blocks \union {Block("top", 0)}
  <2>1. tree' \in Trees /\ tree'.kind = "device" /\ tree.kind = "none"
    BY <1>1, <1>3, NoTreeType DEF Trees, NoTree
  <2>2. Heap'
    BY <1>3, <2>1 DEF Heap
  <2> QED
    BY <1>1, <1>2, <1>3, <2>1, <2>2, PureStep
<1>4. CASE pos' = "undefined" /\ tree' = tree /\ blocks' = blocks
  <2>1. Heap'
    BY <1>4, HeapKept
  <2> QED
    BY <1>1, <1>2, <1>4, <2>1, PureStep
<1> QED
  BY <1>1, <1>3, <1>4

(* parse_descriptor of a configuration begins (usb.c:461-475).             *)
LEMMA ParseConfigStep ==
    ASSUME DescriptorsAssumption, DescInv, ParseConfig
    PROVE  DescInv'
<1> USE DEF DescInv
<1>1. /\ pos = "idle" /\ tree = NoTree /\ Pure
      /\ Fault \/ UNCHANGED faults
      /\ \/ /\ pos' = "parse" /\ offset' = ConfigSize /\ k' = 1
            /\ tree' = [kind |-> "config", of |-> Conf, interfaces |-> <<>>]
            /\ blocks' = blocks \union {Block("top", 0), Block("ifaced", 0)}
         \/ pos' = "undefined" /\ UNCHANGED <<tree, blocks, offset, k>>
  BY DEF ParseConfig
<1>2. offset \in Nat /\ k \in Nat /\ MaxFaults \in Nat /\ ConfigSize \in Nat
  BY DEF TypeOK, DescriptorsAssumption, ConfigSize
<1>3. CASE /\ pos' = "parse" /\ offset' = ConfigSize /\ k' = 1
           /\ tree' = [kind |-> "config", of |-> Conf, interfaces |-> <<>>]
           /\ blocks' = blocks \union {Block("top", 0), Block("ifaced", 0)}
  <2>1. Conf \in Configuration
    <3>1. buf.type = "config" /\ buf.got # 0 /\ buf.index \in Nat
      BY DEF ParseConfig, TypeOK, DescriptorsAssumption, ConfigSize
    <3> QED
      BY <3>1, ConfigurationFacts DEF Conf, TypeOK, Asked
  <2>2. tree' \in Trees /\ tree'.kind = "config"
    BY <1>3, <2>1, EmptySeq DEF Trees
  <2>3. NoTree.kind = "none"
    BY DEF NoTree
  <2>4. Heap'
    BY <1>1, <1>3, <2>2, <2>3 DEF Heap
  <2> QED
    BY <1>1, <1>2, <1>3, <2>2, <2>4, PureStep
<1>4. CASE pos' = "undefined" /\ UNCHANGED <<tree, blocks, offset, k>>
  <2>1. Heap'
    BY <1>4, HeapKept
  <2> QED
    BY <1>1, <1>2, <1>4, <2>1, PureStep
<1> QED
  BY <1>1, <1>3, <1>4

(* An interface joins the tree; its endpoint array is one more block.      *)
LEMMA InterfaceJoins ==
    ASSUME tree \in Trees, tree.kind = "config", Heap, NEW d \in Descriptor, InterfaceParsed(d)
    PROVE  /\ tree' \in Trees /\ tree'.kind = "config" /\ Heap' /\ Advance(d) /\ pos' = pos
           /\ Fault \/ UNCHANGED faults
<1>1. PICK bytes \in {SizeT * FirstEndpoints(d), 0} :
         /\ tree' = [tree EXCEPT !.interfaces = Append(@, [of |-> d, bytes |-> bytes, endpoints |-> <<>>])]
         /\ \/ /\ bytes = SizeT * FirstEndpoints(d) /\ UNCHANGED faults
               /\ blocks' = blocks \union {Block("endpoints", Len(tree.interfaces) + 1)}
            \/ bytes = 0 /\ Fault /\ UNCHANGED blocks
  BY DEF InterfaceParsed
<1>2. Advance(d) /\ pos' = pos
  BY DEF InterfaceParsed
<1>3. tree.interfaces \in Seq(Nodes) /\ Len(tree.interfaces) \in Nat
  BY LenProperties DEF Trees
<1>4. bytes \in Nat
  <2>1. d.endpoints \in Nat
    BY FieldsAreNat
  <2>2. ASSUME tree.interfaces # <<>> PROVE tree.interfaces[1].of.endpoints \in Nat
    <3>1. 1 \in 1 .. Len(tree.interfaces)
      BY <1>3, <2>2, EmptySeq
    <3>2. tree.interfaces[1] \in Nodes
      BY <1>3, <3>1, ElementOfSeq
    <3> QED
      BY <3>2, FieldsAreNat DEF Nodes
  <2>3. FirstEndpoints(d) \in Nat
    BY <2>1, <2>2 DEF FirstEndpoints
  <2> QED
    BY <2>3 DEF SizeT
<1> DEFINE node == [of |-> d, bytes |-> bytes, endpoints |-> <<>>]
<1>5. node \in Nodes
  BY <1>4, EmptySeq DEF Nodes
<1> HIDE DEF node
<1>6. Append(tree.interfaces, node) \in Seq(Nodes)
  BY <1>3, <1>5, AppendProperties
<1>7. tree' = [tree EXCEPT !.interfaces = Append(tree.interfaces, node)]
  BY <1>1 DEF node
<1>8. tree' \in Trees /\ tree'.kind = "config"
  BY <1>6, <1>7 DEF Trees
<1>9. Heap'
  <2> DEFINE b == Block("endpoints", Len(tree.interfaces) + 1)
  <2>1. b = Block("endpoints", 1) \/ (b[1] = "endpoints" /\ b[2] \in Nat \ {0, 1})
    BY <1>3 DEF Block
  <2> HIDE DEF b
  <2>2. blocks' = blocks \union {b} \/ blocks' = blocks
    BY <1>1 DEF b
  <2> QED
    BY <1>8, <2>1, <2>2 DEF Heap
<1> QED
  BY <1>1, <1>2, <1>8, <1>9

(* An endpoint joins the last interface.                                   *)
LEMMA EndpointJoins ==
    ASSUME tree \in Trees, tree.kind = "config", Heap, NEW d \in Descriptor,
           tree.interfaces # <<>>, EndpointParsed(d)
    PROVE  /\ tree' \in Trees /\ tree'.kind = "config" /\ Heap' /\ Advance(d)
           /\ pos' = pos /\ faults' = faults
<1> DEFINE n == Len(tree.interfaces)
           node == [tree.interfaces[n] EXCEPT !.endpoints = Append(@, d)]
<1>1. /\ tree' = [tree EXCEPT !.interfaces[n].endpoints = Append(@, d)]
      /\ Advance(d) /\ pos' = pos /\ blocks' = blocks /\ faults' = faults
  BY DEF EndpointParsed
<1>2. tree.interfaces \in Seq(Nodes)
  BY DEF Trees
<1>3. n \in 1 .. n
  <2>1. n \in Nat \ {0}
    BY <1>2, EmptySeq
  <2> QED
    BY <2>1
<1>4. tree.interfaces[n] \in Nodes
  BY <1>2, <1>3, ElementOfSeq
<1>5. Append(tree.interfaces[n].endpoints, d) \in Seq(Descriptor)
  BY <1>4, AppendProperties DEF Nodes
<1>6. node \in Nodes
  BY <1>4, <1>5 DEF Nodes
<1>7. tree' = [tree EXCEPT !.interfaces = [tree.interfaces EXCEPT ![n] = node]]
  BY <1>1
<1> HIDE DEF node
<1>8. [tree.interfaces EXCEPT ![n] = node] \in Seq(Nodes)
  BY <1>2, <1>3, <1>6, ExceptSeq
<1> HIDE DEF n
<1>9. tree' \in Trees /\ tree'.kind = "config"
  BY <1>7, <1>8 DEF Trees
<1>10. Heap'
  BY <1>1, <1>9 DEF Heap, Block
<1> QED
  BY <1>1, <1>9, <1>10

(* What a turn of parse_descriptor's loop does (usb.c:477-494).            *)
LEMMA ParseCases ==
    ASSUME DescInv, ParseStep
    PROVE  LET d == At(tree.of)
           IN \/ /\ ~(offset < tree.of.total) /\ pos' = "idle" /\ offset' = 0 /\ k' = 0
                 /\ UNCHANGED <<tree, blocks, faults>>
              \/ /\ offset < tree.of.total
                 /\ \/ InterfaceAt(d) /\ InterfaceParsed(d)
                    \/ EndpointAt(d) /\ EndpointParsed(d)
                    \/ /\ d.type \notin {"interface", "endpoint"} /\ InBuffer(d)
                       /\ Advance(d) /\ UNCHANGED <<pos, tree, blocks, faults>>
                    \/ /\ ~InterfaceAt(d) /\ ~EndpointAt(d)
                       /\ ~(d.type \notin {"interface", "endpoint"} /\ InBuffer(d))
                       /\ Outside /\ UNCHANGED <<tree, blocks, faults>>
<1> DEFINE d == At(tree.of)
<1>0. offset \in Nat /\ tree.of.total \in Nat
  BY DEF DescInv, TypeOK, Trees, Configuration
<1>1. CASE offset >= tree.of.total
  <2>1. ~(offset < tree.of.total)
    BY <1>0, <1>1
  <2> QED
    BY <1>1, <2>1 DEF ParseStep
<1>2. CASE offset < tree.of.total
  <2>1. ~(offset >= tree.of.total)
    BY <1>0, <1>2
  <2>2. CASE InterfaceAt(d)
    <3>1. d.type = "interface" /\ InBuffer(d)
      BY <2>2 DEF InterfaceAt
    <3> QED
      BY <1>2, <2>1, <2>2, <3>1 DEF ParseStep, EndpointAt
  <2>3. CASE EndpointAt(d)
    <3>1. d.type = "endpoint" /\ tree.interfaces # <<>>
      BY <2>3 DEF EndpointAt
    <3> QED
      BY <1>2, <2>1, <2>3, <3>1 DEF ParseStep, InterfaceAt
  <2>4. CASE d.type \notin {"interface", "endpoint"} /\ InBuffer(d)
    BY <1>2, <2>1, <2>4 DEF ParseStep, InterfaceAt, EndpointAt
  <2>5. CASE ~InterfaceAt(d) /\ ~EndpointAt(d)
             /\ ~(d.type \notin {"interface", "endpoint"} /\ InBuffer(d))
    BY <1>2, <2>1, <2>5 DEF ParseStep
  <2> QED
    BY <2>2, <2>3, <2>4, <2>5
<1> QED
  BY <1>0, <1>1, <1>2

(* One turn of the loop of parse_descriptor (usb.c:477-494).               *)
LEMMA ParseStepStep ==
    ASSUME DescriptorsAssumption, DescInv, ParseStep
    PROVE  DescInv'
<1> USE DEF DescInv
<1> DEFINE d == At(tree.of)
<1>1. pos = "parse" /\ Pure
  BY DEF ParseStep
<1>2. /\ tree.kind = "config" /\ k \in Nat /\ k > 0 /\ offset \in Nat /\ MaxFaults \in Nat
  BY <1>1 DEF TypeOK, Placed, DescriptorsAssumption
<1>3. tree.of \in Configuration /\ tree.of.total \in Nat
  BY DEF Trees, Configuration
<1>4. d \in Descriptor
  BY <1>2, <1>3, AtType
<1>5. \/ pos' = "idle" /\ offset' = 0 /\ k' = 0 /\ UNCHANGED <<tree, blocks, faults>>
      \/ InterfaceParsed(d)
      \/ tree.interfaces # <<>> /\ EndpointParsed(d)
      \/ Advance(d) /\ UNCHANGED <<pos, tree, blocks, faults>>
      \/ Outside /\ UNCHANGED <<tree, blocks, faults>>
  BY ParseCases DEF EndpointAt
<1> HIDE DEF d
<1>6. CASE pos' = "idle" /\ offset' = 0 /\ k' = 0 /\ UNCHANGED <<tree, blocks, faults>>
  <2>1. Heap'
    BY <1>6, HeapKept
  <2> QED
    BY <1>1, <1>2, <1>6, <2>1, PureStep
<1>7. CASE InterfaceParsed(d)
  <2>1. /\ tree' \in Trees /\ tree'.kind = "config" /\ Heap' /\ Advance(d) /\ pos' = pos
        /\ Fault \/ UNCHANGED faults
    BY <1>2, <1>4, <1>7, InterfaceJoins
  <2>2. offset' \in Nat /\ k' \in Nat /\ k' > 0
    BY <1>2, <1>4, <2>1, AdvanceType
  <2> QED
    BY <1>1, <1>2, <2>1, <2>2, PureStep
<1>8. CASE tree.interfaces # <<>> /\ EndpointParsed(d)
  <2>1. /\ tree' \in Trees /\ tree'.kind = "config" /\ Heap' /\ Advance(d)
        /\ pos' = pos /\ faults' = faults
    BY <1>2, <1>4, <1>8, EndpointJoins
  <2>2. offset' \in Nat /\ k' \in Nat /\ k' > 0
    BY <1>2, <1>4, <2>1, AdvanceType
  <2> QED
    BY <1>1, <1>2, <2>1, <2>2, PureStep
<1>9. CASE Advance(d) /\ UNCHANGED <<pos, tree, blocks, faults>>
  <2>1. Heap'
    BY <1>9, HeapKept
  <2>2. offset' \in Nat /\ k' \in Nat /\ k' > 0
    BY <1>2, <1>4, <1>9, AdvanceType
  <2> QED
    BY <1>1, <1>2, <1>9, <2>1, <2>2, PureStep
<1>10. CASE Outside /\ UNCHANGED <<tree, blocks, faults>>
  <2>1. Heap' /\ pos' = "undefined" /\ offset' = offset /\ k' = k
    BY <1>10, HeapKept DEF Outside
  <2> QED
    BY <1>1, <1>2, <1>10, <2>1, PureStep
<1> QED
  BY <1>5, <1>6, <1>7, <1>8, <1>9, <1>10

(* release_descriptor (usb.c:512-537) frees what the tree's first parts    *)
(* point to; what is left are later endpoint arrays.                       *)
LEMMA ReleaseStep ==
    ASSUME DescriptorsAssumption, DescInv, release_descriptor
    PROVE  DescInv'
<1> USE DEF DescInv
<1>1. /\ pos = "idle" /\ Pure /\ offset' = offset /\ k' = k /\ faults' = faults
      /\ \/ pos' = "undefined" /\ tree' = tree /\ blocks' = blocks
         \/ /\ blocks' = blocks \ {Block("top", 0), Block("ifaced", 0), Block("endpoints", 1)}
            /\ tree' = NoTree /\ pos' = pos
  BY DEF release_descriptor
<1>2. offset \in Nat /\ k \in Nat /\ MaxFaults \in Nat
  BY DEF TypeOK, DescriptorsAssumption
<1>3. tree' \in Trees
  BY <1>1, NoTreeType
<1>4. Heap'
  <2>1. CASE tree' = tree /\ blocks' = blocks
    BY <2>1, HeapKept
  <2>2. CASE blocks' = blocks \ {Block("top", 0), Block("ifaced", 0), Block("endpoints", 1)}
    BY <2>2 DEF Heap
  <2> QED
    BY <1>1, <2>1, <2>2
<1> QED
  BY <1>1, <1>2, <1>3, <1>4, PureStep

-----------------------------------------------------------------------------
(* Everything else. *)

(* usb_set_descriptor: whatever the device receives, it stays a device.    *)
LEMMA SetDescriptorStep ==
    ASSUME DescriptorsAssumption, DescInv, usb_set_descriptor
    PROVE  DescInv'
<1> USE DEF DescInv
<1>1. /\ pos' = "idle" /\ user' = "app" /\ buf' = NoBuffer /\ printed' = <<>>
      /\ offset' = offset /\ k' = k /\ tree' = tree /\ blocks' = blocks /\ faults' = faults
      /\ errno' \in Errors /\ call' = <<"set_descriptor", 0>> /\ wlen' = NoLen
      /\ ret' = (IF errno' = "none" THEN 0 ELSE 1)
      /\ UNCHANGED <<up, dev, kern>>
  BY DEF usb_set_descriptor, Errors
<1>2. content' \in Contents
  BY DEF usb_set_descriptor, TypeOK
<1>3. ControlTypeOK'
  BY <1>1 DEF TypeOK, ControlTypeOK, Errors
<1>4. BufferMaxSize \in Nat
  BY DEF DescriptorsAssumption
<1>5. TypeOK'
  BY <1>1, <1>2, <1>3, <1>4 DEF TypeOK, NoBuffer
<1>6. Placed' /\ Delivered' /\ Asked'
  BY <1>1 DEF Placed, Delivered, Asked, NoBuffer
<1> QED
  BY <1>1, <1>5, <1>6, HeapKept, PrintedNone

(* usb_set_address, and the loss of the device: nothing that was read or   *)
(* parsed is touched.                                                      *)
LEMMA ElsewhereStep ==
    ASSUME DescInv, ControlTypeOK', UNCHANGED descVars,
           \/ call'[1] = "set_address" /\ pos = "idle"
           \/ call' = call /\ wlen' = wlen
    PROVE  DescInv'
<1> USE DEF DescInv
<1>1. /\ content' = content /\ pos' = pos /\ user' = user /\ buf' = buf /\ offset' = offset
      /\ k' = k /\ printed' = printed /\ tree' = tree /\ blocks' = blocks /\ faults' = faults
  BY DEF descVars
<1>2. TypeOK'
  BY <1>1 DEF TypeOK, HasConfiguration
<1>3. Placed'
  BY <1>1 DEF Placed
<1>4. Delivered'
  <2>1. CASE call'[1] = "set_address"
    BY <2>1 DEF Delivered
  <2>2. CASE call' = call /\ wlen' = wlen
    BY <1>1, <2>2 DEF Delivered, StringsFit
  <2> QED
    BY <2>1, <2>2
<1> QED
  BY <1>1, <1>2, <1>3, <1>4, HeapKept, AskedKept

(* The application's calls.                                                *)
LEMMA ApplicationStep ==
    ASSUME ControlAssumption, DescriptorsAssumption, DescInv, Application
    PROVE  DescInv'
<1>1. content \in Contents /\ ControlTypeOK /\ BufferMaxSize \in Nat /\ MaxFaults \in Nat
  BY DEF DescInv, TypeOK, DescriptorsAssumption
<1>2. /\ DOMAIN content.strings \subseteq Nat
      /\ \A i \in DOMAIN content.configurations : i - 1 \in Nat
  <2>1. content.configurations \in Seq(Configuration) /\ DOMAIN content.strings \subseteq Nat
    BY <1>1 DEF DescriptorsAssumption
  <2>2. DOMAIN content.configurations = 1 .. Len(content.configurations)
        /\ Len(content.configurations) \in Nat
    BY <2>1, LenProperties
  <2>3. \A n \in Nat : \A i \in 1 .. n : i - 1 \in Nat
    OBVIOUS
  <2> QED
    BY <2>1, <2>2, <2>3
<1>3. CASE release_descriptor
  BY <1>3, ReleaseStep
<1>4. ASSUME NEW type \in AppTypes, usb_get_descriptor(type, 0) PROVE DescInv'
  BY <1>1, <1>4, GetBegins
<1>5. ASSUME NEW i \in DOMAIN content.configurations, usb_get_descriptor("config", i - 1)
      PROVE  DescInv'
  BY <1>1, <1>2, <1>5, GetBegins
<1>6. ASSUME NEW s \in DOMAIN content.strings, usb_get_descriptor("string", s) PROVE DescInv'
  BY <1>1, <1>2, <1>6, GetBegins
<1>7. ASSUME NEW index \in DOMAIN content.strings, usb_get_string(index) PROVE DescInv'
  BY <1>1, <1>7, GetStringStep
<1>8. CASE usb_dump_device
  BY <1>1, <1>8, DumpBegins
<1>9. CASE usb_set_descriptor
  BY <1>9, SetDescriptorStep
<1>10. CASE ParseDevice
  BY <1>10, ParseDeviceStep
<1>11. CASE ParseConfig
  BY <1>11, ParseConfigStep
<1>12. ASSUME NEW a \in Addresses, pos = "idle", usb_set_address(a), UNCHANGED descVars
       PROVE  DescInv'
  <2>1. ControlTypeOK'
    BY <1>1, <1>12, RequestStep DEF ControlRequest, Proper
  <2>2. call'[1] = "set_address"
    BY <1>12 DEF usb_set_address, Send, Returns
  <2> QED
    BY <1>12, <2>1, <2>2, ElsewhereStep
<1> QED
  BY <1>3, <1>4, <1>5, <1>6, <1>7, <1>8, <1>9, <1>10, <1>11, <1>12 DEF Application

(* DescInv is inductive.                                                   *)
LEMMA NextKeeps ==
    ASSUME ControlAssumption, DescriptorsAssumption,
           DescInv, [Next]_allVars
    PROVE  DescInv'
<1>1. CASE Application
  BY <1>1, ApplicationStep
<1>2. CASE Step
  BY <1>2, FirstReadStep, SecondReadStep, PrintDeviceStep, PrintConfigStep, WalkStep,
     PrintInterfaceStep, ParseStepStep DEF Step
<1>3. CASE Unplug /\ UNCHANGED descVars
  <2>1. ControlTypeOK'
    BY <1>3, EnvironmentStep DEF ControlEnvironment, DescInv, TypeOK
  <2>2. call' = call /\ wlen' = wlen
    BY <1>3 DEF Unplug
  <2> QED
    BY <1>3, <2>1, <2>2, ElsewhereStep
<1>4. CASE UNCHANGED allVars
  <2>1. UNCHANGED descVars /\ UNCHANGED controlVars
    BY <1>4 DEF allVars
  <2>2. ControlTypeOK' /\ call' = call /\ wlen' = wlen
    BY <2>1 DEF DescInv, TypeOK, ControlTypeOK, controlVars
  <2> QED
    BY <2>1, <2>2, ElsewhereStep
<1> QED
  BY <1>1, <1>2, <1>3, <1>4 DEF Next

(* It holds before the first call.                                         *)
LEMMA InitHolds ==
    ASSUME ControlAssumption, DescriptorsAssumption, Init
    PROVE  DescInv
<1>1. /\ pos = "idle" /\ user = "app" /\ buf = NoBuffer /\ offset = 0 /\ k = 0
      /\ printed = <<>> /\ tree = NoTree /\ blocks = {} /\ faults = 0 /\ content \in Contents
      /\ ControlInit
  BY DEF Init
<1>2. ControlTypeOK
  BY <1>1, ControlInitHolds
<1>3. BufferMaxSize \in Nat /\ MaxFaults \in Nat
  BY DEF DescriptorsAssumption
<1>4. TypeOK
  BY <1>1, <1>2, <1>3 DEF TypeOK, NoBuffer
<1>5. wlen = NoLen
  BY <1>1 DEF ControlInit
<1>6. Asked /\ Placed /\ Delivered /\ Heap
  BY <1>1, <1>5 DEF Asked, Placed, Delivered, Heap, NoBuffer
<1> QED
  BY <1>1, <1>4, <1>6, NoTreeType, EmptySeq DEF DescInv

-----------------------------------------------------------------------------
(* DescInv holds of every behaviour of the functions of usb.c:79-748, of   *)
(* any device whose descriptors are bytes.                                 *)
THEOREM DescInvariance == Spec => []DescInv
<1> USE ControlAssumption, DescriptorsAssumption
<1>1. Init => DescInv
  BY InitHolds
<1>2. DescInv /\ [Next]_allVars => DescInv'
  BY NextKeeps
<1> QED
  BY <1>1, <1>2, PTL DEF Spec

(* Every variable of usb_get_descriptor and its users keeps its type:      *)
(* never more than BUFF_MAX_SIZE bytes are received (usb.c:124-170), and a *)
(* loop over a configuration has one to walk.                              *)
THEOREM DescTypeCorrect == Spec => []TypeOK
<1>1. DescInv => TypeOK
  BY DEF DescInv
<1> QED
  BY <1>1, DescInvariance, PTL

(* What *wlen says (usb.c:168) is in the caller's buffer, for every device *)
(* whose strings fit into USB_MAX_STRING_LEN and every type but BOS, as    *)
(* long as no transfer ended early.                                        *)
THEOREM LengthDelivered == Spec => []LengthIsDelivered
<1>1. DescInv => LengthIsDelivered
  BY DEF DescInv, Delivered, LengthIsDelivered
<1> QED
  BY <1>1, DescInvariance, PTL

(* After release_descriptor (usb.c:512-537) nothing is left on the heap    *)
(* but endpoint arrays of second and later interfaces, whatever was parsed *)
(* and however often.                                                      *)
THEOREM LeaksOnlyLater == Spec => []LeaksLaterEndpointsOnly
<1>1. DescInv => LeaksLaterEndpointsOnly
  <2> SUFFICES ASSUME DescInv, tree.kind = "none", NEW b \in blocks
               PROVE  b[1] = "endpoints" /\ b[2] > 1
    BY DEF LeaksLaterEndpointsOnly
  <2>1. b[1] = "endpoints" /\ b[2] \in Nat \ {0, 1}
    BY DEF DescInv, Heap
  <2>2. \A n \in Nat \ {0, 1} : n > 1
    OBVIOUS
  <2> QED
    BY <2>1, <2>2
<1> QED
  BY <1>1, DescInvariance, PTL

=============================================================================
