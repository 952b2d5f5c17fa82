---------------------- MODULE UsbDescriptorsExact_proofs ----------------------
(***************************************************************************)
(* Proofs about UsbDescriptors, for any device whose descriptors are as    *)
(* long as they say: the loops of usb_dump_device and parse_descriptor     *)
(* stand on its descriptors one after the other, read nothing else, and    *)
(* what they print and return is exactly what the device has, each endpoint*)
(* decoded from its own descriptor.                                        *)
(***************************************************************************)
EXTENDS UsbDescriptors_proofs

-----------------------------------------------------------------------------
(***************************************************************************)
(* What makes DefinedUnlessFault, ParseExact and DumpExact inductive.      *)
(***************************************************************************)

(* Printers run in a dump only, over a descriptor whose header was         *)
(* received, and nothing is read while there is a tree.                    *)
Separate ==
    /\ faults = 0 /\ pos \in {"confname", "walk", "ifname"} => buf.got >= ConfigSize
    /\ faults = 0 /\ pos = "names" => buf.got = DeviceSize
    /\ pos \in {"names", "confname", "walk", "ifname"} => user = "dump"
    /\ pos \in {"first", "second", "names", "confname", "walk", "ifname"} => tree = NoTree

(* All of a sound configuration was received.                              *)
AllThere ==
    faults = 0 /\ buf.type = "config" /\ buf.got # 0 /\ pos # "second" /\ Sound(Conf)
        => buf.got = Conf.total

(* The loops stand where a descriptor of a sound configuration begins.     *)
Stands(c) ==
    /\ k \in 1 .. Len(c.descriptors) + 1
    /\ offset = Ends(c.descriptors)[k - 1]
InStep ==
    faults = 0 =>
        /\ pos \in {"walk", "ifname"} /\ Sound(Conf) => Stands(Conf)
        /\ pos = "ifname" /\ Sound(Conf) => k \in OfType(Conf, "interface")
        /\ pos = "parse" /\ Sound(tree.of) => Stands(tree.of) /\ buf.got = tree.of.total

(* The interfaces T of a tree are those of the descriptors of c before the *)
(* n-th.                                                                   *)
Parsed(T, c, n) ==
    \A i \in OfType(c, "interface") :
        IF n <= i THEN T = <<>>
        ELSE /\ Len(T) = 1 /\ T[1].of = c.descriptors[i]
             /\ T[1].bytes = SizeT * c.descriptors[i].endpoints
             /\ IF \A j \in OfType(c, "endpoint") : n <= j THEN T[1].endpoints = <<>>
                ELSE \E j \in OfType(c, "endpoint") : T[1].endpoints = <<c.descriptors[j]>>
ParsedSoFar ==
    faults = 0 /\ tree.kind = "config" /\ Simple(tree.of) /\ Sound(tree.of) =>
        /\ pos = "parse" => Parsed(tree.interfaces, tree.of, k)
        /\ pos = "idle" => Parsed(tree.interfaces, tree.of, Len(tree.of.descriptors) + 1)

(* What a dump has passed.                                                 *)
Behind(e) ==
    CASE pos = "first" /\ buf.type # "config" -> FALSE
      [] pos = "names" -> e.kind = "device" /\ e.at < k
      [] pos \in {"first", "second", "confname"} /\ buf.type = "config" ->
            e.kind = "device" \/ e.conf < buf.index
      [] pos \in {"walk", "ifname"} ->
            e.kind = "device" \/ e.conf < buf.index \/ (e.conf = buf.index /\ e.at < k)

Passed == {e \in Due : Behind(e)}

(* The entries p are those of S, in order.                                 *)
Prints(p, S) ==
    /\ \A j \in DOMAIN p : \E e \in S : SameEntry(p[j], e)
    /\ \A e \in S : \E j \in DOMAIN p : SameEntry(p[j], e)
    /\ \A j \in DOMAIN p : \A i \in 1 .. j - 1 : Precedes(p[i], p[j])

PrintedSoFar ==
    SoundDevice /\ faults = 0 /\ user = "dump" /\ pos \notin {"idle", "undefined"} =>
        Prints(printed, Passed)

InLoop == Separate /\ AllThere /\ InStep /\ ParsedSoFar /\ DefinedUnlessFault
LoopInv == DescInv /\ InLoop
ExactInv == LoopInv /\ PrintedSoFar /\ DumpExact

-----------------------------------------------------------------------------
(* The loops over a configuration. *)

(* Descriptors of a sound configuration are not empty.                     *)
LEMMA SoundLens ==
    ASSUME NEW c \in Configuration, Sound(c), NEW j \in DOMAIN c.descriptors
    PROVE  /\ c.descriptors[j] \in Descriptor /\ c.descriptors[j].len \in Nat
           /\ c.descriptors[j].len >= 2
           /\ c.descriptors[j].len >= SizeOf(c.descriptors[j].type)
<1>1. c.descriptors[j] \in Descriptor /\ c.descriptors[j].len \in Nat
  <2>1. c.descriptors \in Seq(Descriptor)
    BY DEF Configuration
  <2>2. c.descriptors[j] \in Descriptor
    BY <2>1
  <2> QED
    BY <2>2, FieldsAreNat
<1>2. c.descriptors[j].len >= SizeOf(c.descriptors[j].type)
  BY DEF Sound
<1>3. SizeOf(c.descriptors[j].type) \in {2, 7, 8, 9}
  BY DEF SizeOf
<1> QED
  BY <1>1, <1>2, <1>3

(* Before the end of what a sound configuration says of its length there   *)
(* is a descriptor of it, all of which is in the buffer (usb.c:407, 477).  *)
LEMMA LoopAt ==
    ASSUME BufferMaxSize \in Nat, NEW c \in Configuration, Sound(c), Stands(c),
           offset < c.total, buf.got = c.total
    PROVE  /\ k \in DOMAIN c.descriptors /\ k \in 1 .. Len(c.descriptors)
           /\ At(c) = c.descriptors[k] /\ At(c) \in Descriptor
           /\ InBuffer(At(c)) /\ At(c).len \in Nat /\ At(c).len > 0
           /\ offset + At(c).len = Ends(c.descriptors)[k]
<1> DEFINE ds == c.descriptors
           N == Len(ds)
           E == Ends(ds)
<1>1. ds \in Seq(Descriptor) /\ N \in Nat /\ DOMAIN ds = 1 .. N
  BY DEF Configuration
<1>2. /\ E \in [0 .. N -> Nat]
      /\ \A n \in 1 .. N : E[n] = E[n - 1] + ds[n].len
  BY <1>1, EndsAre
<1>3. /\ k \in 1 .. N + 1 /\ offset = E[k - 1]
      /\ c.total = E[N] /\ c.total <= BufferMaxSize
  BY DEF Stands, Sound, TotalOf
<1>4. \A i, j \in 0 .. N : i <= j => E[i] <= E[j]
  BY <1>1, EndsGrow
<1> HIDE DEF E
<1>5. k \in 1 .. N
  <2>1. ASSUME k = N + 1 PROVE FALSE
    <3>1. k - 1 = N /\ N \in 0 .. N
      BY <1>1, <2>1
    <3>2. offset = E[N] /\ E[N] \in Nat
      BY <1>2, <1>3, <3>1
    <3> QED
      BY <1>3, <3>2
  <2> QED
    BY <1>1, <1>3, <2>1
<1>6. k \in 0 .. N /\ N \in 0 .. N /\ k - 1 \in 0 .. N /\ k <= N /\ k \in Nat
  BY <1>1, <1>5
<1>7. E[k] = E[k - 1] + ds[k].len /\ E[k] <= E[N] /\ E[k] \in Nat /\ E[k - 1] \in Nat
      /\ E[N] \in Nat
  BY <1>2, <1>4, <1>5, <1>6
<1>8. ds[k] \in Descriptor /\ ds[k].len \in Nat /\ ds[k].len >= 2 /\ ds[k].len >= SizeOf(ds[k].type)
  BY <1>1, <1>5, SoundLens
<1>9. SizeOf(ds[k].type) \in Nat
  BY DEF SizeOf
<1>10. offset + SizeOf(ds[k].type) <= buf.got
  <2>1. E[k - 1] + ds[k].len <= E[N]
    BY <1>7
  <2>2. offset = E[k - 1] /\ buf.got = E[N]
    BY <1>3
  <2> QED
    BY <1>7, <1>8, <1>9, <2>1, <2>2
<1>11. At(c) = ds[k]
  <2>1. ~(k > Len(c.descriptors))
    BY <1>1, <1>6
  <2> QED
    BY <1>10, <2>1 DEF At
<1>12. InBuffer(ds[k])
  <2>1. offset = E[k - 1] /\ E[N] <= BufferMaxSize
    BY <1>3
  <2>2. E[k - 1] + SizeOf(ds[k].type) <= E[k]
    BY <1>7, <1>8, <1>9
  <2> QED
    BY <1>7, <1>9, <2>1, <2>2 DEF InBuffer
<1> QED
  BY <1>1, <1>3, <1>5, <1>7, <1>8, <1>11, <1>12 DEF E

(* At that length the loops are behind the last descriptor.                *)
LEMMA LoopOver ==
    ASSUME NEW c \in Configuration, Sound(c), Stands(c), ~(offset < c.total)
    PROVE  k = Len(c.descriptors) + 1
<1> DEFINE ds == c.descriptors
           N == Len(ds)
           E == Ends(ds)
<1>1. ds \in Seq(Descriptor) /\ N \in Nat /\ DOMAIN ds = 1 .. N
  BY DEF Configuration
<1>2. /\ E \in [0 .. N -> Nat]
      /\ \A n \in 1 .. N : E[n] = E[n - 1] + ds[n].len
  BY <1>1, EndsAre
<1>3. k \in 1 .. N + 1 /\ offset = E[k - 1] /\ c.total = E[N]
  BY DEF Stands, Sound, TotalOf
<1>4. \A i, j \in 0 .. N : i <= j => E[i] <= E[j]
  BY <1>1, EndsGrow
<1> HIDE DEF E
<1>5. SUFFICES ASSUME k \in 1 .. N PROVE FALSE
  BY <1>1, <1>3
<1>6. k \in 0 .. N /\ N \in 0 .. N /\ k - 1 \in 0 .. N /\ k <= N
  BY <1>1, <1>5
<1>7. E[k] = E[k - 1] + ds[k].len /\ E[k] <= E[N] /\ E[k] \in Nat /\ E[k - 1] \in Nat /\ E[N] \in Nat
  BY <1>2, <1>4, <1>5, <1>6
<1>8. ds[k].len \in Nat /\ ds[k].len >= 2
  BY <1>1, <1>5, SoundLens
<1> QED
  BY <1>3, <1>7, <1>8

(* The first of a configuration's descriptors follows its own.             *)
LEMMA LoopBegins ==
    ASSUME NEW c \in Configuration
    PROVE  1 \in 1 .. Len(c.descriptors) + 1 /\ ConfigSize = Ends(c.descriptors)[1 - 1]
<1>1. c.descriptors \in Seq(Descriptor) /\ Len(c.descriptors) \in Nat
  BY DEF Configuration
<1> QED
  BY <1>1, EndsAre

(* From one descriptor the loops advance to the next.                      *)
LEMMA LoopAdvances ==
    ASSUME BufferMaxSize \in Nat, NEW c \in Configuration, Sound(c), Stands(c),
           offset < c.total, buf.got = c.total, Advance(At(c))
    PROVE  /\ k' = k + 1 /\ k' \in 1 .. Len(c.descriptors) + 1
           /\ offset' = Ends(c.descriptors)[k' - 1]
<1>1. /\ k \in 1 .. Len(c.descriptors) /\ At(c).len \in Nat /\ At(c).len > 0
      /\ offset + At(c).len = Ends(c.descriptors)[k]
  BY LoopAt
<1>2. offset' = offset + At(c).len /\ k' = k + 1
  BY <1>1 DEF Advance
<1>3. Len(c.descriptors) \in Nat
  BY DEF Configuration
<1>4. k' \in 1 .. Len(c.descriptors) + 1 /\ k' - 1 = k
  BY <1>1, <1>2, <1>3
<1> QED
  BY <1>1, <1>2, <1>4

-----------------------------------------------------------------------------
(* The steps, as far as the loops go. *)

(* After a fault nothing but who runs is claimed.                          *)
LEMMA FaultedStep ==
    ASSUME faults \in Nat, Fault \/ faults # 0, Fault \/ faults' = faults, Separate'
    PROVE  InLoop'
<1>1. faults' # 0
  BY DEF Fault
<1> QED
  BY <1>1 DEF InLoop, AllThere, InStep, ParsedSoFar, DefinedUnlessFault

(* Where no loop is and nothing was parsed there is little to claim.       *)
LEMMA PlainStep ==
    ASSUME pos' \in {"idle", "first", "second", "names"}, tree' = NoTree,
           pos' = "names" => user' = "dump" /\ (faults' = 0 => buf'.got = DeviceSize), AllThere'
    PROVE  InLoop'
<1>1. tree'.kind = "none"
  BY DEF NoTree
<1> QED
  BY <1>1 DEF InLoop, Separate, InStep, ParsedSoFar, DefinedUnlessFault

(* A read of something else than a configuration, or of none yet.          *)
LEMMA NothingThere ==
    ASSUME buf'.got = 0 \/ buf'.type # "config" \/ pos' = "second"
    PROVE  AllThere'
BY DEF AllThere

(* Steps that leave these functions alone. *)
LEMMA DescUnchanged ==
    ASSUME LoopInv, UNCHANGED descVars
    PROVE  InLoop'
<1>1. /\ content' = content /\ pos' = pos /\ user' = user /\ buf' = buf /\ offset' = offset
      /\ k' = k /\ printed' = printed /\ tree' = tree /\ blocks' = blocks /\ faults' = faults
  BY DEF descVars
<1> QED
  BY <1>1 DEF LoopInv, InLoop, Separate, AllThere, InStep, ParsedSoFar, DefinedUnlessFault,
              Conf, Stands, Parsed, StringsFit, EndpFits

(* Calls that begin. *)
LEMMA BeginsLoop ==
    ASSUME tree = NoTree,
           \/ \E type \in AppTypes \union {"config", "string"}, index \in Nat :
                 usb_get_descriptor(type, index)
           \/ usb_dump_device
    PROVE  InLoop'
<1>1. pos' = "first" /\ buf'.got = 0 /\ tree' = NoTree
  BY DEF usb_get_descriptor, usb_dump_device
<1> QED
  BY <1>1, NothingThere, PlainStep

(* usb_set_descriptor. *)
LEMMA SetDescriptorLoop ==
    ASSUME tree = NoTree, usb_set_descriptor
    PROVE  InLoop'
<1>1. pos' = "idle" /\ buf'.got = 0 /\ tree' = NoTree
  BY DEF usb_set_descriptor, NoBuffer
<1> QED
  BY <1>1, NothingThere, PlainStep

(* A request that failed. *)
LEMMA FailsLoop ==
    ASSUME tree = NoTree, tree' = tree, GetFails
    PROVE  InLoop'
<1>1. pos' = "idle" /\ buf'.got = 0 /\ tree' = NoTree
  BY DEF GetFails, NoBuffer
<1> QED
  BY <1>1, NothingThere, PlainStep

(* The first read (usb.c:134-159). *)
LEMMA FirstReadLoop ==
    ASSUME DescriptorsAssumption, LoopInv, FirstRead
    PROVE  InLoop'
<1>1. pos = "first" /\ Inner("get_descriptor")
  BY DEF FirstRead
<1>2. tree = NoTree /\ tree' = tree
  BY <1>1 DEF LoopInv, InLoop, Separate, Inner
<1>3. PICK len, got :
         \/ GetFails
         \/ /\ len \in RequestLen(buf.type)
            /\ got = Lesser(len, Held(buf.type, buf.index)) \/ Fault
            /\ IF buf.type = "config"
               THEN /\ pos' = "second" /\ buf' = [buf EXCEPT !.got = got]
                    /\ UNCHANGED <<wlen, user, offset, k, printed>>
               ELSE GetReturns(got)
  BY DEF FirstRead, Transferred
<1>4. CASE GetFails
  BY <1>2, <1>4, FailsLoop
<1>5. CASE buf.type = "config" /\ pos' = "second"
  BY <1>2, <1>5, NothingThere, PlainStep
<1>6. CASE /\ buf.type # "config" /\ GetReturns(got) /\ len \in RequestLen(buf.type)
           /\ got = Lesser(len, Held(buf.type, buf.index)) \/ Fault
  <2>1. user \in {"app", "dump"} /\ (user = "dump" => buf.type \in {"string", "device"})
        /\ content \in Contents /\ faults \in Nat
        /\ buf \in [type : AppTypes \union {"config", "string", "none"}, index : Nat, got : 0 .. BufferMaxSize]
    BY <1>1, <1>6 DEF LoopInv, DescInv, Placed, TypeOK
  <2>2. /\ pos' \in {"idle", "first", "names"} /\ user' = user
        /\ pos' = "names" => user = "dump" /\ buf.type = "device" /\ buf' = [buf EXCEPT !.got = got]
        /\ buf'.type # "config"
    <3>1. CASE user = "app"
      BY <1>6, <2>1, <3>1 DEF GetReturns
    <3>2. CASE user = "dump" /\ buf.type = "string"
      BY <1>6, <3>2 DEF GetReturns
    <3>3. CASE user = "dump" /\ buf.type = "device"
      BY <1>6, <2>1, <3>3 DEF GetReturns
    <3> QED
      BY <2>1, <3>1, <3>2, <3>3
  <2>3. ASSUME pos' = "names", faults' = 0 PROVE buf'.got = DeviceSize
    <3>1. buf.type = "device" /\ buf'.got = got
      BY <2>1, <2>2, <2>3
    <3>2. len = DeviceSize /\ Held(buf.type, buf.index) = DeviceSize
      BY <1>6, <2>1, <3>1, HeldFacts DEF RequestLen
    <3>3. ~Fault
      BY <2>1, <2>3 DEF Fault
    <3> QED
      BY <1>6, <3>1, <3>2, <3>3 DEF Lesser, DeviceSize
  <2> QED
    BY <1>2, <2>2, <2>3, NothingThere, PlainStep
<1> QED
  BY <1>3, <1>4, <1>5, <1>6

(* What the dump has of a configuration. *)
LEMMA DumpFacts ==
    ASSUME DescriptorsAssumption, DescInv, pos \in {"second", "confname", "walk", "ifname"}
    PROVE  /\ Conf \in Configuration /\ HasConfiguration(buf.index) /\ buf.index \in Nat
           /\ buf.type = "config" /\ BufferMaxSize \in Nat /\ MaxFaults \in Nat
           /\ faults \in Nat /\ buf.got \in 0 .. BufferMaxSize /\ content \in Contents
           /\ Conf.total \in Nat /\ TotalOf(Conf.descriptors) \in Nat /\ Header.total \in Nat
           /\ buf.got >= ConfigSize => Header.total = Conf.total /\ Header.name = Conf.name
<1>1. /\ HasConfiguration(buf.index) /\ buf.index \in Nat
      /\ buf.type = "config" /\ BufferMaxSize \in Nat /\ MaxFaults \in Nat
      /\ faults \in Nat /\ buf.got \in 0 .. BufferMaxSize /\ content \in Contents
  BY DEF DescInv, TypeOK, DescriptorsAssumption
<1>2. Conf \in Configuration /\ TotalOf(Conf.descriptors) \in Nat
  BY <1>1, ConfigurationFacts DEF Conf
<1>3. Conf.total \in Nat
  BY <1>2 DEF Configuration
<1>4. buf.got \in Nat
  BY <1>1
<1> QED
  BY <1>1, <1>2, <1>3, <1>4, HeaderFacts

(* The second read: all of a sound configuration arrives unless the        *)
(* transfer ends early (usb.c:162-166).                                    *)
LEMMA SecondReadLoop ==
    ASSUME DescriptorsAssumption, LoopInv, SecondRead
    PROVE  InLoop'
<1>1. pos = "second" /\ Inner("get_descriptor") /\ content' = content
  BY DEF SecondRead, Inner
<1>2. tree = NoTree /\ tree' = tree
  BY <1>1 DEF LoopInv, InLoop, Separate, Inner
<1>3. /\ Conf.total \in Nat /\ TotalOf(Conf.descriptors) \in Nat /\ buf.type = "config"
      /\ faults \in Nat /\ user \in {"app", "dump"}
  BY <1>1, DumpFacts DEF LoopInv, DescInv, Placed
<1> DEFINE most == Lesser(WholeLen, TotalOf(Conf.descriptors))
           n(got) == IF got < buf.got THEN buf.got ELSE got
<1>4. \/ GetFails
      \/ \E got \in {most} \union ShortReads :
            GetReturns(n(got)) /\ (Fault \/ (UNCHANGED faults /\ got = most))
  BY DEF SecondRead, Transferred
<1>5. CASE GetFails
  BY <1>2, <1>5, FailsLoop
<1>6. ASSUME NEW m \in Nat, GetReturns(m),
             \/ Fault
             \/ UNCHANGED faults /\ (faults = 0 => m >= ConfigSize /\ (Sound(Conf) => m = Conf.total))
      PROVE  InLoop'
  <2>1. /\ user' = user /\ buf' = [buf EXCEPT !.got = m]
        /\ pos' = IF user = "app" THEN "idle" ELSE "confname"
    BY <1>3, <1>6 DEF GetReturns
  <2>2. buf'.index = buf.index /\ buf'.got = m /\ Conf' = Conf
    <3>1. buf'.index = buf.index /\ buf'.got = m
      BY <1>1, <2>1 DEF LoopInv, DescInv, TypeOK
    <3> QED
      BY <1>1, <3>1 DEF Conf
  <2>3. Separate'
    <3>1. faults' = 0 => m >= ConfigSize
      BY <1>3, <1>6 DEF Fault
    <3> QED
      BY <1>2, <1>3, <2>1, <2>2, <3>1 DEF Separate
  <2>4. CASE Fault
    BY <1>3, <2>3, <2>4, FaultedStep
  <2>5. CASE UNCHANGED faults /\ (faults = 0 /\ Sound(Conf) => m = Conf.total)
    <3>1. AllThere'
      BY <2>2, <2>5 DEF AllThere
    <3>2. tree'.kind = "none"
      BY <1>2 DEF NoTree
    <3> QED
      BY <2>1, <2>3, <3>1, <3>2 DEF InLoop, InStep, ParsedSoFar, DefinedUnlessFault
  <2> QED
    BY <1>6, <2>4, <2>5
<1>7. WholeLen \in Nat /\ most \in Nat /\ buf.got \in Nat
  <2>1. WholeLen \in Nat /\ buf.got \in Nat
    BY <1>1, DumpFacts DEF LoopInv, WholeLen
  <2> QED
    BY <1>3, <2>1 DEF Lesser
<1>8. faults = 0 => buf.got = ConfigSize /\ (Sound(Conf) => most = Conf.total /\ most >= ConfigSize)
  <2> SUFFICES ASSUME faults = 0
               PROVE  buf.got = ConfigSize /\ (Sound(Conf) => most = Conf.total /\ most >= ConfigSize)
    OBVIOUS
  <2>1. buf.got = ConfigSize
    BY <1>1 DEF LoopInv, DescInv, Placed
  <2>2. buf.got >= ConfigSize
    BY <2>1 DEF ConfigSize
  <2>3. WholeLen = Conf.total
    BY <1>1, <2>2, DumpFacts DEF LoopInv, WholeLen
  <2> QED
    BY <1>3, <2>1, <2>3 DEF Sound, Lesser, ConfigSize
<1> HIDE DEF most
<1>9. ASSUME NEW got \in {most} \union ShortReads, GetReturns(n(got)),
             Fault \/ (UNCHANGED faults /\ got = most)
      PROVE  InLoop'
  <2>1. got \in Nat
    BY <1>7, <1>9 DEF DescriptorsAssumption
  <2>2. n(got) \in Nat
    BY <1>7, <2>1
  <2>3. got = most /\ faults = 0 => n(got) >= ConfigSize /\ (Sound(Conf) => n(got) = Conf.total)
    BY <1>7, <1>8 DEF ConfigSize
  <2> HIDE DEF n
  <2> QED
    BY <1>6, <1>9, <2>2, <2>3
<1> QED
  BY <1>4, <1>5, <1>9

-----------------------------------------------------------------------------
(* The steps that fetch a string. *)

(* A string that does not fit makes the device unsound. *)
LEMMA LongString ==
    ASSUME DescriptorsAssumption, content \in Contents, NEW index, Held("string", index) > MaxStringLen
    PROVE  ~StringsFit
<1>1. MaxStringLen \in Nat
  BY DEF DescriptorsAssumption
<1>2. index \in DOMAIN content.strings /\ Held("string", index) = content.strings[index]
  BY <1>1, HeldFacts
<1>3. content.strings[index] \in Nat
  BY <1>2, HeldFacts
<1>4. ~(content.strings[index] <= MaxStringLen)
  BY <1>1, <1>2, <1>3
<1> QED
  BY <1>2, <1>4 DEF StringsFit

(* The caller of usb_get_string goes on, or the string does not fit or did *)
(* not arrive.                                                             *)
LEMMA FetchLoop ==
    ASSUME DescriptorsAssumption, LoopInv, tree = NoTree, Inner("get_string"),
           pos # "second", pos' = "undefined", UNCHANGED <<user, buf, offset, k, printed>>,
           Fault \/ (UNCHANGED faults /\ ~StringsFit)
    PROVE  InLoop'
<1>1. content' = content /\ tree' = NoTree /\ faults \in Nat
  BY DEF Inner, LoopInv, DescInv, TypeOK
<1>2. Separate'
  BY <1>1 DEF Separate
<1>3. CASE Fault
  BY <1>1, <1>2, <1>3, FaultedStep
<1>4. CASE UNCHANGED faults /\ ~StringsFit
  <2>1. ~StringsFit'
    BY <1>1, <1>4 DEF StringsFit
  <2>2. AllThere'
    BY <1>1, <1>4 DEF LoopInv, InLoop, AllThere, Conf
  <2>4. tree'.kind = "none"
    BY <1>1 DEF NoTree
  <2> QED
    BY <1>2, <2>1, <2>2, <2>4 DEF InLoop, InStep, ParsedSoFar, DefinedUnlessFault
<1> QED
  BY <1>3, <1>4

(* usb_get_string called by the application. *)
LEMMA GetStringLoop ==
    ASSUME DescriptorsAssumption, LoopInv, tree = NoTree, NEW index, usb_get_string(index)
    PROVE  InLoop'
<1>1. /\ pos = "idle" /\ Inner("get_string") /\ content' = content /\ tree' = tree
      /\ UNCHANGED <<user, buf, offset, k, printed>>
      /\ \/ pos' = pos /\ UNCHANGED faults
         \/ pos' = "undefined" /\ UNCHANGED faults /\ Held("string", index) > MaxStringLen
         \/ pos' = "undefined" /\ Fault
  BY DEF usb_get_string, GetString, Inner
<1>2. CASE pos' = pos /\ UNCHANGED faults
  <2>1. AllThere'
    BY <1>1, <1>2 DEF LoopInv, InLoop, AllThere, Conf
  <2> QED
    BY <1>1, <1>2, <2>1, PlainStep
<1>3. CASE pos' = "undefined" /\ UNCHANGED faults /\ Held("string", index) > MaxStringLen
  <2>1. ~StringsFit
    BY <1>3, LongString DEF LoopInv, DescInv, TypeOK
  <2> QED
    BY <1>1, <1>3, <2>1, FetchLoop
<1>4. CASE pos' = "undefined" /\ Fault
  BY <1>1, <1>4, FetchLoop
<1> QED
  BY <1>1, <1>2, <1>3, <1>4

(* The next configuration, if there is one, or the end of the dump. *)
LEMMA NextLoop ==
    ASSUME tree' = NoTree, NEW i, NextConfiguration(i) \/ DumpEnds
    PROVE  InLoop'
<1>1. pos' \in {"first", "idle"} /\ buf'.got = 0
  BY DEF NextConfiguration, ToConfiguration, DumpEnds, NoBuffer
<1> QED
  BY <1>1, NothingThere, PlainStep

(* A string of the device (usb.c:542-544). *)
LEMMA PrintDeviceLoop ==
    ASSUME DescriptorsAssumption, LoopInv, PrintDevice
    PROVE  InLoop'
<1>1. /\ pos = "names" /\ Inner("get_string") /\ content' = content /\ tree' = tree
      /\ \/ pos' = "undefined" /\ UNCHANGED <<faults, user, buf, offset, k, printed>>
            /\ Held("string", Given(content.names[k], NameAt(k))) > MaxStringLen
         \/ pos' = "undefined" /\ Fault /\ UNCHANGED <<user, buf, offset, k, printed>>
         \/ UNCHANGED <<faults, pos, user, buf>>
         \/ NextConfiguration(0) \/ DumpEnds
  BY DEF PrintDevice, GetString, Inner
<1>2. tree = NoTree /\ tree' = NoTree /\ user = "dump"
  BY <1>1 DEF LoopInv, InLoop, Separate
<1>3. CASE pos' = "undefined" /\ UNCHANGED <<faults, user, buf, offset, k, printed>>
           /\ Held("string", Given(content.names[k], NameAt(k))) > MaxStringLen
  <2>1. ~StringsFit
    BY <1>3, LongString DEF LoopInv, DescInv, TypeOK
  <2> QED
    BY <1>1, <1>2, <1>3, <2>1, FetchLoop
<1>4. CASE pos' = "undefined" /\ Fault /\ UNCHANGED <<user, buf, offset, k, printed>>
  BY <1>1, <1>2, <1>4, FetchLoop
<1>5. CASE UNCHANGED <<faults, pos, user, buf>>
  <2>1. AllThere'
    BY <1>1, <1>5 DEF LoopInv, InLoop, AllThere, Conf
  <2>2. faults = 0 => buf.got = DeviceSize
    BY <1>1 DEF LoopInv, InLoop, Separate
  <2> QED
    BY <1>1, <1>2, <1>5, <2>1, <2>2, PlainStep
<1>6. CASE NextConfiguration(0) \/ DumpEnds
  BY <1>2, <1>6, NextLoop
<1> QED
  BY <1>1, <1>3, <1>4, <1>5, <1>6

(* Steps inside the walk over a configuration. *)
LEMMA InsideLoop ==
    ASSUME DescriptorsAssumption, LoopInv, pos \in {"confname", "walk", "ifname"},
           content' = content, tree' = tree, UNCHANGED <<faults, user, buf>>,
           pos' \in {"walk", "ifname"},
           faults = 0 /\ Sound(Conf) =>
              /\ k' \in 1 .. Len(Conf.descriptors) + 1 /\ offset' = Ends(Conf.descriptors)[k' - 1]
              /\ pos' = "ifname" => k' \in OfType(Conf, "interface")
    PROVE  InLoop'
<1>1. Conf' = Conf
  BY DEF Conf
<1>2. /\ user = "dump" /\ tree = NoTree /\ AllThere /\ (faults = 0 => buf.got >= ConfigSize)
  BY DEF LoopInv, InLoop, Separate
<1>3. Separate' /\ AllThere'
  BY <1>1, <1>2 DEF Separate, AllThere
<1> HIDE DEF Conf
<1>4. InStep'
  BY <1>1 DEF InStep, Stands
<1>5. tree'.kind = "none"
  BY <1>2 DEF NoTree
<1> QED
  BY <1>3, <1>4, <1>5 DEF InLoop, ParsedSoFar, DefinedUnlessFault

(* The string of a configuration (usb.c:580-603). *)
LEMMA PrintConfigLoop ==
    ASSUME DescriptorsAssumption, LoopInv, PrintConfig
    PROVE  InLoop'
<1>1. /\ pos = "confname" /\ Inner("get_string") /\ content' = content /\ tree' = tree
      /\ \/ pos' = "undefined" /\ UNCHANGED <<faults, user, buf, offset, k, printed>>
            /\ Held("string", Header.name) > MaxStringLen
         \/ pos' = "undefined" /\ Fault /\ UNCHANGED <<user, buf, offset, k, printed>>
         \/ pos' = "walk" /\ offset' = ConfigSize /\ k' = 1 /\ UNCHANGED <<faults, user, buf>>
  BY DEF PrintConfig, GetString, Inner
<1>2. tree = NoTree /\ tree' = NoTree /\ user = "dump" /\ Conf \in Configuration
  BY <1>1, DumpFacts DEF LoopInv, InLoop, Separate
<1>3. CASE pos' = "undefined" /\ UNCHANGED <<faults, user, buf, offset, k, printed>>
           /\ Held("string", Header.name) > MaxStringLen
  <2>1. ~StringsFit
    BY <1>3, LongString DEF LoopInv, DescInv, TypeOK
  <2> QED
    BY <1>1, <1>2, <1>3, <2>1, FetchLoop
<1>4. CASE pos' = "undefined" /\ Fault /\ UNCHANGED <<user, buf, offset, k, printed>>
  BY <1>1, <1>2, <1>4, FetchLoop
<1>5. CASE pos' = "walk" /\ offset' = ConfigSize /\ k' = 1 /\ UNCHANGED <<faults, user, buf>>
  <2>1. k' \in 1 .. Len(Conf.descriptors) + 1 /\ offset' = Ends(Conf.descriptors)[k' - 1]
    BY <1>2, <1>5, LoopBegins
  <2> QED
    BY <1>1, <1>5, <2>1, InsideLoop
<1> QED
  BY <1>1, <1>3, <1>4, <1>5

(* What the dump stands on in a sound configuration. *)
LEMMA DumpAt ==
    ASSUME DescriptorsAssumption, LoopInv, pos \in {"walk", "ifname"},
           faults = 0, Sound(Conf)
    PROVE  Stands(Conf) /\ buf.got = Conf.total
BY DumpFacts DEF LoopInv, InLoop, Separate, AllThere, InStep, ConfigSize

(* What it goes by.                                                        *)
LEMMA DumpHeader ==
    ASSUME DescriptorsAssumption, LoopInv, pos \in {"confname", "walk", "ifname"}, faults = 0
    PROVE  Header.total = Conf.total /\ Header.name = Conf.name
BY DumpFacts DEF LoopInv, InLoop, Separate

(* An interface is printed with its string (usb.c:605-633). *)
LEMMA PrintInterfaceLoop ==
    ASSUME DescriptorsAssumption, LoopInv, PrintInterface
    PROVE  InLoop'
<1> DEFINE d == At(Conf)
<1>1. /\ pos = "ifname" /\ Inner("get_string") /\ content' = content /\ tree' = tree
      /\ \/ pos' = "undefined" /\ UNCHANGED <<faults, user, buf, offset, k, printed>>
            /\ Held("string", d.name) > MaxStringLen
         \/ pos' = "undefined" /\ Fault /\ UNCHANGED <<user, buf, offset, k, printed>>
         \/ pos' = "walk" /\ Advance(d) /\ UNCHANGED <<faults, user, buf>>
  BY DEF PrintInterface, GetString, Inner
<1>2. tree = NoTree /\ tree' = NoTree /\ user = "dump" /\ Conf \in Configuration
  BY <1>1, DumpFacts DEF LoopInv, InLoop, Separate
<1>3. CASE pos' = "undefined" /\ UNCHANGED <<faults, user, buf, offset, k, printed>>
           /\ Held("string", d.name) > MaxStringLen
  <2>1. ~StringsFit
    BY <1>3, LongString DEF LoopInv, DescInv, TypeOK
  <2> QED
    BY <1>1, <1>2, <1>3, <2>1, FetchLoop
<1>4. CASE pos' = "undefined" /\ Fault /\ UNCHANGED <<user, buf, offset, k, printed>>
  BY <1>1, <1>2, <1>4, FetchLoop
<1>5. CASE pos' = "walk" /\ Advance(d) /\ UNCHANGED <<faults, user, buf>>
  <2>1. ASSUME faults = 0, Sound(Conf)
        PROVE  k' \in 1 .. Len(Conf.descriptors) + 1 /\ offset' = Ends(Conf.descriptors)[k' - 1]
    <3>1. Stands(Conf) /\ buf.got = Conf.total /\ BufferMaxSize \in Nat
      BY <1>1, <2>1, DumpAt, DumpFacts DEF LoopInv
    <3>2. offset < Conf.total
      <4>1. k \in DOMAIN Conf.descriptors
        BY <1>1, <2>1 DEF LoopInv, InLoop, InStep, OfType
      <4>2. k # Len(Conf.descriptors) + 1
        BY <1>2, <4>1 DEF Configuration
      <4> QED
        BY <1>2, <2>1, <3>1, <4>2, LoopOver
    <3> QED
      BY <1>2, <1>5, <2>1, <3>1, <3>2, LoopAdvances
  <2> QED
    BY <1>1, <1>5, <2>1, InsideLoop
<1> QED
  BY <1>1, <1>3, <1>4, <1>5

-----------------------------------------------------------------------------
(* The loop of the dump (usb.c:407-422). *)

(* A turn of it.                                                           *)
LEMMA WalkLoop ==
    ASSUME DescriptorsAssumption, LoopInv, Walk
    PROVE  InLoop'
<1> DEFINE d == At(Conf)
<1>1. /\ pos = "walk" /\ content' = content /\ tree' = tree /\ UNCHANGED faults
  BY DEF Walk
<1>2. /\ tree = NoTree /\ tree' = NoTree /\ user = "dump" /\ Conf \in Configuration
      /\ buf.type = "config" /\ BufferMaxSize \in Nat /\ buf.index \in Nat
      /\ HasConfiguration(buf.index) /\ content \in Contents
      /\ faults = 0 => buf.got >= ConfigSize
  BY <1>1, DumpFacts DEF LoopInv, InLoop, Separate
<1>3. ASSUME faults = 0, Sound(Conf), offset < Header.total
      PROVE  /\ InBuffer(d) /\ k \in DOMAIN Conf.descriptors /\ d = Conf.descriptors[k]
             /\ Stands(Conf)
             /\ Advance(d) => /\ k' \in 1 .. Len(Conf.descriptors) + 1
                              /\ offset' = Ends(Conf.descriptors)[k' - 1]
  <2>1. Stands(Conf) /\ buf.got = Conf.total /\ offset < Conf.total
    BY <1>1, <1>3, DumpAt, DumpHeader
  <2> QED
    BY <1>2, <1>3, <2>1, LoopAt, LoopAdvances
<1>4. CASE NextConfiguration(buf.index + 1)
  BY <1>2, <1>4, NextLoop
<1>5. CASE offset < Header.total /\ ~InBuffer(d) /\ Outside /\ UNCHANGED <<user, buf, printed>>
  <2>1. pos' = "undefined" /\ user' = "dump" /\ Conf' = Conf /\ tree'.kind = "none"
    BY <1>1, <1>2, <1>5 DEF Outside, Conf, NoTree
  <2>2. faults = 0 => \E c \in Range(content.configurations) : ~Sound(c)
    <3>1. Conf \in Range(content.configurations)
      <4>1. buf.index + 1 \in DOMAIN content.configurations
        BY <1>2 DEF HasConfiguration, DescriptorsAssumption
      <4> QED
        BY <4>1 DEF Conf, Range
    <3> QED
      BY <1>3, <1>5, <3>1
  <2>3. Separate' /\ AllThere'
    BY <1>1, <1>2, <1>5, <2>1 DEF Separate, AllThere, LoopInv, InLoop
  <2> HIDE DEF d
  <2> QED
    BY <1>1, <2>1, <2>2, <2>3 DEF InLoop, InStep, ParsedSoFar, DefinedUnlessFault
<1>6. CASE offset < Header.total /\ UNCHANGED <<user, buf>> /\ d.type = "interface"
           /\ pos' = "ifname" /\ UNCHANGED <<offset, k, printed>>
  <2>1. ASSUME faults = 0, Sound(Conf)
        PROVE  /\ k' \in 1 .. Len(Conf.descriptors) + 1
               /\ offset' = Ends(Conf.descriptors)[k' - 1]
               /\ k' \in OfType(Conf, "interface")
    BY <1>3, <1>6, <2>1 DEF Stands, OfType
  <2> QED
    BY <1>1, <1>6, <2>1, InsideLoop
<1>7. CASE offset < Header.total /\ UNCHANGED <<user, buf>> /\ pos' = pos /\ Advance(d)
  <2>1. ASSUME faults = 0, Sound(Conf)
        PROVE  k' \in 1 .. Len(Conf.descriptors) + 1 /\ offset' = Ends(Conf.descriptors)[k' - 1]
    BY <1>3, <1>7, <2>1
  <2> QED
    BY <1>1, <1>7, <2>1, InsideLoop
<1> QED
  BY <1>4, <1>5, <1>6, <1>7, WalkCases DEF LoopInv

-----------------------------------------------------------------------------
(* The loop of parse_descriptor (usb.c:477-494). *)

(* What it has.                                                            *)
LEMMA ParseFacts ==
    ASSUME DescriptorsAssumption, DescInv, pos = "parse"
    PROVE  /\ tree.kind = "config" /\ tree.of \in Configuration /\ tree.interfaces \in Seq(Nodes)
           /\ BufferMaxSize \in Nat /\ faults \in Nat /\ k \in Nat /\ k > 0
           /\ tree = [kind |-> "config", of |-> tree.of, interfaces |-> tree.interfaces]
BY DEF DescInv, TypeOK, Trees, Placed, DescriptorsAssumption

(* Where it stands in a sound configuration. *)
LEMMA ParserAt ==
    ASSUME DescriptorsAssumption, LoopInv, pos = "parse", faults = 0, Sound(tree.of),
           offset < tree.of.total
    PROVE  LET c == tree.of
               d == At(c)
           IN /\ k \in 1 .. Len(c.descriptors) /\ k \in DOMAIN c.descriptors
              /\ d = c.descriptors[k] /\ InBuffer(d)
              /\ Advance(d) => /\ k' = k + 1 /\ k' \in 1 .. Len(c.descriptors) + 1
                               /\ offset' = Ends(c.descriptors)[k' - 1]
<1>1. Stands(tree.of) /\ buf.got = tree.of.total
  BY DEF LoopInv, InLoop, InStep
<1> QED
  BY <1>1, ParseFacts, LoopAt, LoopAdvances DEF LoopInv

(* In a simple one the interface comes first, and the only endpoint finds  *)
(* it, with room for one.                                                  *)
LEMMA SimpleAt ==
    ASSUME DescriptorsAssumption, LoopInv, pos = "parse", faults = 0,
           Sound(tree.of), Simple(tree.of), offset < tree.of.total
    PROVE  LET d == At(tree.of)
           IN /\ d.type = "interface" => InterfaceAt(d) /\ tree.interfaces = <<>>
              /\ d.type = "endpoint" =>
                    EndpointAt(d) /\ Len(tree.interfaces) = 1 /\ tree.interfaces[1].endpoints = <<>>
<1> DEFINE c == tree.of
           ds == c.descriptors
           d == At(c)
<1>1. /\ c \in Configuration /\ ds \in Seq(Descriptor) /\ Len(ds) \in Nat /\ DOMAIN ds = 1 .. Len(ds)
      /\ tree.interfaces \in Seq(Nodes) /\ Len(tree.interfaces) \in Nat
  <2>1. c \in Configuration /\ tree.interfaces \in Seq(Nodes)
    BY ParseFacts DEF LoopInv
  <2>2. ds \in Seq(Descriptor)
    BY <2>1 DEF Configuration
  <2> QED
    BY <2>1, <2>2, LenProperties
<1>2. k \in DOMAIN ds /\ d = ds[k] /\ InBuffer(d)
  BY ParserAt
<1>3. PICK i \in OfType(c, "interface") :
         /\ OfType(c, "interface") = {i} /\ c.interfaces > 0
         /\ \A j, l \in OfType(c, "endpoint") : j = l /\ i < j /\ ds[i].endpoints > 0
  BY DEF Simple
<1>4. i \in DOMAIN ds /\ i \in Nat /\ k \in Nat /\ ds[i].endpoints \in Nat
  <2>1. i \in DOMAIN ds
    BY <1>3 DEF OfType
  <2> QED
    BY <1>1, <1>2, <2>1, FieldsAreNat
<1>5. IF k <= i THEN tree.interfaces = <<>>
      ELSE /\ Len(tree.interfaces) = 1 /\ tree.interfaces[1].bytes = SizeT * ds[i].endpoints
           /\ IF \A j \in OfType(c, "endpoint") : k <= j THEN tree.interfaces[1].endpoints = <<>>
              ELSE \E j \in OfType(c, "endpoint") : tree.interfaces[1].endpoints = <<ds[j]>>
  BY <1>3, ParseFacts DEF LoopInv, InLoop, ParsedSoFar, Parsed
<1> HIDE DEF d
<1>6. ASSUME d.type = "interface" PROVE InterfaceAt(d) /\ tree.interfaces = <<>>
  <2>1. k \in OfType(c, "interface")
    BY <1>2, <1>6 DEF OfType
  <2>2. k = i
    BY <1>3, <2>1
  <2>3. tree.interfaces = <<>>
    BY <1>4, <1>5, <2>2
  <2>4. IfaceIndex = 0
    BY <2>3 DEF IfaceIndex, SizeOf
  <2> QED
    BY <1>2, <1>3, <1>6, <2>3, <2>4 DEF InterfaceAt
<1>7. ASSUME d.type = "endpoint"
      PROVE  EndpointAt(d) /\ Len(tree.interfaces) = 1 /\ tree.interfaces[1].endpoints = <<>>
  <2>1. k \in OfType(c, "endpoint")
    BY <1>2, <1>7 DEF OfType
  <2>2. i < k /\ ds[i].endpoints > 0 /\ \A j \in OfType(c, "endpoint") : k <= j
    BY <1>3, <1>4, <2>1
  <2>3. ~(k <= i)
    BY <1>4, <2>2
  <2> DEFINE node == tree.interfaces[1]
  <2>4. Len(tree.interfaces) = 1 /\ node.bytes = SizeT * ds[i].endpoints /\ node.endpoints = <<>>
    BY <1>5, <2>2, <2>3
  <2>5. Last(tree.interfaces) = node /\ tree.interfaces # <<>>
    BY <1>1, <2>4 DEF Last
  <2>6. EndpIndex(node) = 0
    BY <2>4 DEF EndpIndex, SizeOf
  <2>7. 7 <= node.bytes
    BY <1>4, <2>2, <2>4 DEF SizeT
  <2>8. EndpFits(node)
    BY <2>6, <2>7 DEF EndpFits, EndpointStruct, SizeOf
  <2> QED
    BY <1>2, <1>7, <2>4, <2>5, <2>8 DEF EndpointAt
<1> QED
  BY <1>6, <1>7 DEF d

(* It goes on to the next descriptor. *)
LEMMA ParseOn ==
    ASSUME DescriptorsAssumption, LoopInv, pos = "parse", offset < tree.of.total, Pure,
           Advance(At(tree.of)), pos' = pos, UNCHANGED faults,
           tree'.kind = "config", tree'.of = tree.of,
           faults = 0 /\ Sound(tree.of) /\ Simple(tree.of) =>
              Parsed(tree'.interfaces, tree.of, k + 1)
    PROVE  InLoop'
<1> DEFINE c == tree.of
<1>1. content' = content /\ buf' = buf
  BY DEF Pure
<1>2. Separate' /\ AllThere'
  BY <1>1 DEF LoopInv, InLoop, Separate, AllThere, Conf
<1>3. ASSUME faults = 0, Sound(c)
      PROVE  k' = k + 1 /\ Stands(c)' /\ buf'.got = c.total
  <2>1. /\ k' = k + 1 /\ k' \in 1 .. Len(c.descriptors) + 1
        /\ offset' = Ends(c.descriptors)[k' - 1]
    BY <1>3, ParserAt
  <2>2. buf'.got = c.total
    BY <1>1, <1>3 DEF LoopInv, InLoop, InStep
  <2> QED
    BY <2>1, <2>2 DEF Stands
<1>4. InStep'
  BY <1>3 DEF InStep, Stands
<1>5. ParsedSoFar'
  BY <1>3 DEF ParsedSoFar
<1> QED
  BY <1>2, <1>4, <1>5 DEF InLoop, DefinedUnlessFault

(* The tree of a simple configuration grows by the descriptor at k. *)
LEMMA ParsedMore ==
    ASSUME NEW c \in Configuration, Simple(c), NEW n \in DOMAIN c.descriptors, NEW T, NEW U,
           Parsed(T, c, n),
           \/ /\ c.descriptors[n].type = "interface"
              /\ U = <<[of |-> c.descriptors[n], bytes |-> SizeT * c.descriptors[n].endpoints,
                        endpoints |-> <<>>]>>
           \/ /\ c.descriptors[n].type = "endpoint" /\ Len(U) = 1
              /\ U[1].of = T[1].of /\ U[1].bytes = T[1].bytes
              /\ U[1].endpoints = <<c.descriptors[n]>>
           \/ c.descriptors[n].type \notin {"interface", "endpoint"} /\ U = T
    PROVE  Parsed(U, c, n + 1)
<1> DEFINE ds == c.descriptors
           I == OfType(c, "interface")
           P == OfType(c, "endpoint")
<1>1. DOMAIN ds \subseteq Nat /\ I \subseteq DOMAIN ds /\ P \subseteq DOMAIN ds
  BY DEF Configuration, OfType
<1>2. PICK i \in I : I = {i} /\ \A j, l \in P : j = l /\ i < j
  BY DEF Simple
<1>3. i \in Nat /\ n \in Nat /\ \A j \in P : j \in Nat
  BY <1>1, <1>2
<1>4. /\ (ds[n].type = "interface" <=> n = i) /\ (ds[n].type = "endpoint" <=> n \in P)
  BY <1>2 DEF OfType
<1>5. IF n <= i THEN T = <<>>
      ELSE /\ Len(T) = 1 /\ T[1].of = ds[i] /\ T[1].bytes = SizeT * ds[i].endpoints
           /\ IF \A j \in P : n <= j THEN T[1].endpoints = <<>>
              ELSE \E j \in P : T[1].endpoints = <<ds[j]>>
  BY <1>2 DEF Parsed
<1> HIDE DEF I, P
<1>6. IF n + 1 <= i THEN U = <<>>
      ELSE /\ Len(U) = 1 /\ U[1].of = ds[i] /\ U[1].bytes = SizeT * ds[i].endpoints
           /\ IF \A j \in P : n + 1 <= j THEN U[1].endpoints = <<>>
              ELSE \E j \in P : U[1].endpoints = <<ds[j]>>
  <2>1. CASE ds[n].type = "interface"
    <3>1. n = i /\ ~(n + 1 <= i) /\ \A j \in P : n + 1 <= j
      BY <1>2, <1>3, <1>4, <2>1
    <3>2. U = <<[of |-> ds[n], bytes |-> SizeT * ds[n].endpoints, endpoints |-> <<>>]>>
      BY <2>1
    <3> QED
      BY <3>1, <3>2
  <2>2. CASE ds[n].type = "endpoint"
    <3>1. n \in P /\ i < n /\ ~(n <= i) /\ ~(n + 1 <= i) /\ ~(\A j \in P : n + 1 <= j)
      BY <1>2, <1>3, <1>4, <2>2
    <3>2. Len(U) = 1 /\ U[1].of = T[1].of /\ U[1].bytes = T[1].bytes /\ U[1].endpoints = <<ds[n]>>
      BY <2>2
    <3> QED
      BY <1>5, <3>1, <3>2
  <2>3. CASE ds[n].type \notin {"interface", "endpoint"}
    <3>1. n # i /\ n \notin P /\ U = T
      BY <1>4, <2>3
    <3>2. (n <= i <=> n + 1 <= i) /\ \A j \in P : (n <= j <=> n + 1 <= j)
      BY <1>3, <3>1
    <3> QED
      BY <1>5, <3>1, <3>2
  <2> QED
    BY <2>1, <2>2, <2>3
<1>7. \A m \in I : m = i
  BY <1>2
<1> QED
  BY <1>6, <1>7 DEF Parsed, I, P

(* A turn of parse_descriptor's loop. *)
LEMMA ParseStepLoop ==
    ASSUME DescriptorsAssumption, LoopInv, ParseStep
    PROVE  InLoop'
<1> DEFINE c == tree.of
           d == At(c)
           T == tree.interfaces
<1>1. pos = "parse" /\ Pure /\ content' = content /\ buf' = buf /\ user' = "app"
  BY DEF ParseStep, Pure
<1>2. /\ tree.kind = "config" /\ c \in Configuration /\ T \in Seq(Nodes)
      /\ faults \in Nat /\ Len(T) \in Nat /\ d \in Descriptor
  <2>1. /\ tree.kind = "config" /\ c \in Configuration /\ T \in Seq(Nodes)
        /\ faults \in Nat /\ k \in Nat /\ k > 0
    BY <1>1, ParseFacts DEF LoopInv
  <2> QED
    BY <2>1, LenProperties, AtType
<1>3. ASSUME faults = 0, Sound(c), Simple(c), offset < c.total
      PROVE  /\ k \in DOMAIN c.descriptors /\ d = c.descriptors[k] /\ InBuffer(d)
             /\ d.type = "interface" => InterfaceAt(d) /\ T = <<>>
             /\ d.type = "endpoint" => EndpointAt(d) /\ Len(T) = 1 /\ T[1].endpoints = <<>>
             /\ Parsed(T, c, k)
  BY <1>1, <1>2, <1>3, ParserAt, SimpleAt DEF LoopInv, InLoop, ParsedSoFar
<1>4. \/ /\ ~(offset < c.total) /\ pos' = "idle" /\ UNCHANGED <<tree, faults>>
      \/ offset < c.total /\ InterfaceAt(d) /\ InterfaceParsed(d)
      \/ offset < c.total /\ EndpointAt(d) /\ EndpointParsed(d)
      \/ /\ offset < c.total /\ d.type \notin {"interface", "endpoint"}
         /\ Advance(d) /\ UNCHANGED <<pos, tree, faults>>
      \/ /\ offset < c.total /\ ~InterfaceAt(d) /\ ~EndpointAt(d)
         /\ ~(d.type \notin {"interface", "endpoint"} /\ InBuffer(d))
         /\ pos' = "undefined" /\ UNCHANGED <<tree, faults>>
  BY ParseCases DEF LoopInv, Outside
<1>5. CASE ~(offset < c.total) /\ pos' = "idle" /\ UNCHANGED <<tree, faults>>
  <2>1. faults = 0 /\ Sound(c) => k = Len(c.descriptors) + 1
    BY <1>1, <1>2, <1>5, LoopOver DEF LoopInv, InLoop, InStep
  <2>2. Separate' /\ AllThere' /\ ParsedSoFar'
    BY <1>1, <1>2, <1>5, <2>1 DEF LoopInv, InLoop, Separate, AllThere, ParsedSoFar, Conf
  <2> QED
    BY <1>5, <2>2 DEF InLoop, InStep, DefinedUnlessFault
<1>6. CASE offset < c.total /\ InterfaceAt(d) /\ InterfaceParsed(d)
  <2>1. PICK bytes \in {SizeT * FirstEndpoints(d), 0} :
           /\ tree' = [tree EXCEPT !.interfaces = Append(@, [of |-> d, bytes |-> bytes, endpoints |-> <<>>])]
           /\ (bytes = SizeT * FirstEndpoints(d) /\ UNCHANGED faults) \/ Fault
    BY <1>6 DEF InterfaceParsed
  <2>2. Advance(d) /\ pos' = pos
    BY <1>6 DEF InterfaceParsed
  <2>3. CASE Fault
    <3>1. Separate'
      BY <1>1, <2>2 DEF Separate
    <3> QED
      BY <1>2, <2>3, <3>1, FaultedStep
  <2>4. CASE bytes = SizeT * FirstEndpoints(d) /\ UNCHANGED faults
    <3> DEFINE node == [of |-> d, bytes |-> bytes, endpoints |-> <<>>]
    <3>1. tree'.kind = "config" /\ tree'.of = c /\ tree'.interfaces = Append(T, node)
      BY <1>1, <1>2, <2>1, ParseFacts DEF LoopInv
    <3>2. ASSUME faults = 0, Sound(c), Simple(c) PROVE Parsed(tree'.interfaces, c, k + 1)
      <4>1. T = <<>> /\ d = c.descriptors[k] /\ k \in DOMAIN c.descriptors /\ Parsed(T, c, k)
            /\ d.type = "interface"
        BY <1>3, <1>6, <3>2 DEF InterfaceAt
      <4>2. bytes = SizeT * d.endpoints
        BY <2>4, <4>1 DEF FirstEndpoints
      <4>3. tree'.interfaces = <<[of |-> d, bytes |-> SizeT * d.endpoints, endpoints |-> <<>>]>>
        BY <3>1, <4>1, <4>2
      <4> QED
        BY <1>2, <3>2, <4>1, <4>3, ParsedMore
    <3> QED
      BY <1>1, <1>6, <2>2, <2>4, <3>1, <3>2, ParseOn
  <2> QED
    BY <2>1, <2>3, <2>4
<1>7. CASE offset < c.total /\ EndpointAt(d) /\ EndpointParsed(d)
  <2>1. /\ tree' = [tree EXCEPT !.interfaces[Len(tree.interfaces)].endpoints = Append(@, d)]
        /\ Advance(d) /\ pos' = pos /\ UNCHANGED faults
    BY <1>7 DEF EndpointParsed
  <2>2. tree'.kind = "config" /\ tree'.of = c
    BY <1>1, <1>2, <2>1, ParseFacts DEF LoopInv
  <2>3. ASSUME faults = 0, Sound(c), Simple(c) PROVE Parsed(tree'.interfaces, c, k + 1)
    <3> DEFINE U == tree'.interfaces
    <3>1. /\ Len(T) = 1 /\ T[1].endpoints = <<>> /\ d = c.descriptors[k]
          /\ k \in DOMAIN c.descriptors /\ Parsed(T, c, k) /\ d.type = "endpoint"
      BY <1>3, <1>7, <2>3 DEF EndpointAt
    <3>2. 1 \in DOMAIN T /\ T[1] \in Nodes
      BY <1>2, <3>1, ElementOfSeq
    <3>3. U = [T EXCEPT ![1] = [T[1] EXCEPT !.endpoints = Append(T[1].endpoints, d)]]
      BY <1>1, <2>1, <3>1, ParseFacts DEF LoopInv
    <3>4. Len(U) = 1 /\ U[1] = [T[1] EXCEPT !.endpoints = Append(T[1].endpoints, d)]
      BY <1>2, <3>1, <3>2, <3>3
    <3>5. U[1].of = T[1].of /\ U[1].bytes = T[1].bytes /\ U[1].endpoints = <<d>>
      BY <3>1, <3>2, <3>4 DEF Nodes
    <3> QED
      BY <1>2, <2>3, <3>1, <3>4, <3>5, ParsedMore
  <2> QED
    BY <1>1, <1>7, <2>1, <2>2, <2>3, ParseOn
<1>8. CASE /\ offset < c.total /\ d.type \notin {"interface", "endpoint"}
           /\ Advance(d) /\ UNCHANGED <<pos, tree, faults>>
  <2>1. ASSUME faults = 0, Sound(c), Simple(c) PROVE Parsed(tree'.interfaces, c, k + 1)
    <3>1. d = c.descriptors[k] /\ k \in DOMAIN c.descriptors /\ Parsed(T, c, k) /\ tree' = tree
      BY <1>3, <1>8, <2>1
    <3> QED
      BY <1>2, <1>8, <2>1, <3>1, ParsedMore
  <2> QED
    BY <1>1, <1>2, <1>8, <2>1, ParseOn
<1>9. CASE /\ offset < c.total /\ ~InterfaceAt(d) /\ ~EndpointAt(d)
           /\ ~(d.type \notin {"interface", "endpoint"} /\ InBuffer(d))
           /\ pos' = "undefined" /\ UNCHANGED <<tree, faults>>
  <2>1. ~(faults = 0 /\ Sound(c) /\ Simple(c))
    BY <1>3, <1>9
  <2>2. Separate' /\ AllThere' /\ InStep' /\ ParsedSoFar'
    BY <1>1, <1>9 DEF LoopInv, InLoop, Separate, AllThere, InStep, ParsedSoFar, Conf
  <2>3. DefinedUnlessFault'
    BY <1>1, <1>2, <1>9, <2>1 DEF DefinedUnlessFault
  <2> QED
    BY <2>2, <2>3 DEF InLoop
<1> QED
  BY <1>4, <1>5, <1>6, <1>7, <1>8, <1>9

-----------------------------------------------------------------------------
(* The other steps with a tree, and all of them. *)

(* parse_descriptor of a device descriptor (usb.c:451-459). *)
LEMMA ParseDeviceLoop ==
    ASSUME DescriptorsAssumption, LoopInv, ParseDevice
    PROVE  InLoop'
<1>1. /\ pos = "idle" /\ content' = content /\ buf' = buf /\ faults \in Nat
      /\ \/ tree' = [NoTree EXCEPT !.kind = "device"] /\ UNCHANGED <<pos, faults>>
         \/ Fault /\ pos' = "undefined"
  BY DEF ParseDevice, Pure, LoopInv, DescInv, TypeOK
<1>2. Separate'
  BY <1>1 DEF Separate
<1>3. CASE tree' = [NoTree EXCEPT !.kind = "device"] /\ UNCHANGED <<pos, faults>>
  <2>1. tree'.kind = "device"
    BY <1>3 DEF NoTree
  <2>2. AllThere'
    BY <1>1, <1>3 DEF LoopInv, InLoop, AllThere, Conf
  <2> QED
    BY <1>1, <1>2, <1>3, <2>1, <2>2 DEF InLoop, InStep, ParsedSoFar, DefinedUnlessFault
<1>4. CASE Fault /\ pos' = "undefined"
  BY <1>1, <1>2, <1>4, FaultedStep
<1> QED
  BY <1>1, <1>3, <1>4

(* parse_descriptor of a configuration begins (usb.c:461-475). *)
LEMMA ParseConfigLoop ==
    ASSUME DescriptorsAssumption, LoopInv, ParseConfig
    PROVE  InLoop'
<1>1. /\ pos = "idle" /\ buf.type = "config" /\ buf.got >= ConfigSize /\ Pure
      /\ content' = content /\ buf' = buf /\ faults \in Nat /\ buf.index \in Nat
      /\ \/ /\ pos' = "parse" /\ offset' = ConfigSize /\ k' = 1 /\ UNCHANGED faults
            /\ tree' = [kind |-> "config", of |-> Conf, interfaces |-> <<>>]
         \/ Fault /\ pos' = "undefined"
  BY DEF ParseConfig, Pure, LoopInv, DescInv, TypeOK
<1>2. Separate'
  BY <1>1 DEF Separate
<1>3. CASE /\ pos' = "parse" /\ offset' = ConfigSize /\ k' = 1 /\ UNCHANGED faults
           /\ tree' = [kind |-> "config", of |-> Conf, interfaces |-> <<>>]
  <2>1. buf.got # 0
    BY <1>1 DEF ConfigSize
  <2>2. Conf \in Configuration
    BY <1>1, <2>1, ConfigurationFacts DEF Conf, LoopInv, DescInv, TypeOK, Asked
  <2>3. Conf' = Conf /\ tree'.of = Conf /\ tree'.interfaces = <<>>
    BY <1>1, <1>3 DEF Conf
  <2> HIDE DEF Conf
  <2>4. AllThere'
    BY <1>1, <1>3, <2>3 DEF LoopInv, InLoop, AllThere
  <2>5. faults = 0 /\ Sound(Conf) => buf'.got = Conf.total
    BY <1>1, <1>3, <2>1 DEF LoopInv, InLoop, AllThere
  <2>6. k' \in 1 .. Len(Conf.descriptors) + 1 /\ offset' = Ends(Conf.descriptors)[k' - 1]
    BY <1>3, <2>2, LoopBegins
  <2>7. InStep'
    BY <1>3, <2>3, <2>5, <2>6 DEF InStep, Stands
  <2>8. Parsed(<<>>, Conf, 1)
    <3>1. \A i \in OfType(Conf, "interface") : 1 <= i
      BY <2>2 DEF OfType, Configuration
    <3> QED
      BY <3>1 DEF Parsed
  <2>9. ParsedSoFar'
    BY <1>3, <2>3, <2>8 DEF ParsedSoFar
  <2> QED
    BY <1>2, <1>3, <2>4, <2>7, <2>9 DEF InLoop, DefinedUnlessFault
<1>4. CASE Fault /\ pos' = "undefined"
  BY <1>1, <1>2, <1>4, FaultedStep
<1> QED
  BY <1>1, <1>3, <1>4

(* What was parsed of a simple configuration can be released: there is an  *)
(* interface, whose endpoint pointer was set (usb.c:512-537).              *)
LEMMA ReleaseLoop ==
    ASSUME DescriptorsAssumption, LoopInv, release_descriptor
    PROVE  InLoop'
<1> DEFINE c == tree.of
<1>1. /\ pos = "idle" /\ content' = content /\ buf' = buf /\ user' = "app"
      /\ UNCHANGED <<offset, k, faults>>
      /\ \/ pos' = pos /\ tree' = NoTree
         \/ pos' = "undefined" /\ tree' = tree /\ tree.kind = "config" /\ tree.interfaces = <<>>
  BY DEF release_descriptor, Pure
<1>2. AllThere' /\ Separate'
  BY <1>1 DEF LoopInv, InLoop, AllThere, Separate, Conf
<1>3. CASE pos' = pos /\ tree' = NoTree
  BY <1>1, <1>2, <1>3, PlainStep
<1>4. CASE pos' = "undefined" /\ tree' = tree /\ tree.kind = "config" /\ tree.interfaces = <<>>
  <2>1. ~(faults = 0 /\ Sound(c) /\ Simple(c))
    <3> SUFFICES ASSUME faults = 0, Sound(c), Simple(c) PROVE FALSE
      OBVIOUS
    <3>1. Parsed(tree.interfaces, c, Len(c.descriptors) + 1)
      BY <1>1, <1>4 DEF LoopInv, InLoop, ParsedSoFar
    <3>2. PICK i \in OfType(c, "interface") : TRUE
      BY DEF Simple
    <3>3. ~(Len(c.descriptors) + 1 <= i)
      BY <3>2 DEF OfType, LoopInv, DescInv, Trees, Configuration
    <3>4. Len(tree.interfaces) = 1
      BY <3>1, <3>2, <3>3 DEF Parsed
    <3> QED
      BY <1>4, <3>4, EmptySeq
  <2> QED
    BY <1>1, <1>2, <1>4, <2>1 DEF InLoop, InStep, ParsedSoFar, DefinedUnlessFault
<1> QED
  BY <1>1, <1>3, <1>4

(* The application's calls. *)
LEMMA ApplicationLoop ==
    ASSUME DescriptorsAssumption, LoopInv, Application
    PROVE  InLoop'
<1>1. /\ DOMAIN content.strings \subseteq Nat
      /\ \A i \in DOMAIN content.configurations : i - 1 \in Nat
  <2>1. content.configurations \in Seq(Configuration) /\ DOMAIN content.strings \subseteq Nat
    BY DEF DescriptorsAssumption, LoopInv, DescInv, TypeOK
  <2>2. DOMAIN content.configurations = 1 .. Len(content.configurations)
        /\ Len(content.configurations) \in Nat
    BY <2>1, LenProperties
  <2>3. \A n \in Nat : \A i \in 1 .. n : i - 1 \in Nat
    OBVIOUS
  <2> QED
    BY <2>1, <2>2, <2>3
<1>2. CASE release_descriptor
  BY <1>2, ReleaseLoop
<1>3. ASSUME tree = NoTree, NEW type \in AppTypes \union {"config", "string"}, NEW index \in Nat,
             usb_get_descriptor(type, index)
      PROVE  InLoop'
  BY <1>3, BeginsLoop
<1>4. ASSUME tree = NoTree,
             \/ \E type \in AppTypes : usb_get_descriptor(type, 0)
             \/ \E i \in DOMAIN content.configurations : usb_get_descriptor("config", i - 1)
             \/ \E s \in DOMAIN content.strings : usb_get_descriptor("string", s)
      PROVE  InLoop'
  BY <1>1, <1>3, <1>4
<1>5. CASE tree = NoTree /\ \E index \in DOMAIN content.strings : usb_get_string(index)
  BY <1>5, GetStringLoop
<1>6. CASE tree = NoTree /\ usb_dump_device
  BY <1>6, BeginsLoop
<1>7. CASE tree = NoTree /\ usb_set_descriptor
  BY <1>7, SetDescriptorLoop
<1>8. CASE ParseDevice
  BY <1>8, ParseDeviceLoop
<1>9. CASE ParseConfig
  BY <1>9, ParseConfigLoop
<1>10. CASE UNCHANGED descVars
  BY <1>10, DescUnchanged
<1> QED
  BY <1>2, <1>4, <1>5, <1>6, <1>7, <1>8, <1>9, <1>10 DEF Application

(* LoopInv is inductive. *)
LEMMA LoopKept ==
    ASSUME ControlAssumption, DescriptorsAssumption, LoopInv, [Next]_allVars
    PROVE  LoopInv'
<1>1. SUFFICES InLoop'
  BY NextKeeps DEF LoopInv
<1>2. CASE Application
  BY <1>2, ApplicationLoop
<1>3. CASE Step
  BY <1>3, FirstReadLoop, SecondReadLoop, PrintDeviceLoop, PrintConfigLoop, WalkLoop,
     PrintInterfaceLoop, ParseStepLoop DEF Step
<1>4. CASE UNCHANGED descVars
  BY <1>4, DescUnchanged
<1> QED
  BY <1>2, <1>3, <1>4 DEF Next, allVars

(* It holds before the first call. *)
LEMMA LoopInit ==
    ASSUME ControlAssumption, DescriptorsAssumption, Init
    PROVE  LoopInv
<1>1. pos = "idle" /\ tree = NoTree /\ buf.got = 0
  BY DEF Init, NoBuffer
<1>2. tree.kind = "none"
  BY <1>1 DEF NoTree
<1>3. InLoop
  BY <1>1, <1>2 DEF InLoop, Separate, AllThere, InStep, ParsedSoFar, DefinedUnlessFault
<1> QED
  BY <1>3, InitHolds DEF LoopInv

-----------------------------------------------------------------------------
(* The loops over any device's configurations stand where a descriptor     *)
(* begins as long as the descriptors are as long as they say.              *)
THEOREM LoopInvariance == Spec => []LoopInv
<1> USE ControlAssumption, DescriptorsAssumption
<1>1. Init => LoopInv
  BY LoopInit
<1>2. LoopInv /\ [Next]_allVars => LoopInv'
  BY LoopKept
<1> QED
  BY <1>1, <1>2, PTL DEF Spec

(* No function of usb.c:79-537 reads or writes outside of its buffer or    *)
(* frees what was never set, unless a string is longer than __buff, a      *)
(* configuration is not as long as it says, or more than one interface     *)
(* with one endpoint is parsed: whatever descriptors the device has and    *)
(* whatever the application calls, while no transfer and no malloc fails.  *)
THEOREM DefinedOtherwise == Spec => []DefinedUnlessFault
<1>1. LoopInv => DefinedUnlessFault
  BY DEF LoopInv, InLoop
<1> QED
  BY <1>1, LoopInvariance, PTL

(* parse_descriptor (usb.c:461-510) returns the interface and the endpoint *)
(* of every sound configuration that has one interface and at most one     *)
(* endpoint, whatever other descriptors stand around them.                 *)
THEOREM ParsesExactly == Spec => []ParseExact
<1>1. LoopInv => ParseExact
  <2> SUFFICES ASSUME LoopInv, pos = "idle", tree.kind = "config",
                      Simple(tree.of), Sound(tree.of), faults = 0
               PROVE  /\ Len(tree.interfaces) = 1
                      /\ \E i \in OfType(tree.of, "interface") :
                            tree.interfaces[1].of = tree.of.descriptors[i]
                      /\ IF OfType(tree.of, "endpoint") = {} THEN tree.interfaces[1].endpoints = <<>>
                         ELSE \E j \in OfType(tree.of, "endpoint") :
                                 tree.interfaces[1].endpoints = <<tree.of.descriptors[j]>>
    BY DEF ParseExact
  <2> DEFINE c == tree.of
  <2>1. Parsed(tree.interfaces, c, Len(c.descriptors) + 1)
    BY DEF LoopInv, InLoop, ParsedSoFar
  <2>2. PICK i \in OfType(c, "interface") : TRUE
    BY DEF Simple
  <2>3. \A j \in DOMAIN c.descriptors : ~(Len(c.descriptors) + 1 <= j)
    BY DEF LoopInv, DescInv, Trees, Configuration
  <2>4. OfType(c, "interface") \subseteq DOMAIN c.descriptors
        /\ OfType(c, "endpoint") \subseteq DOMAIN c.descriptors
    BY DEF OfType
  <2> QED
    BY <2>1, <2>2, <2>3, <2>4 DEF Parsed
<1> QED
  BY <1>1, LoopInvariance, PTL

-----------------------------------------------------------------------------
(* What a dump has to print. *)

DeviceDue(j) == Entry("device", 0, j, content.names[j])
ConfDue(i) == Entry("config", i, 0, content.configurations[i + 1].name)
DescDue(i, j) ==
    LET d == content.configurations[i + 1].descriptors[j]
    IN Entry(d.type, i, j, IF d.type = "interface" THEN d.name ELSE NoString)

(* What identifies an entry. *)
LEMMA EntryIs ==
    ASSUME NEW kind, NEW i, NEW j, NEW s
    PROVE  LET e == Entry(kind, i, j, s)
           IN e.kind = kind /\ e.conf = i /\ e.at = j /\ e.name = s
BY DEF Entry

Shown(i) ==
    LET c == content.configurations[i + 1] IN DOMAIN c.descriptors \ OfType(c, "other")

(* The three sorts of entries that are due. *)
LEMMA DueSorts ==
    ASSUME DescriptorsAssumption, content \in Contents, NEW e
    PROVE  e \in Due <=>
              \/ \E j \in DOMAIN content.names : e = DeviceDue(j)
              \/ \E i \in Nat : HasConfiguration(i) /\ e = ConfDue(i)
              \/ \E i \in Nat : HasConfiguration(i) /\ \E j \in Shown(i) : e = DescDue(i, j)
<1> DEFINE C == content.configurations
<1>1. C \in Seq(Configuration) /\ Len(C) \in Nat /\ DOMAIN C = 1 .. Len(C)
  <2>1. C \in Seq(Configuration)
    BY DEF DescriptorsAssumption
  <2> QED
    BY <2>1, LenProperties
<1>2. ASSUME NEW i \in Nat
      PROVE  /\ HasConfiguration(i) <=> i + 1 \in DOMAIN C
             /\ (i + 1) - 1 = i
  BY <1>1 DEF HasConfiguration
<1>3. ASSUME NEW i \in DOMAIN C PROVE i - 1 \in Nat /\ (i - 1) + 1 = i /\ HasConfiguration(i - 1)
  BY <1>1 DEF HasConfiguration
<1>4. ASSUME NEW i \in Nat
      PROVE  e \in DueOf(i + 1) <=> e = ConfDue(i) \/ \E j \in Shown(i) : e = DescDue(i, j)
  BY <1>2 DEF DueOf, ConfDue, DescDue, Shown
<1>5. e \in Due <=> (\E j \in DOMAIN content.names : e = DeviceDue(j)) \/ \E i \in DOMAIN C : e \in DueOf(i)
  BY DEF Due, DeviceDue
<1> HIDE DEF C
<1>6. (\E i \in DOMAIN C : e \in DueOf(i)) <=> \E i \in Nat : HasConfiguration(i) /\ e \in DueOf(i + 1)
  <2>1. ASSUME NEW i \in DOMAIN C, e \in DueOf(i) PROVE \E m \in Nat : HasConfiguration(m) /\ e \in DueOf(m + 1)
    BY <1>3, <2>1
  <2>2. ASSUME NEW i \in Nat, HasConfiguration(i), e \in DueOf(i + 1) PROVE \E m \in DOMAIN C : e \in DueOf(m)
    BY <1>2, <2>2
  <2> QED
    BY <2>1, <2>2
<1>7. (\E i \in Nat : HasConfiguration(i) /\ e \in DueOf(i + 1)) <=>
         \E i \in Nat : HasConfiguration(i) /\ (e = ConfDue(i) \/ \E j \in Shown(i) : e = DescDue(i, j))
  BY <1>4
<1> QED
  BY <1>5, <1>6, <1>7

(* Which entry is due at a place. *)
LEMMA DueAt ==
    ASSUME DescriptorsAssumption, content \in Contents, NEW e \in Due
    PROVE  /\ e.conf \in Nat /\ e.at \in Nat
           /\ e.kind = "device" => e.at \in DOMAIN content.names /\ e = DeviceDue(e.at) /\ e.conf = 0
           /\ e.kind # "device" => HasConfiguration(e.conf)
           /\ e.kind # "device" /\ e.at = 0 => e = ConfDue(e.conf)
           /\ e.kind # "device" /\ e.at # 0 => e.at \in Shown(e.conf) /\ e = DescDue(e.conf, e.at)
<1>1. CASE \E j \in DOMAIN content.names : e = DeviceDue(j)
  <2>1. PICK j \in DOMAIN content.names : e = DeviceDue(j)
    BY <1>1
  <2>2. e.kind = "device" /\ e.at = j /\ e.conf = 0
    BY <2>1, EntryIs DEF DeviceDue
  <2>3. j \in Nat
    BY DEF DescriptorsAssumption
  <2> QED
    BY <2>1, <2>2, <2>3
<1>2. CASE \E i \in Nat : HasConfiguration(i) /\ e = ConfDue(i)
  <2>1. PICK i \in Nat : HasConfiguration(i) /\ e = ConfDue(i)
    BY <1>2
  <2>2. e.kind = "config" /\ e.at = 0 /\ e.conf = i
    BY <2>1, EntryIs DEF ConfDue
  <2> QED
    BY <2>1, <2>2
<1>3. CASE \E i \in Nat : HasConfiguration(i) /\ \E j \in Shown(i) : e = DescDue(i, j)
  <2>0. PICK i \in Nat : HasConfiguration(i) /\ \E j \in Shown(i) : e = DescDue(i, j)
    BY <1>3
  <2>1. PICK j \in Shown(i) : e = DescDue(i, j)
    BY <2>0
  <2> DEFINE c == content.configurations[i + 1]
  <2>2. c.descriptors \in Seq(Descriptor) /\ j \in DOMAIN c.descriptors
    BY <2>0, ConfigurationFacts DEF Configuration, Shown
  <2>3. j \in Nat /\ j # 0 /\ c.descriptors[j] \in Descriptor
    BY <2>2, LenProperties, ElementOfSeq
  <2>4. c.descriptors[j].type # "device"
    BY <2>3 DEF Descriptor, DescriptorTypes
  <2>5. e.kind = c.descriptors[j].type /\ e.at = j /\ e.conf = i
    <3>1. PICK s : e = Entry(c.descriptors[j].type, i, j, s)
      BY <2>1 DEF DescDue
    <3> HIDE DEF c
    <3> QED
      BY <3>1, EntryIs
  <2> QED
    BY <2>0, <2>1, <2>3, <2>4, <2>5
<1> QED
  BY <1>1, <1>2, <1>3, DueSorts

(* The next of what is printed is what comes next of what is due. *)
LEMMA PrintsMore ==
    ASSUME NEW S, NEW U, S \subseteq U, NEW P \in Seq(Entries), Prints(P, S),
           NEW p, NEW e0 \in U, SameEntry(p, e0),
           \A e \in U : Precedes(e, e0) <=> e \in S
    PROVE  LET Q == Append(P, p)
           IN /\ Prints(Q, S \union {e0})
              /\ DOMAIN Q = DOMAIN P \union {Len(P) + 1}
              /\ \A j \in DOMAIN P : j < Len(P) + 1 /\ Q[j] = P[j]
              /\ Q[Len(P) + 1] = p
              /\ \A i \in 1 .. Len(P) : Precedes(P[i], p)
              /\ \A e \in U : Precedes(e, p) => \E i \in 1 .. Len(P) : SameEntry(P[i], e)
<1> DEFINE Q == Append(P, p)
           n == Len(P)
<1>1. n \in Nat /\ DOMAIN P = 1 .. n
  BY LenProperties
<1>2. DOMAIN Q = 1 .. n + 1 /\ Q[n + 1] = p /\ \A j \in 1 .. n : Q[j] = P[j]
  BY <1>1
<1>3. p.kind = e0.kind /\ p.conf = e0.conf /\ p.at = e0.at
  BY DEF SameEntry
<1>4. ASSUME NEW i \in 1 .. n PROVE Precedes(P[i], p)
  <2>1. PICK e \in S : SameEntry(P[i], e)
    BY <1>1 DEF Prints
  <2>2. Precedes(e, e0)
    BY <2>1
  <2> QED
    BY <1>3, <2>1, <2>2 DEF Precedes, SameEntry
<1>5. ASSUME NEW e \in U, Precedes(e, p) PROVE \E i \in 1 .. n : SameEntry(P[i], e)
  <2>1. Precedes(e, e0)
    BY <1>3, <1>5 DEF Precedes
  <2>2. e \in S
    BY <2>1
  <2> QED
    BY <1>1, <2>2 DEF Prints
<1> HIDE DEF Q
<1>6. Prints(Q, S \union {e0})
  <2>1. \A j \in DOMAIN Q : \E e \in S \union {e0} : SameEntry(Q[j], e)
    <3>1. ASSUME NEW j \in 1 .. n + 1 PROVE \E e \in S \union {e0} : SameEntry(Q[j], e)
      <4>1. CASE j = n + 1
        BY <1>2, <4>1
      <4>2. CASE j \in 1 .. n
        BY <1>1, <1>2, <4>2 DEF Prints
      <4> QED
        BY <1>1, <4>1, <4>2
    <3> QED
      BY <1>2, <3>1
  <2>2. \A e \in S \union {e0} : \E j \in DOMAIN Q : SameEntry(Q[j], e)
    <3>1. ASSUME NEW e \in S PROVE \E j \in DOMAIN Q : SameEntry(Q[j], e)
      <4>1. PICK j \in 1 .. n : SameEntry(P[j], e)
        BY <1>1 DEF Prints
      <4>2. j \in DOMAIN Q /\ Q[j] = P[j]
        BY <1>1, <1>2
      <4> QED
        BY <4>1, <4>2
    <3>2. n + 1 \in DOMAIN Q /\ SameEntry(Q[n + 1], e0)
      BY <1>1, <1>2
    <3> QED
      BY <3>1, <3>2
  <2>3. \A j \in DOMAIN Q : \A i \in 1 .. j - 1 : Precedes(Q[i], Q[j])
    <3>1. ASSUME NEW j \in 1 .. n + 1, NEW i \in 1 .. j - 1 PROVE Precedes(Q[i], Q[j])
      <4>1. i \in 1 .. n /\ Q[i] = P[i]
        BY <1>1, <1>2
      <4>2. CASE j = n + 1
        BY <1>2, <1>4, <4>1, <4>2
      <4>3. CASE j \in 1 .. n
        <5>1. Q[j] = P[j] /\ j \in DOMAIN P
          BY <1>1, <1>2, <4>3
        <5> QED
          BY <4>1, <5>1 DEF Prints
      <4> QED
        BY <1>1, <4>2, <4>3
    <3> QED
      BY <1>2, <3>1
  <2> QED
    BY <2>1, <2>2, <2>3 DEF Prints
<1>7. DOMAIN Q = DOMAIN P \union {n + 1} /\ \A j \in DOMAIN P : j < n + 1 /\ Q[j] = P[j]
  BY <1>1, <1>2
<1> QED
  BY <1>2, <1>4, <1>5, <1>6, <1>7 DEF Q

-----------------------------------------------------------------------------
(* What a step does to what is printed. *)

Active == pos \notin {"idle", "undefined"}

(* The device stays what it is. *)
LEMMA DueKept ==
    ASSUME content' = content
    PROVE  Due' = Due /\ (SoundDevice' <=> SoundDevice)
<1>1. Due' = Due
  BY DEF Due, DueOf
<1>2. SoundDevice' <=> SoundDevice
  BY DEF SoundDevice, StringsFit
<1> QED
  BY <1>1, <1>2

(* A step that is not of a dump. *)
LEMMA NoDump == ASSUME user' \notin {"dump", "done"} PROVE PrintedSoFar' /\ DumpExact'
BY DEF PrintedSoFar, DumpExact

(* A step that prints nothing. *)
LEMMA QuietStep ==
    ASSUME ExactInv, content' = content, printed' = printed, user' = user,
           Fault \/ UNCHANGED faults,
           user = "dump" /\ Active' /\ SoundDevice /\ faults = 0 => Active /\ Passed' = Passed
    PROVE  PrintedSoFar' /\ DumpExact'
<1>1. faults \in Nat
  BY DEF ExactInv, LoopInv, DescInv, TypeOK
<1>2. faults' = 0 => faults = 0
  BY <1>1 DEF Fault
<1>3. PrintedSoFar'
  <2> SUFFICES ASSUME SoundDevice', faults' = 0, user' = "dump", Active'
               PROVE  Prints(printed', Passed')
    BY DEF PrintedSoFar, Active
  <2>1. SoundDevice /\ faults = 0 /\ user = "dump" /\ Active /\ Passed' = Passed
    BY <1>2, DueKept
  <2>2. Prints(printed, Passed)
    BY <2>1 DEF ExactInv, PrintedSoFar, Active
  <2> QED
    BY <2>1, <2>2
<1>4. DumpExact'
  <2>1. SoundDevice' /\ faults' = 0 /\ user' \in {"dump", "done"} =>
           SoundDevice /\ faults = 0 /\ user \in {"dump", "done"}
    BY <1>2, DueKept
  <2>2. Due' = Due
    BY DueKept
  <2> HIDE DEF Due, SoundDevice
  <2> QED
    BY <2>1, <2>2 DEF ExactInv, DumpExact
<1> QED
  BY <1>3, <1>4

(* The last step of a dump. *)
LEMMA LastStep ==
    ASSUME ExactInv, content' = content, printed' = printed, user' = "done", UNCHANGED faults,
           user = "dump", Active, pos' = "idle",
           SoundDevice /\ faults = 0 => Passed = Due
    PROVE  PrintedSoFar' /\ DumpExact'
<1>1. PrintedSoFar'
  BY DEF PrintedSoFar
<1>2. Due' = Due /\ (SoundDevice' <=> SoundDevice)
  BY DueKept
<1>3. SoundDevice /\ faults = 0 => Prints(printed, Due)
  BY DEF ExactInv, PrintedSoFar, Active
<1> HIDE DEF Due, SoundDevice
<1>4. DumpExact'
  BY <1>2, <1>3 DEF ExactInv, DumpExact, Prints
<1> QED
  BY <1>1, <1>4

(* A step that prints the next entry. *)
LEMMA PrintingStep ==
    ASSUME ExactInv, content' = content, UNCHANGED faults, user = "dump", Active,
           user' \in {"dump", "done"}, user' = "done" => ~Active',
           NEW p, printed' = Append(printed, p),
           SoundDevice /\ faults = 0 =>
              \E e0 \in Due :
                 /\ SameEntry(p, e0)
                 /\ \A e \in Due : Precedes(e, e0) <=> Behind(e)
                 /\ Active' => Passed' = Passed \union {e0}
                 /\ user' = "done" => Due = Passed \union {e0}
    PROVE  PrintedSoFar' /\ DumpExact'
<1>1. Due' = Due /\ (SoundDevice' <=> SoundDevice)
  BY DueKept
<1>2. SUFFICES ASSUME SoundDevice, faults = 0 PROVE PrintedSoFar' /\ DumpExact'
  BY <1>1 DEF PrintedSoFar, DumpExact
<1>3. PICK e0 \in Due :
         /\ SameEntry(p, e0)
         /\ \A e \in Due : Precedes(e, e0) <=> Behind(e)
         /\ Active' => Passed' = Passed \union {e0}
         /\ user' = "done" => Due = Passed \union {e0}
  BY <1>2
<1>4. Prints(printed, Passed) /\ printed \in Seq(Entries)
  BY <1>2 DEF ExactInv, PrintedSoFar, Active, LoopInv, DescInv
<1>5. Passed \subseteq Due /\ \A e \in Due : Precedes(e, e0) <=> e \in Passed
  BY <1>3 DEF Passed
<1> HIDE DEF Due, Passed, SoundDevice, Active
<1> DEFINE n == Len(printed)
<1>6. /\ Prints(printed', Passed \union {e0})
      /\ DOMAIN printed' = DOMAIN printed \union {n + 1}
      /\ \A j \in DOMAIN printed : j < n + 1 /\ printed'[j] = printed[j]
      /\ printed'[n + 1] = p
      /\ \A e \in Due : Precedes(e, p) => \E i \in 1 .. n : SameEntry(printed[i], e)
  <2>1. ASSUME NEW S, S = Passed, NEW U, U = Due
        PROVE  LET Q == Append(printed, p)
               IN /\ Prints(Q, S \union {e0})
                  /\ DOMAIN Q = DOMAIN printed \union {n + 1}
                  /\ \A j \in DOMAIN printed : j < n + 1 /\ Q[j] = printed[j]
                  /\ Q[n + 1] = p
                  /\ \A i \in 1 .. n : Precedes(printed[i], p)
                  /\ \A e \in U : Precedes(e, p) => \E i \in 1 .. n : SameEntry(printed[i], e)
    <3>1. S \subseteq U /\ Prints(printed, S) /\ e0 \in U /\ SameEntry(p, e0)
          /\ (\A e \in U : Precedes(e, e0) <=> e \in S)
      BY <1>3, <1>4, <1>5, <2>1
    <3>2. printed \in Seq(Entries)
      BY <1>4
    <3>3. Prints(printed, S) /\ SameEntry(p, e0)
      BY <3>1
    <3> QED
      BY <3>1, <3>2, <3>3, PrintsMore, SMT
  <2> QED
    BY <2>1
<1>7. PrintedSoFar'
  BY <1>3, <1>6 DEF PrintedSoFar, Active
<1>8. n \in Nat /\ DOMAIN printed = 1 .. n
  BY <1>4, LenProperties
<1>9. ASSUME NEW j \in DOMAIN printed'
      PROVE  /\ \E e \in Due : SameEntry(printed'[j], e)
             /\ \A i \in 1 .. j - 1 : Precedes(printed'[i], printed'[j])
             /\ \A e \in Due : Precedes(e, printed'[j]) =>
                   \E i \in 1 .. j - 1 : SameEntry(printed'[i], e)
  <2>1. \A i \in 1 .. j - 1 : Precedes(printed'[i], printed'[j])
    BY <1>6 DEF Prints
  <2>2. \E e \in Due : SameEntry(printed'[j], e)
    BY <1>5, <1>6 DEF Prints
  <2>3. ASSUME NEW e \in Due, Precedes(e, printed'[j])
        PROVE  \E i \in 1 .. j - 1 : SameEntry(printed'[i], e)
    <3>1. \E i \in 1 .. j - 1 : i \in 1 .. n /\ SameEntry(printed[i], e)
      <4>1. CASE j = n + 1
        <5>1. PICK i \in 1 .. n : SameEntry(printed[i], e)
          BY <1>6, <2>3, <4>1
        <5>2. i \in 1 .. j - 1
          BY <1>8, <4>1
        <5> QED
          BY <5>1, <5>2
      <4>2. CASE j \in 1 .. n
        <5>1. Precedes(e, printed[j])
          BY <1>6, <1>8, <2>3, <4>2
        <5>2. PICK i \in 1 .. j - 1 : SameEntry(printed[i], e)
          BY <1>2, <1>8, <4>2, <5>1 DEF ExactInv, DumpExact
        <5>3. i \in 1 .. n
          BY <1>8, <4>2
        <5> QED
          BY <5>2, <5>3
      <4> QED
        BY <1>6, <1>8, <4>1, <4>2
    <3> QED
      BY <1>6, <1>8, <3>1
  <2> QED
    BY <2>1, <2>2, <2>3
<1>10. user' = "done" => \A e \in Due : \E j \in DOMAIN printed' : SameEntry(printed'[j], e)
  BY <1>3, <1>6 DEF Prints
<1>11. DumpExact'
  BY <1>1, <1>9, <1>10 DEF DumpExact
<1> QED
  BY <1>7, <1>11

-----------------------------------------------------------------------------
(* The steps, as far as the printing goes. *)

(* What is passed stays passed if the place says the same. *)
LEMMA PassedIs ==
    ASSUME content' = content, NEW S,
           \A e \in Due : Behind(e)' <=> (Behind(e) \/ e \in S), S \subseteq Due
    PROVE  Passed' = Passed \union S
<1>1. Due' = Due
  BY DueKept
<1> HIDE DEF Due, Behind
<1>2. Passed' = {e \in Due : Behind(e)'}
  BY <1>1 DEF Passed
<1> QED
  BY <1>2 DEF Passed

(* Where nothing is passed, what is passed stays the same. *)
LEMMA PassedSame ==
    ASSUME content' = content, \A e \in Due : Behind(e)' <=> Behind(e)
    PROVE  Passed' = Passed
<1>1. Due' = Due
  BY DueKept
<1> HIDE DEF Due, Behind
<1>2. Passed' = {e \in Due : Behind(e)'}
  BY <1>1 DEF Passed
<1> QED
  BY <1>2 DEF Passed

(* The reads of the dump print nothing. *)
LEMMA FirstReadPrints ==
    ASSUME DescriptorsAssumption, ExactInv, FirstRead
    PROVE  PrintedSoFar' /\ DumpExact'
<1>1. /\ pos = "first" /\ content' = content /\ (Fault \/ UNCHANGED faults)
      /\ buf \in [type : AppTypes \union {"config", "string", "none"}, index : Nat, got : 0 .. BufferMaxSize]
      /\ user = "dump" => buf.type \in {"string", "device", "config"}
  BY DEF FirstRead, Transferred, Inner, ExactInv, LoopInv, DescInv, TypeOK, Placed
<1>2. PICK got :
         \/ GetFails
         \/ /\ buf.type = "config" /\ pos' = "second" /\ buf' = [buf EXCEPT !.got = got]
            /\ UNCHANGED <<wlen, user, offset, k, printed>>
         \/ buf.type # "config" /\ GetReturns(got)
  BY DEF FirstRead, Transferred
<1>3. user' = user /\ printed' = printed
  BY <1>2 DEF GetFails, GetReturns
<1>4. ASSUME user = "dump", Active' PROVE Active /\ Passed' = Passed
  <2>1. Active
    BY <1>1 DEF Active
  <2>2. CASE buf.type = "config" /\ pos' = "second" /\ buf' = [buf EXCEPT !.got = got]
    <3>1. buf'.type = "config" /\ buf'.index = buf.index
      BY <1>1, <2>2
    <3>2. \A e \in Due : Behind(e)' <=> Behind(e)
      BY <1>1, <2>2, <3>1 DEF Behind
    <3> QED
      BY <1>1, <2>1, <3>2, PassedSame
  <2>3. CASE buf.type = "string" /\ GetReturns(got)
    <3>1. pos' = "first" /\ buf'.type = "device"
      BY <1>4, <2>3 DEF GetReturns
    <3>2. \A e \in Due : Behind(e)' <=> Behind(e)
      BY <1>1, <2>3, <3>1 DEF Behind
    <3> QED
      BY <1>1, <2>1, <3>2, PassedSame
  <2>4. CASE buf.type = "device" /\ GetReturns(got)
    <3>1. pos' = "names" /\ k' = 1
      BY <1>4, <2>4 DEF GetReturns
    <3>2. \A e \in Due : e.kind = "device" => ~(e.at < 1)
      <4>1. content \in Contents
        BY DEF ExactInv, LoopInv, DescInv, TypeOK
      <4>2. \A j \in DOMAIN content.names : ~(j < 1)
        BY <4>1 DEF DescriptorsAssumption
      <4> QED
        BY <4>1, <4>2, DueAt
    <3>3. \A e \in Due : Behind(e)' <=> Behind(e)
      BY <1>1, <2>4, <3>1, <3>2 DEF Behind
    <3> QED
      BY <1>1, <2>1, <3>3, PassedSame
  <2>5. ~GetFails
    BY <1>4 DEF GetFails, Active
  <2> QED
    BY <1>1, <1>2, <1>4, <2>2, <2>3, <2>4, <2>5
<1> QED
  BY <1>1, <1>3, <1>4, QuietStep

(* The second read of a configuration prints nothing (usb.c:162-166).      *)
LEMMA SecondReadPrints ==
    ASSUME DescriptorsAssumption, ExactInv, SecondRead
    PROVE  PrintedSoFar' /\ DumpExact'
<1>1. /\ pos = "second" /\ content' = content /\ buf.type = "config"
      /\ buf \in [type : AppTypes \union {"config", "string", "none"}, index : Nat, got : 0 .. BufferMaxSize]
      /\ Fault \/ UNCHANGED faults
  BY DEF SecondRead, Transferred, Inner, ExactInv, LoopInv, DescInv, TypeOK
<1>2. GetFails \/ \E got : GetReturns(got)
  BY DEF SecondRead, Transferred
<1>3. user' = user /\ printed' = printed
  BY <1>2 DEF GetFails, GetReturns
<1>4. ASSUME user = "dump", Active' PROVE Active /\ Passed' = Passed
  <2>1. PICK got : GetReturns(got)
    BY <1>2, <1>4 DEF GetFails, Active
  <2>2. pos' = "confname" /\ buf' = [buf EXCEPT !.got = got]
    BY <1>1, <1>4, <2>1 DEF GetReturns
  <2>3. buf'.type = "config" /\ buf'.index = buf.index
    BY <1>1, <2>2
  <2>4. \A e \in Due : Behind(e)' <=> Behind(e)
    BY <1>1, <2>2, <2>3 DEF Behind
  <2> QED
    BY <1>1, <2>4, PassedSame DEF Active
<1> QED
  BY <1>1, <1>3, <1>4, QuietStep

(* The strings of the device (usb.c:542-544). *)
LEMMA PrintDevicePrints ==
    ASSUME DescriptorsAssumption, ExactInv, PrintDevice
    PROVE  PrintedSoFar' /\ DumpExact'
<1>1. /\ pos = "names" /\ content' = content /\ (Fault \/ UNCHANGED faults)
      /\ \/ pos' = "undefined" /\ UNCHANGED <<user, printed>>
         \/ \E s \in {NoString, Given(content.names[k], NameAt(k))} :
               /\ UNCHANGED faults /\ printed' = Append(printed, Entry("device", 0, k, s))
               /\ IF k < Len(content.names) THEN k' = k + 1 /\ UNCHANGED <<pos, user, buf>>
                  ELSE IF buf.got = DeviceSize THEN NextConfiguration(0) ELSE DumpEnds
  BY DEF PrintDevice, GetString, Inner, NamePrinted
<1>2. /\ user = "dump" /\ content \in Contents /\ k \in 1 .. Len(content.names) /\ Active
  BY <1>1 DEF ExactInv, LoopInv, DescInv, TypeOK, Placed, InLoop, Separate, Active
<1>3. Len(content.names) = 3 /\ DOMAIN content.names = 1 .. 3
  BY <1>2 DEF DescriptorsAssumption
<1>4. CASE pos' = "undefined" /\ UNCHANGED <<user, printed>>
  BY <1>1, <1>4, QuietStep DEF Active
<1>5. ASSUME NEW s \in {NoString, Given(content.names[k], NameAt(k))}, UNCHANGED faults, faults = 0,
             printed' = Append(printed, Entry("device", 0, k, s)),
             IF k < Len(content.names) THEN k' = k + 1 /\ UNCHANGED <<pos, user, buf>>
             ELSE IF buf.got = DeviceSize THEN NextConfiguration(0) ELSE DumpEnds
      PROVE  PrintedSoFar' /\ DumpExact'
  <2>0. buf.got = DeviceSize /\ s \in {NoString, content.names[k]}
    <3>1. buf.got = DeviceSize
      BY <1>1, <1>5 DEF ExactInv, LoopInv, InLoop, Separate
    <3>2. k \in 1 .. 3
      BY <1>2, <1>3
    <3>3. Given(content.names[k], NameAt(k)) = content.names[k]
      BY <3>1, <3>2 DEF Given, NameAt, DeviceSize
    <3> QED
      BY <1>5, <3>1, <3>3
  <2> DEFINE e0 == DeviceDue(k)
  <2>1. e0 \in Due /\ e0.kind = "device" /\ e0.conf = 0 /\ e0.at = k /\ e0.name = content.names[k]
    <3>1. e0 \in Due
      BY <1>2, <1>3, DueSorts
    <3> QED
      BY <3>1, EntryIs DEF DeviceDue
  <2>2. SameEntry(Entry("device", 0, k, s), e0)
    BY <2>0, <2>1, EntryIs DEF SameEntry
  <2>3. \A e \in Due : /\ e.conf \in Nat /\ (e.kind # "device" => HasConfiguration(e.conf))
                       /\ e.kind = "device" => e.at \in 1 .. 3 /\ (e.at = k => e = e0)
    BY <1>2, <1>3, DueAt
  <2> HIDE DEF e0
  <2>4. \A e \in Due : Precedes(e, e0) <=> Behind(e)
    BY <1>1, <2>1 DEF Precedes, Behind
  <2>5. CASE k < Len(content.names)
    <3>1. k' = k + 1 /\ pos' = "names" /\ user' = user
      BY <1>1, <1>5, <2>5
    <3>2. \A e \in Due : Behind(e)' <=> (Behind(e) \/ e \in {e0})
      <4>1. ASSUME NEW e \in Due, e.kind = "device" PROVE e.at < k + 1 <=> (e.at < k \/ e.at = k)
        <5>1. e.at \in 1 .. 3 /\ k \in 1 .. 3
          BY <1>2, <1>3, <2>3, <4>1
        <5>2. \A m, n \in 1 .. 3 : m < n + 1 <=> (m < n \/ m = n)
          OBVIOUS
        <5> QED
          BY <5>1, <5>2
      <4> QED
        BY <1>1, <2>1, <2>3, <3>1, <4>1 DEF Behind
    <3>3. Passed' = Passed \union {e0}
      BY <1>1, <2>1, <3>2, PassedIs
    <3> QED
      BY <1>1, <1>2, <1>5, <2>1, <2>2, <2>4, <3>1, <3>3, PrintingStep
  <2>6. CASE ~(k < Len(content.names)) /\ HasConfiguration(0)
    <3>1. pos' = "first" /\ buf'.type = "config" /\ buf'.index = 0 /\ user' = user
      BY <1>5, <2>0, <2>6 DEF NextConfiguration, ToConfiguration
    <3>2. \A e \in Due : Behind(e)' <=> (Behind(e) \/ e \in {e0})
      <4>1. ASSUME NEW e \in Due, e.kind = "device" PROVE e.at < k \/ e.at = k
        BY <1>2, <1>3, <2>3, <2>6, <4>1
      <4>2. ASSUME NEW e \in Due PROVE ~(e.conf < 0)
        BY <2>3
      <4> QED
        BY <1>1, <2>1, <2>3, <3>1, <4>1, <4>2 DEF Behind
    <3>3. Passed' = Passed \union {e0}
      BY <1>1, <2>1, <3>2, PassedIs
    <3> QED
      BY <1>1, <1>2, <1>5, <2>1, <2>2, <2>4, <3>1, <3>3, PrintingStep
  <2>7. CASE ~(k < Len(content.names)) /\ ~HasConfiguration(0)
    <3>1. pos' = "idle" /\ user' = "done"
      BY <1>5, <2>0, <2>7 DEF NextConfiguration, DumpEnds
    <3>2. ASSUME NEW e \in Due PROVE Behind(e) \/ e = e0
      <4>1. ~HasConfiguration(e.conf)
        <5>1. Len(content.configurations) \in Nat
          BY <1>2, LenProperties DEF DescriptorsAssumption
        <5> QED
          BY <2>3, <2>7, <5>1 DEF HasConfiguration
      <4>2. e.kind = "device"
        BY <2>3, <4>1
      <4>3. e.at < k \/ e.at = k
        BY <1>2, <1>3, <2>3, <2>7, <4>2
      <4> QED
        BY <1>1, <2>3, <4>2, <4>3 DEF Behind
    <3>3. Due = Passed \union {e0}
      BY <2>1, <3>2 DEF Passed
    <3> QED
      BY <1>1, <1>2, <1>5, <2>1, <2>2, <2>4, <3>1, <3>3, PrintingStep DEF Active
  <2> QED
    BY <2>5, <2>6, <2>7
<1>6. CASE faults # 0 /\ UNCHANGED faults
  BY <1>6 DEF PrintedSoFar, DumpExact
<1> QED
  BY <1>1, <1>4, <1>5, <1>6

(* What is due of the configuration that is walked over. *)
LEMMA DueHere ==
    ASSUME DescriptorsAssumption, ExactInv, pos \in {"confname", "walk", "ifname"}
    PROVE  /\ user = "dump" /\ Active /\ content \in Contents /\ buf.type = "config"
           /\ buf.index \in Nat /\ HasConfiguration(buf.index) /\ Conf \in Configuration
           /\ \A e \in Due :
                 /\ e.conf \in Nat /\ e.at \in Nat
                 /\ e.kind # "device" /\ e.conf = buf.index =>
                       /\ e.at = 0 => e = ConfDue(buf.index)
                       /\ e.at # 0 => e = DescDue(buf.index, e.at) /\ e.at \in DOMAIN Conf.descriptors
                                      /\ Conf.descriptors[e.at].type # "other"
<1>1. /\ user = "dump" /\ Active /\ content \in Contents /\ buf.type = "config"
      /\ buf.index \in Nat /\ HasConfiguration(buf.index) /\ Conf \in Configuration
  BY DumpFacts DEF ExactInv, LoopInv, InLoop, Separate, Active
<1>2. Shown(buf.index) = DOMAIN Conf.descriptors \ OfType(Conf, "other")
  BY DEF Shown, Conf
<1>3. \A j \in Shown(buf.index) : j \in DOMAIN Conf.descriptors /\ Conf.descriptors[j].type # "other"
  BY <1>2 DEF OfType
<1> QED
  BY <1>1, <1>3, DueAt

(* The string of a configuration (usb.c:580-603). *)
LEMMA PrintConfigPrints ==
    ASSUME DescriptorsAssumption, ExactInv, PrintConfig
    PROVE  PrintedSoFar' /\ DumpExact'
<1>1. /\ pos = "confname" /\ content' = content /\ (Fault \/ UNCHANGED faults)
      /\ \/ pos' = "undefined" /\ UNCHANGED <<user, printed>>
         \/ \E s \in {NoString, Header.name} :
               /\ UNCHANGED <<faults, user, buf>> /\ pos' = "walk" /\ k' = 1
               /\ printed' = Append(printed, Entry("config", buf.index, 0, s))
  BY DEF PrintConfig, GetString, Inner, ConfPrinted
<1>2. CASE pos' = "undefined" /\ UNCHANGED <<user, printed>>
  BY <1>1, <1>2, QuietStep DEF Active
<1>3. ASSUME NEW s \in {NoString, Header.name}, UNCHANGED <<faults, user, buf>>, pos' = "walk", k' = 1, faults = 0,
             printed' = Append(printed, Entry("config", buf.index, 0, s))
      PROVE  PrintedSoFar' /\ DumpExact'
  <2> DEFINE e0 == ConfDue(buf.index)
  <2>1. /\ e0 \in Due /\ e0.kind = "config" /\ e0.conf = buf.index /\ e0.at = 0
        /\ e0.name = Conf.name
    <3>1. e0 \in Due
      BY <1>1, DueHere, DueSorts
    <3> QED
      BY <3>1, EntryIs DEF ConfDue, Conf
  <2>2. SameEntry(Entry("config", buf.index, 0, s), e0)
    <3>1. Header.name = Conf.name
      BY <1>1, <1>3, DumpHeader DEF ExactInv
    <3> QED
      BY <1>3, <2>1, <3>1, EntryIs DEF SameEntry
  <2>3. \A e \in Due :
           /\ e.conf \in Nat /\ e.at \in Nat
           /\ e.kind # "device" /\ e.conf = buf.index /\ e.at = 0 => e = e0
    BY <1>1, DueHere
  <2>4. user = "dump" /\ Active /\ buf.type = "config" /\ buf.index \in Nat
    BY <1>1, DueHere
  <2> HIDE DEF e0
  <2>5. \A e \in Due : ~(e.at < 0) /\ (e.at < 1 <=> e.at = 0)
    BY <2>3
  <2>6. \A e \in Due : Precedes(e, e0) <=> Behind(e)
    BY <1>1, <2>1, <2>3, <2>4, <2>5 DEF Precedes, Behind
  <2>7. \A e \in Due : Behind(e)' <=> (Behind(e) \/ e \in {e0})
    BY <1>1, <1>3, <2>1, <2>3, <2>4, <2>5 DEF Behind
  <2>8. Passed' = Passed \union {e0}
    BY <1>1, <2>1, <2>7, PassedIs
  <2> QED
    BY <1>1, <1>3, <2>1, <2>2, <2>4, <2>6, <2>8, PrintingStep
<1>4. CASE faults # 0 /\ UNCHANGED faults
  BY <1>4 DEF PrintedSoFar, DumpExact
<1> QED
  BY <1>1, <1>2, <1>3, <1>4

(* The entry of the descriptor the dump stands on (usb.c:409-421). *)
LEMMA DescriptorPrints ==
    ASSUME DescriptorsAssumption, ExactInv, pos \in {"walk", "ifname"}, pos' = "walk",
           content' = content, UNCHANGED <<faults, user, buf>>,
           NEW d, d = At(Conf), d.type # "other", NEW s \in {NoString, d.name},
           d.type # "interface" => s = NoString,
           faults = 0 /\ Sound(Conf) => offset < Conf.total,
           DescPrinted(d, s), Advance(d)
    PROVE  PrintedSoFar' /\ DumpExact'
<1>1. /\ user = "dump" /\ Active /\ content \in Contents /\ buf.type = "config"
      /\ buf.index \in Nat /\ HasConfiguration(buf.index) /\ Conf \in Configuration
      /\ BufferMaxSize \in Nat
  BY DueHere DEF DescriptorsAssumption
<1> DEFINE p == [Entry(d.type, buf.index, k, s) EXCEPT
                   !.shown = IF d.type = "endpoint" THEN Decoded(d) ELSE @]
<1>2. printed' = Append(printed, p)
  BY DEF DescPrinted
<1>3. p.kind = d.type /\ p.conf = buf.index /\ p.at = k /\ p.name = s
  BY DEF Entry
<1> HIDE DEF p
<1>4. ASSUME SoundDevice, faults = 0
      PROVE  \E e0 \in Due :
                /\ SameEntry(p, e0)
                /\ \A e \in Due : Precedes(e, e0) <=> Behind(e)
                /\ Active' => Passed' = Passed \union {e0}
                /\ user' = "done" => Due = Passed \union {e0}
  <2>1. Sound(Conf)
    BY <1>1, <1>4 DEF SoundDevice, Conf, Range, HasConfiguration, DescriptorsAssumption
  <2>2. Stands(Conf) /\ buf.got = Conf.total /\ offset < Conf.total
    BY <1>4, <2>1, DumpAt DEF ExactInv
  <2>3. /\ k \in DOMAIN Conf.descriptors /\ k \in 1 .. Len(Conf.descriptors)
        /\ d = Conf.descriptors[k] /\ d \in Descriptor /\ k' = k + 1
    BY <1>1, <2>1, <2>2, LoopAt, LoopAdvances
  <2> DEFINE e0 == DescDue(buf.index, k)
  <2>4. /\ e0.kind = d.type /\ e0.conf = buf.index /\ e0.at = k
        /\ e0.name = IF d.type = "interface" THEN d.name ELSE NoString
    <3>1. d = content.configurations[buf.index + 1].descriptors[k]
      BY <2>3 DEF Conf
    <3>2. e0 = Entry(d.type, buf.index, k, IF d.type = "interface" THEN d.name ELSE NoString)
      BY <3>1 DEF DescDue
    <3> QED
      BY <3>2, EntryIs
  <2>5. e0 \in Due
    <3>1. k \in Shown(buf.index)
      BY <2>3 DEF Shown, OfType, Conf
    <3> QED
      BY <1>1, <3>1, DueSorts
  <2>6. d.type # "device" /\ k \in Nat /\ k # 0
    BY <2>3 DEF Descriptor, DescriptorTypes
  <2>7. SameEntry(p, e0)
    BY <1>3, <2>4 DEF SameEntry
  <2>8. \A e \in Due :
           /\ e.at \in Nat
           /\ e.kind # "device" /\ e.conf = buf.index /\ e.at = k => e = e0
    BY <1>1, <2>6, DueHere
  <2> HIDE DEF e0
  <2>9. \A e \in Due : Precedes(e, e0) <=> Behind(e)
    BY <2>4, <2>6 DEF Precedes, Behind
  <2>10. \A e \in Due : e.at < k + 1 <=> (e.at < k \/ e.at = k)
    BY <2>6, <2>8
  <2>11. \A e \in Due : Behind(e)' <=> (Behind(e) \/ e \in {e0})
    BY <2>3, <2>4, <2>6, <2>8, <2>10 DEF Behind
  <2>12. Passed' = Passed \union {e0}
    BY <2>5, <2>11, PassedIs
  <2> QED
    BY <1>1, <2>5, <2>7, <2>9, <2>12
<1> QED
  BY <1>1, <1>2, <1>4, PrintingStep

(* An interface is printed with its string (usb.c:605-633). *)
LEMMA PrintInterfacePrints ==
    ASSUME DescriptorsAssumption, ExactInv, PrintInterface
    PROVE  PrintedSoFar' /\ DumpExact'
<1> DEFINE d == At(Conf)
<1>1. /\ pos = "ifname" /\ content' = content /\ (Fault \/ UNCHANGED faults)
      /\ \/ pos' = "undefined" /\ UNCHANGED <<user, printed>>
         \/ \E s \in {NoString, d.name} :
               /\ UNCHANGED <<faults, user, buf>> /\ pos' = "walk"
               /\ DescPrinted(d, s) /\ Advance(d)
  BY DEF PrintInterface, GetString, Inner
<1>2. CASE pos' = "undefined" /\ UNCHANGED <<user, printed>>
  BY <1>1, <1>2, QuietStep DEF Active
<1>3. ASSUME NEW s \in {NoString, d.name}, UNCHANGED <<faults, user, buf>>, pos' = "walk",
             DescPrinted(d, s), Advance(d)
      PROVE  PrintedSoFar' /\ DumpExact'
  <2> HIDE DEF d
  <2>1. CASE faults # 0
    <3>1. user' = "dump" /\ faults' # 0
      BY <1>1, <1>3, <2>1, DueHere
    <3> QED
      BY <3>1 DEF PrintedSoFar, DumpExact
  <2>2. CASE ~Sound(Conf)
    <3>1. ~SoundDevice
      BY <1>1, <2>2, DueHere DEF SoundDevice, Conf, Range, HasConfiguration, DescriptorsAssumption
    <3>2. ~SoundDevice'
      BY <1>1, <3>1, DueKept
    <3> QED
      BY <3>2 DEF PrintedSoFar, DumpExact
  <2>3. CASE faults = 0 /\ Sound(Conf)
    <3>1. Stands(Conf) /\ buf.got = Conf.total /\ Conf \in Configuration
      BY <1>1, <2>3, DumpAt, DueHere DEF ExactInv
    <3>2. k \in DOMAIN Conf.descriptors /\ Conf.descriptors[k].type = "interface"
      BY <1>1, <2>3 DEF ExactInv, LoopInv, InLoop, InStep, OfType
    <3>3. offset < Conf.total
      <4>1. k # Len(Conf.descriptors) + 1
        BY <3>1, <3>2 DEF Configuration
      <4> QED
        BY <2>3, <3>1, <4>1, LoopOver
    <3>4. d.type = "interface"
      BY <2>3, <3>1, <3>2, <3>3, LoopAt DEF d, DescriptorsAssumption
    <3> QED
      BY <1>1, <1>3, <3>3, <3>4, DescriptorPrints DEF d
  <2> QED
    BY <2>1, <2>2, <2>3
<1> QED
  BY <1>1, <1>2, <1>3

(* A turn of the dump's loop: an endpoint or an association is printed,    *)
(* another class's descriptor is not, and behind the last of them all of   *)
(* the configuration was (usb.c:407-422).                                  *)
LEMMA WalkPrints ==
    ASSUME DescriptorsAssumption, ExactInv, Walk
    PROVE  PrintedSoFar' /\ DumpExact'
<1> DEFINE d == At(Conf)
<1>1. /\ pos = "walk" /\ content' = content /\ UNCHANGED faults
  BY DEF Walk
<1>2. /\ user = "dump" /\ Active /\ content \in Contents /\ buf.type = "config"
      /\ buf.index \in Nat /\ HasConfiguration(buf.index) /\ Conf \in Configuration
      /\ BufferMaxSize \in Nat
  BY <1>1, DueHere DEF DescriptorsAssumption
<1>3. SoundDevice => Sound(Conf)
  BY <1>2 DEF SoundDevice, Conf, Range, HasConfiguration, DescriptorsAssumption
<1>4. ASSUME SoundDevice, faults = 0 PROVE Stands(Conf) /\ buf.got = Conf.total
  BY <1>1, <1>3, <1>4, DumpAt DEF ExactInv
<1>5. CASE ~(offset < Header.total) /\ NextConfiguration(buf.index + 1) /\ UNCHANGED printed
  <2>1. ASSUME SoundDevice, faults = 0, NEW e \in Due, e.kind # "device"
        PROVE  e.conf = buf.index => e.at < k
    <3>1. k = Len(Conf.descriptors) + 1 /\ Len(Conf.descriptors) \in Nat
      <4>1. ~(offset < Conf.total)
        BY <1>1, <1>5, <2>1, DumpHeader DEF ExactInv
      <4> QED
        BY <1>2, <1>3, <1>4, <2>1, <4>1, LoopOver DEF Configuration
    <3>2. e.conf = buf.index /\ e.at # 0 => e.at \in 1 .. Len(Conf.descriptors)
      <4>1. e.conf = buf.index /\ e.at # 0 => e.at \in DOMAIN Conf.descriptors
        BY <1>1, <2>1, DueHere
      <4>2. Conf.descriptors \in Seq(Descriptor)
        BY <1>2 DEF Configuration
      <4> QED
        BY <4>1, <4>2, LenProperties
    <3> QED
      BY <3>1, <3>2
  <2>2. CASE HasConfiguration(buf.index + 1)
    <3>1. /\ pos' = "first" /\ buf'.type = "config" /\ buf'.index = buf.index + 1 /\ user' = user
      BY <1>5, <2>2 DEF NextConfiguration, ToConfiguration, DumpEnds
    <3>2. ASSUME SoundDevice, faults = 0 PROVE \A e \in Due : Behind(e)' <=> Behind(e)
      <4>1. ASSUME NEW e \in Due
            PROVE  e.conf < buf.index + 1 <=> (e.conf < buf.index \/ e.conf = buf.index)
        <5>1. e.conf \in Nat
          BY <1>1, DueHere
        <5> QED
          BY <1>2, <5>1
      <4> QED
        BY <1>1, <1>2, <2>1, <3>1, <3>2, <4>1 DEF Behind
    <3> QED
      BY <1>1, <1>2, <1>5, <3>1, <3>2, PassedSame, QuietStep
  <2>3. CASE ~HasConfiguration(buf.index + 1)
    <3>1. pos' = "idle" /\ user' = "done"
      BY <1>5, <2>3 DEF NextConfiguration, ToConfiguration, DumpEnds
    <3>2. ASSUME SoundDevice, faults = 0, NEW e \in Due PROVE Behind(e)
      <4>1. CASE e.kind = "device"
        BY <1>1, <4>1 DEF Behind
      <4>2. CASE e.kind # "device"
        <5>1. HasConfiguration(e.conf) /\ e.conf \in Nat
          BY <1>2, <4>2, DueAt
        <5>2. Len(content.configurations) \in Nat
          BY <1>2, LenProperties DEF DescriptorsAssumption
        <5>3. e.conf < buf.index \/ e.conf = buf.index
          BY <1>2, <2>3, <5>1, <5>2 DEF HasConfiguration
        <5> QED
          BY <1>1, <2>1, <3>2, <4>2, <5>3 DEF Behind
      <4> QED
        BY <4>1, <4>2
    <3>3. SoundDevice /\ faults = 0 => Passed = Due
      BY <3>2 DEF Passed
    <3> QED
      BY <1>1, <1>2, <1>5, <3>1, <3>3, LastStep
  <2> QED
    BY <2>2, <2>3
<1>6. CASE Outside /\ UNCHANGED <<user, buf, printed>>
  BY <1>1, <1>6, QuietStep DEF Outside, Active
<1>7. CASE pos' = "ifname" /\ UNCHANGED <<offset, k, printed, user, buf>>
  <2>1. \A e \in Due : Behind(e)' <=> Behind(e)
    BY <1>1, <1>7 DEF Behind
  <2> QED
    BY <1>1, <1>2, <1>7, <2>1, PassedSame, QuietStep
<1>8. CASE /\ offset < Header.total /\ d.type \in {"endpoint", "association"} /\ pos' = pos
           /\ DescPrinted(d, NoString) /\ Advance(d) /\ UNCHANGED <<user, buf>>
  <2>1. NoString \in {NoString, d.name} /\ d.type # "other" /\ pos' = "walk"
    BY <1>1, <1>8
  <2>2. faults = 0 => offset < Conf.total
    BY <1>1, <1>8, DumpHeader DEF ExactInv
  <2> QED
    BY <1>1, <1>8, <2>1, <2>2, DescriptorPrints
<1>9. CASE /\ offset < Header.total /\ d.type = "other" /\ pos' = pos
           /\ Advance(d) /\ UNCHANGED <<user, buf, printed>>
  <2>1. ASSUME SoundDevice, faults = 0 PROVE \A e \in Due : Behind(e)' <=> Behind(e)
    <3>1. k' = k + 1 /\ d = Conf.descriptors[k] /\ k \in Nat /\ k # 0
      <4>1. k \in 1 .. Len(Conf.descriptors) /\ d = Conf.descriptors[k] /\ k' = k + 1
        <5>1. offset < Conf.total
          BY <1>1, <1>9, <2>1, DumpHeader DEF ExactInv
        <5> QED
          BY <1>2, <1>3, <1>4, <1>9, <2>1, <5>1, LoopAt, LoopAdvances
      <4> QED
        BY <4>1
    <3>2. ASSUME NEW e \in Due, e.kind # "device", e.conf = buf.index
          PROVE  e.at < k + 1 <=> e.at < k
      <4>1. e.at \in Nat /\ (e.at # 0 => Conf.descriptors[e.at].type # "other")
        BY <1>1, <3>2, DueHere
      <4>2. e.at # k
        BY <1>9, <3>1, <4>1
      <4> QED
        BY <3>1, <4>1, <4>2
    <3> HIDE DEF d
    <3> QED
      BY <1>1, <1>9, <3>1, <3>2 DEF Behind
  <2> QED
    BY <1>1, <1>2, <1>9, <2>1, PassedSame, QuietStep
<1> QED
  BY <1>5, <1>6, <1>7, <1>8, <1>9, WalkCases DEF ExactInv, LoopInv

(* A dump begins with nothing printed. *)
LEMMA DumpStarts ==
    ASSUME usb_dump_device
    PROVE  PrintedSoFar' /\ DumpExact'
<1>1. pos' = "first" /\ buf'.type = "string" /\ printed' = <<>> /\ user' = "dump"
  BY DEF usb_dump_device
<1>2. \A e : ~Behind(e)'
  BY <1>1 DEF Behind
<1>3. Passed' = {}
  BY <1>2 DEF Passed
<1>4. Prints(<<>>, {})
  BY DEF Prints
<1> QED
  BY <1>1, <1>3, <1>4 DEF PrintedSoFar, DumpExact

(* Steps that leave these functions alone. *)
LEMMA DumpUnchanged ==
    ASSUME ExactInv, UNCHANGED descVars
    PROVE  PrintedSoFar' /\ DumpExact'
<1>1. UNCHANGED <<content, pos, user, buf, k, printed, faults>>
  BY DEF descVars
<1>2. \A e \in Due : Behind(e)' <=> Behind(e)
  BY <1>1 DEF Behind
<1>3. Passed' = Passed
  BY <1>1, <1>2, PassedSame
<1> QED
  BY <1>1, <1>3, QuietStep DEF Active

(* The application's calls. *)
LEMMA ApplicationPrints ==
    ASSUME DescriptorsAssumption, ExactInv, Application
    PROVE  PrintedSoFar' /\ DumpExact'
<1>1. CASE UNCHANGED descVars
  BY <1>1, DumpUnchanged
<1>2. CASE usb_dump_device
  BY <1>2, DumpStarts
<1>3. ASSUME NEW index, usb_get_string(index) PROVE PrintedSoFar' /\ DumpExact'
  <2>1. /\ pos = "idle" /\ content' = content /\ UNCHANGED <<user, printed>>
        /\ pos' \in {"idle", "undefined"} /\ (Fault \/ UNCHANGED faults)
    BY <1>3 DEF usb_get_string, GetString, Inner
  <2> QED
    BY <2>1, QuietStep DEF Active
<1>4. CASE user' = "app"
  BY <1>4, NoDump
<1>5. release_descriptor \/ ParseDevice \/ ParseConfig \/ usb_set_descriptor => user' = "app"
  BY DEF release_descriptor, ParseDevice, ParseConfig, usb_set_descriptor, Pure
<1>6. \A type, index : usb_get_descriptor(type, index) => user' = "app"
  BY DEF usb_get_descriptor
<1> QED
  BY <1>1, <1>2, <1>3, <1>4, <1>5, <1>6 DEF Application

(* ExactInv is inductive. *)
LEMMA ExactKept ==
    ASSUME ControlAssumption, DescriptorsAssumption, ExactInv, [Next]_allVars
    PROVE  ExactInv'
<1>1. SUFFICES PrintedSoFar' /\ DumpExact'
  BY LoopKept DEF ExactInv
<1>2. CASE Application
  BY <1>2, ApplicationPrints
<1>3. CASE ParseStep
  <2>1. user' = "app"
    BY <1>3 DEF ParseStep, Pure
  <2> QED
    BY <2>1, NoDump
<1>4. CASE Step /\ ~ParseStep
  BY <1>4, FirstReadPrints, SecondReadPrints, PrintDevicePrints, PrintConfigPrints, WalkPrints,
     PrintInterfacePrints DEF Step
<1>5. CASE UNCHANGED descVars
  BY <1>5, DumpUnchanged
<1> QED
  BY <1>2, <1>3, <1>4, <1>5 DEF Next, allVars

-----------------------------------------------------------------------------
(* What a dump has printed is what it has passed, over any device's        *)
(* configurations.                                                         *)
THEOREM ExactInvariance == Spec => []ExactInv
<1> USE ControlAssumption, DescriptorsAssumption
<1>1. Init => ExactInv
  <2>1. Init => user = "app"
    BY DEF Init
  <2> QED
    BY <2>1, LoopInit DEF ExactInv, PrintedSoFar, DumpExact
<1>2. ExactInv /\ [Next]_allVars => ExactInv'
  BY ExactKept
<1> QED
  BY <1>1, <1>2, PTL DEF Spec

(* usb_dump_device (usb.c:372-424) prints the three strings, every         *)
(* configuration, interface, endpoint and association of any device whose  *)
(* descriptors are as long as they say: each once, in order, with its own  *)
(* string or none, nothing else, and all of them when it comes to its end. *)
THEOREM DumpsExactly == Spec => []DumpExact
<1>1. ExactInv => DumpExact
  BY DEF ExactInv
<1> QED
  BY <1>1, ExactInvariance, PTL

-----------------------------------------------------------------------------
(* What is printed of endpoints. *)

(* It was decoded from the descriptor it is printed for.                   *)
OwnEntry(e) ==
    LET c == content.configurations[e.conf + 1]
    IN /\ HasConfiguration(e.conf)
       /\ Sound(c) => e.at \in DOMAIN c.descriptors /\ e.shown = Decoded(c.descriptors[e.at])
OwnDecoding ==
    faults = 0 => \A j \in DOMAIN printed : printed[j].kind = "endpoint" => OwnEntry(printed[j])

(* A step that prints nothing, or begins a dump or another call.           *)
LEMMA NoneDecoded ==
    ASSUME OwnDecoding, faults \in Nat, Fault \/ UNCHANGED faults, content' = content,
           printed' = printed
    PROVE  OwnDecoding'
BY FaultsStay DEF OwnDecoding, OwnEntry, HasConfiguration

(* One that prints an entry.                                               *)
LEMMA OneDecoded ==
    ASSUME OwnDecoding, printed \in Seq(Entries), faults \in Nat, Fault \/ UNCHANGED faults,
           content' = content, NEW e, printed' = Append(printed, e),
           faults = 0 /\ e.kind = "endpoint" => OwnEntry(e)
    PROVE  OwnDecoding'
<1>1. ASSUME NEW j \in DOMAIN printed'
      PROVE  printed'[j] = e \/ (j \in DOMAIN printed /\ printed'[j] = printed[j])
  BY <1>1, LenProperties
<1>2. faults' = 0 => faults = 0
  BY FaultsStay
<1>3. \A f : OwnEntry(f) => OwnEntry(f)'
  BY DEF OwnEntry, HasConfiguration
<1>4. ASSUME faults' = 0, NEW j \in DOMAIN printed', printed'[j].kind = "endpoint"
      PROVE  OwnEntry(printed[j])'
  <2>1. OwnEntry(printed'[j])
    BY <1>1, <1>2, <1>4 DEF OwnDecoding
  <2> QED
    BY <1>3, <2>1
<1> QED
  BY <1>4 DEF OwnDecoding

(* The descriptor the dump stands on.                                      *)
LEMMA DescriptorDecoded ==
    ASSUME DescriptorsAssumption, LoopInv, OwnDecoding, pos \in {"walk", "ifname"},
           content' = content, UNCHANGED faults,
           pos = "walk" => offset < Header.total,
           NEW s, DescPrinted(At(Conf), s)
    PROVE  OwnDecoding'
<1> DEFINE d == At(Conf)
           e == [Entry(d.type, buf.index, k, s) EXCEPT
                   !.shown = IF d.type = "endpoint" THEN Decoded(d) ELSE @]
<1>1. printed' = Append(printed, e)
  BY DEF DescPrinted
<1>2. e.kind = d.type /\ e.conf = buf.index /\ e.at = k
      /\ (d.type = "endpoint" => e.shown = Decoded(d))
  BY DEF Entry
<1>3. /\ Conf \in Configuration /\ HasConfiguration(buf.index) /\ BufferMaxSize \in Nat
      /\ printed \in Seq(Entries) /\ faults \in Nat
  BY DumpFacts DEF LoopInv, DescInv
<1>4. ASSUME faults = 0, Sound(Conf) PROVE k \in DOMAIN Conf.descriptors /\ d = Conf.descriptors[k]
  <2>1. Stands(Conf) /\ buf.got = Conf.total
    BY <1>4, DumpAt
  <2>2. offset < Conf.total
    <3>1. CASE pos = "walk"
      BY <1>4, <3>1, DumpHeader
    <3>2. CASE pos = "ifname"
      <4>1. k \in DOMAIN Conf.descriptors
        BY <1>4, <3>2 DEF LoopInv, InLoop, InStep, OfType
      <4>2. k # Len(Conf.descriptors) + 1
        BY <1>3, <4>1 DEF Configuration
      <4> QED
        BY <1>3, <1>4, <2>1, <4>2, LoopOver
    <3> QED
      BY <3>1, <3>2
  <2> QED
    BY <1>3, <1>4, <2>1, <2>2, LoopAt
<1> HIDE DEF d, e
<1>5. faults = 0 /\ e.kind = "endpoint" => OwnEntry(e)
  BY <1>2, <1>3, <1>4 DEF OwnEntry, Conf
<1> QED
  BY <1>1, <1>3, <1>5, OneDecoded

(* The application's calls print nothing.                                  *)
LEMMA ApplicationDecodes ==
    ASSUME LoopInv, OwnDecoding, Application
    PROVE  OwnDecoding'
<1>1. faults \in Nat
  BY DEF LoopInv, DescInv, TypeOK
<1>2. CASE printed' = <<>>
  BY <1>2 DEF OwnDecoding
<1>3. CASE content' = content /\ printed' = printed /\ (Fault \/ UNCHANGED faults)
  BY <1>1, <1>3, NoneDecoded
<1>4. release_descriptor \/ ParseDevice \/ ParseConfig \/ usb_set_descriptor => printed' = <<>>
  BY DEF release_descriptor, ParseDevice, ParseConfig, usb_set_descriptor, Pure
<1>5. \A type, index : usb_get_descriptor(type, index) => printed' = <<>>
  BY DEF usb_get_descriptor
<1>6. usb_dump_device => printed' = <<>>
  BY DEF usb_dump_device
<1>7. \A index : usb_get_string(index) =>
         content' = content /\ printed' = printed /\ (Fault \/ UNCHANGED faults)
  BY DEF usb_get_string, GetString, Inner
<1>8. UNCHANGED descVars => content' = content /\ printed' = printed /\ UNCHANGED faults
  BY DEF descVars
<1> QED
  BY <1>2, <1>3, <1>4, <1>5, <1>6, <1>7, <1>8 DEF Application

(* A turn of the dump's loop.                                              *)
LEMMA WalkDecodes ==
    ASSUME DescriptorsAssumption, LoopInv, OwnDecoding, Walk
    PROVE  OwnDecoding'
<1>1. pos = "walk" /\ content' = content /\ UNCHANGED faults /\ faults \in Nat
  BY DEF Walk, LoopInv, DescInv, TypeOK
<1>2. \/ UNCHANGED printed
      \/ offset < Header.total /\ DescPrinted(At(Conf), NoString)
  BY WalkCases DEF LoopInv
<1> QED
  BY <1>1, <1>2, NoneDecoded, DescriptorDecoded

(* The steps that fetch a string.                                          *)
LEMMA StringDecodes ==
    ASSUME DescriptorsAssumption, LoopInv, OwnDecoding, PrintDevice \/ PrintConfig \/ PrintInterface
    PROVE  OwnDecoding'
<1>1. /\ content' = content /\ (Fault \/ UNCHANGED faults)
      /\ faults \in Nat /\ printed \in Seq(Entries)
  BY DEF PrintDevice, PrintConfig, PrintInterface, GetString, Inner, LoopInv, DescInv, TypeOK
<1>2. \/ UNCHANGED printed
      \/ \E s : NamePrinted(s) \/ ConfPrinted(s)
      \/ \E s : pos = "ifname" /\ UNCHANGED faults /\ DescPrinted(At(Conf), s)
  BY DEF PrintDevice, PrintConfig, PrintInterface, GetString
<1>3. ASSUME NEW s, NamePrinted(s) \/ ConfPrinted(s) PROVE OwnDecoding'
  <2>1. PICK e : printed' = Append(printed, e) /\ e.kind \in {"device", "config"}
    BY <1>3, EntryIs DEF NamePrinted, ConfPrinted
  <2> QED
    BY <1>1, <2>1, OneDecoded
<1>4. ASSUME NEW s, pos = "ifname", UNCHANGED faults, DescPrinted(At(Conf), s) PROVE OwnDecoding'
  BY <1>1, <1>4, DescriptorDecoded
<1> QED
  BY <1>1, <1>2, <1>3, <1>4, NoneDecoded

(* OwnDecoding is inductive where LoopInv holds.                           *)
LEMMA DecodingKept ==
    ASSUME DescriptorsAssumption, LoopInv, OwnDecoding, [Next]_allVars
    PROVE  OwnDecoding'
<1>1. faults \in Nat
  BY DEF LoopInv, DescInv, TypeOK
<1>2. CASE FirstRead \/ SecondRead
  <2>1. content' = content /\ printed' = printed /\ (Fault \/ UNCHANGED faults)
    BY <1>2 DEF FirstRead, SecondRead, Transferred, Inner, GetFails, GetReturns
  <2> QED
    BY <1>1, <2>1, NoneDecoded
<1>3. CASE ParseStep
  BY <1>3 DEF ParseStep, Pure, OwnDecoding
<1>4. CASE UNCHANGED descVars
  BY <1>1, <1>4, NoneDecoded DEF descVars
<1> QED
  BY <1>2, <1>3, <1>4, ApplicationDecodes, WalkDecodes, StringDecodes DEF Next, Step, allVars

(* Whatever the bytes of an endpoint descriptor are, what usb.c:694-748    *)
(* prints of it in a configuration as long as it says names its direction, *)
(* its transfer type and its packet size, its number below 8, and whether  *)
(* there is any synchronization, usage or additional transaction: it was   *)
(* decoded from the bytes of that descriptor and no other.                 *)
THEOREM EndpointsAsNamed == Spec => []EndpointsNamed
<1> USE ControlAssumption, DescriptorsAssumption
<1>1. Init => LoopInv /\ OwnDecoding
  BY LoopInit DEF Init, OwnDecoding
<1>2. LoopInv /\ OwnDecoding /\ [Next]_allVars => (LoopInv /\ OwnDecoding)'
  BY LoopKept, DecodingKept
<1>3. LoopInv /\ OwnDecoding => EndpointsNamed
  <2> DEFINE c(j) == content.configurations[printed[j].conf + 1]
             d(j) == c(j).descriptors[printed[j].at]
  <2> SUFFICES ASSUME LoopInv, OwnDecoding, faults = 0, NEW j \in DOMAIN printed,
                      printed[j].kind = "endpoint", Sound(c(j))
               PROVE  Tells(d(j), printed[j].shown)
    BY DEF EndpointsNamed
  <2>1. /\ HasConfiguration(printed[j].conf) /\ printed[j].at \in DOMAIN c(j).descriptors
        /\ printed[j].shown = Decoded(d(j))
    BY DEF OwnDecoding, OwnEntry
  <2>2. printed[j].conf \in Nat
    <3>1. printed \in Seq(Entries)
      BY DEF LoopInv, DescInv
    <3>2. printed[j] \in Entries
      BY <3>1, LenProperties, ElementOfSeq
    <3> QED
      BY <3>2 DEF Entries
  <2>3. d(j) \in Descriptor
    <3>1. c(j) \in Configuration
      BY <2>1, <2>2 DEF LoopInv, DescInv, TypeOK, DescriptorsAssumption, HasConfiguration
    <3>2. c(j).descriptors \in Seq(Descriptor)
      BY <3>1 DEF Configuration
    <3> QED
      BY <2>1, <3>2, LenProperties, ElementOfSeq
  <2> QED
    BY <2>1, <2>3, DecodedNames
<1> QED
  BY <1>1, <1>2, <1>3, PTL DEF Spec
=============================================================================
