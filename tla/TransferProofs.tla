--------------------------- MODULE TransferProofs ---------------------------
(***************************************************************************)
(* What a request says to the remote device, what the answer leaves in its *)
(* buffer and what a selection makes of the descriptors of the device, for *)
(* requests of any length, any number of packets and any configurations.   *)
(*                                                                         *)
(* The argument: IInv follows a request from place to place.  Of its steps *)
(* it needs to know what the operators of Transfer and Configuration       *)
(* compute.  The walk over the descriptors reaches the endpoints behind an *)
(* interface one by one, in order of their rank; this is shown by the      *)
(* least step that would miss.  Packets that do not overlap cover as many  *)
(* bytes of a buffer as the sum of their lengths, so that where the data   *)
(* of a packet starts in an answer is the rank of its first byte.  Packets *)
(* of any other lengths are copied only if they lie within the buffer and  *)
(* what they take lies within the length of the answer.  A pipe handle is  *)
(* a number with a byte for each of its parts.                             *)
(***************************************************************************)
EXTENDS Transfer, FiniteSetTheorems, SequenceTheorems, WellFoundedInduction, TLAPS

-----------------------------------------------------------------------------
(* Numbers and sets.                                                       *)

(* A set of natural numbers has a least element.                           *)
LEMMA LeastNumber ==
  ASSUME NEW T, T \subseteq Nat, T # {}
  PROVE  \E n \in T : \A m \in T : n <= m
  <1> DEFINE Below == {s \in FiniteSubsetsOf(Nat) : \E n \in T : s = 0 .. n}
             R == StrictSubsetOrdering(Nat)
  <1>1. \A n \in T : 0 .. n \in Below
    <2> SUFFICES ASSUME NEW n \in T PROVE 0 .. n \in FiniteSubsetsOf(Nat)
      OBVIOUS
    <2>1. IsFiniteSet(0 .. n)
      BY FS_Interval
    <2> QED
      BY <2>1 DEF FiniteSubsetsOf
  <1>2. Below \subseteq FiniteSubsetsOf(Nat) /\ Below # {}
    BY <1>1
  <1> HIDE DEF Below, R
  <1>3. PICK s \in Below : \A t \in Below : ~ (<<t, s>> \in R)
    BY <1>2, FS_StrictSubsetOrderingWellFounded, WFMin DEF R
  <1>4. PICK n \in T : s = 0 .. n
    BY <1>3 DEF Below
  <1>5. ASSUME NEW m \in T, m < n PROVE FALSE
    <2>1. 0 .. m \subseteq 0 .. n /\ 0 .. m # 0 .. n /\ 0 .. m \in SUBSET Nat /\ 0 .. n \in SUBSET Nat
      <3>1. m \in Nat /\ n \in Nat
        OBVIOUS
      <3>2. n \in 0 .. n /\ n \notin 0 .. m
        BY <1>5, <3>1
      <3> QED
        BY <1>5, <3>1, <3>2
    <2>2. <<0 .. m, 0 .. n>> \in R
      BY <2>1 DEF R, StrictSubsetOrdering
    <2> QED
      BY <1>1, <1>3, <1>4, <2>2
  <1> QED
    BY <1>5

LEMMA MinIs ==
  ASSUME NEW T, T \subseteq Nat, T # {}
  PROVE  Min(T) \in T /\ \A y \in T : Min(T) <= y
  BY LeastNumber DEF Min

LEMMA MinOfTwo ==
  ASSUME NEW a \in Nat, NEW b \in Nat
  PROVE  Min({a, b}) = IF a <= b THEN a ELSE b
  <1>1. Min({a, b}) \in {a, b} /\ \A y \in {a, b} : Min({a, b}) <= y
    BY MinIs
  <1> QED
    BY <1>1

-----------------------------------------------------------------------------
(* Requests.                                                               *)

Data == GetDescriptor \cup Class \cup Vendor \cup Transfers

(* What can be asked of a request without a look at its function.          *)
Shape(r) ==
    /\ r.function \in Queued \cup Immediate \cup {"OTHER"}
    /\ LengthOf(r) \in Nat /\ OffsetsOf(r) \in Seq(Nat)
    /\ r.function \in Data => LengthOf(r) = r.length
    /\ r.function \notin Data => LengthOf(r) = 0
    /\ r.function = "ISOCH_TRANSFER" =>
            /\ OffsetsOf(r) = r.offsets /\ r.offsets # <<>>
            /\ \A i \in DOMAIN r.offsets : r.offsets[i] <= r.length
    /\ r.function # "ISOCH_TRANSFER" => OffsetsOf(r) = <<>>
    /\ r.function \in Transfers => r.pipe \in Nat
    /\ r.function = "BULK_OR_INTERRUPT_TRANSFER" => r.short_ok \in BOOLEAN
    /\ r.function \in GetDescriptor \cup Class \cup Vendor => r.at \in {"pointer", "mdl"}
    /\ r.function \in Class \cup Vendor => r.in \in BOOLEAN
    /\ r.function = "SELECT_CONFIGURATION" =>
            \/ r.config = NoConfig
            \/ r.config \in Config /\ r.infos \in InfoLists(r.config)
    /\ r.function = "SELECT_INTERFACE" =>
            r.info.number \in Byte /\ r.info.alt \in Byte

LEMMA DescriptorShape ==
  ASSUME NEW r \in [function : GetDescriptor, length : BufferLength, at : {"pointer", "mdl"},
                    descriptor : {"device", "string", "other"}]
  PROVE  Shape(r)
  <1>1. "length" \in DOMAIN r /\ "offsets" \notin DOMAIN r
    OBVIOUS
  <1>2. r.length \in Nat /\ r.function \in GetDescriptor /\ r.at \in {"pointer", "mdl"}
    BY TransferAssumption
  <1>3. LengthOf(r) = r.length /\ OffsetsOf(r) = <<>>
    BY <1>1 DEF LengthOf, OffsetsOf
  <1> QED
    BY <1>2, <1>3 DEF Shape, Data, Queued, GetDescriptor, Class, Vendor, Select, Transfers

LEMMA ControlShape ==
  ASSUME NEW r \in [function : Class \cup Vendor, length : BufferLength, at : {"pointer", "mdl"},
                    in : BOOLEAN]
  PROVE  Shape(r)
  <1>1. "length" \in DOMAIN r /\ "offsets" \notin DOMAIN r
    OBVIOUS
  <1>2. /\ r.length \in Nat /\ r.function \in Class \cup Vendor
        /\ r.at \in {"pointer", "mdl"} /\ r.in \in BOOLEAN
    BY TransferAssumption
  <1>3. LengthOf(r) = r.length /\ OffsetsOf(r) = <<>>
    BY <1>1 DEF LengthOf, OffsetsOf
  <1> QED
    BY <1>2, <1>3 DEF Shape, Data, Queued, GetDescriptor, Class, Vendor, Select, Transfers

LEMMA BulkShape ==
  ASSUME NEW P, P \subseteq Nat,
         NEW r \in [function : {"BULK_OR_INTERRUPT_TRANSFER"}, length : BufferLength,
                    at : {"pointer", "mdl", "none"}, pipe : P, short_ok : BOOLEAN]
  PROVE  Shape(r)
  <1>1. "length" \in DOMAIN r /\ "offsets" \notin DOMAIN r
    OBVIOUS
  <1>2. /\ r.length \in Nat /\ r.function = "BULK_OR_INTERRUPT_TRANSFER" /\ r.pipe \in Nat
        /\ r.short_ok \in BOOLEAN
    BY TransferAssumption
  <1>3. LengthOf(r) = r.length /\ OffsetsOf(r) = <<>>
    BY <1>1 DEF LengthOf, OffsetsOf
  <1> QED
    BY <1>2, <1>3 DEF Shape, Data, Queued, GetDescriptor, Class, Vendor, Select, Transfers

LEMMA IsoShape ==
  ASSUME NEW P, P \subseteq Nat,
         NEW r \in [function : {"ISOCH_TRANSFER"}, length : BufferLength,
                    at : {"pointer", "mdl", "none"}, pipe : P, offsets : PacketOffset],
         \A i \in DOMAIN r.offsets : r.offsets[i] <= r.length
  PROVE  Shape(r)
  <1>1. "length" \in DOMAIN r /\ "offsets" \in DOMAIN r
    OBVIOUS
  <1>2. /\ r.length \in Nat /\ r.function = "ISOCH_TRANSFER" /\ r.pipe \in Nat
        /\ r.offsets \in Seq(Nat) /\ r.offsets # <<>>
    BY TransferAssumption
  <1>3. LengthOf(r) = r.length /\ OffsetsOf(r) = r.offsets
    BY <1>1 DEF LengthOf, OffsetsOf
  <1> QED
    BY <1>2, <1>3 DEF Shape, Data, Queued, GetDescriptor, Class, Vendor, Select, Transfers

(* An interface that the function driver can name is one of the            *)
(* descriptor.                                                             *)
LEMMA EndpointsCounted ==
  ASSUME NEW dsc, Len(dsc) \in Nat, NEW place \in Nat
  PROVE  /\ IsFiniteSet(EndpointsBehind(dsc, place))
         /\ Cardinality(EndpointsBehind(dsc, place)) \in Nat
  <1>1. EndpointsBehind(dsc, place) \subseteq place + 1 .. Len(dsc)
    BY DEF EndpointsBehind
  <1>2. IsFiniteSet(place + 1 .. Len(dsc))
    BY FS_Interval
  <1> QED
    BY <1>1, <1>2, FS_Subset, FS_CardinalityType

LEMMA InfoIs ==
  ASSUME NEW c \in Config, NEW info \in Infos(c)
  PROVE  \E i \in 1 .. Len(c.dsc), more \in 0 .. 1, less \in 0 .. 1 :
            /\ c.dsc[i].type = "interface"
            /\ info = [number |-> c.dsc[i].number, alt |-> c.dsc[i].alt,
                       pipes |-> c.dsc[i].endpoints + more, fits |-> c.dsc[i].endpoints - less]
            /\ c.dsc[i].number \in Byte /\ c.dsc[i].alt \in Byte /\ c.dsc[i].endpoints \in Nat
  <1>1. PICK i \in {j \in DOMAIN c.dsc : c.dsc[j].type = "interface"},
             more \in 0 .. 1, less \in 0 .. 1 :
            info = [number |-> c.dsc[i].number, alt |-> c.dsc[i].alt,
                    pipes |-> c.dsc[i].endpoints + more, fits |-> c.dsc[i].endpoints - less]
    BY DEF Infos
  <1>2. WellFormed(c)
    BY DeviceAssumption
  <1>3. /\ DOMAIN c.dsc = 1 .. Len(c.dsc) /\ Len(c.dsc) \in Nat
        /\ c.dsc[i].number \in Byte /\ c.dsc[i].alt \in Byte
        /\ c.dsc[i].endpoints = Cardinality(EndpointsBehind(c.dsc, i))
    <2>1. i \in Places(c, "interface")
      BY DEF Places
    <2>2. c.dsc[i].number \in Byte /\ c.dsc[i].alt \in Byte
      BY <1>2, <2>1 DEF WellFormed
    <2>3. c.dsc[i].endpoints = Cardinality(EndpointsBehind(c.dsc, i))
      BY <1>2, <2>1 DEF WellFormed
    <2>4. DOMAIN c.dsc = 1 .. Len(c.dsc) /\ Len(c.dsc) \in Nat
      BY <1>2, Zenon DEF WellFormed
    <2> QED
      BY <2>2, <2>3, <2>4
  <1>4. i \in Nat
    BY <1>3
  <1>5. c.dsc[i].endpoints \in Nat
    BY <1>3, <1>4, EndpointsCounted
  <1> QED
    BY <1>1, <1>3, <1>5

LEMMA SelectShape ==
  ASSUME NEW r,
         \/ r = [function |-> "SELECT_CONFIGURATION", config |-> NoConfig, infos |-> <<>>]
         \/ \E c \in Config :
                r \in [function : {"SELECT_CONFIGURATION"}, config : {c}, infos : InfoLists(c)]
  PROVE  Shape(r)
  <1>1. "length" \notin DOMAIN r /\ "offsets" \notin DOMAIN r
    OBVIOUS
  <1>2. /\ r.function = "SELECT_CONFIGURATION"
        /\ r.config = NoConfig \/ (r.config \in Config /\ r.infos \in InfoLists(r.config))
    OBVIOUS
  <1>3. LengthOf(r) = 0 /\ OffsetsOf(r) = <<>>
    BY <1>1 DEF LengthOf, OffsetsOf
  <1> QED
    BY <1>2, <1>3 DEF Shape, Data, Queued, GetDescriptor, Class, Vendor, Select, Transfers

LEMMA InterfaceShape ==
  ASSUME NEW c \in Config, NEW info \in Infos(c), NEW h, NEW r,
         r = [function |-> "SELECT_INTERFACE", info |-> info, handle |-> h]
  PROVE  Shape(r)
  <1>1. "length" \notin DOMAIN r /\ "offsets" \notin DOMAIN r
    OBVIOUS
  <1>2. r.function = "SELECT_INTERFACE" /\ r.info = info
    OBVIOUS
  <1>3. LengthOf(r) = 0 /\ OffsetsOf(r) = <<>>
    BY <1>1 DEF LengthOf, OffsetsOf
  <1>4. info.number \in Byte /\ info.alt \in Byte
    BY InfoIs
  <1> QED
    BY <1>2, <1>3, <1>4
    DEF Shape, Data, Queued, GetDescriptor, Class, Vendor, Select, Transfers

LEMMA PlainShape ==
  ASSUME NEW r \in [function : Immediate \cup {"RESET_PORT", "OTHER"}]
  PROVE  Shape(r)
  <1>1. "length" \notin DOMAIN r /\ "offsets" \notin DOMAIN r
    OBVIOUS
  <1>2. r.function \in Immediate \cup {"RESET_PORT", "OTHER"}
    OBVIOUS
  <1>3. LengthOf(r) = 0 /\ OffsetsOf(r) = <<>>
    BY <1>1 DEF LengthOf, OffsetsOf
  <1> QED
    BY <1>2, <1>3
    DEF Shape, Data, Queued, Immediate, GetDescriptor, Class, Vendor, Select, Transfers

LEMMA RequestShape ==
  ASSUME NEW v, v.config \in Config \cup {NoConfig}, Handles(v) \subseteq Nat,
         NEW r \in Requests(v)
  PROVE  Shape(r)
  <1>1. CASE r \in [function : GetDescriptor, length : BufferLength, at : {"pointer", "mdl"},
                    descriptor : {"device", "string", "other"}]
    BY <1>1, DescriptorShape
  <1>2. CASE r \in [function : Class \cup Vendor, length : BufferLength, at : {"pointer", "mdl"},
                    in : BOOLEAN]
    BY <1>2, ControlShape
  <1>3. CASE r \in [function : {"BULK_OR_INTERRUPT_TRANSFER"}, length : BufferLength,
                    at : {"pointer", "mdl", "none"}, pipe : Handles(v), short_ok : BOOLEAN]
    BY <1>3, BulkShape
  <1>4. CASE r \in {q \in [function : {"ISOCH_TRANSFER"}, length : BufferLength,
                            at : {"pointer", "mdl", "none"}, pipe : Handles(v),
                            offsets : PacketOffset] :
                        \A i \in DOMAIN q.offsets : q.offsets[i] <= q.length}
    BY <1>4, IsoShape
  <1>5. CASE \/ r = [function |-> "SELECT_CONFIGURATION", config |-> NoConfig, infos |-> <<>>]
             \/ \E c \in Config :
                    r \in [function : {"SELECT_CONFIGURATION"}, config : {c}, infos : InfoLists(c)]
    BY <1>5, SelectShape
  <1>6. CASE v.config # NoConfig /\ r \in
                {[function |-> "SELECT_INTERFACE", info |-> info,
                  handle |-> [number |-> info.number, alt |-> v.interfaces[info.number].alt]] :
                    info \in Infos(v.config)}
    BY <1>6, InterfaceShape
  <1>7. CASE r \in [function : Immediate \cup {"RESET_PORT", "OTHER"}]
    BY <1>7, PlainShape
  <1>8. r \in UNION {[function : {"SELECT_CONFIGURATION"}, config : {c}, infos : InfoLists(c)] :
                        c \in Config}
        => \E c \in Config :
            r \in [function : {"SELECT_CONFIGURATION"}, config : {c}, infos : InfoLists(c)]
    BY Zenon
  <1>9. CASE v.config = NoConfig
    BY <1>1, <1>2, <1>3, <1>4, <1>5, <1>7, <1>8, <1>9, Zenon DEF Requests
  <1>10. CASE v.config # NoConfig
    BY <1>1, <1>2, <1>3, <1>4, <1>5, <1>6, <1>7, <1>8, <1>10, Zenon DEF Requests
  <1> QED
    BY <1>9, <1>10

-----------------------------------------------------------------------------
(* Reading.                                                                *)

(* What the header of a request says of it.                                *)
HeaderOK(r, h) ==
    /\ h \in UsbipHeader
    /\ h.direction = Direction(r) /\ h.length = LengthOf(r) /\ h.packets = Len(OffsetsOf(r))
    /\ h.setup # NoSetup =>
            /\ h.setup.direction = h.direction
            /\ LengthOf(r) < UShortSize => h.setup.length = h.length
    /\ r.function \in Transfers =>
            /\ h.setup = NoSetup
            /\ h.ep = PIPE2ADDR(r.pipe) /\ h.interval = PIPE2INTERVAL(r.pipe)
            /\ (PIPE2TYPE(r.pipe) = ISOCHRONOUS) = (r.function = "ISOCH_TRANSFER")
    /\ r.function \notin Select => ~ Setting(h)
    /\ r.function = "SELECT_CONFIGURATION" =>
            Setting(h) /\ h.setup.request = "SET_CONFIGURATION" /\ h.setup.value = 1
    /\ r.function = "SELECT_INTERFACE" =>
            /\ Setting(h) /\ h.setup.request = "SET_INTERFACE"
            /\ h.setup.value = r.info.alt /\ h.setup.index = r.info.number

LEMMA DirectionIs ==
  ASSUME NEW r, Shape(r)
  PROVE  /\ Direction(r) \in {"in", "out"}
         /\ r.function \in Transfers => Direction(r) = PIPE2DIRECT(r.pipe)
         /\ r.function \in Class \cup Vendor => Direction(r) = IF r.in THEN "in" ELSE "out"
         /\ r.function \in GetDescriptor => Direction(r) = "in"
         /\ r.function \notin Data => Direction(r) = "out"
  BY DEF Direction, PIPE2DIRECT, Data, Transfers, Class, Vendor, GetDescriptor

LEMMA PipeParts ==
  ASSUME NEW pipe \in Nat
  PROVE  PIPE2ADDR(pipe) \in Nat /\ PIPE2INTERVAL(pipe) \in Nat
  BY DEF PIPE2ADDR, PIPE2INTERVAL

LEMMA TransferHeaderOK ==
  ASSUME NEW r, Shape(r), r.function \in Transfers, NEW short_ok \in BOOLEAN,
         (PIPE2TYPE(r.pipe) = ISOCHRONOUS) = (r.function = "ISOCH_TRANSFER"),
         NEW h, h = [set_cmd_submit_usbip_header(Direction(r), r.pipe, short_ok, r.length, NoSetup)
                        EXCEPT !.packets = Len(OffsetsOf(r))]
  PROVE  HeaderOK(r, h)
  <1>1. /\ r.pipe \in Nat /\ LengthOf(r) = r.length /\ r.length \in Nat
        /\ Len(OffsetsOf(r)) \in Nat
    BY LenProperties DEF Shape, Data
  <1>2. h = [direction |-> Direction(r), ep |-> PIPE2ADDR(r.pipe),
             interval |-> PIPE2INTERVAL(r.pipe), short_ok |-> short_ok, length |-> r.length,
             packets |-> Len(OffsetsOf(r)), setup |-> NoSetup]
    BY DEF set_cmd_submit_usbip_header
  <1>3. h \in UsbipHeader
    BY <1>1, <1>2, PipeParts, DirectionIs DEF UsbipHeader
  <1>4. ~ Setting(h)
    BY <1>2 DEF Setting
  <1>5. r.function \notin Select
    BY DEF Transfers, Select
  <1> QED
    BY <1>1, <1>2, <1>3, <1>4, <1>5 DEF HeaderOK, Select

(* An unsigned short holds a length that is short enough.                  *)
LEMMA LengthKept ==
  ASSUME NEW r, r.length \in Nat
  PROVE  wLength(r) \in Nat /\ (r.length < UShortSize => wLength(r) = r.length)
  <1> DEFINE l == r.length
             u == UShortSize
  <1>1. l \in Nat /\ u \in Nat \ {0}
    BY TransferAssumption
  <1> HIDE DEF l, u
  <1>2. l % u \in Nat /\ (l < u => l % u = l)
    BY <1>1
  <1> QED
    BY <1>2 DEF wLength, l, u

LEMMA ControlHeaderOK ==
  ASSUME NEW r, Shape(r), r.function \notin Transfers,
         NEW type \in {"standard", "class", "vendor"},
         NEW recipient \in {"device", "interface", "endpoint", "other"},
         NEW request \in {"GET_DESCRIPTOR", "SET_CONFIGURATION", "SET_INTERFACE", "SET_FEATURE",
                          "REQUEST"},
         NEW value \in Nat, NEW index \in Nat, NEW short_ok \in BOOLEAN,
         NEW kept \in Nat, LengthOf(r) < UShortSize => kept = LengthOf(r),
         r.function \in Select <=> request \in {"SET_CONFIGURATION", "SET_INTERFACE"},
         r.function = "SELECT_CONFIGURATION" => request = "SET_CONFIGURATION" /\ value = 1,
         r.function = "SELECT_INTERFACE" =>
             request = "SET_INTERFACE" /\ value = r.info.alt /\ index = r.info.number
  PROVE  HeaderOK(r, set_cmd_submit_usbip_header(Direction(r), 0, short_ok, LengthOf(r),
                        build_setup_packet(Direction(r), type, recipient, request, value, index,
                                           kept)))
  <1> DEFINE h == set_cmd_submit_usbip_header(Direction(r), 0, short_ok, LengthOf(r),
                        build_setup_packet(Direction(r), type, recipient, request, value, index,
                                           kept))
             packet == [direction |-> Direction(r), type |-> type, recipient |-> recipient,
                        request |-> request, value |-> value, index |-> index,
                        length |-> kept]
  <1>1. h = [direction |-> Direction(r), ep |-> PIPE2ADDR(0), interval |-> PIPE2INTERVAL(0),
             short_ok |-> short_ok, length |-> LengthOf(r), packets |-> 0, setup |-> packet]
    BY DEF set_cmd_submit_usbip_header, build_setup_packet
  <1>2. LengthOf(r) \in Nat /\ Len(OffsetsOf(r)) = 0
    BY EmptySeq DEF Shape, Transfers
  <1>3. packet \in SetupPacket
    BY <1>2, DirectionIs DEF SetupPacket
  <1>7. /\ packet.direction = Direction(r) /\ packet.length = kept
        /\ packet.request = request /\ packet.value = value /\ packet.index = index
    OBVIOUS
  <1> HIDE DEF packet, h
  <1>8. PIPE2ADDR(0) \in Nat /\ PIPE2INTERVAL(0) \in Nat /\ Direction(r) \in {"in", "out"}
    BY PipeParts, DirectionIs
  <1>4. h \in UsbipHeader
    BY <1>1, <1>2, <1>3, <1>8 DEF UsbipHeader
  <1>5. packet # NoSetup
    BY <1>3, TransferAssumption
  <1>6. Setting(h) = (request \in {"SET_CONFIGURATION", "SET_INTERFACE"})
    BY <1>1, <1>5, <1>7 DEF Setting
  <1>9. /\ h.direction = Direction(r) /\ h.length = LengthOf(r) /\ h.packets = 0
        /\ h.setup = packet
    BY <1>1
  <1>10. HeaderOK(r, h)
    BY <1>2, <1>4, <1>6, <1>7, <1>9 DEF HeaderOK, Select
  <1> QED
    BY <1>10 DEF h

(* What makes a request fail in a read that is long enough.                *)
Unfit(r) ==
    \/ r.function = "VENDOR_OTHER"
    \/ r.function = "GET_DESCRIPTOR_FROM_DEVICE" /\ r.descriptor = "other"
    \/ r.function \in Transfers /\ ~ get_buf(r)
    \/ r.function = "ISOCH_TRANSFER" /\ PIPE2TYPE(r.pipe) # ISOCHRONOUS
    \/ r.function \in Transfers \ {"ISOCH_TRANSFER"} /\ PIPE2TYPE(r.pipe) \notin {BULK, INTERRUPT}

(* What is read through a null pointer.                                    *)
Unmapped(r) ==
    r.function \in Class \cup Vendor /\ r.at = "mdl" /\ Direction(r) = "out" /\ r.length > 0

Control == Class \cup StorableVendor

(* The outcomes of the first read: a failure, a request without data to    *)
(* send, the header alone of one that has, or both.                        *)
Outcome(r, m, room, s) ==
    \/ s.status \notin {"SUCCESS", "crash"} /\ (room < HeaderLength \/ Unfit(r))
    \/ s.status = "crash" /\ Unmapped(r)
    \/ \E hdr \in UsbipHeader :
        /\ HeaderOK(r, hdr)
        /\ \/ s = Header(hdr) /\ (Direction(r) = "in" \/ r.function \notin Data)
           \/ s = HeaderOnly(hdr) /\ Direction(r) = "out" /\ r.function \in Transfers \cup Control
           \/ /\ s = Stored([hdr |-> hdr, data |-> m.buffer, descs |-> <<>>], HeaderLength, 0)
              /\ r.function = "BULK_OR_INTERRUPT_TRANSFER" /\ Direction(r) = "out"
              /\ room >= HeaderLength + r.length
           \/ /\ s = Stored([hdr |-> hdr, data |-> m.buffer, descs |-> <<>>],
                            HeaderLength + r.length, 0)
              /\ r.function \in Control /\ Direction(r) = "out"
           \/ /\ s = Stored(copy_iso_data(r, m, hdr), HeaderLength + IsoLength(r), 0)
              /\ r.function = "ISOCH_TRANSFER" /\ Direction(r) = "out"

LEMMA NotStoredIs ==
  ASSUME NEW status
  PROVE  NotStored(status).status = status
  BY DEF NotStored

LEMMA StoreBulk ==
  ASSUME NEW r, Shape(r), NEW m, NEW room \in Nat, r.function = "BULK_OR_INTERRUPT_TRANSFER"
  PROVE  Outcome(r, m, room, store_urb_bulk(r, m, room))
  <1> DEFINE h == set_cmd_submit_usbip_header(Direction(r), r.pipe, r.short_ok, r.length, NoSetup)
  <1>1. r.function \in Transfers /\ r.length \in Nat /\ r.short_ok \in BOOLEAN
    BY DEF Shape, Transfers, Data
  <1>2. CASE room < HeaderLength \/ PIPE2TYPE(r.pipe) \notin {BULK, INTERRUPT}
    BY <1>1, <1>2, NotStoredIs DEF store_urb_bulk, Outcome, Unfit
  <1>3. CASE room >= HeaderLength /\ PIPE2TYPE(r.pipe) \in {BULK, INTERRUPT}
    <2>1. h = [h EXCEPT !.packets = Len(OffsetsOf(r))]
      <3>1. Len(OffsetsOf(r)) = 0
        BY EmptySeq DEF Shape
      <3> QED
        BY <3>1 DEF set_cmd_submit_usbip_header
    <2>2. HeaderOK(r, h) /\ h \in UsbipHeader
      <3> HIDE DEF h
      <3>1. (PIPE2TYPE(r.pipe) = ISOCHRONOUS) = (r.function = "ISOCH_TRANSFER")
        BY <1>3 DEF ISOCHRONOUS, BULK, INTERRUPT
      <3>2. HeaderOK(r, h)
        BY <1>1, <2>1, <3>1, TransferHeaderOK DEF h
      <3> QED
        BY <3>2 DEF HeaderOK
    <2>3. store_urb_bulk(r, m, room) =
            IF Direction(r) = "in" THEN Header(h)
            ELSE IF room - HeaderLength < r.length THEN HeaderOnly(h)
            ELSE IF ~get_buf(r) THEN NotStored("INSUFFICIENT_RESOURCES")
            ELSE Stored([hdr |-> h, data |-> m.buffer, descs |-> <<>>], HeaderLength, 0)
      BY <1>3 DEF store_urb_bulk, HeaderLength
    <2> HIDE DEF h
    <2>4. CASE Direction(r) = "in"
      BY <2>2, <2>3, <2>4 DEF Outcome
    <2>5. CASE Direction(r) = "out" /\ room - HeaderLength < r.length
      BY <1>1, <2>2, <2>3, <2>5 DEF Outcome
    <2>6. CASE Direction(r) = "out" /\ ~ (room - HeaderLength < r.length) /\ ~ get_buf(r)
      BY <1>1, <2>3, <2>6, NotStoredIs DEF Outcome, Unfit
    <2>7. CASE Direction(r) = "out" /\ ~ (room - HeaderLength < r.length) /\ get_buf(r)
      <3>1. room >= HeaderLength + r.length
        BY <1>1, <2>7 DEF HeaderLength
      <3> QED
        BY <2>2, <2>3, <2>7, <3>1 DEF Outcome
    <2> QED
      BY <2>4, <2>5, <2>6, <2>7, DirectionIs
  <1> QED
    BY <1>2, <1>3 DEF HeaderLength

LEMMA StoreIso ==
  ASSUME NEW r, Shape(r), NEW m, NEW room \in Nat, r.function = "ISOCH_TRANSFER"
  PROVE  Outcome(r, m, room, store_urb_iso(r, m, room))
  <1> DEFINE h == [set_cmd_submit_usbip_header(Direction(r), r.pipe, TRUE, r.length, NoSetup)
                    EXCEPT !.packets = Len(OffsetsOf(r))]
  <1>1. r.function \in Transfers /\ r.length \in Nat /\ OffsetsOf(r) = r.offsets
    BY DEF Shape, Transfers, Data
  <1>2. CASE room < HeaderLength \/ PIPE2TYPE(r.pipe) # ISOCHRONOUS
    BY <1>1, <1>2, NotStoredIs DEF store_urb_iso, Outcome, Unfit
  <1>3. CASE room >= HeaderLength /\ PIPE2TYPE(r.pipe) = ISOCHRONOUS
    <2>2. HeaderOK(r, h) /\ h \in UsbipHeader
      <3>2. HeaderOK(r, h)
        BY <1>1, <1>3, TransferHeaderOK
      <3> QED
        BY <3>2 DEF HeaderOK
    <2>3. store_urb_iso(r, m, room) =
            IF Direction(r) = "in" THEN Header(h)
            ELSE IF room - HeaderLength < IsoLength(r) THEN HeaderOnly(h)
            ELSE Stored(copy_iso_data(r, m, h), HeaderLength + IsoLength(r), 0)
      BY <1>1, <1>3 DEF store_urb_iso, HeaderLength
    <2> HIDE DEF h
    <2>4. CASE Direction(r) = "in"
      BY <2>2, <2>3, <2>4 DEF Outcome
    <2>5. CASE Direction(r) = "out" /\ room - HeaderLength < IsoLength(r)
      BY <1>1, <2>2, <2>3, <2>5 DEF Outcome
    <2>6. CASE Direction(r) = "out" /\ ~ (room - HeaderLength < IsoLength(r))
      BY <1>1, <2>2, <2>3, <2>6 DEF Outcome
    <2> QED
      BY <2>4, <2>5, <2>6, DirectionIs
  <1> QED
    BY <1>2, <1>3 DEF HeaderLength

LEMMA StoreHeader ==
  ASSUME NEW r, NEW m, NEW room \in Nat, NEW h, HeaderOK(r, h),
         Direction(r) = "in" \/ r.function \notin Data
  PROVE  Outcome(r, m, room, HeaderOf(h, room))
  <1>1. h \in UsbipHeader
    BY DEF HeaderOK
  <1>2. CASE room < HeaderLength
    BY <1>2, NotStoredIs DEF HeaderOf, Outcome
  <1>3. CASE ~ (room < HeaderLength)
    BY <1>1, <1>3 DEF HeaderOf, Outcome
  <1> QED
    BY <1>2, <1>3

LEMMA DescriptorHeaderOK ==
  ASSUME NEW r, Shape(r), r.function \in GetDescriptor, NEW recipient \in {"device", "interface"}
  PROVE  HeaderOK(r, DescriptorHeader(r, recipient)) /\ Direction(r) = "in"
  <1>1. /\ r.function \notin Transfers /\ r.function \notin Select
        /\ LengthOf(r) = r.length /\ r.length \in Nat
    BY DEF Shape, GetDescriptor, Transfers, Select, Data
  <1>2. Direction(r) = "in"
    BY DirectionIs
  <1>3. DescriptorHeader(r, recipient) =
            set_cmd_submit_usbip_header(Direction(r), 0, TRUE, LengthOf(r),
                build_setup_packet(Direction(r), "standard", recipient, "GET_DESCRIPTOR", 0, 0,
                                   wLength(r)))
    BY <1>1, <1>2 DEF DescriptorHeader
  <1>4. r.function # "SELECT_CONFIGURATION" /\ r.function # "SELECT_INTERFACE"
    BY <1>1 DEF Select
  <1>5. r.function \in Select <=> "GET_DESCRIPTOR" \in {"SET_CONFIGURATION", "SET_INTERFACE"}
    BY <1>1
  <1>7. wLength(r) \in Nat /\ (LengthOf(r) < UShortSize => wLength(r) = LengthOf(r))
    BY <1>1, LengthKept
  <1>6. HeaderOK(r, set_cmd_submit_usbip_header(Direction(r), 0, TRUE, LengthOf(r),
                build_setup_packet(Direction(r), "standard", recipient, "GET_DESCRIPTOR", 0, 0,
                                   wLength(r))))
    BY <1>1, <1>4, <1>5, <1>7, ControlHeaderOK
  <1> QED
    BY <1>2, <1>3, <1>6

LEMMA StoreDescriptor ==
  ASSUME NEW r, Shape(r), NEW m, NEW room \in Nat, r.function \in GetDescriptor
  PROVE  /\ r.function = "GET_DESCRIPTOR_FROM_DEVICE" =>
                Outcome(r, m, room, store_urb_get_dev_desc(r, room))
         /\ r.function = "GET_DESCRIPTOR_FROM_INTERFACE" =>
                Outcome(r, m, room, store_urb_get_intf_desc(r, room))
  <1>1. Outcome(r, m, room, HeaderOf(DescriptorHeader(r, "device"), room))
    BY DescriptorHeaderOK, StoreHeader
  <1>2. Outcome(r, m, room, HeaderOf(DescriptorHeader(r, "interface"), room))
    BY DescriptorHeaderOK, StoreHeader
  <1>3. r.function = "GET_DESCRIPTOR_FROM_DEVICE" /\ r.descriptor = "other" =>
            Outcome(r, m, room, NotStored("INVALID_PARAMETER"))
    BY NotStoredIs DEF Outcome, Unfit
  <1> QED
    BY <1>1, <1>2, <1>3 DEF store_urb_get_dev_desc, store_urb_get_intf_desc

LEMMA StoreSelect ==
  ASSUME NEW r, Shape(r), NEW m, NEW room \in Nat
  PROVE  /\ r.function = "SELECT_CONFIGURATION" =>
                Outcome(r, m, room, store_urb_select_config(room))
         /\ r.function = "SELECT_INTERFACE" =>
                Outcome(r, m, room, store_urb_select_interface(r, room))
         /\ r.function = "RESET_PORT" =>
                Outcome(r, m, room, store_urb_reset_dev(room))
  <1>1. ASSUME r.function \in Select \cup {"RESET_PORT"}
        PROVE  /\ r.function \notin Transfers /\ r.function \notin Data
               /\ LengthOf(r) = 0 /\ Direction(r) = "out"
    <2>1. r.function \notin Transfers /\ r.function \notin Data
      BY <1>1 DEF Transfers, Select, Data, GetDescriptor, Class, Vendor
    <2> QED
      BY <2>1, DirectionIs DEF Shape
  <1>2. ASSUME r.function = "SELECT_CONFIGURATION"
        PROVE  Outcome(r, m, room, store_urb_select_config(room))
    <2>1. r.function \in Select
      BY <1>2 DEF Select
    <2>2. HeaderOK(r, set_cmd_submit_usbip_header("out", 0, FALSE, 0,
                build_setup_packet("out", "standard", "device", "SET_CONFIGURATION", 1, 0, 0)))
      BY <1>1, <1>2, <2>1, ControlHeaderOK
    <2> QED
      BY <1>1, <2>1, <2>2, StoreHeader DEF store_urb_select_config
  <1>3. ASSUME r.function = "SELECT_INTERFACE"
        PROVE  Outcome(r, m, room, store_urb_select_interface(r, room))
    <2>1. r.function \in Select
      BY <1>3 DEF Select
    <2>2. r.info.alt \in Nat /\ r.info.number \in Nat
      <3>1. r.info.number \in Byte /\ r.info.alt \in Byte
        BY <1>3, Zenon DEF Shape
      <3> QED
        BY <3>1 DEF Byte
    <2>3. HeaderOK(r, set_cmd_submit_usbip_header("out", 0, FALSE, 0,
                build_setup_packet("out", "standard", "interface", "SET_INTERFACE",
                                   r.info.alt, r.info.number, 0)))
      BY <1>1, <1>3, <2>1, <2>2, ControlHeaderOK
    <2> QED
      BY <1>1, <2>1, <2>3, StoreHeader DEF store_urb_select_interface
  <1>4. ASSUME r.function = "RESET_PORT"
        PROVE  Outcome(r, m, room, store_urb_reset_dev(room))
    <2>1. /\ r.function \in Select <=> "SET_FEATURE" \in {"SET_CONFIGURATION", "SET_INTERFACE"}
          /\ r.function # "SELECT_CONFIGURATION" /\ r.function # "SELECT_INTERFACE"
      BY <1>4 DEF Select
    <2>2. HeaderOK(r, set_cmd_submit_usbip_header("out", 0, FALSE, 0,
                build_setup_packet("out", "class", "other", "SET_FEATURE", 4, 0, 0)))
      BY <1>1, <1>4, <2>1, ControlHeaderOK
    <2> QED
      BY <1>1, <1>4, <2>2, StoreHeader DEF store_urb_reset_dev
  <1> QED
    BY <1>2, <1>3, <1>4

LEMMA StoreControl ==
  ASSUME NEW r, Shape(r), NEW m, NEW room \in Nat, r.function \in Control
  PROVE  Outcome(r, m, room, store_urb_class_vendor(r, m, room))
  <1> DEFINE h == ClassHeader(r)
             whole == [hdr |-> h, data |-> m.buffer, descs |-> <<>>]
  <1>1. /\ r.function \in Class \cup Vendor /\ r.function \notin Transfers
        /\ r.function \notin Select
        /\ LengthOf(r) = r.length /\ r.length \in Nat /\ r.in \in BOOLEAN
        /\ r.at \in {"pointer", "mdl"}
    BY DEF Shape, Control, StorableVendor, Class, Vendor, Transfers, Select, Data
  <1>2. Direction(r) = IF r.in THEN "in" ELSE "out"
    BY <1>1, DirectionIs
  <1>3. HeaderOK(r, h) /\ h \in UsbipHeader
    <2>1. /\ Recipient(r) \in {"device", "interface", "endpoint", "other"}
          /\ (IF r.function \in Class THEN "class" ELSE "vendor") \in {"class", "vendor"}
      BY DEF Recipient
    <2>2. /\ r.function \in Select <=> "REQUEST" \in {"SET_CONFIGURATION", "SET_INTERFACE"}
          /\ r.function # "SELECT_CONFIGURATION" /\ r.function # "SELECT_INTERFACE"
      BY <1>1 DEF Select
    <2>4. h = set_cmd_submit_usbip_header(Direction(r), 0, TRUE, LengthOf(r),
                build_setup_packet(Direction(r), IF r.function \in Class THEN "class" ELSE "vendor",
                                   Recipient(r), "REQUEST", 0, 0, wLength(r)))
      BY <1>1 DEF ClassHeader
    <2>5. wLength(r) \in Nat /\ (LengthOf(r) < UShortSize => wLength(r) = LengthOf(r))
      BY <1>1, LengthKept
    <2>3. HeaderOK(r, h)
      <3> HIDE DEF h
      <3> QED
        BY <1>1, <2>1, <2>2, <2>4, <2>5, ControlHeaderOK
    <2> QED
      BY <2>3 DEF HeaderOK
  <1>4. CASE room < HeaderLength
    BY <1>4, NotStoredIs DEF store_urb_class_vendor, Outcome
  <1>5. CASE room >= HeaderLength
    <2>1. store_urb_class_vendor(r, m, room) =
            IF r.in THEN Header(h)
            ELSE IF room - HeaderLength < r.length THEN HeaderOnly(h)
            ELSE IF r.at = "pointer" \/ r.length = 0
                 THEN Stored(whole, HeaderLength + r.length, 0) ELSE NotStored("crash")
      BY <1>5 DEF store_urb_class_vendor, CopyUnmapped, HeaderLength
    <2> HIDE DEF h
    <2>2. CASE r.in
      BY <1>2, <1>3, <2>1, <2>2 DEF Outcome
    <2>3. CASE ~ r.in /\ room - HeaderLength < r.length
      BY <1>1, <1>2, <1>3, <2>1, <2>3 DEF Outcome
    <2>4. CASE ~ r.in /\ ~ (room - HeaderLength < r.length) /\ (r.at = "pointer" \/ r.length = 0)
      BY <1>1, <1>2, <1>3, <2>1, <2>4 DEF Outcome
    <2>5. CASE ~ r.in /\ ~ (room - HeaderLength < r.length) /\ ~ (r.at = "pointer" \/ r.length = 0)
      BY <1>1, <1>2, <2>1, <2>5, NotStoredIs DEF Outcome, Unmapped
    <2> QED
      BY <1>1, <2>2, <2>3, <2>4, <2>5
  <1> QED
    BY <1>4, <1>5 DEF HeaderLength

LEMMA FirstRead ==
  ASSUME NEW r, Shape(r), r.function \in Queued, NEW m, NEW room \in Nat
  PROVE  Outcome(r, m, room, store_urbr(r, m, room))
  <1>1. CASE r.function = "BULK_OR_INTERRUPT_TRANSFER"
    <2>1. store_urbr(r, m, room) = store_urb_bulk(r, m, room)
      BY <1>1 DEF store_urbr, Class, StorableVendor, Vendor
    <2> QED
      BY <1>1, <2>1, StoreBulk
  <1>2. CASE r.function = "ISOCH_TRANSFER"
    <2>1. store_urbr(r, m, room) = store_urb_iso(r, m, room)
      BY <1>2 DEF store_urbr, Class, StorableVendor, Vendor
    <2> QED
      BY <1>2, <2>1, StoreIso
  <1>3. CASE r.function \in GetDescriptor
    BY <1>3, StoreDescriptor DEF store_urbr, GetDescriptor, Class, StorableVendor, Vendor
  <1>4. CASE r.function \in Control
    <2>1. store_urbr(r, m, room) = store_urb_class_vendor(r, m, room)
      BY <1>4 DEF store_urbr, Class, StorableVendor, Vendor, Control
    <2> QED
      BY <1>4, <2>1, StoreControl
  <1>5. CASE r.function \in Select \cup {"RESET_PORT"}
    BY <1>5, StoreSelect DEF store_urbr, Select, Class, StorableVendor, Vendor
  <1>6. CASE r.function = "VENDOR_OTHER"
    <2>1. store_urbr(r, m, room) = NotStored("INVALID_PARAMETER")
      BY <1>6 DEF store_urbr, Class, StorableVendor, Vendor
    <2> QED
      BY <1>6, <2>1, NotStoredIs DEF Outcome, Unfit
  <1> QED
    BY <1>1, <1>2, <1>3, <1>4, <1>5, <1>6
    DEF Queued, Transfers, Control, StorableVendor, Vendor

(* The outcomes of the second read, which brings the data.                 *)
Rest(r, m, room, s) ==
    \/ /\ s.status \notin {"SUCCESS", "crash"}
       /\ room < LengthOf(r) + PacketLength * Len(OffsetsOf(r)) \/ Unfit(r)
    \/ s.status = "crash" /\ Unmapped(r)
    \/ /\ s = Stored([hdr |-> NoHeader, data |-> m.buffer, descs |-> <<>>], r.length, 0)
       /\ r.function # "ISOCH_TRANSFER"
    \/ /\ s = Stored(copy_iso_data(r, m, NoHeader), IsoLength(r), 0)
       /\ r.function = "ISOCH_TRANSFER"

LEMMA SecondRead ==
  ASSUME NEW r, Shape(r), r.function \in Transfers \cup Control, Direction(r) = "out",
         NEW m, NEW room \in Nat
  PROVE  Rest(r, m, room, store_urbr_partial(r, m, room))
  <1>1. LengthOf(r) = r.length /\ r.length \in Nat
    BY DEF Shape, Data, Transfers, Control, StorableVendor
  <1>2. [Nothing EXCEPT !.data = m.buffer] = [hdr |-> NoHeader, data |-> m.buffer, descs |-> <<>>]
    BY DEF Nothing
  <1>3. CASE r.function = "BULK_OR_INTERRUPT_TRANSFER"
    <2>1. store_urbr_partial(r, m, room) = store_urb_bulk_partial(r, m, room)
      BY <1>3 DEF store_urbr_partial, Class, StorableVendor, Vendor
    <2>2. Len(OffsetsOf(r)) = 0
      BY <1>3, EmptySeq DEF Shape
    <2>3. CASE room < r.length
      BY <1>1, <2>1, <2>2, <2>3, NotStoredIs DEF store_urb_bulk_partial, Rest, PacketLength
    <2>4. CASE ~ (room < r.length) /\ ~ get_buf(r)
      BY <1>3, <2>1, <2>4, NotStoredIs DEF store_urb_bulk_partial, Rest, Unfit, Transfers
    <2>5. CASE ~ (room < r.length) /\ get_buf(r)
      BY <1>2, <1>3, <2>1, <2>5 DEF store_urb_bulk_partial, Rest
    <2> QED
      BY <2>3, <2>4, <2>5
  <1>4. CASE r.function = "ISOCH_TRANSFER"
    <2>1. store_urbr_partial(r, m, room) = store_urb_iso_partial(r, m, room)
      BY <1>4 DEF store_urbr_partial, Class, StorableVendor, Vendor
    <2>2. OffsetsOf(r) = r.offsets /\ Len(r.offsets) \in Nat
      BY <1>4, LenProperties DEF Shape
    <2>3. CASE room < IsoLength(r)
      BY <1>1, <2>1, <2>2, <2>3, NotStoredIs DEF store_urb_iso_partial, Rest, PacketLength, IsoLength
    <2>4. CASE ~ (room < IsoLength(r))
      BY <1>4, <2>1, <2>4 DEF store_urb_iso_partial, Rest
    <2> QED
      BY <2>3, <2>4
  <1>5. CASE r.function \in Control
    <2>1. store_urbr_partial(r, m, room) = store_urb_class_vendor_partial(r, m, room)
      BY <1>5 DEF store_urbr_partial, Class, StorableVendor, Vendor, Control
    <2>2. /\ r.function # "ISOCH_TRANSFER" /\ r.function \in Class \cup Vendor
          /\ r.at \in {"pointer", "mdl"}
      BY <1>5 DEF Shape, Control, Class, Vendor, StorableVendor
    <2>3. Len(OffsetsOf(r)) = 0
      BY <2>2, EmptySeq DEF Shape
    <2>4. CASE room < r.length
      BY <1>1, <2>1, <2>3, <2>4, NotStoredIs DEF store_urb_class_vendor_partial, Rest, PacketLength
    <2>5. CASE ~ (room < r.length) /\ (r.at = "pointer" \/ r.length = 0)
      BY <1>2, <2>1, <2>2, <2>5 DEF store_urb_class_vendor_partial, CopyUnmapped, Rest
    <2>6. CASE ~ (room < r.length) /\ ~ (r.at = "pointer" \/ r.length = 0)
      BY <1>1, <2>1, <2>2, <2>6, NotStoredIs
      DEF store_urb_class_vendor_partial, CopyUnmapped, Rest, Unmapped
    <2> QED
      BY <2>4, <2>5, <2>6
  <1> QED
    BY <1>3, <1>4, <1>5 DEF Transfers

Desc == [offset : Int, length : Int]

(* What Information covers is what the program gets: of a message that it  *)
(* counts whole, everything.                                               *)
LEMMA WholeDelivered ==
  ASSUME NEW h, NEW d \in Seq(Int), NEW e \in Seq(Desc), NEW info \in Nat,
         info = (IF h = NoHeader THEN 0 ELSE HeaderLength) + Len(d) + Len(e) * PacketLength
  PROVE  Delivered(Stored([hdr |-> h, data |-> d, descs |-> e], info, 0)) =
            [hdr |-> h, data |-> d, descs |-> e]
  <1> DEFINE s == Stored([hdr |-> h, data |-> d, descs |-> e], info, 0)
             left == s.info - (IF s.message.hdr = NoHeader THEN 0 ELSE HeaderLength)
             bytes == Min({left, Len(s.message.data)})
  <1>1. s.message = [hdr |-> h, data |-> d, descs |-> e] /\ s.info = info
    BY DEF Stored
  <1>2. Len(d) \in Nat /\ Len(e) \in Nat
    BY LenProperties
  <1>3. left \in Nat /\ left = Len(d) + Len(e) * PacketLength
    <2>1. left = info - (IF h = NoHeader THEN 0 ELSE HeaderLength)
      BY <1>1
    <2> HIDE DEF s, left
    <2>2. CASE h = NoHeader
      BY <1>2, <2>1, <2>2 DEF PacketLength
    <2>3. CASE h # NoHeader
      BY <1>2, <2>1, <2>3 DEF HeaderLength, PacketLength
    <2> QED
      BY <2>2, <2>3
  <1>4. bytes = Len(d)
    <2>1. s.message.data = d
      BY <1>1
    <2>2. bytes = Min({left, Len(d)})
      BY <2>1
    <2> HIDE DEF s, left, bytes
    <2>3. left >= Len(d)
      BY <1>2, <1>3 DEF PacketLength
    <2>4. Min({left, Len(d)}) = IF left <= Len(d) THEN left ELSE Len(d)
      BY <1>2, <1>3, MinOfTwo
    <2> QED
      BY <1>2, <1>3, <2>2, <2>3, <2>4
  <1>5. (left - bytes) \div PacketLength = Len(e)
    <2> HIDE DEF left, bytes
    <2> QED
      BY <1>2, <1>3, <1>4 DEF PacketLength
  <1>6. Delivered(s) = [s.message EXCEPT
                            !.hdr = IF s.info < HeaderLength THEN NoHeader ELSE @,
                            !.data = SubSeq(@, 1, bytes),
                            !.descs = SubSeq(@, 1, (left - bytes) \div PacketLength)]
    BY DEF Delivered
  <1> HIDE DEF s, left, bytes
  <1>7. SubSeq(d, 1, bytes) = d /\ SubSeq(e, 1, (left - bytes) \div PacketLength) = e
    BY <1>4, <1>5, SubSeqFull
  <1>8. (IF s.info < HeaderLength THEN NoHeader ELSE h) = h
    <2>1. CASE h = NoHeader
      BY <2>1
    <2>2. CASE h # NoHeader
      <3>1. info >= HeaderLength
        BY <1>2, <2>2 DEF HeaderLength, PacketLength
      <3> QED
        BY <1>1, <3>1 DEF HeaderLength
    <2> QED
      BY <2>1, <2>2
  <1>10. s.message.hdr = h /\ s.message.data = d /\ s.message.descs = e
    BY <1>1
  <1>9. Delivered(s) = [hdr |-> IF s.info < HeaderLength THEN NoHeader ELSE h,
                        data |-> SubSeq(d, 1, bytes),
                        descs |-> SubSeq(e, 1, (left - bytes) \div PacketLength)]
    BY <1>1, <1>6, <1>10, Zenon
  <1> QED
    BY <1>7, <1>8, <1>9 DEF s

LEMMA DataDelivered ==
  ASSUME NEW h, NEW d \in Seq(Int), NEW info \in Nat,
         info = (IF h = NoHeader THEN 0 ELSE HeaderLength) + Len(d)
  PROVE  Delivered(Stored([hdr |-> h, data |-> d, descs |-> <<>>], info, 0)) =
            [hdr |-> h, data |-> d, descs |-> <<>>]
  <1>1. <<>> \in Seq(Desc) /\ Len(<<>>) = 0
    BY EmptySeq
  <1> DEFINE head == IF h = NoHeader THEN 0 ELSE HeaderLength
             none == <<>>
  <1>2. Len(d) \in Nat /\ head \in Nat /\ info = head + Len(d) /\ Len(none) = 0
        /\ none \in Seq(Desc)
    BY <1>1, LenProperties DEF HeaderLength
  <1> HIDE DEF head, none
  <1>3. info = head + Len(d) + Len(none) * PacketLength
    BY <1>2 DEF PacketLength
  <1>4. Delivered(Stored([hdr |-> h, data |-> d, descs |-> none], info, 0)) =
            [hdr |-> h, data |-> d, descs |-> none]
    BY <1>2, <1>3, WholeDelivered, Zenon DEF head
  <1> QED
    BY <1>4 DEF none

(* Of a message whose header is counted and whose data is not, the header. *)
LEMMA HeaderDelivered ==
  ASSUME NEW h, h # NoHeader, NEW S, NEW d \in Seq(S), NEW len
  PROVE  Delivered(Stored([hdr |-> h, data |-> d, descs |-> <<>>], HeaderLength, len)) =
            [hdr |-> h, data |-> <<>>, descs |-> <<>>]
  <1> DEFINE s == Stored([hdr |-> h, data |-> d, descs |-> <<>>], HeaderLength, len)
             left == s.info - (IF s.message.hdr = NoHeader THEN 0 ELSE HeaderLength)
             bytes == Min({left, Len(s.message.data)})
  <1>1. s.message = [hdr |-> h, data |-> d, descs |-> <<>>] /\ s.info = HeaderLength
    BY DEF Stored
  <1>2. Len(d) \in Nat
    BY LenProperties
  <1>3. left = 0
    BY <1>1 DEF HeaderLength
  <1>4. bytes = 0
    <2>1. s.message.data = d
      BY <1>1
    <2> HIDE DEF s, left
    <2> QED
      BY <1>2, <1>3, <2>1, MinOfTwo
  <1>6. Delivered(s) = [s.message EXCEPT
                            !.hdr = IF s.info < HeaderLength THEN NoHeader ELSE @,
                            !.data = SubSeq(@, 1, bytes),
                            !.descs = SubSeq(@, 1, (left - bytes) \div PacketLength)]
    BY DEF Delivered
  <1> HIDE DEF s, left, bytes
  <1>7. SubSeq(d, 1, bytes) = <<>> /\ SubSeq(<<>>, 1, (left - bytes) \div PacketLength) = <<>>
    <2>1. (left - bytes) \div PacketLength = 0
      BY <1>3, <1>4 DEF PacketLength
    <2> QED
      BY <1>4, <2>1, SubSeqEmpty
  <1>8. (IF s.info < HeaderLength THEN NoHeader ELSE h) = h
    BY <1>1 DEF HeaderLength
  <1>10. s.message.hdr = h /\ s.message.data = d /\ s.message.descs = <<>>
    BY <1>1
  <1>9. Delivered(s) = [hdr |-> IF s.info < HeaderLength THEN NoHeader ELSE h,
                        data |-> SubSeq(d, 1, bytes),
                        descs |-> SubSeq(<<>>, 1, (left - bytes) \div PacketLength)]
    BY <1>1, <1>6, <1>10, Zenon
  <1> QED
    BY <1>7, <1>8, <1>9 DEF s

Bytes(n) == [k \in 1 .. n |-> k]

InOrder(r) == \A i \in DOMAIN OffsetsOf(r) : ~ Unset(r, i)

(* MessageComplete, of any request, the room of its last read and what the *)
(* program has of it.                                                      *)
Complete(r, room, message) ==
    /\ HeaderOK(r, message.hdr)
    /\ Direction(r) = "in" => message.data = <<>> /\ message.descs = <<>>
    /\ (/\ Direction(r) = "out" /\ InOrder(r)
        /\ ~ (r.function = "BULK_OR_INTERRUPT_TRANSFER" /\ room >= HeaderLength + r.length)
        /\ r.function = "ISOCH_TRANSFER" => get_buf(r))
       => /\ message.data = Bytes(LengthOf(r))
          /\ Len(message.descs) = message.hdr.packets
          /\ \A i \in DOMAIN message.descs :
                message.descs[i].offset + message.descs[i].length = OffsetAt(r, i + 1)

LEMMA BytesIs ==
  ASSUME NEW n \in Nat
  PROVE  /\ Bytes(n) \in Seq(Int) /\ Len(Bytes(n)) = n
         /\ n = 0 => Bytes(n) = <<>>
  BY DEF Bytes

LEMMA IsoData ==
  ASSUME NEW r, Shape(r), r.function = "ISOCH_TRANSFER", NEW m, NEW hdr,
         m.buffer = Bytes(LengthOf(r))
  PROVE  \E d \in Seq(Int), e \in Seq(Desc) :
            /\ copy_iso_data(r, m, hdr) = [hdr |-> hdr, data |-> d, descs |-> e]
            /\ Len(d) = r.length /\ Len(e) = Len(r.offsets)
            /\ get_buf(r) => d = m.buffer
            /\ get_buf(r) /\ InOrder(r) =>
                    \A i \in DOMAIN e : e[i].offset + e[i].length = OffsetAt(r, i + 1)
  <1> DEFINE n == Len(r.offsets)
             desc(i) == IF Unset(r, i) THEN NoDesc
                        ELSE [offset |-> r.offsets[i],
                              length |-> OffsetAt(r, i + 1) - r.offsets[i]]
  <1>1. /\ r.length \in Nat /\ LengthOf(r) = r.length /\ OffsetsOf(r) = r.offsets
        /\ r.offsets \in Seq(Nat)
    BY DEF Shape, Data, Transfers
  <1>2. n \in Nat /\ DOMAIN r.offsets = 1 .. n /\ \A i \in 1 .. n : r.offsets[i] \in Nat
    BY <1>1, LenProperties, ElementOfSeq
  <1>3. \A i \in 1 .. n : OffsetAt(r, i + 1) \in Int
    <2>1. \A i \in 1 .. n : i + 1 \in DOMAIN r.offsets => r.offsets[i + 1] \in Nat
      BY <1>2
    <2> QED
      BY <1>1, <2>1 DEF OffsetAt
  <1> HIDE DEF n
  <1>4. NoDesc \in Desc /\ \A i \in 1 .. n : desc(i) \in Desc
    <2>1. NoDesc \in Desc
      BY DEF NoDesc, Desc
    <2>2. ASSUME NEW i \in 1 .. n PROVE desc(i) \in Desc
      <3>1. r.offsets[i] \in Int /\ OffsetAt(r, i + 1) - r.offsets[i] \in Int
        BY <1>2, <1>3
      <3> QED
        BY <2>1, <3>1 DEF Desc
    <2> QED
      BY <2>1, <2>2
  <1>5. CASE get_buf(r)
    <2> DEFINE e == [i \in 1 .. n |-> desc(i)]
    <2>1. copy_iso_data(r, m, hdr) = [hdr |-> hdr, data |-> m.buffer, descs |-> e]
      BY <1>2, <1>5, Zenon DEF copy_iso_data
    <2>2. e \in Seq(Desc) /\ Len(e) = n
      <3> HIDE DEF desc
      <3> QED
        BY <1>2, <1>4
    <2>3. ASSUME InOrder(r), NEW i \in 1 .. n
          PROVE  e[i].offset + e[i].length = OffsetAt(r, i + 1)
      <3>1. ~ Unset(r, i)
        BY <1>1, <1>2, <2>3 DEF InOrder
      <3>2. e[i] = [offset |-> r.offsets[i], length |-> OffsetAt(r, i + 1) - r.offsets[i]]
        BY <3>1
      <3> QED
        BY <1>2, <1>3, <3>2
    <2>4. DOMAIN e = 1 .. n
      OBVIOUS
    <2>5. m.buffer \in Seq(Int) /\ Len(m.buffer) = r.length
      BY <1>1, BytesIs
    <2> HIDE DEF e
    <2> QED
      BY <2>1, <2>2, <2>3, <2>4, <2>5 DEF n
  <1>6. CASE ~ get_buf(r)
    <2> DEFINE d == [i \in 1 .. r.length |-> 0]
               e == [i \in 1 .. n |-> NoDesc]
    <2>1. copy_iso_data(r, m, hdr) = [hdr |-> hdr, data |-> d, descs |-> e]
      BY <1>2, <1>6, Zenon DEF copy_iso_data
    <2>2. e \in Seq(Desc) /\ Len(e) = n
      BY <1>2, <1>4
    <2>3. d \in Seq(Int) /\ Len(d) = r.length
      BY <1>1
    <2> HIDE DEF d, e
    <2> QED
      BY <1>6, <2>1, <2>2, <2>3 DEF n
  <1> QED
    BY <1>5, <1>6

LEMMA EmptyIsSeq == ASSUME NEW S PROVE <<>> \in Seq(S) /\ Len(<<>>) = 0
  BY EmptySeq

(* A first read that succeeds has brought a header and no data, with the   *)
(* data to come, or everything.                                            *)
LEMMA FirstComplete ==
  ASSUME NEW r, Shape(r), NEW m, m.buffer = Bytes(LengthOf(r)), NEW room \in Nat,
         NEW s, s.status = "SUCCESS", Outcome(r, m, room, s)
  PROVE  /\ Delivered(s).data \in Seq(Int) /\ Delivered(s).descs \in Seq(Desc)
         /\ HeaderOK(r, Delivered(s).hdr)
         /\ s.len = 0 => Complete(r, room, Delivered(s))
         /\ s.len # 0 =>
                /\ Delivered(s).data = <<>> /\ Delivered(s).descs = <<>>
                /\ Direction(r) = "out" /\ r.function \in Transfers \cup Control
  <1>1. PICK hdr \in UsbipHeader :
        /\ HeaderOK(r, hdr)
        /\ \/ s = Header(hdr) /\ (Direction(r) = "in" \/ r.function \notin Data)
           \/ s = HeaderOnly(hdr) /\ Direction(r) = "out" /\ r.function \in Transfers \cup Control
           \/ /\ s = Stored([hdr |-> hdr, data |-> m.buffer, descs |-> <<>>], HeaderLength, 0)
              /\ r.function = "BULK_OR_INTERRUPT_TRANSFER" /\ Direction(r) = "out"
              /\ room >= HeaderLength + r.length
           \/ /\ s = Stored([hdr |-> hdr, data |-> m.buffer, descs |-> <<>>],
                            HeaderLength + r.length, 0)
              /\ r.function \in Control /\ Direction(r) = "out"
           \/ /\ s = Stored(copy_iso_data(r, m, hdr), HeaderLength + IsoLength(r), 0)
              /\ r.function = "ISOCH_TRANSFER" /\ Direction(r) = "out"
    BY DEF Outcome
  <1>12. HeaderOK(r, hdr)
    BY <1>1
  <1>2. hdr # NoHeader
    BY TransferAssumption
  <1>3. /\ LengthOf(r) \in Nat
        /\ m.buffer \in Seq(Int) /\ Len(m.buffer) = LengthOf(r)
    <2>1. LengthOf(r) \in Nat
      BY DEF Shape
    <2> QED
      BY <2>1, BytesIs
  <1>4. [Nothing EXCEPT !.hdr = hdr] = [hdr |-> hdr, data |-> <<>>, descs |-> <<>>]
    BY DEF Nothing
  <1>5. \A len : Delivered(Stored([hdr |-> hdr, data |-> <<>>, descs |-> <<>>], HeaderLength, len))
                    = [hdr |-> hdr, data |-> <<>>, descs |-> <<>>]
    BY <1>2, EmptyIsSeq, HeaderDelivered
  <1>6. <<>> \in Seq(Int) /\ <<>> \in Seq(Desc) /\ Len(<<>>) = 0
    BY EmptyIsSeq
  <1>7. CASE s = Header(hdr) /\ (Direction(r) = "in" \/ r.function \notin Data)
    <2>1. Delivered(s) = [hdr |-> hdr, data |-> <<>>, descs |-> <<>>] /\ s.len = 0
      BY <1>4, <1>5, <1>7 DEF Header, Stored
    <2>2. r.function \notin Data => /\ LengthOf(r) = 0 /\ Bytes(LengthOf(r)) = <<>>
                                    /\ hdr.packets = 0
      BY <1>1, <1>3, <1>6, BytesIs DEF Shape, HeaderOK, Data, Transfers
    <2> QED
      BY <1>1, <1>6, <1>7, <2>1, <2>2 DEF Complete
  <1>8. CASE s = HeaderOnly(hdr) /\ Direction(r) = "out" /\ r.function \in Transfers \cup Control
    <2>1. Delivered(s) = [hdr |-> hdr, data |-> <<>>, descs |-> <<>>] /\ s.len # 0
      BY <1>4, <1>5, <1>8 DEF HeaderOnly, Stored, HeaderLength
    <2> QED
      BY <1>1, <1>6, <1>8, <2>1
  <1>9. CASE /\ s = Stored([hdr |-> hdr, data |-> m.buffer, descs |-> <<>>], HeaderLength, 0)
             /\ r.function = "BULK_OR_INTERRUPT_TRANSFER" /\ Direction(r) = "out"
             /\ room >= HeaderLength + r.length
    <2>1. Delivered(s) = [hdr |-> hdr, data |-> <<>>, descs |-> <<>>] /\ s.len = 0
      BY <1>2, <1>3, <1>9, HeaderDelivered DEF Stored
    <2>2. Delivered(s).hdr = hdr /\ Delivered(s).data = <<>> /\ Delivered(s).descs = <<>>
      BY <2>1
    <2> QED
      BY <1>6, <1>9, <1>12, <2>1, <2>2 DEF Complete
  <1>10. CASE /\ s = Stored([hdr |-> hdr, data |-> m.buffer, descs |-> <<>>],
                            HeaderLength + r.length, 0)
              /\ r.function \in Control /\ Direction(r) = "out"
    <2>1. LengthOf(r) = r.length /\ OffsetsOf(r) = <<>>
      BY <1>10 DEF Shape, Data, Control, Class, StorableVendor, Vendor
    <2>2. /\ HeaderLength + r.length = (IF hdr = NoHeader THEN 0 ELSE HeaderLength) + Len(m.buffer)
          /\ HeaderLength + r.length \in Nat
      BY <1>2, <1>3, <2>1 DEF HeaderLength
    <2>5. Delivered(Stored([hdr |-> hdr, data |-> m.buffer, descs |-> <<>>],
                           HeaderLength + r.length, 0))
            = [hdr |-> hdr, data |-> m.buffer, descs |-> <<>>]
      BY <1>3, <2>2, DataDelivered
    <2>3. Delivered(s) = [hdr |-> hdr, data |-> m.buffer, descs |-> <<>>] /\ s.len = 0
      BY <1>10, <2>5 DEF Stored
    <2>4. hdr.packets = 0
      BY <1>1, <1>6, <2>1 DEF HeaderOK
    <2>6. /\ Delivered(s).hdr = hdr /\ Delivered(s).data = m.buffer
          /\ Delivered(s).descs = <<>>
      BY <2>3
    <2>7. Complete(r, room, Delivered(s))
      <3>1. Len(Delivered(s).descs) = 0 /\ DOMAIN Delivered(s).descs = {}
        BY <2>6
      <3>2. Direction(r) # "in" /\ HeaderOK(r, Delivered(s).hdr)
        BY <1>10, <1>12, <2>6
      <3> QED
        BY <2>4, <2>6, <3>1, <3>2, Zenon DEF Complete
    <2> QED
      BY <1>3, <1>6, <1>12, <2>3, <2>6, <2>7
  <1>11. CASE /\ s = Stored(copy_iso_data(r, m, hdr), HeaderLength + IsoLength(r), 0)
              /\ r.function = "ISOCH_TRANSFER" /\ Direction(r) = "out"
    <2>1. PICK d \in Seq(Int), e \in Seq(Desc) :
            /\ copy_iso_data(r, m, hdr) = [hdr |-> hdr, data |-> d, descs |-> e]
            /\ Len(d) = r.length /\ Len(e) = Len(r.offsets)
            /\ get_buf(r) => d = m.buffer
            /\ get_buf(r) /\ InOrder(r) =>
                    \A i \in DOMAIN e : e[i].offset + e[i].length = OffsetAt(r, i + 1)
      BY <1>11, IsoData
    <2>2. Len(d) \in Nat /\ Len(e) \in Nat
      BY LenProperties
    <2>3. HeaderLength + IsoLength(r) =
            (IF hdr = NoHeader THEN 0 ELSE HeaderLength) + Len(d) + Len(e) * PacketLength
          /\ HeaderLength + IsoLength(r) \in Nat
      BY <1>2, <2>1, <2>2 DEF IsoLength, PacketLength, HeaderLength
    <2>6. Delivered(Stored([hdr |-> hdr, data |-> d, descs |-> e], HeaderLength + IsoLength(r), 0))
            = [hdr |-> hdr, data |-> d, descs |-> e]
      BY <2>3, WholeDelivered
    <2>4. Delivered(s) = [hdr |-> hdr, data |-> d, descs |-> e] /\ s.len = 0
      BY <1>11, <2>1, <2>6 DEF Stored
    <2>5. hdr.packets = Len(r.offsets)
      BY <1>1, <1>11 DEF HeaderOK, Shape
    <2> QED
      BY <1>1, <1>3, <1>11, <2>1, <2>4, <2>5 DEF Complete
  <1> QED
    BY <1>1, <1>7, <1>8, <1>9, <1>10, <1>11

LEMMA SecondComplete ==
  ASSUME NEW r, Shape(r), r.function \in Transfers \cup Control, Direction(r) = "out",
         NEW m, m.buffer = Bytes(LengthOf(r)), NEW room \in Nat,
         NEW s, s.status = "SUCCESS", Rest(r, m, room, s), NEW h, HeaderOK(r, h)
  PROVE  /\ Delivered(s).data \in Seq(Int) /\ Delivered(s).descs \in Seq(Desc)
         /\ s.len = 0
         /\ Complete(r, room, [hdr |-> h, data |-> Delivered(s).data, descs |-> Delivered(s).descs])
  <1>1. /\ LengthOf(r) = r.length /\ r.length \in Nat
        /\ m.buffer \in Seq(Int) /\ Len(m.buffer) = r.length
    <2>1. LengthOf(r) = r.length /\ LengthOf(r) \in Nat
      BY DEF Shape, Data, Control, StorableVendor
    <2> QED
      BY <2>1, BytesIs
  <1>2. <<>> \in Seq(Int) /\ <<>> \in Seq(Desc) /\ Len(<<>>) = 0
    BY EmptyIsSeq
  <1>3. CASE /\ s = Stored([hdr |-> NoHeader, data |-> m.buffer, descs |-> <<>>], r.length, 0)
             /\ r.function # "ISOCH_TRANSFER"
    <2>1. r.length = (IF NoHeader = NoHeader THEN 0 ELSE HeaderLength) + Len(m.buffer)
      BY <1>1
    <2>4. Delivered(Stored([hdr |-> NoHeader, data |-> m.buffer, descs |-> <<>>], r.length, 0))
            = [hdr |-> NoHeader, data |-> m.buffer, descs |-> <<>>]
      BY <1>1, <2>1, DataDelivered
    <2>2. Delivered(s) = [hdr |-> NoHeader, data |-> m.buffer, descs |-> <<>>] /\ s.len = 0
      BY <1>3, <2>4 DEF Stored
    <2>3. h.packets = 0
      BY <1>2, <1>3 DEF HeaderOK, Shape
    <2> QED
      BY <1>1, <1>2, <2>2, <2>3 DEF Complete
  <1>4. CASE /\ s = Stored(copy_iso_data(r, m, NoHeader), IsoLength(r), 0)
             /\ r.function = "ISOCH_TRANSFER"
    <2>1. PICK d \in Seq(Int), e \in Seq(Desc) :
            /\ copy_iso_data(r, m, NoHeader) = [hdr |-> NoHeader, data |-> d, descs |-> e]
            /\ Len(d) = r.length /\ Len(e) = Len(r.offsets)
            /\ get_buf(r) => d = m.buffer
            /\ get_buf(r) /\ InOrder(r) =>
                    \A i \in DOMAIN e : e[i].offset + e[i].length = OffsetAt(r, i + 1)
      BY <1>4, IsoData
    <2>2. Len(d) \in Nat /\ Len(e) \in Nat
      BY LenProperties
    <2>3. IsoLength(r) =
            (IF NoHeader = NoHeader THEN 0 ELSE HeaderLength) + Len(d) + Len(e) * PacketLength
          /\ IsoLength(r) \in Nat
      BY <2>1, <2>2 DEF IsoLength, PacketLength
    <2>6. Delivered(Stored([hdr |-> NoHeader, data |-> d, descs |-> e], IsoLength(r), 0))
            = [hdr |-> NoHeader, data |-> d, descs |-> e]
      BY <2>3, WholeDelivered
    <2>4. Delivered(s) = [hdr |-> NoHeader, data |-> d, descs |-> e] /\ s.len = 0
      BY <1>4, <2>1, <2>6 DEF Stored
    <2>5. h.packets = Len(r.offsets)
      BY <1>4 DEF HeaderOK, Shape
    <2> QED
      BY <1>1, <1>4, <2>1, <2>4, <2>5 DEF Complete
  <1> QED
    BY <1>3, <1>4 DEF Rest

-----------------------------------------------------------------------------
(* The walk over the endpoints of an interface.                            *)

(* The function that EndpointPlaces declares.                              *)
Walks(f, dsc, start, n) ==
    f = [i \in 0 .. n |->
            CASE i = 0 -> start
              [] i > 0 /\ f[i - 1] = 0 -> 0
              [] OTHER -> USBD_ParseDescriptors(dsc, f[i - 1] + 1, "endpoint")]

LEMMA WalkExists ==
  ASSUME NEW dsc, NEW start, NEW n \in Nat
  PROVE  \E f : Walks(f, dsc, start, n)
  <1> DEFINE Bad == {m \in Nat : ~ \E f : Walks(f, dsc, start, m)}
             step(p) == USBD_ParseDescriptors(dsc, p + 1, "endpoint")
  <1> SUFFICES ASSUME n \in Bad PROVE FALSE
    BY Zenon
  <1>1. PICK m \in Bad : \A k \in Bad : m <= k
    <2>1. Bad \subseteq Nat /\ Bad # {}
      BY Zenon
    <2> HIDE DEF Bad
    <2> QED
      BY <2>1, LeastNumber
  <1>2. m # 0
    <2> DEFINE f == [i \in 0 .. 0 |-> start]
    <2>1. \A i \in 0 .. 0 : i = 0
      OBVIOUS
    <2>2. Walks(f, dsc, start, 0)
      BY <2>1 DEF Walks
    <2> HIDE DEF f
    <2> QED
      BY <1>1, <2>2, Zenon
  <1>3. m \in Nat
    BY <1>1, Zenon
  <1>4. m - 1 \in Nat /\ m - 1 \notin Bad
    <2> HIDE DEF Bad
    <2> QED
      BY <1>1, <1>2, <1>3
  <1>5. PICK g : Walks(g, dsc, start, m - 1)
    BY <1>4, Zenon
  <1> DEFINE f == [i \in 0 .. m |-> IF i < m THEN g[i]
                                    ELSE IF g[m - 1] = 0 THEN 0 ELSE step(g[m - 1])]
  <1>6. Walks(f, dsc, start, m)
    <2> HIDE DEF step
    <2>1. ASSUME NEW i \in 0 .. m
          PROVE  f[i] = CASE i = 0 -> start
                          [] i > 0 /\ f[i - 1] = 0 -> 0
                          [] OTHER -> step(f[i - 1])
      <3>1. CASE i < m
        <4>1. i \in 0 .. m - 1 /\ (i > 0 => i - 1 \in 0 .. m /\ i - 1 < m)
          BY <1>3, <3>1
        <4>2. f[i] = g[i] /\ (i > 0 => f[i - 1] = g[i - 1])
          BY <3>1, <4>1
        <4>3. g[i] = CASE i = 0 -> start
                       [] i > 0 /\ g[i - 1] = 0 -> 0
                       [] OTHER -> step(g[i - 1])
          BY <1>5, <4>1, Zenon DEF Walks, step
        <4> HIDE DEF f
        <4> QED
          BY <4>1, <4>2, <4>3
      <3>2. CASE ~ (i < m)
        <4>1. i = m /\ i - 1 \in 0 .. m /\ i - 1 < m /\ i > 0
          BY <1>2, <1>3, <3>2
        <4>2. f[i - 1] = g[m - 1] /\ f[i] = IF g[m - 1] = 0 THEN 0 ELSE step(g[m - 1])
          BY <3>2, <4>1
        <4> HIDE DEF f
        <4> QED
          BY <4>1, <4>2
      <3> QED
        BY <3>1, <3>2
    <2>2. f = [i \in 0 .. m |-> f[i]]
      OBVIOUS
    <2> HIDE DEF f
    <2> QED
      BY <2>1, <2>2, Zenon DEF Walks, step
  <1> HIDE DEF f
  <1> QED
    BY <1>1, <1>6, Zenon

(* How many endpoints of an interface there are up to a place.             *)
UpTo(dsc, start, p) == {j \in EndpointsBehind(dsc, start) : j <= p}

(* From one endpoint of the interface, or its own descriptor, the walk     *)
(* reaches the next one.                                                   *)
LEMMA WalkStep ==
  ASSUME NEW dsc, Len(dsc) \in Nat, NEW start \in Nat, NEW p \in Nat, start > 0,
         p = start \/ p \in EndpointsBehind(dsc, start),
         NEW j \in EndpointsBehind(dsc, start), j > p
  PROVE  LET q == USBD_ParseDescriptors(dsc, p + 1, "endpoint")
         IN  /\ q \in EndpointsBehind(dsc, start) /\ q > p
             /\ Cardinality(UpTo(dsc, start, q)) = Cardinality(UpTo(dsc, start, p)) + 1
  <1> DEFINE I == {i \in p + 1 .. Len(dsc) : dsc[i].type = "endpoint"}
  <1>1. EndpointsBehind(dsc, start) \subseteq start + 1 .. Len(dsc) /\ p >= start
    BY DEF EndpointsBehind
  <1>2. j \in I /\ I \subseteq Nat
    BY <1>1 DEF EndpointsBehind
  <1>3. Min(I) \in I /\ \A i \in I : Min(I) <= i
    <2> HIDE DEF I
    <2> QED
      BY <1>2, MinIs
  <1>4. USBD_ParseDescriptors(dsc, p + 1, "endpoint") = Min(I)
    BY <1>2 DEF USBD_ParseDescriptors, SelectInSubSeq
  <1> DEFINE q == Min(I)
  <1>5. q \in Nat /\ q > p /\ q <= j /\ q <= Len(dsc) /\ dsc[q].type = "endpoint" /\ j <= Len(dsc)
    <2>1. q \in I /\ q <= j /\ j \in I
      BY <1>2, <1>3
    <2> HIDE DEF q
    <2> QED
      BY <2>1
  <1>6. \A k \in EndpointsBehind(dsc, start) : k > p => q <= k
    <2> SUFFICES ASSUME NEW k \in EndpointsBehind(dsc, start), k > p PROVE k \in I
      BY <1>3
    <2> QED
      BY <1>1 DEF EndpointsBehind
  <1> HIDE DEF q, I
  <1>7. q \in EndpointsBehind(dsc, start)
    <2>1. \A i \in start + 1 .. j : dsc[i].type # "interface"
      BY DEF EndpointsBehind
    <2> QED
      BY <1>1, <1>5, <2>1 DEF EndpointsBehind
  <1>8. UpTo(dsc, start, q) = UpTo(dsc, start, p) \cup {q} /\ q \notin UpTo(dsc, start, p)
    <2>1. \A k \in EndpointsBehind(dsc, start) : k \in Nat
      BY <1>1
    <2>2. \A k \in EndpointsBehind(dsc, start) : k <= q <=> (k <= p \/ k = q)
      BY <1>5, <1>6, <2>1
    <2>3. UpTo(dsc, start, q) = UpTo(dsc, start, p) \cup {q}
      BY <1>7, <2>2 DEF UpTo
    <2> QED
      BY <1>5, <2>3 DEF UpTo
  <1>9. IsFiniteSet(UpTo(dsc, start, p))
    BY EndpointsCounted, FS_Subset DEF UpTo
  <1>10. Cardinality(UpTo(dsc, start, q)) = Cardinality(UpTo(dsc, start, p)) + 1
    BY <1>8, <1>9, FS_AddElement
  <1> QED
    BY <1>4, <1>5, <1>7, <1>10 DEF q

(* Step i of the walk is at endpoint i of the interface.                   *)
LEMMA WalkIs ==
  ASSUME NEW dsc, Len(dsc) \in Nat, NEW start \in Nat, start > 0,
         NEW n \in Nat, n = Cardinality(EndpointsBehind(dsc, start)),
         NEW f, Walks(f, dsc, start, n), NEW i \in 1 .. n
  PROVE  f[i] \in EndpointsBehind(dsc, start) /\ Cardinality(UpTo(dsc, start, f[i])) = i
  <1> DEFINE Good(k) == /\ f[k] \in Nat /\ (f[k] = start \/ f[k] \in EndpointsBehind(dsc, start))
                        /\ k > 0 => f[k] \in EndpointsBehind(dsc, start)
                        /\ Cardinality(UpTo(dsc, start, f[k])) = k
             Bad == {k \in 0 .. n : ~ Good(k)}
  <1>0. EndpointsBehind(dsc, start) \subseteq start + 1 .. Len(dsc)
    BY DEF EndpointsBehind
  <1> SUFFICES ASSUME Bad # {} PROVE FALSE
    <2>1. i \in 0 .. n /\ i > 0
      OBVIOUS
    <2> QED
      BY <2>1
  <1>1. PICK m \in Bad : \A k \in Bad : m <= k
    <2>1. Bad \subseteq Nat
      OBVIOUS
    <2> HIDE DEF Bad
    <2> QED
      BY <2>1, LeastNumber
  <1>2. m \in 0 .. n /\ ~ Good(m)
    BY <1>1
  <1>3. f[0] = start
    <2>1. 0 \in 0 .. n
      OBVIOUS
    <2> QED
      BY <2>1 DEF Walks
  <1>4. m # 0
    <2>1. UpTo(dsc, start, start) = {}
      BY <1>0 DEF UpTo
    <2>2. Cardinality(UpTo(dsc, start, start)) = 0
      BY <2>1, FS_EmptySet
    <2> QED
      BY <1>2, <1>3, <2>2
  <1>5. m - 1 \in 0 .. n /\ m - 1 \notin Bad /\ m > 0
    <2> HIDE DEF Bad
    <2> QED
      BY <1>1, <1>2, <1>4
  <1>6. Good(m - 1)
    BY <1>5, Zenon
  <1> HIDE DEF Bad
  <1> DEFINE p == f[m - 1]
  <1>7. p \in Nat /\ (p = start \/ p \in EndpointsBehind(dsc, start)) /\ p > 0
        /\ Cardinality(UpTo(dsc, start, p)) = m - 1
    BY <1>0, <1>6
  <1>8. f[m] = USBD_ParseDescriptors(dsc, p + 1, "endpoint")
    <2>1. f[m] = CASE m = 0 -> start
                   [] m > 0 /\ f[m - 1] = 0 -> 0
                   [] OTHER -> USBD_ParseDescriptors(dsc, f[m - 1] + 1, "endpoint")
      BY <1>2, Zenon DEF Walks
    <2> QED
      BY <1>4, <1>7, <2>1
  <1> HIDE DEF Good, p
  <1>9. \E j \in EndpointsBehind(dsc, start) : j > p
    <2> SUFFICES ASSUME \A j \in EndpointsBehind(dsc, start) : ~ (j > p) PROVE FALSE
      OBVIOUS
    <2>1. UpTo(dsc, start, p) = EndpointsBehind(dsc, start)
      BY <1>0, <1>7 DEF UpTo
    <2> QED
      BY <1>2, <1>7, <2>1
  <1>10. /\ f[m] \in EndpointsBehind(dsc, start)
         /\ Cardinality(UpTo(dsc, start, f[m])) = Cardinality(UpTo(dsc, start, p)) + 1
    BY <1>7, <1>8, <1>9, WalkStep
  <1>11. Cardinality(UpTo(dsc, start, f[m])) = m /\ f[m] \in Nat
    <2>1. \A j \in EndpointsBehind(dsc, start) : j \in Nat
      BY <1>0
    <2>2. m \in Nat
      BY <1>2
    <2> QED
      BY <1>7, <1>10, <2>1, <2>2
  <1>12. Good(m)
    BY <1>10, <1>11 DEF Good
  <1> QED
    BY <1>2, <1>12

LEMMA PlacesAre ==
  ASSUME NEW dsc, Len(dsc) \in Nat, NEW start \in Nat, start > 0,
         NEW n \in Nat, n = Cardinality(EndpointsBehind(dsc, start)), NEW i \in 1 .. n
  PROVE  /\ EndpointPlaces(dsc, start, n)[i] \in EndpointsBehind(dsc, start)
         /\ Cardinality(UpTo(dsc, start, EndpointPlaces(dsc, start, n)[i])) = i
  <1> DEFINE f == CHOOSE f : Walks(f, dsc, start, n)
  <1>1. Walks(f, dsc, start, n)
    BY WalkExists, Zenon
  <1>2. EndpointPlaces(dsc, start, n) = [k \in 1 .. n |-> f[k]]
    BY Zenon DEF EndpointPlaces, Walks
  <1> HIDE DEF f
  <1>3. EndpointPlaces(dsc, start, n)[i] = f[i]
    BY <1>2
  <1> QED
    BY <1>1, <1>3, WalkIs

(* Two endpoints of an interface are not at the same rank.                 *)
LEMMA RankUnique ==
  ASSUME NEW dsc, Len(dsc) \in Nat, NEW start \in Nat,
         NEW j \in EndpointsBehind(dsc, start), NEW k \in EndpointsBehind(dsc, start),
         Cardinality(UpTo(dsc, start, j)) = Cardinality(UpTo(dsc, start, k))
  PROVE  j = k
  <1>1. j \in Nat /\ k \in Nat /\ EndpointsBehind(dsc, start) \subseteq Nat
    BY DEF EndpointsBehind
  <1>2. /\ \A p : UpTo(dsc, start, p) \subseteq EndpointsBehind(dsc, start)
        /\ IsFiniteSet(EndpointsBehind(dsc, start))
    BY EndpointsCounted DEF UpTo
  <1>3. IsFiniteSet(UpTo(dsc, start, j)) /\ IsFiniteSet(UpTo(dsc, start, k))
    BY <1>2, FS_Subset
  <1>4. j \in UpTo(dsc, start, j) /\ k \in UpTo(dsc, start, k)
    BY <1>1 DEF UpTo
  <1>5. CASE j <= k
    <2>1. UpTo(dsc, start, j) \subseteq UpTo(dsc, start, k)
      BY <1>1, <1>5 DEF UpTo
    <2>2. UpTo(dsc, start, j) = UpTo(dsc, start, k)
      BY <1>3, <2>1, FS_Subset
    <2>3. k <= j
      BY <1>4, <2>2 DEF UpTo
    <2> QED
      BY <1>1, <1>5, <2>3
  <1>6. CASE k <= j
    <2>1. UpTo(dsc, start, k) \subseteq UpTo(dsc, start, j)
      BY <1>1, <1>6 DEF UpTo
    <2>2. UpTo(dsc, start, j) = UpTo(dsc, start, k)
      BY <1>3, <2>1, FS_Subset
    <2>3. j <= k
      BY <1>4, <2>2 DEF UpTo
    <2> QED
      BY <1>1, <1>6, <2>3
  <1> QED
    BY <1>1, <1>5, <1>6

EndpointsFrom(dsc, start) ==
    [n \in 1 .. Cardinality(EndpointsBehind(dsc, start)) |->
        dsc[CHOOSE j \in EndpointsBehind(dsc, start) :
                Cardinality({i \in EndpointsBehind(dsc, start) : i <= j}) = n]]

(* The walk finds the endpoints of a setting in their order, as many as    *)
(* the setting has.                                                        *)
LEMMA WalkFindsEndpoints ==
  ASSUME NEW dsc, Len(dsc) \in Nat, NEW number, NEW alt, NEW start \in Nat, start > 0,
         SettingPlaces(dsc, number, alt) = {start},
         NEW n \in Nat, n = Cardinality(EndpointsBehind(dsc, start))
  PROVE  /\ Len(Endpoints(dsc, number, alt)) = n
         /\ DOMAIN Endpoints(dsc, number, alt) = 1 .. n
         /\ \A i \in 1 .. n :
                /\ EndpointPlaces(dsc, start, n)[i] # 0
                /\ EndpointPlaces(dsc, start, n)[i] \in EndpointsBehind(dsc, start)
                /\ Endpoints(dsc, number, alt)[i] = dsc[EndpointPlaces(dsc, start, n)[i]]
  <1>1. Min(SettingPlaces(dsc, number, alt)) = start
    <2>1. Min({start}) = start
      BY DEF Min
    <2> QED
      BY <2>1
  <1> DEFINE nth(i) == CHOOSE j \in EndpointsBehind(dsc, start) :
                            Cardinality({k \in EndpointsBehind(dsc, start) : k <= j}) = i
  <1>2. Endpoints(dsc, number, alt) = [i \in 1 .. n |-> dsc[nth(i)]]
    <2>1. Endpoints(dsc, number, alt) = EndpointsFrom(dsc, Min(SettingPlaces(dsc, number, alt)))
      BY Zenon DEF Endpoints, EndpointsFrom
    <2> QED
      BY <1>1, <2>1, Zenon DEF EndpointsFrom
  <1>3. ASSUME NEW i \in 1 .. n
        PROVE  /\ EndpointPlaces(dsc, start, n)[i] # 0
               /\ EndpointPlaces(dsc, start, n)[i] \in EndpointsBehind(dsc, start)
               /\ nth(i) = EndpointPlaces(dsc, start, n)[i]
    <2> DEFINE p == EndpointPlaces(dsc, start, n)[i]
    <2>1. p \in EndpointsBehind(dsc, start) /\ Cardinality(UpTo(dsc, start, p)) = i
      BY PlacesAre
    <2> HIDE DEF p
    <2>2. nth(i) \in EndpointsBehind(dsc, start) /\ Cardinality(UpTo(dsc, start, nth(i))) = i
      BY <2>1, Zenon DEF UpTo
    <2> HIDE DEF nth
    <2>3. nth(i) = p
      BY <2>1, <2>2, RankUnique
    <2>4. p # 0
      BY <2>1 DEF EndpointsBehind
    <2> QED
      BY <2>1, <2>3, <2>4 DEF p
  <1> HIDE DEF nth
  <1>4. Len([i \in 1 .. n |-> dsc[nth(i)]]) = n
    OBVIOUS
  <1> QED
    BY <1>2, <1>3, <1>4

-----------------------------------------------------------------------------
(* Pipes.                                                                  *)

(* A pipe is packed from bytes, so that its handle can be taken apart.     *)
PipeOK(p) ==
    /\ p.EndpointAddress \in Byte /\ p.PipeType \in 0 .. 3 /\ p.Interval \in Byte
    /\ p.PipeHandle = MAKE_PIPE(p.EndpointAddress, p.PipeType, p.Interval)

PipesOK(pipes) ==
    /\ Len(pipes) \in Nat /\ DOMAIN pipes = 1 .. Len(pipes)
    /\ \A i \in DOMAIN pipes : PipeOK(pipes[i])

(* What PIPE2... take out of a handle is what MAKE_PIPE packed.            *)
LEMMA HandleUnpacked ==
  ASSUME NEW p, PipeOK(p)
  PROVE  /\ p.PipeHandle \in Nat
         /\ PIPE2ADDR(p.PipeHandle) = p.EndpointAddress % 128
         /\ PIPE2DIRECT(p.PipeHandle) = (IF p.EndpointAddress >= 128 THEN "in" ELSE "out")
         /\ PIPE2TYPE(p.PipeHandle) = p.PipeType
         /\ PIPE2INTERVAL(p.PipeHandle) = p.Interval
  <1> DEFINE a == p.EndpointAddress
             t == p.PipeType
             v == p.Interval
             h == p.PipeHandle
  <1>1. a \in 0 .. 255 /\ t \in 0 .. 3 /\ v \in 0 .. 255 /\ h = a + 256 * v + 65536 * t
    BY DEF PipeOK, Byte, MAKE_PIPE
  <1> HIDE DEF a, t, v, h
  <1>2. h \in Nat /\ h % 128 = a % 128
    BY <1>1
  <1>3. (h \div 128) % 2 = IF a >= 128 THEN 1 ELSE 0
    <2>1. h \div 128 = (a \div 128) + 2 * (v + 256 * t)
      BY <1>1
    <2>2. ((a \div 128) + 2 * (v + 256 * t)) % 2 = (a \div 128) % 2
      BY <1>1
    <2>3. (a \div 128) % 2 = IF a >= 128 THEN 1 ELSE 0
      BY <1>1
    <2> QED
      BY <2>1, <2>2, <2>3
  <1>4. (h \div 65536) % 256 = t
    BY <1>1
  <1>5. (h \div 256) % 256 = v
    BY <1>1
  <1>6. /\ PIPE2ADDR(h) = a % 128 /\ PIPE2TYPE(h) = t /\ PIPE2INTERVAL(h) = v
        /\ PIPE2DIRECT(h) = IF a >= 128 THEN "in" ELSE "out"
    BY <1>2, <1>3, <1>4, <1>5 DEF PIPE2ADDR, PIPE2DIRECT, PIPE2TYPE, PIPE2INTERVAL
  <1> QED
    BY <1>2, <1>6 DEF a, t, v, h

(* A pipe describes its endpoint.                                          *)
LEMMA PipeDescribes ==
  ASSUME NEW c \in Config, NEW i \in Places(c, "endpoint"), NEW speed
  PROVE  LET ep == c.dsc[i]
             p  == set_pipe(ep, speed)
         IN  /\ PipeOK(p) /\ p.EndpointAddress = ep.address /\ p.PipeType = TypeOf(ep)
             /\ p.Interval = ep.interval
             /\ (ep.more = 0 \/ (TypeOf(ep) = ISOCHRONOUS /\ speed = "high")) =>
                    p.MaximumPacketSize = BytesPerFrame(ep)
  <1> DEFINE ep == c.dsc[i]
             p  == set_pipe(ep, speed)
  <1>1. /\ ep.address \in Byte /\ ep.attributes \in Byte /\ ep.interval \in Byte
        /\ ep.size \in Size /\ ep.more \in 0 .. 3
    <2>1. WellFormed(c)
      BY DeviceAssumption
    <2>2. c.dsc[i].address \in Byte /\ c.dsc[i].attributes \in Byte /\ c.dsc[i].interval \in Byte
      BY <2>1 DEF WellFormed
    <2>3. c.dsc[i].size \in Size /\ c.dsc[i].more \in 0 .. 3
      BY <2>1 DEF WellFormed
    <2> QED
      BY <2>2, <2>3
  <1> HIDE DEF ep
  <1>2. /\ p.EndpointAddress = ep.address /\ p.PipeType = TypeOf(ep) /\ p.Interval = ep.interval
        /\ p.MaximumPacketSize = PacketSize(ep, speed)
        /\ p.PipeHandle = MAKE_PIPE(ep.address, TypeOf(ep), ep.interval)
    BY DEF set_pipe
  <1> HIDE DEF p
  <1>3. TypeOf(ep) \in 0 .. 3
    BY <1>1 DEF TypeOf, Byte
  <1>4. PipeOK(p)
    BY <1>1, <1>2, <1>3 DEF PipeOK
  <1>7. PICK z \in 0 .. 2047, m \in 0 .. 3 : z = ep.size /\ m = ep.more
    BY <1>1 DEF Size
  <1>8. /\ wMaxPacketSize(ep) = z + 2048 * m /\ BytesPerFrame(ep) = z * (1 + m)
        /\ (z + 2048 * m) % 2048 = z /\ ((z + 2048 * m) \div 2048) % 4 = m
    <2>1. (z + 2048 * m) % 2048 = z
      OBVIOUS
    <2>2. ((z + 2048 * m) \div 2048) % 4 = m
      OBVIOUS
    <2>3. wMaxPacketSize(ep) = z + 2048 * m /\ BytesPerFrame(ep) = z * (1 + m)
      BY <1>7 DEF wMaxPacketSize, BytesPerFrame
    <2> QED
      BY <2>1, <2>2, <2>3
  <1>5. ASSUME ep.more = 0 PROVE PacketSize(ep, speed) = BytesPerFrame(ep)
    <2>1. wMaxPacketSize(ep) = z /\ z * (1 + m) = z
      BY <1>5, <1>7, <1>8
    <2> QED
      BY <1>8, <2>1 DEF PacketSize
  <1>6. ASSUME TypeOf(ep) = ISOCHRONOUS, speed = "high"
        PROVE  PacketSize(ep, speed) = BytesPerFrame(ep)
    BY <1>6, <1>8 DEF PacketSize
  <1> QED
    BY <1>2, <1>4, <1>5, <1>6 DEF ep, p

LEMMA ConfigIs ==
  ASSUME NEW c \in Config
  PROVE  /\ DOMAIN c.dsc = 1 .. Len(c.dsc) /\ Len(c.dsc) \in Nat
         /\ DOMAIN c.numbers = 1 .. Len(c.numbers) /\ Len(c.numbers) \in Nat
         /\ Range(c.numbers) = {c.dsc[i].number : i \in Places(c, "interface")}
  <1>1. WellFormed(c)
    BY DeviceAssumption
  <1> QED
    BY <1>1, Zenon DEF WellFormed

LEMMA SettingIs ==
  ASSUME NEW c \in Config, NEW i \in Places(c, "interface")
  PROVE  /\ c.dsc[i].number \in Byte /\ c.dsc[i].alt \in Byte /\ i \in Nat /\ i > 0
         /\ SettingPlaces(c.dsc, c.dsc[i].number, c.dsc[i].alt) = {i}
         /\ c.dsc[i].endpoints = Cardinality(EndpointsBehind(c.dsc, i))
         /\ c.dsc[i].endpoints \in Nat
         /\ EndpointsBehind(c.dsc, i) \subseteq Places(c, "endpoint")
  <1>1. WellFormed(c)
    BY DeviceAssumption
  <1>2. DOMAIN c.dsc = 1 .. Len(c.dsc) /\ Len(c.dsc) \in Nat
    BY ConfigIs
  <1>3. i \in Nat /\ i > 0
    BY <1>2 DEF Places
  <1>4. c.dsc[i].number \in Byte /\ c.dsc[i].alt \in Byte
    BY <1>1 DEF WellFormed
  <1>5. SettingPlaces(c.dsc, c.dsc[i].number, c.dsc[i].alt) = {i}
    BY <1>1 DEF WellFormed
  <1>6. c.dsc[i].endpoints = Cardinality(EndpointsBehind(c.dsc, i))
    BY <1>1 DEF WellFormed
  <1>7. Cardinality(EndpointsBehind(c.dsc, i)) \in Nat
    BY <1>2, <1>3, EndpointsCounted
  <1>8. EndpointsBehind(c.dsc, i) \subseteq Places(c, "endpoint")
    BY <1>2, <1>3 DEF EndpointsBehind, Places
  <1> QED
    BY <1>3, <1>4, <1>5, <1>6, <1>7, <1>8

(* What setup_endpoints makes of the endpoints of an interface.            *)
LEMMA EndpointsSetUp ==
  ASSUME NEW c \in Config, NEW i \in Places(c, "interface"), NEW speed,
         NEW n, n = c.dsc[i].endpoints
  PROVE  LET set == setup_endpoints(n, c.dsc, i, speed)
         IN  /\ set.status = "SUCCESS" /\ PipesOK(set.pipes)
             /\ Describes(set.pipes, c.dsc[i].number, c.dsc[i].alt, c.dsc, speed)
  <1> DEFINE dsc == c.dsc
             places == EndpointPlaces(dsc, i, n)
             eps == Endpoints(dsc, dsc[i].number, dsc[i].alt)
             pipes == [k \in 1 .. n |-> set_pipe(dsc[places[k]], speed)]
  <1>1. /\ i \in Nat /\ i > 0 /\ n \in Nat /\ Len(dsc) \in Nat
        /\ SettingPlaces(dsc, dsc[i].number, dsc[i].alt) = {i}
        /\ n = Cardinality(EndpointsBehind(dsc, i))
        /\ EndpointsBehind(dsc, i) \subseteq Places(c, "endpoint")
    BY ConfigIs, SettingIs
  <1> HIDE DEF dsc
  <1>2. /\ Len(eps) = n /\ DOMAIN eps = 1 .. n
        /\ \A k \in 1 .. n : /\ places[k] # 0 /\ places[k] \in EndpointsBehind(dsc, i)
                             /\ eps[k] = dsc[places[k]]
    BY <1>1, WalkFindsEndpoints
  <1>3. setup_endpoints(n, dsc, i, speed) = Setup("SUCCESS", pipes)
    BY <1>2, Zenon DEF setup_endpoints
  <1> HIDE DEF places, eps
  <1>4. Len(pipes) = n /\ DOMAIN pipes = 1 .. n
    BY <1>1
  <1>5. ASSUME NEW k \in 1 .. n
        PROVE  /\ PipeOK(pipes[k]) /\ pipes[k].EndpointAddress = eps[k].address
               /\ pipes[k].PipeType = TypeOf(eps[k]) /\ pipes[k].Interval = eps[k].interval
               /\ (eps[k].more = 0 \/ (TypeOf(eps[k]) = ISOCHRONOUS /\ speed = "high")) =>
                    pipes[k].MaximumPacketSize = BytesPerFrame(eps[k])
    <2>1. places[k] \in Places(c, "endpoint") /\ eps[k] = c.dsc[places[k]]
      BY <1>1, <1>2 DEF dsc
    <2>2. pipes[k] = set_pipe(eps[k], speed)
      BY <1>2
    <2> HIDE DEF pipes
    <2> QED
      BY <2>1, <2>2, PipeDescribes
  <1> HIDE DEF pipes
  <1>6. PipesOK(pipes)
    BY <1>1, <1>4, <1>5 DEF PipesOK
  <1>7. Describes(pipes, dsc[i].number, dsc[i].alt, dsc, speed)
    BY <1>2, <1>4, <1>5 DEF Describes, eps
  <1> QED
    BY <1>3, <1>6, <1>7 DEF Setup, dsc

SetupResult == {"SUCCESS", "INVALID_DEVICE_REQUEST", "INVALID_PARAMETER"}

LEMMA InterfaceSetUp ==
  ASSUME NEW c \in Config, NEW info, info.fits \in Int, NEW speed
  PROVE  LET set == setup_intf(info, c.dsc, speed)
         IN  /\ set.status \in SetupResult
             /\ set.status = "SUCCESS" => PipesOK(set.pipes)
             /\ set.status = "SUCCESS" /\ info.fits >= 0 =>
                    Describes(set.pipes, info.number, info.alt, c.dsc, speed)
             /\ info.fits < 0 => set.pipes = <<>>
  <1> DEFINE place == dsc_find_intf(c.dsc, info.number, info.alt)
             set == setup_intf(info, c.dsc, speed)
  <1>1. CASE info.fits < 0
    <2>1. set = Setup("SUCCESS", <<>>)
      BY <1>1 DEF setup_intf
    <2>2. PipesOK(<<>>)
      BY EmptySeq DEF PipesOK
    <2> QED
      BY <1>1, <2>1, <2>2 DEF Setup, SetupResult
  <1>2. CASE ~ (info.fits < 0) /\ place = 0
    BY <1>2 DEF setup_intf, Setup, SetupResult
  <1>3. CASE ~ (info.fits < 0) /\ place # 0
    <2> DEFINE I == SettingPlaces(c.dsc, info.number, info.alt)
    <2>1. DOMAIN c.dsc = 1 .. Len(c.dsc) /\ Len(c.dsc) \in Nat
      BY ConfigIs
    <2>2. I # {} /\ place = Min(I) /\ I \subseteq Nat
      BY <1>3, <2>1 DEF dsc_find_intf, SelectInSeq, SettingPlaces
    <2>3. place \in I
      <3> HIDE DEF I, place
      <3> QED
        BY <2>2, MinIs
    <2>4. /\ place \in Places(c, "interface")
          /\ c.dsc[place].number = info.number /\ c.dsc[place].alt = info.alt
      <3> HIDE DEF place
      <3> QED
        BY <2>3 DEF SettingPlaces, Places
    <2>5. set = IF c.dsc[place].endpoints # info.pipes THEN Setup("INVALID_DEVICE_REQUEST", <<>>)
                ELSE IF info.fits < info.pipes THEN Setup("INVALID_PARAMETER", <<>>)
                ELSE setup_endpoints(info.pipes, c.dsc, place, speed)
      BY <1>3 DEF setup_intf
    <2> HIDE DEF place
    <2>6. CASE c.dsc[place].endpoints # info.pipes \/ info.fits < info.pipes
      BY <1>3, <2>5, <2>6 DEF Setup, SetupResult
    <2>7. CASE ~ (c.dsc[place].endpoints # info.pipes \/ info.fits < info.pipes)
      <3>1. set = setup_endpoints(info.pipes, c.dsc, place, speed)
        BY <2>5, <2>7
      <3>2. /\ set.status = "SUCCESS" /\ PipesOK(set.pipes)
            /\ Describes(set.pipes, c.dsc[place].number, c.dsc[place].alt, c.dsc, speed)
        BY <2>4, <2>7, <3>1, EndpointsSetUp
      <3> QED
        BY <1>3, <2>4, <3>2 DEF SetupResult
    <2> QED
      BY <2>6, <2>7
  <1> QED
    BY <1>1, <1>2, <1>3

HasSetting(c, number, alt) ==
    \E i \in Places(c, "interface") : c.dsc[i].number = number /\ c.dsc[i].alt = alt

LEMMA InfoFits ==
  ASSUME NEW c \in Config, NEW info \in Infos(c), NEW speed
  PROVE  /\ info.fits \in Int /\ info.pipes \in Nat /\ info.number \in Range(c.numbers)
         /\ HasSetting(c, info.number, info.alt)
         /\ info.fits < 0 => Describes(<<>>, info.number, info.alt, c.dsc, speed)
  <1>1. PICK i \in {j \in DOMAIN c.dsc : c.dsc[j].type = "interface"},
             more \in 0 .. 1, less \in 0 .. 1 :
            info = [number |-> c.dsc[i].number, alt |-> c.dsc[i].alt,
                    pipes |-> c.dsc[i].endpoints + more, fits |-> c.dsc[i].endpoints - less]
    BY DEF Infos
  <1>2. i \in Places(c, "interface")
    BY DEF Places
  <1> DEFINE n == c.dsc[i].endpoints
  <1>3. /\ i \in Nat /\ i > 0 /\ n \in Nat /\ Len(c.dsc) \in Nat
        /\ SettingPlaces(c.dsc, c.dsc[i].number, c.dsc[i].alt) = {i}
        /\ n = Cardinality(EndpointsBehind(c.dsc, i))
        /\ c.dsc[i].number \in Range(c.numbers)
    BY <1>2, ConfigIs, SettingIs
  <1> HIDE DEF n
  <1>4. /\ info.number = c.dsc[i].number /\ info.alt = c.dsc[i].alt
        /\ info.pipes = n + more /\ info.fits = n - less
    BY <1>1 DEF n
  <1>5. ASSUME info.fits < 0 PROVE Describes(<<>>, info.number, info.alt, c.dsc, speed)
    <2>1. n = 0
      BY <1>3, <1>4, <1>5
    <2>5. /\ SettingPlaces(c.dsc, info.number, info.alt) = {i} /\ 0 \in Nat
          /\ 0 = Cardinality(EndpointsBehind(c.dsc, i))
      BY <1>3, <1>4, <2>1
    <2>2. /\ Len(Endpoints(c.dsc, info.number, info.alt)) = 0
          /\ DOMAIN Endpoints(c.dsc, info.number, info.alt) = 1 .. 0
      BY <1>3, <2>5, WalkFindsEndpoints
    <2>3. Len(<<>>) = 0
      BY EmptySeq
    <2>4. 1 .. 0 = {}
      OBVIOUS
    <2> QED
      BY <2>2, <2>3, <2>4 DEF Describes
  <1>6. info.fits \in Int /\ info.pipes \in Nat
    <2>1. more \in Int /\ less \in Int /\ more >= 0
      BY <1>1
    <2>2. n \in Nat
      BY <1>3
    <2>3. n + more \in Nat /\ n - less \in Int
      BY <2>1, <2>2
    <2> QED
      BY <1>4, <2>3
  <1>7. HasSetting(c, info.number, info.alt)
    BY <1>2, <1>4 DEF HasSetting
  <1> QED
    BY <1>3, <1>4, <1>5, <1>6, <1>7

(* The pipes of a setting that its configuration has.                      *)
LEMMA PipesGiven ==
  ASSUME NEW c \in Config, NEW info \in Infos(c), NEW speed,
         setup_intf(info, c.dsc, speed).status = "SUCCESS"
  PROVE  LET pipes == setup_intf(info, c.dsc, speed).pipes
         IN  PipesOK(pipes) /\ Describes(pipes, info.number, info.alt, c.dsc, speed)
  <1>1. info.fits \in Int
    BY InfoFits
  <1>2. CASE info.fits < 0
    <2>1. setup_intf(info, c.dsc, speed).pipes = <<>>
      BY <1>1, <1>2, InterfaceSetUp
    <2>2. Describes(<<>>, info.number, info.alt, c.dsc, speed)
      BY <1>2, InfoFits
    <2>3. PipesOK(setup_intf(info, c.dsc, speed).pipes)
      BY <1>1, InterfaceSetUp
    <2> QED
      BY <2>1, <2>2, <2>3
  <1>3. CASE info.fits >= 0
    BY <1>1, <1>3, InterfaceSetUp
  <1> QED
    BY <1>1, <1>2, <1>3

LEMMA InterfaceSelected ==
  ASSUME NEW c \in Config, NEW info, info.fits \in Int, NEW handle, NEW speed
  PROVE  LET set == select_interface(c.dsc, handle, info, speed)
         IN  /\ set.status \in SetupResult
             /\ set.status = "SUCCESS" => PipesOK(set.pipes)
             /\ set.status = "SUCCESS" /\ info \in Infos(c) =>
                    Describes(set.pipes, info.number, info.alt, c.dsc, speed)
  <1> DEFINE set == select_interface(c.dsc, handle, info, speed)
  <1>1. CASE dsc_find_intf(c.dsc, handle.number, handle.alt) = 0
    BY <1>1 DEF select_interface, Setup, SetupResult
  <1>2. CASE dsc_find_intf(c.dsc, handle.number, handle.alt) # 0
    <2>1. set = setup_intf(info, c.dsc, speed)
      BY <1>2 DEF select_interface
    <2> QED
      BY <2>1, InterfaceSetUp, PipesGiven
  <1> QED
    BY <1>1, <1>2

(* A view holds a setting of every interface and its pipes.                *)
ViewOK(v) ==
    \/ v = NoView
    \/ /\ v = [config |-> v.config, interfaces |-> v.interfaces] /\ v.config \in Config
       /\ DOMAIN v.interfaces = Range(v.config.numbers)
       /\ \A n \in DOMAIN v.interfaces :
            /\ PipesOK(v.interfaces[n].pipes)
            /\ HasSetting(v.config, n, v.interfaces[n].alt)

(* One that a selection tells: of the settings it asked for.               *)
Tells(v, c, infos, speed) ==
    /\ ViewOK(v) /\ v.config = c
    /\ \A n \in Range(c.numbers) :
            /\ \E i \in DOMAIN infos : v.interfaces[n].alt = infos[i].alt
            /\ Describes(v.interfaces[n].pipes, n, v.interfaces[n].alt, c.dsc, speed)

(* What setup_intf makes of all interfaces.                                *)
AllSetUp(pipes, c, infos, speed) ==
    \A i \in DOMAIN infos :
        /\ setup_intf(infos[i], c.dsc, speed).status = "SUCCESS"
        /\ pipes[i] = setup_intf(infos[i], c.dsc, speed).pipes

LEMMA ToldOK ==
  ASSUME NEW c \in Config, NEW infos \in InfoLists(c), NEW speed,
         NEW pipes, AllSetUp(pipes, c, infos, speed)
  PROVE  Tells(Told(c, infos, pipes), c, infos, speed)
  <1> DEFINE v == Told(c, infos, pipes)
             at(n) == CHOOSE j \in DOMAIN c.numbers : c.numbers[j] = n
  <1>1. /\ DOMAIN infos = DOMAIN c.numbers
        /\ \A i \in DOMAIN infos : infos[i] \in Infos(c) /\ infos[i].number = c.numbers[i]
    BY DEF InfoLists
  <1>2. v = [config |-> c, interfaces |-> [n \in Range(c.numbers) |->
                                [alt |-> infos[at(n)].alt, pipes |-> pipes[at(n)]]]]
    BY Zenon DEF Told
  <1>3. ASSUME NEW n \in Range(c.numbers) PROVE at(n) \in DOMAIN infos /\ c.numbers[at(n)] = n
    <2>1. \E j \in DOMAIN c.numbers : c.numbers[j] = n
      BY DEF Range
    <2> QED
      BY <1>1, <2>1, Zenon
  <1> HIDE DEF at
  <1>4. ASSUME NEW n \in Range(c.numbers)
        PROVE  /\ v.interfaces[n].alt = infos[at(n)].alt /\ PipesOK(v.interfaces[n].pipes)
               /\ HasSetting(c, n, v.interfaces[n].alt)
               /\ Describes(v.interfaces[n].pipes, n, v.interfaces[n].alt, c.dsc, speed)
    <2>1. /\ infos[at(n)] \in Infos(c) /\ infos[at(n)].number = n
          /\ setup_intf(infos[at(n)], c.dsc, speed).status = "SUCCESS"
          /\ pipes[at(n)] = setup_intf(infos[at(n)], c.dsc, speed).pipes
      BY <1>1, <1>3 DEF AllSetUp
    <2> HIDE DEF v
    <2>2. v.interfaces[n] = [alt |-> infos[at(n)].alt, pipes |-> pipes[at(n)]]
      BY <1>2
    <2>3. v.interfaces[n].alt = infos[at(n)].alt /\ v.interfaces[n].pipes = pipes[at(n)]
      BY <2>2
    <2>4. /\ PipesOK(pipes[at(n)])
          /\ Describes(pipes[at(n)], n, infos[at(n)].alt, c.dsc, speed)
      BY <2>1, PipesGiven
    <2>5. HasSetting(c, n, infos[at(n)].alt)
      BY <2>1, InfoFits
    <2> QED
      BY <2>3, <2>4, <2>5
  <1>5. v = [config |-> v.config, interfaces |-> v.interfaces] /\ v.config = c
        /\ DOMAIN v.interfaces = Range(c.numbers)
    BY <1>2
  <1> HIDE DEF v
  <1>6. ViewOK(v)
    BY <1>4, <1>5 DEF ViewOK
  <1> QED
    BY <1>3, <1>4, <1>5, <1>6 DEF v, Tells

(* What select_config finds: a list of pipes for every interface, an       *)
(* error, or a way out of the request.                                     *)
Selects(c, infos, speed) ==
    LET set == select_config(c.dsc, infos, speed)
        v   == Told(c, infos, set.pipes)
    IN  /\ set.status \in SetupResult \cup {"lost"}
        /\ set.status = "SUCCESS" => Tells(v, c, infos, speed)

LEMMA ConfigSelected ==
  ASSUME NEW c \in Config, NEW infos \in InfoLists(c), NEW speed
  PROVE  Selects(c, infos, speed)
  <1> SUFFICES LET set == select_config(c.dsc, infos, speed)
                   v   == Told(c, infos, set.pipes)
               IN  /\ set.status \in SetupResult \cup {"lost"}
                   /\ set.status = "SUCCESS" => Tells(v, c, infos, speed)
    BY Zenon DEF Selects
  <1> DEFINE one == [i \in DOMAIN infos |-> setup_intf(infos[i], c.dsc, speed)]
             bad == {i \in DOMAIN infos : ~ Reached(infos, i) \/ one[i].status # "SUCCESS"}
             set == select_config(c.dsc, infos, speed)
  <1>1. /\ DOMAIN infos = 1 .. Len(infos) /\ Len(infos) \in Nat
        /\ \A i \in DOMAIN infos : infos[i] \in Infos(c) /\ infos[i].pipes \in Nat
    <2>1. DOMAIN c.numbers = 1 .. Len(c.numbers) /\ Len(c.numbers) \in Nat
      BY ConfigIs
    <2>2. infos \in [DOMAIN c.numbers -> Infos(c)]
      BY DEF InfoLists
    <2>3. infos \in Seq(Infos(c))
      BY <2>1, <2>2
    <2> QED
      BY <2>3, <2>2, InfoFits, LenProperties
  <1>2. set = IF bad = {} THEN Setup("SUCCESS", [i \in DOMAIN infos |-> one[i].pipes])
              ELSE IF ~ Reached(infos, Min(bad)) THEN Setup("lost", <<>>)
              ELSE one[Min(bad)]
    BY Zenon DEF select_config
  <1>3. \A i \in DOMAIN infos : one[i].status \in SetupResult
    BY <1>1, InfoFits, InterfaceSetUp
  <1>4. CASE bad = {}
    <2>1. \A i \in DOMAIN infos : one[i].status = "SUCCESS"
      BY <1>4
    <2> DEFINE ps == [i \in DOMAIN infos |-> one[i].pipes]
    <2>4. AllSetUp(ps, c, infos, speed)
      BY <2>1 DEF AllSetUp
    <2> HIDE DEF one, bad, set, ps
    <2>5. set = Setup("SUCCESS", ps)
      BY <1>2, <1>4 DEF ps
    <2>2. set.status = "SUCCESS" /\ set.pipes = ps
      BY <2>5 DEF Setup
    <2>3. Tells(Told(c, infos, set.pipes), c, infos, speed)
      BY <2>2, <2>4, ToldOK
    <2> QED
      BY <2>2, <2>3 DEF set, SetupResult
  <1>5. CASE bad # {}
    <2>1. bad \subseteq Nat
      BY <1>1
    <2> DEFINE m == Min(bad)
    <2>2. m \in bad
      <3> HIDE DEF bad
      <3> QED
        BY <1>5, <2>1, MinIs
    <2>3. m \in 1 .. Len(infos) /\ (Reached(infos, m) => one[m].status # "SUCCESS")
      BY <1>1, <2>2
    <2>4. set = IF ~ Reached(infos, m) THEN Setup("lost", <<>>) ELSE one[m]
      BY <1>2, <1>5
    <2> HIDE DEF m, one
    <2>5. CASE Reached(infos, m)
      BY <1>1, <1>3, <2>3, <2>4, <2>5 DEF SetupResult
    <2>6. CASE ~ Reached(infos, m)
      <3>1. set.status = "lost"
        BY <2>4, <2>6 DEF Setup
      <3> QED
        BY <3>1
    <2> QED
      BY <2>5, <2>6
  <1> QED
    BY <1>4, <1>5

-----------------------------------------------------------------------------
(* Sums.                                                                   *)

(* The function that the fold of Sum declares.                             *)
Folds(g, f, S) ==
    g = [s \in SUBSET S |-> IF s = {} THEN 0
                            ELSE LET x == CHOOSE x \in s : TRUE IN f[x] + g[s \ {x}]]

(* The bytes of the buffer that packets cover.                             *)
Cells(offs, f, S) == UNION {offs[i] + 1 .. offs[i] + f[i] : i \in S}

(* Packets that do not overlap, in their order.                            *)
Apart(offs, f, n) ==
    /\ \A i \in 1 .. n : offs[i] \in Nat /\ f[i] \in Nat
    /\ \A i, j \in 1 .. n : i < j => offs[i] + f[i] <= offs[j]

LEMMA SumIsFold ==
  ASSUME NEW f
  PROVE  Sum(f) = (CHOOSE g : Folds(g, f, DOMAIN f))[DOMAIN f]
  BY Zenon DEF Sum, FoldFunctionOnSet, MapThenFoldSet, Folds

LEMMA IntervalCounted ==
  ASSUME NEW a \in Nat, NEW b \in Nat
  PROVE  IsFiniteSet(a + 1 .. a + b) /\ Cardinality(a + 1 .. a + b) = b
  BY FS_Interval

LEMMA CellsSplit ==
  ASSUME NEW n \in Nat, NEW offs, NEW f, Apart(offs, f, n),
         NEW s \in SUBSET (1 .. n), NEW x \in s, IsFiniteSet(Cells(offs, f, s \ {x}))
  PROVE  /\ IsFiniteSet(Cells(offs, f, s))
         /\ Cardinality(Cells(offs, f, s)) = f[x] + Cardinality(Cells(offs, f, s \ {x}))
  <1> DEFINE new == offs[x] + 1 .. offs[x] + f[x]
             old == Cells(offs, f, s \ {x})
  <1>1. \A i \in s : i \in 1 .. n /\ offs[i] \in Nat /\ f[i] \in Nat
    BY DEF Apart
  <1>2. IsFiniteSet(new) /\ Cardinality(new) = f[x]
    BY <1>1, IntervalCounted
  <1>3. Cells(offs, f, s) = new \cup old
    BY DEF Cells
  <1>4. new \cap old = {}
    <2> SUFFICES ASSUME NEW i \in s \ {x}, NEW k \in offs[i] + 1 .. offs[i] + f[i], k \in new
                 PROVE  FALSE
      BY DEF Cells
    <2>1. i < x \/ x < i
      BY <1>1
    <2> QED
      BY <1>1, <2>1 DEF Apart
  <1>5. Cardinality(old) \in Nat
    BY FS_CardinalityType
  <1> HIDE DEF new, old
  <1>6. IsFiniteSet(new \cup old)
    BY <1>2, FS_Union DEF old
  <1>7. Cardinality(new \cup old) = Cardinality(new) + Cardinality(old) - Cardinality(new \cap old)
    BY <1>2, FS_Union DEF old
  <1>8. Cardinality(new \cap old) = 0
    BY <1>4, FS_EmptySet
  <1>9. f[x] \in Nat
    BY <1>1
  <1> QED
    BY <1>2, <1>3, <1>5, <1>6, <1>7, <1>8, <1>9 DEF old

LEMMA CellsFinite ==
  ASSUME NEW n \in Nat, NEW offs, NEW f, Apart(offs, f, n), NEW s \in SUBSET (1 .. n)
  PROVE  IsFiniteSet(Cells(offs, f, s)) /\ Cardinality(Cells(offs, f, s)) \in Nat
  <1>1. CASE n = 0
    <2>1. Cells(offs, f, s) = {}
      BY <1>1 DEF Cells
    <2> QED
      BY <2>1, FS_EmptySet
  <1>2. CASE n # 0
    <2> DEFINE top == offs[n] + f[n]
    <2>1. top \in Nat
      BY <1>2 DEF Apart
    <2>2. \A i \in 1 .. n : offs[i] \in Nat /\ f[i] \in Nat /\ offs[i] + f[i] <= top
      <3>1. n \in 1 .. n
        BY <1>2
      <3>2. ASSUME NEW i \in 1 .. n, i # n PROVE offs[i] + f[i] <= offs[n]
        BY <3>1, <3>2 DEF Apart
      <3> QED
        BY <3>1, <3>2 DEF Apart
    <2> HIDE DEF top
    <2>3. Cells(offs, f, s) \subseteq 1 .. top
      BY <2>1, <2>2 DEF Cells
    <2>4. IsFiniteSet(1 .. top)
      BY <2>1, FS_Interval
    <2> QED
      BY <2>3, <2>4, FS_Subset, FS_CardinalityType
  <1> QED
    BY <1>1, <1>2

(* A sum is the number of the bytes that the packets cover.                *)
LEMMA SumCounts ==
  ASSUME NEW n \in Nat, NEW offs, NEW f, DOMAIN f = 1 .. n, Apart(offs, f, n)
  PROVE  Sum(f) = Cardinality(Cells(offs, f, 1 .. n))
  <1> DEFINE count(s) == Cardinality(Cells(offs, f, s))
             pick(s) == CHOOSE x \in s : TRUE
  <1>1. count({}) = 0
    <2>1. Cells(offs, f, {}) = {}
      BY DEF Cells
    <2> QED
      BY <2>1, FS_EmptySet
  <1>2. ASSUME NEW s \in SUBSET (1 .. n), s # {}
        PROVE  /\ pick(s) \in s /\ s \ {pick(s)} \in SUBSET (1 .. n)
               /\ count(s) = f[pick(s)] + count(s \ {pick(s)})
    <2>1. pick(s) \in s
      BY <1>2
    <2> HIDE DEF pick
    <2>2. s \ {pick(s)} \in SUBSET (1 .. n)
      OBVIOUS
    <2>3. IsFiniteSet(Cells(offs, f, s \ {pick(s)}))
      BY <2>2, CellsFinite
    <2> DEFINE x == pick(s)
    <2> HIDE DEF count
    <2>4. count(s) = f[x] + count(s \ {x})
      <3>1. x \in s /\ IsFiniteSet(Cells(offs, f, s \ {x}))
        BY <2>1, <2>3
      <3> HIDE DEF x
      <3> QED
        BY <3>1, CellsSplit DEF count
    <2> QED
      BY <2>1, <2>2, <2>4
  <1>3. \E g : Folds(g, f, 1 .. n)
    <2> DEFINE g == [s \in SUBSET (1 .. n) |-> count(s)]
    <2>1. \A s \in SUBSET (1 .. n) : g[s] = IF s = {} THEN 0 ELSE f[pick(s)] + g[s \ {pick(s)}]
      <3> HIDE DEF count, pick
      <3> QED
        BY <1>1, <1>2
    <2>2. g = [s \in SUBSET (1 .. n) |-> g[s]]
      OBVIOUS
    <2> HIDE DEF g
    <2>3. Folds(g, f, 1 .. n)
      BY <2>1, <2>2, Zenon DEF Folds, pick
    <2> QED
      BY <2>3
  <1> DEFINE g == CHOOSE g : Folds(g, f, 1 .. n)
  <1>4. Folds(g, f, 1 .. n)
    BY <1>3, Zenon
  <1>5. Sum(f) = g[1 .. n]
    BY SumIsFold
  <1> HIDE DEF g
  <1>6. \A s \in SUBSET (1 .. n) : g[s] = IF s = {} THEN 0 ELSE f[pick(s)] + g[s \ {pick(s)}]
    BY <1>4, Zenon DEF Folds, pick
  <1>7. \A s \in SUBSET (1 .. n) : IsFiniteSet(s) /\ Cardinality(s) \in Nat
    <2>1. IsFiniteSet(1 .. n)
      BY FS_Interval
    <2> QED
      BY <2>1, FS_Subset, FS_CardinalityType
  <1> HIDE DEF count, pick
  <1>8. \A s \in SUBSET (1 .. n) : g[s] = count(s)
    <2> DEFINE Wrong == {s \in SUBSET (1 .. n) : g[s] # count(s)}
               sizes == {Cardinality(s) : s \in Wrong}
    <2> SUFFICES ASSUME Wrong # {} PROVE FALSE
      OBVIOUS
    <2>1. sizes \subseteq Nat /\ sizes # {}
      BY <1>7
    <2>2. PICK k \in sizes : \A l \in sizes : k <= l
      <3> HIDE DEF sizes
      <3> QED
        BY <2>1, LeastNumber
    <2>3. PICK s \in Wrong : Cardinality(s) = k
      BY <2>2
    <2>4. s \in SUBSET (1 .. n) /\ g[s] # count(s)
      BY <2>3
    <2>5. s # {}
      BY <1>1, <1>6, <2>4
    <2>6. pick(s) \in s /\ s \ {pick(s)} \in SUBSET (1 .. n)
      BY <1>2, <2>4, <2>5
    <2>7. Cardinality(s \ {pick(s)}) = Cardinality(s) - 1
      BY <1>7, <2>4, <2>6, FS_RemoveElement
    <2>8. s \ {pick(s)} \notin Wrong
      <3> SUFFICES ASSUME s \ {pick(s)} \in Wrong PROVE FALSE
        OBVIOUS
      <3>1. Cardinality(s \ {pick(s)}) \in sizes
        OBVIOUS
      <3> HIDE DEF sizes, Wrong
      <3>2. k <= Cardinality(s \ {pick(s)})
        BY <2>2, <3>1
      <3> QED
        BY <1>7, <2>3, <2>4, <2>6, <2>7, <3>2
    <2>9. g[s \ {pick(s)}] = count(s \ {pick(s)})
      BY <2>6, <2>8
    <2> QED
      BY <1>2, <1>6, <2>4, <2>5, <2>6, <2>9
  <1>9. 1 .. n \in SUBSET (1 .. n)
    OBVIOUS
  <1> QED
    BY <1>5, <1>8, <1>9 DEF count

LEMMA MultiplesApart ==
  ASSUME NEW i \in Nat, NEW j \in Nat, i < j, NEW b \in Nat, NEW x \in 0 .. b
  PROVE  i * b + x <= j * b
  <1>1. PICK d \in Nat : j = i + 1 + d
    <2>1. j - i - 1 \in Nat /\ j = i + 1 + (j - i - 1)
      OBVIOUS
    <2> QED
      BY <2>1
  <1>2. j * b = i * b + b + d * b
    BY <1>1
  <1>3. i * b \in Nat /\ d * b \in Nat
    OBVIOUS
  <1> DEFINE u == i * b
             v == d * b
             w == j * b
  <1>4. u \in Nat /\ v \in Nat /\ w = u + b + v
    BY <1>2, <1>3
  <1> HIDE DEF u, v, w
  <1>5. u + x <= w
    BY <1>4
  <1> QED
    BY <1>5 DEF u, w

(* Packets of any lengths do not overlap if they are far enough apart, so  *)
(* that the sum of their lengths is a number.                              *)
LEMMA SumIsNumber ==
  ASSUME NEW n \in Nat, NEW f \in [1 .. n -> Nat]
  PROVE  Sum(f) \in Nat
  <1> DEFINE bounds(k) == {b \in Nat : \A i \in 1 .. k : f[i] <= b}
             Bad == {k \in 1 .. n : bounds(k) = {}}
  <1>1. Bad = {}
    <2> SUFFICES ASSUME Bad # {} PROVE FALSE
      OBVIOUS
    <2>1. PICK k \in Bad : \A l \in Bad : k <= l
      <3>1. Bad \subseteq Nat
        OBVIOUS
      <3> HIDE DEF Bad
      <3> QED
        BY <3>1, LeastNumber
    <2>2. k \in 1 .. n /\ f[k] \in Nat /\ bounds(k) = {}
      OBVIOUS
    <2>3. PICK b \in Nat : \A i \in 1 .. k - 1 : f[i] <= b
      <3>1. CASE k = 1
        BY <3>1
      <3>2. CASE k # 1
        <4>1. k - 1 \in 1 .. n /\ k - 1 < k
          BY <2>2, <3>2
        <4>2. k - 1 \notin Bad
          <5> HIDE DEF Bad
          <5>1. k - 1 \in Bad => k <= k - 1
            BY ONLY <2>1
          <5> QED
            BY <2>2, <4>1, <5>1
        <4>3. bounds(k - 1) # {}
          BY <4>1, <4>2
        <4> QED
          BY <4>3
      <3> QED
        BY <3>1, <3>2
    <2> DEFINE top == IF f[k] <= b THEN b ELSE f[k]
    <2>4. top \in Nat /\ \A i \in 1 .. k : f[i] <= top
      <3>1. top \in Nat /\ f[k] <= top /\ b <= top
        BY <2>2
      <3> HIDE DEF top
      <3>2. ASSUME NEW i \in 1 .. k PROVE f[i] <= top
        <4>1. i = k \/ i \in 1 .. k - 1
          BY <2>2
        <4>2. CASE i = k
          BY <3>1, <4>2
        <4>3. CASE i \in 1 .. k - 1
          <5>1. i \in 1 .. n /\ f[i] \in Nat /\ f[i] <= b
            BY <2>2, <2>3, <4>3
          <5> QED
            BY <3>1, <5>1
        <4> QED
          BY <4>1, <4>2, <4>3
      <3> QED
        BY <3>1, <3>2
    <2> QED
      BY <2>2, <2>4
  <1>2. PICK b \in Nat : \A i \in 1 .. n : f[i] <= b
    <2>1. CASE n = 0
      BY <2>1
    <2>2. CASE n # 0
      <3>1. n \in 1 .. n
        BY <2>2
      <3>3. n \notin Bad
        <4> HIDE DEF Bad
        <4> QED
          BY <1>1
      <3>2. bounds(n) # {}
        BY <3>1, <3>3
      <3> QED
        BY <3>2
    <2> QED
      BY <2>1, <2>2
  <1> DEFINE offs == [i \in 1 .. n |-> i * b]
  <1>3. Apart(offs, f, n)
    <2>1. ASSUME NEW i \in 1 .. n PROVE offs[i] \in Nat /\ f[i] \in Nat /\ offs[i] = i * b
      OBVIOUS
    <2>2. ASSUME NEW i \in 1 .. n, NEW j \in 1 .. n, i < j PROVE offs[i] + f[i] <= offs[j]
      <3>1. f[i] \in 0 .. b /\ i \in Nat /\ j \in Nat
        BY <1>2
      <3>2. i * b + f[i] <= j * b
        BY <2>2, <3>1, MultiplesApart
      <3> QED
        BY <2>1, <3>2
    <2> HIDE DEF offs
    <2> QED
      BY <2>1, <2>2 DEF Apart
  <1> HIDE DEF offs
  <1>4. Sum(f) = Cardinality(Cells(offs, f, 1 .. n))
    BY <1>3, SumCounts
  <1>5. 1 .. n \in SUBSET (1 .. n)
    OBVIOUS
  <1> QED
    BY <1>3, <1>4, <1>5, CellsFinite

LEMMA StartIsNumber ==
  ASSUME NEW n \in Nat, NEW m, m.packets \in [1 .. n -> Nat], NEW i \in 1 .. n
  PROVE  StartOf(m, i) \in Nat
  <1> DEFINE f == m.packets
             g == [j \in 1 .. i - 1 |-> m.packets[j]]
  <1>1. i - 1 \in Nat /\ \A j \in 1 .. i - 1 : j \in 1 .. n
    OBVIOUS
  <1>2. f \in [1 .. n -> Nat]
    OBVIOUS
  <1>3. g \in [1 .. i - 1 -> Nat]
    <2>1. g = [j \in 1 .. i - 1 |-> f[j]]
      OBVIOUS
    <2> HIDE DEF f
    <2> QED
      BY <1>1, <1>2, <2>1
  <1> HIDE DEF g
  <1>4. Sum(g) \in Nat
    BY <1>1, <1>3, SumIsNumber
  <1> QED
    BY <1>4 DEF StartOf, g

LEMMA MaxIs ==
  ASSUME NEW n \in Nat, NEW T, T \subseteq 1 .. n, T # {}
  PROVE  Max(T) \in T
  <1> DEFINE U == {n - x : x \in T}
  <1>1. U \subseteq Nat /\ U # {}
    <2>1. \A x \in T : n - x \in Nat
      OBVIOUS
    <2> QED
      BY <2>1
  <1>2. PICK y \in U : \A z \in U : y <= z
    <2> HIDE DEF U
    <2> QED
      BY <1>1, LeastNumber
  <1>3. PICK x \in T : y = n - x
    OBVIOUS
  <1>4. \A z \in T : z <= x
    <2> SUFFICES ASSUME NEW z \in T PROVE z <= x
      OBVIOUS
    <2>1. n - z \in U /\ z \in 1 .. n /\ x \in 1 .. n
      OBVIOUS
    <2>2. n - x <= n - z
      BY <1>2, <1>3, <2>1
    <2> QED
      BY <2>1, <2>2
  <1> QED
    BY <1>3, <1>4 DEF Max


-----------------------------------------------------------------------------
(* Answers.                                                                *)

(* Packets in order do not overlap.                                        *)
LEMMA OffsetsAscend ==
  ASSUME NEW r, Shape(r), r.function = "ISOCH_TRANSFER", InOrder(r),
         NEW i \in 1 .. Len(r.offsets), NEW j \in 1 .. Len(r.offsets), i < j
  PROVE  r.offsets[i + 1] <= r.offsets[j]
  <1> DEFINE o == r.offsets
             n == Len(o)
             Bad == {k \in i + 1 .. n : ~ (o[i + 1] <= o[k])}
  <1>1. /\ o \in Seq(Nat) /\ n \in Nat /\ DOMAIN o = 1 .. n /\ \A k \in 1 .. n : o[k] \in Nat
        /\ OffsetsOf(r) = o
    BY LenProperties, ElementOfSeq DEF Shape
  <1>2. \A k \in 1 .. n : k + 1 \in 1 .. n => o[k] <= o[k + 1]
    <2> SUFFICES ASSUME NEW k \in 1 .. n, k + 1 \in 1 .. n PROVE o[k] <= o[k + 1]
      OBVIOUS
    <2>1. ~ Unset(r, k)
      BY <1>1 DEF InOrder
    <2>2. k + 1 \in 2 .. k + 1 /\ k + 1 - 1 = k
      BY <1>1
    <2>3. ~ (o[k + 1] < o[k + 1 - 1])
      BY <1>1, <2>1, <2>2 DEF Unset
    <2>4. ~ (o[k + 1] < o[k])
      BY <2>2, <2>3
    <2>5. o[k] \in Nat /\ o[k + 1] \in Nat
      BY <1>1
    <2> HIDE DEF o
    <2> QED
      BY <2>4, <2>5
  <1> HIDE DEF o, n
  <1>3. i \in 1 .. n /\ j \in i + 1 .. n /\ i + 1 \in 1 .. n
    BY <1>1 DEF n, o
  <1>4. ASSUME Bad # {} PROVE FALSE
    <2>1. PICK m \in Bad : \A k \in Bad : m <= k
      <3>1. Bad \subseteq Nat
        BY <1>1, <1>3
      <3> HIDE DEF Bad
      <3> QED
        BY <1>4, <3>1, LeastNumber
    <2>2. m \in i + 1 .. n /\ ~ (o[i + 1] <= o[m])
      BY <2>1
    <2>3. m # i + 1
      BY <1>1, <1>3, <2>2
    <2>4. m - 1 \in i + 1 .. n /\ m - 1 \in 1 .. n /\ m - 1 + 1 = m /\ m \in 1 .. n
      BY <1>1, <1>3, <2>2, <2>3
    <2>5. m - 1 \notin Bad
      <3> HIDE DEF Bad
      <3> QED
        BY <1>1, <2>1, <2>2
    <2>6. o[i + 1] <= o[m - 1] /\ o[m - 1] <= o[m]
      BY <1>2, <2>4, <2>5
    <2> QED
      BY <1>1, <1>3, <2>2, <2>4, <2>6
  <1> QED
    BY <1>3, <1>4 DEF o, n

LEMMA PacketsApart ==
  ASSUME NEW r, Shape(r), r.function = "ISOCH_TRANSFER", InOrder(r),
         NEW f \in [1 .. Len(r.offsets) -> Nat],
         \A i \in 1 .. Len(r.offsets) : f[i] <= PacketRoom(r, i)
  PROVE  /\ Apart(r.offsets, f, Len(r.offsets))
         /\ \A i \in 1 .. Len(r.offsets) : r.offsets[i] + f[i] <= r.length
  <1> DEFINE o == r.offsets
             n == Len(o)
  <1>1. /\ o \in Seq(Nat) /\ n \in Nat /\ DOMAIN o = 1 .. n /\ \A k \in 1 .. n : o[k] \in Nat
        /\ r.length \in Nat /\ \A k \in 1 .. n : o[k] <= r.length
    BY LenProperties, ElementOfSeq DEF Shape, Data, Transfers
  <1> HIDE DEF o, n
  <1>2. ASSUME NEW i \in 1 .. n
        PROVE  /\ i + 1 \in 1 .. n => o[i] + f[i] <= o[i + 1]
               /\ i + 1 \notin 1 .. n => o[i] + f[i] <= r.length
    <2>1. f[i] \in Nat /\ f[i] <= OffsetAt(r, i + 1) - o[i]
      BY <1>2 DEF PacketRoom, o, n
    <2>2. OffsetAt(r, i + 1) = IF i + 1 \in 1 .. n THEN o[i + 1] ELSE r.length
      BY <1>1 DEF OffsetAt, o
    <2> QED
      BY <1>1, <2>1, <2>2
  <1>3. \A i \in 1 .. n : f[i] \in Nat
    BY DEF n, o
  <1>4. ASSUME NEW i \in 1 .. n, NEW j \in 1 .. n, i < j PROVE o[i] + f[i] <= o[j]
    <2>1. o[i + 1] <= o[j]
      BY <1>4, OffsetsAscend DEF o, n
    <2>2. i + 1 \in 1 .. n
      BY <1>1, <1>4
    <2>3. o[i] \in Nat /\ f[i] \in Nat /\ o[i + 1] \in Nat /\ o[j] \in Nat
      BY <1>1, <1>3, <2>2
    <2>4. o[i] + f[i] <= o[i + 1]
      BY <1>2, <2>2
    <2> QED
      BY <2>1, <2>3, <2>4
  <1>5. ASSUME NEW i \in 1 .. n PROVE o[i] + f[i] <= r.length
    <2>1. o[i] \in Nat /\ f[i] \in Nat /\ r.length \in Nat
      BY <1>1, <1>3
    <2>2. CASE i + 1 \notin 1 .. n
      BY <1>2, <2>2
    <2>3. CASE i + 1 \in 1 .. n
      <3>1. o[i] + f[i] <= o[i + 1] /\ o[i + 1] \in Nat /\ o[i + 1] <= r.length
        BY <1>1, <1>2, <2>3
      <3> QED
        BY <2>1, <3>1
    <2> QED
      BY <2>2, <2>3
  <1>6. Apart(o, f, n)
    BY <1>1, <1>3, <1>4 DEF Apart
  <1> QED
    BY <1>5, <1>6 DEF o, n

LEMMA CellsBefore ==
  ASSUME NEW n \in Nat, NEW offs, NEW f, Apart(offs, f, n), NEW i \in 1 .. n
  PROVE  /\ Cardinality(Cells(offs, f, 1 .. i)) = f[i] + Cardinality(Cells(offs, f, 1 .. i - 1))
         /\ Cardinality(Cells(offs, f, 1 .. i)) <= Cardinality(Cells(offs, f, 1 .. n))
         /\ Cardinality(Cells(offs, f, 1 .. i - 1)) \in Nat
  <1>1. 1 .. i \in SUBSET (1 .. n) /\ 1 .. i - 1 \in SUBSET (1 .. n) /\ 1 .. n \in SUBSET (1 .. n)
        /\ (1 .. i) \ {i} = 1 .. i - 1 /\ i \in 1 .. i
    OBVIOUS
  <1>2. IsFiniteSet(Cells(offs, f, 1 .. i - 1)) /\ Cardinality(Cells(offs, f, 1 .. i - 1)) \in Nat
    BY <1>1, CellsFinite
  <1>3. Cardinality(Cells(offs, f, 1 .. i)) = f[i] + Cardinality(Cells(offs, f, 1 .. i - 1))
    <2> DEFINE s == 1 .. i
    <2>1. s \in SUBSET (1 .. n) /\ i \in s /\ s \ {i} = 1 .. i - 1
      BY <1>1
    <2> HIDE DEF s
    <2>2. IsFiniteSet(Cells(offs, f, s \ {i}))
      BY <1>2, <2>1
    <2>3. Cardinality(Cells(offs, f, s)) = f[i] + Cardinality(Cells(offs, f, s \ {i}))
      BY <2>1, <2>2, CellsSplit
    <2> QED
      BY <2>1, <2>3 DEF s
  <1>4. Cells(offs, f, 1 .. i) \subseteq Cells(offs, f, 1 .. n)
    BY <1>1 DEF Cells
  <1>5. IsFiniteSet(Cells(offs, f, 1 .. n))
    BY <1>1, CellsFinite
  <1>6. Cardinality(Cells(offs, f, 1 .. i)) <= Cardinality(Cells(offs, f, 1 .. n))
    BY <1>4, <1>5, FS_Subset
  <1> QED
    BY <1>2, <1>3, <1>6

(* The rank, among all bytes that packets cover, of a byte of packet i.    *)
LEMMA RankInPacket ==
  ASSUME NEW n \in Nat, NEW offs, NEW f \in [1 .. n -> Nat], Apart(offs, f, n),
         NEW i \in 1 .. n, NEW k \in offs[i] + 1 .. offs[i] + f[i]
  PROVE  Cardinality({j \in Cells(offs, f, 1 .. n) : j <= k}) =
            Cardinality(Cells(offs, f, 1 .. i - 1)) + (k - offs[i])
  <1> DEFINE h == [f EXCEPT ![i] = k - offs[i]]
  <1>1. /\ offs[i] \in Nat /\ f[i] \in Nat /\ k \in Nat /\ k - offs[i] \in Nat
        /\ k - offs[i] <= f[i] /\ offs[i] < k /\ k <= offs[i] + f[i]
    <2>1. offs[i] \in Nat /\ f[i] \in Nat
      BY DEF Apart
    <2> DEFINE o == offs[i]
               l == f[i]
    <2>2. o \in Nat /\ l \in Nat /\ k \in o + 1 .. o + l
      BY <2>1
    <2> HIDE DEF o, l
    <2>3. k \in Nat /\ k - o \in Nat /\ k - o <= l /\ o < k /\ k <= o + l
      BY <2>2
    <2> QED
      BY <2>1, <2>3 DEF o, l
  <1>2. h[i] = k - offs[i] /\ \A l \in 1 .. n : l # i => h[l] = f[l]
    OBVIOUS
  <1> HIDE DEF h
  <1>3. \A l \in 1 .. n : offs[l] \in Nat /\ f[l] \in Nat /\ h[l] \in Nat /\ h[l] <= f[l]
    <2> SUFFICES ASSUME NEW l \in 1 .. n
                 PROVE  offs[l] \in Nat /\ f[l] \in Nat /\ h[l] \in Nat /\ h[l] <= f[l]
      OBVIOUS
    <2>1. offs[l] \in Nat /\ f[l] \in Nat
      BY DEF Apart
    <2>2. CASE l = i
      BY <1>1, <1>2, <2>2
    <2>3. CASE l # i
      <3>1. h[l] = f[l]
        BY <1>2, <2>3
      <3> QED
        BY <2>1, <3>1
    <2> QED
      BY <2>2, <2>3
  <1>4. Apart(offs, h, n)
    <2> SUFFICES ASSUME NEW l \in 1 .. n, NEW m \in 1 .. n, l < m
                 PROVE  offs[l] + h[l] <= offs[m]
      BY <1>3 DEF Apart
    <2>1. offs[l] + f[l] <= offs[m]
      BY DEF Apart
    <2>2. offs[l] \in Nat /\ offs[m] \in Nat /\ f[l] \in Nat /\ h[l] \in Nat /\ h[l] <= f[l]
      BY <1>3
    <2> DEFINE a == offs[l]
               b == offs[m]
               c == f[l]
               d == h[l]
    <2>3. a \in Nat /\ b \in Nat /\ c \in Nat /\ d \in Nat /\ d <= c /\ a + c <= b
      BY <2>1, <2>2
    <2> HIDE DEF a, b, c, d
    <2>4. a + d <= b
      BY <2>3
    <2> QED
      BY <2>4 DEF a, b, d
  <1>5. \A l \in 1 .. n : l < i => offs[l] + f[l] <= offs[i] /\ h[l] = f[l]
    BY <1>2 DEF Apart
  <1>6. \A l \in 1 .. n : l > i => offs[i] + f[i] <= offs[l]
    BY DEF Apart
  <1>7. {j \in Cells(offs, f, 1 .. n) : j <= k} = Cells(offs, h, 1 .. i)
    <2>1. ASSUME NEW j \in Cells(offs, f, 1 .. n), j <= k PROVE j \in Cells(offs, h, 1 .. i)
      <3>1. PICK l \in 1 .. n : j \in offs[l] + 1 .. offs[l] + f[l]
        BY DEF Cells
      <3>2. j \in Nat /\ offs[l] \in Nat /\ f[l] \in Nat
        BY <1>3, <3>1
      <3>3. CASE l < i
        <4>1. j \in offs[l] + 1 .. offs[l] + h[l] /\ l \in 1 .. i
          BY <1>5, <3>1, <3>3
        <4> QED
          BY <4>1 DEF Cells
      <3>4. CASE l = i
        <4>1. j \in offs[i] + 1 .. offs[i] + h[i] /\ i \in 1 .. i
          BY <1>1, <1>2, <2>1, <3>1, <3>2, <3>4
        <4> QED
          BY <4>1 DEF Cells
      <3>5. CASE l > i
        <4> DEFINE a == offs[i] + f[i]
                   b == offs[l]
        <4>4. a <= b
          BY <1>6, <3>5
        <4>5. a \in Nat /\ b \in Nat
          <5> DEFINE c == offs[i]
                     d == f[i]
          <5>1. c \in Nat /\ d \in Nat
            BY DEF Apart
          <5> HIDE DEF c, d
          <5>2. c + d \in Nat
            BY <5>1
          <5> QED
            BY <3>2, <5>2 DEF c, d
        <4>6. k <= a
          BY <1>1
        <4>2. a <= b /\ a \in Nat /\ b \in Nat /\ k <= a
          BY <4>4, <4>5, <4>6
        <4>3. j > b
          BY <3>1, <3>2
        <4>1. a <= b /\ a \in Nat /\ b \in Nat /\ j > b /\ k <= a
          BY <4>2, <4>3
        <4> HIDE DEF a, b
        <4> QED
          BY <1>1, <2>1, <3>2, <4>1
      <3>6. l < i \/ l = i \/ l > i
        OBVIOUS
      <3> QED
        BY <3>3, <3>4, <3>5, <3>6
    <2>2. ASSUME NEW j \in Cells(offs, h, 1 .. i) PROVE j \in Cells(offs, f, 1 .. n) /\ j <= k
      <3>1. PICK l \in 1 .. i : j \in offs[l] + 1 .. offs[l] + h[l]
        BY DEF Cells
      <3>2. l \in 1 .. n /\ offs[l] \in Nat /\ f[l] \in Nat /\ h[l] \in Nat /\ h[l] <= f[l]
        BY <1>3
      <3>3. j \in offs[l] + 1 .. offs[l] + f[l]
        BY <3>1, <3>2
      <3>4. CASE l = i
        <4>1. offs[i] + h[i] = k
          BY <1>1, <1>2
        <4>2. j <= k
          BY <1>1, <3>1, <3>2, <3>4, <4>1
        <4> QED
          BY <3>2, <3>3, <4>2 DEF Cells
      <3>5. CASE l < i
        <4>1. offs[l] + f[l] <= offs[i]
          BY <1>5, <3>2, <3>5
        <4>2. j <= k
          <5> DEFINE a == offs[l] + f[l]
                     b == offs[i]
          <5>4. a <= b
            BY <4>1
          <5>5. a \in Nat /\ b \in Nat
            BY <1>3, <3>2
          <5>6. b < k
            BY <1>1
          <5>2. a <= b /\ a \in Nat /\ b \in Nat /\ b < k
            BY <5>4, <5>5, <5>6
          <5>3. j <= a /\ j \in Nat
            BY <3>2, <3>3
          <5>1. a <= b /\ a \in Nat /\ b \in Nat /\ j <= a /\ b < k /\ j \in Nat
            BY <5>2, <5>3
          <5> HIDE DEF a, b
          <5> QED
            BY <1>1, <5>1
        <4> QED
          BY <3>2, <3>3, <4>2 DEF Cells
      <3>6. l < i \/ l = i
        OBVIOUS
      <3> QED
        BY <3>4, <3>5, <3>6
    <2> QED
      BY <2>1, <2>2
  <1>8. Cardinality(Cells(offs, h, 1 .. i)) = h[i] + Cardinality(Cells(offs, h, 1 .. i - 1))
    BY <1>4, CellsBefore
  <1>9. Cells(offs, h, 1 .. i - 1) = Cells(offs, f, 1 .. i - 1)
    <2>1. \A l \in 1 .. i - 1 : h[l] = f[l]
      BY <1>2
    <2>2. {offs[l] + 1 .. offs[l] + h[l] : l \in 1 .. i - 1}
            = {offs[l] + 1 .. offs[l] + f[l] : l \in 1 .. i - 1}
      BY <2>1
    <2> QED
      BY <2>2, Zenon DEF Cells
  <1>10. Cardinality(Cells(offs, f, 1 .. i - 1)) \in Nat
    BY CellsBefore
  <1>11. Cardinality(Cells(offs, h, 1 .. i))
            = (k - offs[i]) + Cardinality(Cells(offs, f, 1 .. i - 1))
    BY <1>2, <1>8, <1>9
  <1>12. (k - offs[i]) + Cardinality(Cells(offs, f, 1 .. i - 1))
            = Cardinality(Cells(offs, f, 1 .. i - 1)) + (k - offs[i])
    <2> DEFINE a == k - offs[i]
               b == Cardinality(Cells(offs, f, 1 .. i - 1))
    <2>1. a \in Nat /\ b \in Nat
      BY <1>1, <1>10
    <2> HIDE DEF a, b
    <2>2. a + b = b + a
      BY <2>1
    <2> QED
      BY <2>2 DEF a, b
  <1> QED
    BY <1>7, <1>11, <1>12

(* The data of a packet starts behind that of the packets before it.       *)
StartsBehind(offs, m, n) ==
    \A i \in 1 .. n : StartOf(m, i) = Cardinality(Cells(offs, m.packets, 1 .. i - 1))

LEMMA StartIs ==
  ASSUME NEW n \in Nat, NEW offs, NEW m, m.packets \in [1 .. n -> Nat],
         Apart(offs, m.packets, n)
  PROVE  StartsBehind(offs, m, n)
  <1> SUFFICES ASSUME NEW i \in 1 .. n
               PROVE  StartOf(m, i) = Cardinality(Cells(offs, m.packets, 1 .. i - 1))
    BY DEF StartsBehind
  <1> DEFINE f == m.packets
             g == [j \in 1 .. i - 1 |-> f[j]]
  <1>1. DOMAIN g = 1 .. i - 1 /\ \A j \in 1 .. i - 1 : g[j] = f[j] /\ j \in 1 .. n
    OBVIOUS
  <1>2. StartOf(m, i) = Sum(g)
    BY DEF StartOf
  <1> HIDE DEF f, g
  <1>3. Apart(offs, g, i - 1)
    BY <1>1 DEF Apart, f
  <1>4. Sum(g) = Cardinality(Cells(offs, g, 1 .. i - 1))
    <2>1. i - 1 \in Nat
      OBVIOUS
    <2> QED
      BY <1>1, <1>3, <2>1, SumCounts
  <1>5. {offs[l] + 1 .. offs[l] + g[l] : l \in 1 .. i - 1}
            = {offs[l] + 1 .. offs[l] + f[l] : l \in 1 .. i - 1}
    BY <1>1
  <1>6. Cells(offs, g, 1 .. i - 1) = Cells(offs, f, 1 .. i - 1)
    BY <1>5, Zenon DEF Cells
  <1> QED
    BY <1>2, <1>4, <1>6 DEF f

LEMMA CellsWithin ==
  ASSUME NEW n \in Nat, NEW offs, NEW f, Apart(offs, f, n), NEW size \in Nat,
         \A i \in 1 .. n : offs[i] + f[i] <= size
  PROVE  Cells(offs, f, 1 .. n) \subseteq 1 .. size
  <1> SUFFICES ASSUME NEW i \in 1 .. n, NEW k \in offs[i] + 1 .. offs[i] + f[i]
               PROVE  k \in 1 .. size
    BY DEF Cells
  <1> DEFINE x == offs[i]
             y == f[i]
  <1>1. x \in Nat /\ y \in Nat /\ x + y <= size /\ k \in x + 1 .. x + y
    BY DEF Apart
  <1> HIDE DEF x, y
  <1> QED
    BY <1>1

(* The rank of a byte among those that packets cover.                      *)
Rank(offs, f, n, k) == Cardinality({j \in Cells(offs, f, 1 .. n) : j <= k})

(* A request with n packets, and their lengths.                            *)
Packeted(r, m, n) ==
    /\ n \in Nat /\ DOMAIN r.offsets = 1 .. n /\ \A i \in 1 .. n : r.offsets[i] \in Nat
    /\ m.packets \in [1 .. n -> Nat]

(* A packet that is copied lies in the buffer, and what it takes in the    *)
(* answer.                                                                 *)
LEMMA CopiedFits ==
  ASSUME NEW r, NEW m, NEW n, Packeted(r, m, n), NEW a, NEW i \in Copied(r, m, a)
  PROVE  /\ i \in 1 .. n /\ PacketFits(r, m, a, i)
         /\ Span(r, m, i) = r.offsets[i] + 1 .. r.offsets[i] + m.packets[i]
         /\ m.length \in Nat => Span(r, m, i) \subseteq 1 .. m.length
  <1>1. i \in 1 .. n /\ PacketFits(r, m, a, i)
    <2>1. i \in 1 .. n /\ i \in 1 .. i
      BY DEF Copied, Packeted
    <2> QED
      BY <2>1 DEF Copied
  <1>2. Span(r, m, i) = r.offsets[i] + 1 .. r.offsets[i] + m.packets[i]
    BY DEF Span, Place
  <1>3. ASSUME m.length \in Nat, NEW k \in Span(r, m, i) PROVE k \in 1 .. m.length
    <2> DEFINE x == r.offsets[i]
               y == m.packets[i]
    <2>1. x \in Nat /\ y \in Nat /\ k \in x + 1 .. x + y
      BY <1>1, <1>2, <1>3 DEF Packeted
    <2>2. y = 0 \/ x + y <= m.length
      BY <1>1 DEF PacketFits
    <2> HIDE DEF x, y
    <2> QED
      BY <1>3, <2>1, <2>2
  <1> QED
    BY <1>1, <1>2, <1>3

(* The packets that are copied over a byte of the buffer.                  *)
Holders(r, m, a, k) == {i \in Copied(r, m, a) : k \in Span(r, m, i)}

(* What the last of them, and the copy of all, leaves there.               *)
FromPacket(r, m, a, k) ==
    LET i == Max(Holders(r, m, a, k)) IN Body(a, StartOf(m, i) + k - Place(r, m, i))

Copy(r, m, a, size) ==
    [k \in 1 .. size |-> IF Holders(r, m, a, k) = {} THEN k ELSE FromPacket(r, m, a, k)]

LEMMA CopyIs ==
  ASSUME NEW r, NEW m, NEW n, Packeted(r, m, n), NEW a, NEW size \in Nat,
         m.length = size, m.buffer = Bytes(size)
  PROVE  copy_iso_packets(r, m, a) = Copy(r, m, a, size)
  <1> DEFINE cover == UNION {Span(r, m, i) : i \in Copied(r, m, a)}
             bytes == [k \in cover |-> FromPacket(r, m, a, k)]
             old == m.buffer
  <1>1. copy_iso_packets(r, m, a) = Overlaid(old, bytes)
    BY Zenon DEF copy_iso_packets, FromPacket, Holders
  <1>2. \A k : k \in cover <=> Holders(r, m, a, k) # {}
    BY DEF Holders
  <1>3. cover \subseteq 1 .. size
    <2>1. ASSUME NEW i \in Copied(r, m, a) PROVE Span(r, m, i) \subseteq 1 .. m.length
      BY CopiedFits
    <2> QED
      BY <2>1
  <1>4. DOMAIN old = 1 .. size /\ \A k \in 1 .. size : old[k] = k
    BY DEF Bytes
  <1>5. DOMAIN bytes = cover /\ \A k \in cover : bytes[k] = FromPacket(r, m, a, k)
    OBVIOUS
  <1> HIDE DEF bytes, cover, old
  <1>6. DOMAIN old \cup DOMAIN bytes = 1 .. size
    BY <1>3, <1>4, <1>5
  <1>7. Overlaid(old, bytes) = [k \in 1 .. size |-> IF k \in cover THEN bytes[k] ELSE old[k]]
    BY <1>5, <1>6, Zenon DEF Overlaid
  <1>8. [k \in 1 .. size |-> IF k \in cover THEN bytes[k] ELSE old[k]] = Copy(r, m, a, size)
    BY <1>2, <1>4, <1>5 DEF Copy
  <1> QED
    BY <1>1, <1>7, <1>8

(* An answer with as much data as its length says fills the buffer with    *)
(* that data only, whatever the lengths of its packets.                    *)
OnlyData(r, m, a, n, size) ==
    \A k \in 1 .. size : Copy(r, m, a, size)[k] # k =>
        /\ \E j \in DOMAIN a.data : Copy(r, m, a, size)[k] = a.data[j]
        /\ \E i \in 1 .. n :
            /\ k \in r.offsets[i] + 1 .. r.offsets[i] + m.packets[i]
            /\ r.offsets[i] + m.packets[i] <= size

LEMMA CopyTakesData ==
  ASSUME NEW r, NEW m, NEW n, Packeted(r, m, n), NEW size \in Nat, m.length = size,
         NEW a, a.actual_length \in Nat, a.data = [k \in 1 .. a.actual_length |-> -k]
  PROVE  OnlyData(r, m, a, n, size)
  <1> SUFFICES ASSUME NEW k \in 1 .. size, Copy(r, m, a, size)[k] # k
               PROVE  /\ \E j \in DOMAIN a.data : Copy(r, m, a, size)[k] = a.data[j]
                      /\ \E i \in 1 .. n :
                            /\ k \in r.offsets[i] + 1 .. r.offsets[i] + m.packets[i]
                            /\ r.offsets[i] + m.packets[i] <= size
    BY DEF OnlyData
  <1> DEFINE H == Holders(r, m, a, k)
             i == Max(H)
  <1>1. H # {} /\ Copy(r, m, a, size)[k] = FromPacket(r, m, a, k)
    BY DEF Copy
  <1>2. H \subseteq 1 .. n
    <2>1. ASSUME NEW j \in Copied(r, m, a) PROVE j \in 1 .. n
      BY CopiedFits
    <2> QED
      BY <2>1 DEF Holders
  <1>3. i \in H
    <2> HIDE DEF H
    <2> QED
      BY <1>1, <1>2, MaxIs DEF Packeted
  <1>4. Copy(r, m, a, size)[k] = Body(a, StartOf(m, i) + k - Place(r, m, i))
    BY <1>1 DEF FromPacket
  <1>5. i \in Copied(r, m, a) /\ k \in Span(r, m, i)
    BY <1>3 DEF Holders
  <1> HIDE DEF i
  <1> DEFINE x == r.offsets[i]
             y == m.packets[i]
             s == StartOf(m, i)
             l == a.actual_length
  <1>6. i \in 1 .. n /\ PacketFits(r, m, a, i) /\ k \in x + 1 .. x + y
    <2>1. i \in Copied(r, m, a)
      BY <1>5
    <2>2. /\ i \in 1 .. n /\ PacketFits(r, m, a, i)
          /\ Span(r, m, i) = r.offsets[i] + 1 .. r.offsets[i] + m.packets[i]
      BY <2>1, CopiedFits
    <2> QED
      BY <1>5, <2>2
  <1>7. x \in Nat /\ y \in Nat /\ s \in Nat /\ l \in Nat
    BY <1>6, StartIsNumber DEF Packeted
  <1>8. y = 0 \/ (x + y <= size /\ s + y <= l)
    BY <1>6 DEF PacketFits
  <1>9. Place(r, m, i) = x
    BY DEF Place
  <1> HIDE DEF x, y, s, l
  <1>10. x + y <= size /\ s + k - x \in 1 .. l
    BY <1>6, <1>7, <1>8
  <1>11. Body(a, s + k - x) = a.data[s + k - x] /\ s + k - x \in DOMAIN a.data
    BY <1>10 DEF Body, l
  <1> QED
    BY <1>4, <1>6, <1>9, <1>10, <1>11 DEF x, y, s

(* The data of an answer ends up in the packets, in its order, and nowhere *)
(* else.                                                                   *)
Unpacked(r, m, a, n, size) ==
    LET b == copy_iso_packets(r, m, a)
        C == Cells(r.offsets, m.packets, 1 .. n)
    IN  /\ DOMAIN b = 1 .. size
        /\ \A k \in 1 .. size \ C : b[k] = k
        /\ \A k \in C : b[k] # k /\ b[k] = a.data[Rank(r.offsets, m.packets, n, k)]

LEMMA PacketsCopied ==
  ASSUME NEW r, NEW n \in Nat, DOMAIN r.offsets = 1 .. n,
         NEW m, m.packets \in [1 .. n -> Nat], Apart(r.offsets, m.packets, n),
         NEW size \in Nat, m.length = size, m.buffer = Bytes(size),
         \A i \in 1 .. n : r.offsets[i] + m.packets[i] <= size,
         NEW a, a.actual_length = Sum(m.packets),
         a.data = [k \in 1 .. Sum(m.packets) |-> -k]
  PROVE  Unpacked(r, m, a, n, size)
  <1> DEFINE o == r.offsets
             f == m.packets
             C == Cells(o, f, 1 .. n)
             b == copy_iso_packets(r, m, a)
  <1>1. b = Copy(r, m, a, size)
    <2>1. Packeted(r, m, n)
      BY DEF Apart, Packeted
    <2> HIDE DEF o, f, C, b
    <2>2. copy_iso_packets(r, m, a) = Copy(r, m, a, size)
      BY <2>1, CopyIs
    <2> QED
      BY <2>2 DEF b
  <1>2. \A i \in 1 .. n : o[i] \in Nat /\ f[i] \in Nat /\ o[i] + f[i] <= size
    BY DEF Apart
  <1>3. Sum(f) = Cardinality(C)
    BY SumCounts
  <1>13. StartsBehind(r.offsets, m, n)
    BY StartIs
  <1>4. \A i \in 1 .. n : StartOf(m, i) = Cardinality(Cells(o, f, 1 .. i - 1))
    BY ONLY <1>13, Zenon DEF StartsBehind
  <1>12. Apart(o, f, n)
    OBVIOUS
  <1> HIDE DEF o, f, C, b
  <1>5. \A i \in 1 .. n : StartOf(m, i) \in Nat /\ StartOf(m, i) + f[i] <= Sum(f) /\ Sum(f) \in Nat
    <2> SUFFICES ASSUME NEW i \in 1 .. n
                 PROVE  StartOf(m, i) \in Nat /\ StartOf(m, i) + f[i] <= Sum(f) /\ Sum(f) \in Nat
      OBVIOUS
    <2> DEFINE before == Cardinality(Cells(o, f, 1 .. i - 1))
               upto == Cardinality(Cells(o, f, 1 .. i))
               all == Cardinality(Cells(o, f, 1 .. n))
    <2>1. before \in Nat /\ upto = f[i] + before /\ upto <= all
      <3> HIDE DEF before, upto, all
      <3>1. upto = f[i] + before
        BY ONLY <1>12, n \in Nat, i \in 1 .. n, CellsBefore DEF before, upto
      <3>2. upto <= all
        BY ONLY <1>12, n \in Nat, i \in 1 .. n, CellsBefore DEF upto, all
      <3>3. before \in Nat
        BY ONLY <1>12, n \in Nat, i \in 1 .. n, CellsBefore DEF before
      <3> QED
        BY <3>1, <3>2, <3>3
    <2>2. all \in Nat
      <3>1. 1 .. n \in SUBSET (1 .. n)
        OBVIOUS
      <3> QED
        BY <1>12, <3>1, CellsFinite
    <2>3. StartOf(m, i) = before /\ Sum(f) = all
      BY <1>3, <1>4 DEF C
    <2> HIDE DEF before, upto, all
    <2>4. f[i] \in Nat
      BY <1>2
    <2> QED
      BY <2>1, <2>2, <2>3, <2>4
  <1>6. Copied(r, m, a) = 1 .. n
    <2>1. \A j \in 1 .. n : PacketFits(r, m, a, j)
      BY <1>2, <1>5 DEF o, f, PacketFits
    <2> QED
      BY <2>1 DEF Copied
  <1> DEFINE holds(k) == Holders(r, m, a, k)
  <1>7. \A k : holds(k) = {i \in 1 .. n : k \in o[i] + 1 .. o[i] + f[i]}
    BY <1>6 DEF o, f, Place, Span, Holders
  <1> HIDE DEF holds
  <1>8. C \subseteq 1 .. size
    BY <1>2, <1>12, CellsWithin DEF C
  <1>9. ASSUME NEW k \in 1 .. size, k \notin C PROVE b[k] = k
    <2>1. holds(k) = {}
      BY <1>7, <1>9 DEF C, Cells
    <2> QED
      BY <1>1, <2>1 DEF Copy, holds
  <1>10. ASSUME NEW k \in C PROVE b[k] # k /\ b[k] = a.data[Rank(o, f, n, k)]
    <2>1. PICK i \in 1 .. n : k \in o[i] + 1 .. o[i] + f[i]
      BY DEF C, Cells
    <2> DEFINE x == o[i]
               y == f[i]
               s == StartOf(m, i)
    <2>2. x \in Nat /\ y \in Nat /\ s \in Nat /\ s + y <= Sum(f) /\ Sum(f) \in Nat
      BY <1>2, <1>5
    <2>3. k \in x + 1 .. x + y
      BY <2>1
    <2>4. holds(k) = {i}
      <3>1. ASSUME NEW j \in 1 .. n, k \in o[j] + 1 .. o[j] + f[j], j # i PROVE FALSE
        <4> DEFINE u == o[j]
                   v == f[j]
        <4>1. u \in Nat /\ v \in Nat
          BY <1>2
        <4>5. k \in u + 1 .. u + v
          BY <3>1
        <4>6. k \in Int /\ u < k /\ k <= u + v /\ x < k /\ k <= x + y /\ x + y \in Int /\ u + v \in Int
          <5> HIDE DEF x, y, u, v
          <5> QED
            BY <2>2, <2>3, <4>1, <4>5
        <4>2. CASE i < j
          <5>1. x + y <= u
            BY <1>12, <4>2 DEF Apart
          <5> HIDE DEF x, y, u, v
          <5> QED
            BY <2>2, <4>1, <4>6, <5>1
        <4>3. CASE j < i
          <5>1. u + v <= x
            BY <1>12, <4>3 DEF Apart
          <5> HIDE DEF x, y, u, v
          <5> QED
            BY <2>2, <4>1, <4>6, <5>1
        <4>4. i < j \/ j < i
          BY <3>1
        <4> QED
          BY <4>2, <4>3, <4>4
      <3> QED
        BY <1>7, <2>1, <3>1
    <2>5. Max({i}) = i
      BY DEF Max
    <2>6. k \in 1 .. size
      BY <1>8
    <2>7. b[k] = Body(a, s + k - x)
      <3>1. b[k] = Body(a, StartOf(m, Max(holds(k))) + k - Place(r, m, Max(holds(k))))
        BY <1>1, <2>4, <2>6 DEF Copy, FromPacket, holds
      <3> QED
        BY <2>4, <2>5, <3>1 DEF Place, o
    <2>8. Rank(o, f, n, k) = s + (k - x)
      <3>1. Rank(o, f, n, k) = Cardinality(Cells(o, f, 1 .. i - 1)) + (k - x)
        BY <2>1, RankInPacket DEF Rank, o, f
      <3> QED
        BY <1>4, <3>1
    <2> HIDE DEF x, y, s
    <2>12. k \in Int /\ x < k /\ k <= x + y
      BY <2>2, <2>3
    <2>9. /\ s + k - x = s + (k - x) /\ s + k - x \in 1 .. Sum(f) /\ k \in Nat
          /\ s + k - x \in Int /\ k > 0
      <3> DEFINE t == Sum(f)
      <3>1. t \in Nat /\ s + y <= t
        BY <2>2
      <3> HIDE DEF t
      <3>2. s + k - x = s + (k - x) /\ s + k - x \in Int /\ k \in Nat /\ k > 0
        BY <2>2, <2>12
      <3>3. s + k - x >= 1 /\ s + k - x <= t
        BY <2>2, <2>12, <3>1
      <3>4. s + k - x \in 1 .. t
        BY <3>1, <3>2, <3>3
      <3> QED
        BY <3>2, <3>4 DEF t
    <2>10. Body(a, s + k - x) = a.data[s + k - x] /\ a.data[s + k - x] = -(s + k - x)
      BY <2>9 DEF Body, f
    <2>11. -(s + k - x) # k
      BY <2>9
    <2> QED
      BY <2>7, <2>8, <2>9, <2>10, <2>11
  <1>14. DOMAIN b = 1 .. size
    BY <1>1 DEF Copy
  <1> QED
    BY <1>9, <1>10, <1>14, Zenon DEF Unpacked, b, C, o, f

-----------------------------------------------------------------------------
(* Answers.                                                                *)

(* The memory of a request that is not answered, and of any request.       *)
Untouched(r, m) == m.buffer = Bytes(LengthOf(r)) /\ m.length = LengthOf(r)

Fits(r, m) ==
    /\ m = [buffer |-> m.buffer, length |-> m.length, packets |-> m.packets]
    /\ DOMAIN m.buffer = 1 .. LengthOf(r) /\ m.length \in Nat
    /\ r.function # "ISOCH_TRANSFER" => m.length <= LengthOf(r)
    /\ DOMAIN m.packets = DOMAIN OffsetsOf(r)

(* PacketsAgree, BufferHoldsAnswer and TakesOnlyTheAnswer, of any request, *)
(* answer, result and memory.                                              *)
Agree(r, a, m) ==
    /\ \A i \in DOMAIN OffsetsOf(r) : m.packets[i] <= PacketRoom(r, i)
    /\ Sum(m.packets) = a.actual_length

Changed(m) == {k \in DOMAIN m.buffer : m.buffer[k] # k}

HoldsBytes(a, m) ==
    \A k \in DOMAIN m.buffer : m.buffer[k] = IF k <= a.actual_length THEN a.data[k] ELSE k

HoldsPackets(r, a, m) ==
    /\ Changed(m) = Cells(OffsetsOf(r), m.packets, DOMAIN OffsetsOf(r))
    /\ Len(a.data) = Cardinality(Changed(m))
    /\ \A k \in Changed(m) : m.buffer[k] = a.data[Cardinality({j \in Changed(m) : j <= k})]

Inside(r, a, m) ==
    \A k \in DOMAIN m.buffer : m.buffer[k] # k =>
        /\ \E j \in DOMAIN a.data : m.buffer[k] = a.data[j]
        /\ r.function = "ISOCH_TRANSFER" =>
            \E i \in DOMAIN r.offsets :
                /\ k \in r.offsets[i] + 1 .. r.offsets[i] + m.packets[i]
                /\ r.offsets[i] + m.packets[i] <= LengthOf(r)

Holds(r, a, irp, m) ==
    /\ irp = "SUCCESS" /\ Direction(r) # "out" =>
        /\ m.length = a.actual_length /\ Inside(r, a, m)
        /\ r.function # "ISOCH_TRANSFER" => HoldsBytes(a, m)
        /\ r.function = "ISOCH_TRANSFER" /\ Agree(r, a, m) => HoldsPackets(r, a, m)
    /\ ~ (irp = "SUCCESS" /\ Direction(r) # "out")
       /\ (r.function = "ISOCH_TRANSFER" => irp # "SUCCESS") => Untouched(r, m)

(* What the answer to an isochronous request says: lengths, of itself and  *)
(* of the packets.                                                         *)
IsoAnswer(r, a) ==
    /\ InOrder(r) /\ a.status = "OK" /\ a.actual_length \in Nat
    /\ Len(a.descs) \in Nat
    /\ \A i \in 1 .. Len(r.offsets) : a.descs[i].actual_length \in Nat
    /\ a.data = IF Direction(r) = "in" THEN [k \in 1 .. a.actual_length |-> -k] ELSE <<>>

(* What an answer to another request that asks for data says.              *)
PlainAnswer(r, a) == a.actual_length \in Nat /\ a.data = [k \in 1 .. a.actual_length |-> -k]

LEMMA UntouchedFits ==
  ASSUME NEW r, Shape(r), NEW m,
         m = [buffer |-> m.buffer, length |-> m.length, packets |-> m.packets],
         DOMAIN m.packets = DOMAIN OffsetsOf(r), Untouched(r, m)
  PROVE  Fits(r, m)
  <1>1. LengthOf(r) \in Nat
    BY DEF Shape
  <1>2. DOMAIN Bytes(LengthOf(r)) = 1 .. LengthOf(r)
    BY DEF Bytes
  <1> QED
    BY <1>1, <1>2 DEF Fits, Untouched

(* copy_to_transfer_buffer.                                                *)
LEMMA PlainTaken ==
  ASSUME NEW r, Shape(r), r.function # "ISOCH_TRANSFER", NEW m, Fits(r, m), Untouched(r, m),
         NEW a, Direction(r) # "out" => PlainAnswer(r, a)
  PROVE  LET t == store_urb_data(r, m, a)
         IN  Fits(r, t.memory) /\ Holds(r, a, t.status, t.memory)
  <1> DEFINE t == store_urb_data(r, m, a)
             size == LengthOf(r)
  <1>1. Direction(r) \in {"in", "out"} /\ size \in Nat
    BY DirectionIs DEF Shape
  <1>2. CASE Direction(r) = "out"
    <2>1. t = Taken("SUCCESS", m)
      BY <1>2 DEF store_urb_data
    <2>2. t.status = "SUCCESS" /\ t.memory = m
      BY <2>1 DEF Taken
    <2> QED
      BY <1>2, <2>2 DEF Holds
  <1>3. CASE Direction(r) = "in" /\ (m.length < a.actual_length \/ ~ get_buf(r))
    <2>1. t = Taken("INVALID_PARAMETER", m)
      BY <1>3 DEF store_urb_data, copy_to_transfer_buffer
    <2>2. t.status = "INVALID_PARAMETER" /\ t.memory = m
      BY <2>1 DEF Taken
    <2> QED
      BY <2>2 DEF Holds
  <1>4. CASE Direction(r) = "in" /\ ~ (m.length < a.actual_length \/ ~ get_buf(r))
    <2> DEFINE n == a.actual_length
               bytes == [k \in 1 .. a.actual_length |-> Body(a, k)]
               b == Overlaid(m.buffer, bytes)
    <2>1. n \in Nat /\ n <= size /\ a.data = [k \in 1 .. n |-> -k]
      BY <1>1, <1>4 DEF PlainAnswer, Untouched
    <2>2. t = Taken("SUCCESS", [m EXCEPT !.buffer = b, !.length = a.actual_length])
      BY <1>4, Zenon DEF store_urb_data, copy_to_transfer_buffer
    <2>10. DOMAIN bytes = 1 .. n /\ \A k \in 1 .. n : bytes[k] = -k
      BY <2>1 DEF Body
    <2> HIDE DEF b, bytes
    <2>3. m = [buffer |-> m.buffer, length |-> m.length, packets |-> m.packets]
      BY DEF Fits
    <2>4. /\ t.status = "SUCCESS" /\ t.memory.buffer = b /\ t.memory.length = a.actual_length
          /\ t.memory = [buffer |-> b, length |-> a.actual_length, packets |-> m.packets]
      <3> DEFINE new == [m EXCEPT !.buffer = b, !.length = a.actual_length]
      <3>1. new = [m EXCEPT !.buffer = b, !.length = a.actual_length]
        OBVIOUS
      <3> HIDE DEF new
      <3>2. /\ new = [buffer |-> b, length |-> a.actual_length, packets |-> m.packets]
            /\ new.buffer = b /\ new.length = a.actual_length
        BY <2>3, <3>1
      <3>3. t.status = "SUCCESS" /\ t.memory = new
        BY <2>2, <3>1 DEF Taken
      <3> QED
        BY <3>2, <3>3
    <2>5. DOMAIN m.buffer = 1 .. size /\ \A k \in 1 .. size : m.buffer[k] = k
      BY DEF Untouched, Bytes
    <2>6. b = [k \in 1 .. size |-> IF k <= n THEN -k ELSE k]
      <3> DEFINE old == m.buffer
      <3>1. DOMAIN old = 1 .. size /\ \A k \in 1 .. size : old[k] = k
        BY <2>5
      <3> HIDE DEF old
      <3>2. DOMAIN old \cup DOMAIN bytes = 1 .. size
        <4> HIDE DEF n
        <4> QED
          BY <1>1, <2>1, <2>10, <3>1
      <3>3. b = [k \in 1 .. size |-> IF k \in DOMAIN bytes THEN bytes[k] ELSE old[k]]
        BY <3>2, Zenon DEF b, old, Overlaid
      <3> HIDE DEF n
      <3> QED
        BY <1>1, <2>1, <2>10, <3>1, <3>3
    <2>8. Fits(r, t.memory)
      BY <1>1, <2>1, <2>4, <2>6 DEF Fits
    <2>9. HoldsBytes(a, t.memory) /\ Inside(r, a, t.memory)
      <3>1. \A k \in 1 .. size : b[k] = IF k <= n THEN a.data[k] ELSE k
        BY <2>1, <2>6
      <3>2. HoldsBytes(a, t.memory)
        BY <2>1, <2>4, <2>6, <3>1 DEF HoldsBytes
      <3>3. DOMAIN t.memory.buffer = 1 .. size /\ DOMAIN a.data = 1 .. n
        BY <2>1, <2>4, <2>6
      <3>4. ASSUME NEW k \in 1 .. size, b[k] # k PROVE k \in 1 .. n /\ b[k] = a.data[k]
        BY <1>1, <2>1, <3>1, <3>4
      <3>5. Inside(r, a, t.memory)
        <4> SUFFICES ASSUME NEW k \in DOMAIN t.memory.buffer, t.memory.buffer[k] # k
                     PROVE  \E j \in DOMAIN a.data : t.memory.buffer[k] = a.data[j]
          BY DEF Inside
        <4> QED
          BY <2>4, <3>3, <3>4
      <3> QED
        BY <3>2, <3>5
    <2> QED
      BY <1>4, <2>4, <2>8, <2>9 DEF Holds
  <1> QED
    BY <1>1, <1>2, <1>3, <1>4

(* save_iso_desc of a request that is not answered.                        *)
Lengths(a, n) == [i \in 1 .. n |-> a.descs[i].actual_length]

Saves(r, m, a, n, size) ==
    LET saved == save_iso_desc(r, m, a)
        s     == saved.memory
    IN  /\ s = [buffer |-> Bytes(size), length |-> size, packets |-> s.packets]
        /\ DOMAIN s.packets = 1 .. n
        /\ saved.status \in {"SUCCESS", "INVALID_PARAMETER"}
        /\ saved.status = "SUCCESS" => s.packets = Lengths(a, n)

LEMMA IsoSaved ==
  ASSUME NEW r, Shape(r), r.function = "ISOCH_TRANSFER", NEW m, Fits(r, m), Untouched(r, m),
         NEW a, IsoAnswer(r, a)
  PROVE  /\ Saves(r, m, a, Len(r.offsets), LengthOf(r))
         /\ Lengths(a, Len(r.offsets)) \in [1 .. Len(r.offsets) -> Nat]
  <1> DEFINE saved == save_iso_desc(r, m, a)
             s == saved.memory
             n == Len(r.offsets)
             size == LengthOf(r)
  <1>1. size \in Nat /\ r.offsets \in Seq(Nat) /\ OffsetsOf(r) = r.offsets
    BY DEF Shape
  <1>2. n \in Nat /\ DOMAIN r.offsets = 1 .. n
    BY <1>1, LenProperties
  <1>3. Lengths(a, n) \in [1 .. n -> Nat]
    BY DEF IsoAnswer, Lengths
  <1>4. /\ m = [buffer |-> Bytes(size), length |-> size, packets |-> m.packets]
        /\ DOMAIN m.packets = 1 .. n
    BY <1>1, <1>2 DEF Fits, Untouched
  <1> DEFINE grown == {i \in DOMAIN r.offsets : a.descs[i].offset > r.offsets[i]}
             packets == [i \in DOMAIN m.packets |-> IF \E j \in grown : j <= i THEN m.packets[i]
                                                    ELSE a.descs[i].actual_length]
  <1>5. /\ saved.status = (IF grown = {} THEN "SUCCESS" ELSE "INVALID_PARAMETER")
        /\ s = [m EXCEPT !.packets = packets]
    BY Zenon DEF save_iso_desc, Taken
  <1>6. DOMAIN packets = 1 .. n /\ (grown = {} => packets = Lengths(a, n))
    <2>1. DOMAIN packets = 1 .. n
      BY <1>4
    <2>2. grown = {} => packets = [i \in 1 .. n |-> a.descs[i].actual_length]
      <3> HIDE DEF grown
      <3> QED
        BY <1>4
    <2> QED
      BY <2>1, <2>2 DEF Lengths
  <1> HIDE DEF grown, packets
  <1>7. s = [buffer |-> Bytes(size), length |-> size, packets |-> packets]
    <2> DEFINE x == Bytes(size)
               z == m.packets
    <2>1. s = [[buffer |-> x, length |-> size, packets |-> z] EXCEPT !.packets = packets]
      BY <1>4, <1>5, Zenon
    <2> HIDE DEF s, x, z
    <2>2. s = [buffer |-> x, length |-> size, packets |-> packets]
      BY <2>1
    <2> QED
      BY <2>2 DEF x
  <1> HIDE DEF saved
  <1>8. s.packets = packets
    BY <1>7
  <1>9. saved.status = "SUCCESS" => grown = {}
    BY <1>5
  <1>10. saved.status \in {"SUCCESS", "INVALID_PARAMETER"}
    BY <1>5
  <1>11. Saves(r, m, a, n, size)
    BY <1>6, <1>7, <1>8, <1>9, <1>10 DEF Saves, saved
  <1> QED
    BY <1>3, <1>11

(* copy_iso_data after it.                                                 *)
LEMMA IsoTaken ==
  ASSUME NEW r, Shape(r), r.function = "ISOCH_TRANSFER", NEW m, Fits(r, m), Untouched(r, m),
         NEW a, IsoAnswer(r, a)
  PROVE  LET t == store_urb_data(r, m, a)
         IN  Fits(r, t.memory) /\ Holds(r, a, t.status, t.memory)
  <1> DEFINE t == store_urb_data(r, m, a)
             saved == save_iso_desc(r, m, a)
             s == saved.memory
             n == Len(r.offsets)
             size == LengthOf(r)
             f == Lengths(a, n)
  <1>1. /\ Direction(r) \in {"in", "out"} /\ size \in Nat /\ r.length = size
        /\ r.offsets \in Seq(Nat) /\ OffsetsOf(r) = r.offsets
    BY DirectionIs DEF Shape, Data, Transfers
  <1>2. n \in Nat /\ DOMAIN r.offsets = 1 .. n /\ \A i \in 1 .. n : r.offsets[i] \in Nat
    BY <1>1, LenProperties, ElementOfSeq
  <1>3. f \in [1 .. n -> Nat] /\ Saves(r, m, a, n, size)
    BY IsoSaved
  <1>4. /\ InOrder(r) /\ a.actual_length \in Nat
        /\ a.data = IF Direction(r) = "in" THEN [k \in 1 .. a.actual_length |-> -k] ELSE <<>>
    BY DEF IsoAnswer
  <1> HIDE DEF f
  <1>7. /\ s = [buffer |-> Bytes(size), length |-> size, packets |-> s.packets]
        /\ DOMAIN s.packets = 1 .. n
        /\ saved.status = "SUCCESS" => s.packets = f
    BY <1>3 DEF Saves, f
  <1> HIDE DEF saved
  <1>8. s.buffer = Bytes(size) /\ s.length = size
    BY <1>7
  <1>9. Fits(r, s) /\ Untouched(r, s)
    <2>1. DOMAIN Bytes(size) = 1 .. size
      BY DEF Bytes
    <2> QED
      BY <1>1, <1>2, <1>7, <1>8, <2>1 DEF Fits, Untouched
  <1>10. t = take_urb_iso(r, m, a)
    BY DEF store_urb_data
  <1>11. CASE saved.status # "SUCCESS" \/ ~ get_buf(r)
    <2>1. t.status # "SUCCESS" /\ t.memory = s
      <3>1. CASE saved.status # "SUCCESS"
        <4>1. t = saved
          BY <1>10, <3>1, Zenon DEF take_urb_iso, saved
        <4> QED
          BY <3>1, <4>1
      <3>2. CASE saved.status = "SUCCESS"
        <4>1. t = Taken("INVALID_PARAMETER", s)
          BY <1>10, <1>11, <3>2, Zenon DEF take_urb_iso, saved
        <4> QED
          BY <4>1 DEF Taken
      <3> QED
        BY <3>1, <3>2
    <2> QED
      BY <1>9, <2>1 DEF Holds
  <1>12. CASE saved.status = "SUCCESS" /\ get_buf(r)
    <2> DEFINE b == copy_iso_packets(r, s, a)
               C == Cells(r.offsets, f, 1 .. n)
    <2>1. t = Taken("SUCCESS", [s EXCEPT !.buffer = b, !.length = a.actual_length])
      BY <1>10, <1>12, Zenon DEF take_urb_iso, saved
    <2>2. s.packets = f
      BY <1>7, <1>12
    <2>12. Packeted(r, s, n)
      BY <1>2, <1>3, <2>2 DEF Packeted
    <2>13. b = Copy(r, s, a, size)
      <3> HIDE DEF n, size, s
      <3> QED
        BY <1>1, <1>8, <2>12, CopyIs
    <2> HIDE DEF b, s
    <2>3. /\ t.status = "SUCCESS"
          /\ t.memory = [buffer |-> b, length |-> a.actual_length, packets |-> f]
      <3> DEFINE new == [s EXCEPT !.buffer = b, !.length = a.actual_length]
      <3>1. new = [s EXCEPT !.buffer = b, !.length = a.actual_length]
        OBVIOUS
      <3> HIDE DEF new
      <3>2. new = [buffer |-> b, length |-> a.actual_length, packets |-> f]
        BY <1>7, <2>2, <3>1
      <3>3. t = Taken("SUCCESS", new)
        BY <2>1 DEF new
      <3>4. t.status = "SUCCESS" /\ t.memory = new
        BY <3>3 DEF Taken
      <3> QED
        BY <3>2, <3>4
    <2>7. t.memory.length = a.actual_length /\ t.memory.buffer = b /\ t.memory.packets = f
      BY <2>3
    <2>14. DOMAIN b = 1 .. size
      BY <2>13 DEF Copy
    <2>9. Fits(r, t.memory)
      BY <1>1, <1>2, <1>3, <1>4, <2>3, <2>7, <2>14 DEF Fits
    <2>15. ASSUME Direction(r) = "in" PROVE Inside(r, a, t.memory)
      <3>1. OnlyData(r, s, a, n, size)
        <4>1. a.data = [k \in 1 .. a.actual_length |-> -k]
          BY <1>4, <2>15
        <4> HIDE DEF n, size
        <4> QED
          BY <1>1, <1>4, <1>8, <2>12, <4>1, CopyTakesData
      <3>2. \A k \in 1 .. size : b[k] # k =>
                /\ \E j \in DOMAIN a.data : b[k] = a.data[j]
                /\ \E i \in 1 .. n :
                    /\ k \in r.offsets[i] + 1 .. r.offsets[i] + f[i]
                    /\ r.offsets[i] + f[i] <= size
        BY <2>2, <2>13, <3>1, Zenon DEF OnlyData
      <3> QED
        BY <1>2, <2>7, <2>14, <3>2, Zenon DEF Inside
    <2>10. ASSUME Direction(r) = "in", Agree(r, a, t.memory) PROVE HoldsPackets(r, a, t.memory)
      <3>6. /\ a.actual_length = Sum(f)
            /\ \A i \in 1 .. n : f[i] <= PacketRoom(r, i)
        BY <1>1, <1>2, <2>7, <2>10 DEF Agree
      <3>7. Apart(r.offsets, f, n) /\ \A i \in 1 .. n : r.offsets[i] + f[i] <= size
        BY <1>1, <1>3, <1>4, <3>6, PacketsApart
      <3>8. Sum(f) = Cardinality(C) /\ DOMAIN f = 1 .. n
        BY <1>2, <1>3, <3>7, SumCounts
      <3>9. C \subseteq 1 .. size
        BY <1>1, <1>2, <3>7, CellsWithin
      <3>1. /\ DOMAIN b = 1 .. size
            /\ \A k \in 1 .. size \ C : b[k] = k
            /\ \A k \in C : b[k] # k /\ b[k] = a.data[Rank(r.offsets, f, n, k)]
        <4>1. /\ DOMAIN r.offsets = 1 .. n /\ s.packets \in [1 .. n -> Nat] /\ n \in Nat
              /\ Apart(r.offsets, s.packets, n) /\ size \in Nat /\ s.length = size
              /\ s.buffer = Bytes(size) /\ a.actual_length = Sum(s.packets)
              /\ \A i \in 1 .. n : r.offsets[i] + s.packets[i] <= size
              /\ a.data = [k \in 1 .. Sum(s.packets) |-> -k]
          BY <1>1, <1>2, <1>3, <1>4, <1>8, <2>2, <2>10, <3>6, <3>7
        <4> HIDE DEF n, size
        <4>2. /\ DOMAIN b = 1 .. size
              /\ \A k \in 1 .. size \ Cells(r.offsets, s.packets, 1 .. n) : b[k] = k
              /\ \A k \in Cells(r.offsets, s.packets, 1 .. n) :
                    b[k] # k /\ b[k] = a.data[Rank(r.offsets, s.packets, n, k)]
          <5>1. Unpacked(r, s, a, n, size)
            BY <4>1, PacketsCopied
          <5> QED
            BY <5>1, Zenon DEF Unpacked, b
        <4> QED
          BY <2>2, <4>2
      <3>2. Changed(t.memory) = C
        BY <2>7, <3>1, <3>9 DEF Changed
      <3>3. Len(a.data) = Cardinality(C)
        BY <1>4, <2>10, <3>6, <3>8
      <3>4. Cells(OffsetsOf(r), t.memory.packets, DOMAIN OffsetsOf(r)) = C
        BY <1>1, <1>2, <2>7
      <3>5. \A k \in C : b[k] = a.data[Cardinality({j \in C : j <= k})]
        BY <3>1 DEF Rank
      <3> QED
        BY <2>7, <3>2, <3>3, <3>4, <3>5, Zenon DEF HoldsPackets
    <2> QED
      BY <1>1, <2>3, <2>7, <2>9, <2>10, <2>15 DEF Holds
  <1> QED
    BY <1>11, <1>12

(* What is taken for an IN request is in the write.                        *)
LEMMA ReadsWithin ==
  ASSUME NEW r, Shape(r), r.function = "ISOCH_TRANSFER", NEW m, Fits(r, m), Untouched(r, m),
         NEW a, IsoAnswer(r, a), Direction(r) = "in"
  PROVE  ~ ReadsPast(r, m, a)
  <1> DEFINE saved == save_iso_desc(r, m, a)
             s == saved.memory
             n == Len(r.offsets)
             size == LengthOf(r)
  <1> SUFFICES ASSUME saved.status = "SUCCESS", NEW i \in Copied(r, s, a), s.packets[i] > 0,
                      StartOf(s, i) + s.packets[i] > Written(a)
               PROVE  FALSE
    BY Zenon DEF ReadsPast
  <1>1. size \in Nat /\ r.offsets \in Seq(Nat)
    BY DEF Shape
  <1>2. n \in Nat /\ DOMAIN r.offsets = 1 .. n /\ \A k \in 1 .. n : r.offsets[k] \in Nat
    BY <1>1, LenProperties, ElementOfSeq
  <1>3. Lengths(a, n) \in [1 .. n -> Nat] /\ s.packets = Lengths(a, n)
    BY IsoSaved DEF Saves
  <1>4. Packeted(r, s, n)
    BY <1>2, <1>3 DEF Packeted
  <1> HIDE DEF saved, n
  <1>5. i \in 1 .. n /\ PacketFits(r, s, a, i)
    BY <1>4, CopiedFits DEF PacketFits
  <1> DEFINE x == StartOf(s, i)
             y == s.packets[i]
             l == a.actual_length
             d == Len(a.descs)
  <1>6. x \in Nat /\ y \in Nat /\ l \in Nat /\ d \in Nat
    BY <1>2, <1>3, <1>5, StartIsNumber DEF IsoAnswer
  <1>7. y = 0 \/ x + y <= l
    BY <1>5 DEF PacketFits
  <1>8. Len(a.data) = l
    BY <1>6 DEF IsoAnswer
  <1>9. Written(a) = l + 16 * d
    BY <1>8 DEF Written, PacketLength
  <1> HIDE DEF x, y, l, d
  <1> QED
    BY <1>6, <1>7, <1>9 DEF x, y

-----------------------------------------------------------------------------
(* What the remote device answers, and where it is then.                   *)

(* The remote device is not configured, or has a setting of every          *)
(* interface of its configuration.                                         *)
RemoteOK(q) ==
    \/ q = NoSetting
    \/ /\ q = [value |-> q.value, alts |-> q.alts]
       /\ \E c \in Config :
            /\ q.value = c.value
            /\ DOMAIN q.alts = Range(c.numbers)

LEMMA ConfigWithIs ==
  ASSUME NEW c \in Config
  PROVE  ConfigWith(c.value) = c
  <1>1. \A d \in Config : d.value = c.value <=> d = c
    BY DeviceAssumption
  <1> QED
    BY <1>1, Zenon DEF ConfigWith

LEMMA IsoReplyIs ==
  ASSUME NEW r, Shape(r), r.function = "ISOCH_TRANSFER", InOrder(r), NEW a \in IsoReplies(r)
  PROVE  IsoAnswer(r, a)
  <1> DEFINE n == Len(r.offsets)
             descs(shift, f) == [i \in 1 .. n |-> [offset |-> r.offsets[i] + shift[i],
                                                    actual_length |-> f[i]]]
             data(l) == IF Direction(r) = "in" THEN [k \in 1 .. l |-> -k] ELSE <<>>
  <1>1. PICK shift \in Shifts(r), f \in Fillings(r), l \in AnswerLength \cup {r.length} :
            a = IsoReply(r, shift, f, l)
    BY DEF IsoReplies
  <1>2. n \in Nat /\ r.length \in Nat
    BY LenProperties DEF Shape, Data, Transfers
  <1>3. l \in Nat /\ \A i \in 1 .. n : f[i] \in Nat
    <2>1. l \in Nat
      BY <1>2, TransferAssumption
    <2>2. f \in [1 .. n -> AnswerLength \cup 0 .. r.length]
      BY DEF Fillings
    <2>3. AnswerLength \cup 0 .. r.length \subseteq Nat
      <3> DEFINE l0 == r.length
      <3>1. l0 \in Nat /\ AnswerLength \subseteq Nat
        BY <1>2, TransferAssumption
      <3> HIDE DEF l0
      <3>2. 0 .. l0 \subseteq Nat
        BY <3>1
      <3> QED
        BY <3>1, <3>2 DEF l0
    <2> QED
      BY <2>1, <2>2, <2>3
  <1>5. a = Reply("OK", l, data(l), descs(shift, f))
    BY <1>1, Zenon DEF IsoReply
  <1>6. /\ \A i \in 1 .. n : descs(shift, f)[i].actual_length = f[i]
        /\ Len(descs(shift, f)) = n
    BY <1>2
  <1> HIDE DEF data, descs
  <1>4. /\ a.status = "OK" /\ a.actual_length = l /\ a.data = data(l)
        /\ a.descs = descs(shift, f)
    BY <1>5 DEF Reply
  <1> QED
    BY <1>2, <1>3, <1>4, <1>6 DEF IsoAnswer, data

LEMMA ReplyIs ==
  ASSUME NEW r, Shape(r), NEW h, HeaderOK(r, h), NEW a \in Replies(r, h)
  PROVE  /\ a.status \in {"OK", "EPIPE", "EREMOTEIO"}
         /\ a.status = "OK" /\ r.function \in Select => Followed(h.setup)
         /\ a.status = "OK" /\ r.function = "ISOCH_TRANSFER" => IsoAnswer(r, a)
         /\ a.status = "OK" /\ r.function \notin Select \cup {"ISOCH_TRANSFER"}
                /\ Direction(r) # "out" => PlainAnswer(r, a)
  <1>1. Direction(r) \in {"in", "out"}
    BY DirectionIs
  <1>2. CASE a = Reply("EPIPE", 0, <<>>, <<>>)
    <2>1. a.status = "EPIPE"
      BY <1>2 DEF Reply
    <2> QED
      BY <2>1
  <1>3. CASE Setting(h) /\ a # Reply("EPIPE", 0, <<>>, <<>>)
    <2>1. a \in IF Followed(h.setup) THEN {Reply("OK", 0, <<>>, <<>>)} ELSE {}
      BY <1>3, Zenon DEF Replies
    <2>2. Followed(h.setup) /\ a.status = "OK"
      BY <2>1 DEF Reply
    <2>3. r.function \in Select
      BY <1>3 DEF HeaderOK
    <2> QED
      BY <2>2, <2>3 DEF Select
  <1>4. CASE ~ Setting(h) /\ h.packets > 0 /\ a # Reply("EPIPE", 0, <<>>, <<>>)
    <2>4. h.packets # 0
      BY <1>4
    <2>1. a \in IF \E i \in DOMAIN r.offsets : Unset(r, i) THEN {} ELSE IsoReplies(r)
      BY <1>4, <2>4, Zenon DEF Replies
    <2>2. r.function = "ISOCH_TRANSFER"
      BY <1>4, EmptySeq DEF HeaderOK, Shape
    <2>3. InOrder(r) /\ a \in IsoReplies(r)
      BY <2>1, <2>2 DEF InOrder, Shape
    <2>5. IsoAnswer(r, a)
      BY <2>2, <2>3, IsoReplyIs
    <2> QED
      BY <2>2, <2>5 DEF IsoAnswer, Select
  <1>5. CASE ~ Setting(h) /\ ~ (h.packets > 0) /\ a # Reply("EPIPE", 0, <<>>, <<>>)
    <2>1. h.packets = 0 /\ r.function # "ISOCH_TRANSFER" /\ r.function \notin Select
      <3>1. Len(OffsetsOf(r)) \in Nat /\ (r.function = "ISOCH_TRANSFER" => OffsetsOf(r) # <<>>)
        BY LenProperties DEF Shape
      <3>2. h.packets = 0 /\ Len(OffsetsOf(r)) = 0
        BY <1>5, <3>1 DEF HeaderOK
      <3>3. OffsetsOf(r) = <<>>
        BY <3>2, EmptySeq DEF Shape
      <3>4. r.function \in Select => Setting(h)
        BY DEF HeaderOK, Select
      <3> QED
        BY <1>5, <3>1, <3>2, <3>3, <3>4
    <2>2. h.direction = Direction(r) /\ h.length = LengthOf(r)
      BY DEF HeaderOK
    <2>3. CASE Direction(r) = "in"
      <3> DEFINE data(n) == [k \in 1 .. n |-> -k]
      <3>1. a \in {Reply(IF n >= h.length \/ h.short_ok THEN "OK" ELSE "EREMOTEIO",
                         n, data(n), <<>>) : n \in AnswerLength \cup {h.length}}
        BY <1>5, <2>1, <2>2, <2>3, Zenon DEF Replies
      <3>2. PICK n \in AnswerLength \cup {h.length} :
                a = Reply(IF n >= h.length \/ h.short_ok THEN "OK" ELSE "EREMOTEIO",
                          n, data(n), <<>>)
        BY <3>1
      <3>5. n \in Nat
        BY <2>2, TransferAssumption DEF Shape
      <3> HIDE DEF data
      <3>3. a.status \in {"OK", "EREMOTEIO"} /\ a.actual_length = n /\ a.data = data(n)
        BY <3>2 DEF Reply
      <3>4. PlainAnswer(r, a)
        BY <3>3, <3>5 DEF PlainAnswer, data
      <3> QED
        BY <2>1, <3>3, <3>4
    <2>4. CASE Direction(r) = "out"
      <3>1. a = Reply("OK", h.length, <<>>, <<>>)
        BY <1>5, <2>1, <2>2, <2>4, Zenon DEF Replies
      <3>2. a.status = "OK"
        BY <3>1 DEF Reply
      <3> QED
        BY <2>1, <2>4, <3>2
    <2> QED
      BY <1>1, <2>3, <2>4
  <1> QED
    BY <1>2, <1>3, <1>4, <1>5

(* A set request that the device follows takes it to a configuration with  *)
(* its first settings, or to the setting that was asked for.               *)
LEMMA RemoteMoves ==
  ASSUME RemoteOK(remote), NEW r, Shape(r), r.function \in Select, NEW h, HeaderOK(r, h),
         Followed(h.setup)
  PROVE  LET q == Set(h.setup)
         IN  /\ RemoteOK(q)
             /\ r.function = "SELECT_CONFIGURATION" =>
                    \A c \in Config : c.value = 1 =>
                        q.value = 1 /\ \A n \in Range(c.numbers) : q.alts[n] = 0
             /\ r.function = "SELECT_INTERFACE" =>
                    q.alts[r.info.number] = r.info.alt
  <1> DEFINE q == Set(h.setup)
  <1>1. CASE r.function = "SELECT_CONFIGURATION"
    <2>1. h.setup.request = "SET_CONFIGURATION" /\ h.setup.value = 1
      BY <1>1 DEF HeaderOK
    <2>2. PICK c \in Config : c.value = 1
      BY <2>1 DEF Followed
    <2>3. ConfigWith(1) = c
      BY <2>2, ConfigWithIs
    <2>4. q = [value |-> 1, alts |-> [n \in Range(c.numbers) |-> 0]]
      BY <2>1, <2>3 DEF Set
    <2>5. /\ q = [value |-> q.value, alts |-> q.alts] /\ q.value = 1
          /\ DOMAIN q.alts = Range(c.numbers) /\ \A n \in Range(c.numbers) : q.alts[n] = 0
      BY <2>4
    <2>6. \A d \in Config : d.value = 1 => d = c
      BY <2>2, DeviceAssumption
    <2> HIDE DEF q
    <2>7. RemoteOK(q)
      BY <2>2, <2>5 DEF RemoteOK
    <2> QED
      BY <1>1, <2>5, <2>6, <2>7 DEF q
  <1>2. CASE r.function = "SELECT_INTERFACE"
    <2>1. /\ h.setup.request = "SET_INTERFACE" /\ h.setup.value = r.info.alt
          /\ h.setup.index = r.info.number
      BY <1>2 DEF HeaderOK
    <2>2. /\ remote.value # 0
          /\ SettingPlaces(ConfigWith(remote.value).dsc, r.info.number, r.info.alt) # {}
      BY <2>1 DEF Followed
    <2>3. PICK c \in Config : remote.value = c.value /\ DOMAIN remote.alts = Range(c.numbers)
      BY <2>2 DEF RemoteOK, NoSetting
    <2>4. remote = [value |-> remote.value, alts |-> remote.alts]
      BY <2>2 DEF RemoteOK, NoSetting
    <2>5. r.info.number \in DOMAIN remote.alts
      <3>1. ConfigWith(remote.value) = c
        BY <2>3, ConfigWithIs
      <3>2. PICK i \in DOMAIN c.dsc : c.dsc[i].type = "interface" /\ c.dsc[i].number = r.info.number
        BY <2>2, <3>1 DEF SettingPlaces
      <3>3. Range(c.numbers) = {c.dsc[j].number : j \in Places(c, "interface")}
        BY ConfigIs
      <3> QED
        BY <2>3, <3>2, <3>3 DEF Places
    <2>6. q = [remote EXCEPT !.alts[r.info.number] = r.info.alt]
      BY <2>1 DEF Set
    <2> DEFINE alts == [remote.alts EXCEPT ![r.info.number] = r.info.alt]
    <2>7. q = [remote EXCEPT !.alts = alts]
      BY <2>6, Zenon
    <2>8. DOMAIN alts = DOMAIN remote.alts /\ alts[r.info.number] = r.info.alt
      BY <2>5
    <2> HIDE DEF q, alts
    <2>9. q.value = remote.value /\ q.alts = alts /\ q = [value |-> q.value, alts |-> q.alts]
      BY <2>4, <2>7
    <2>10. RemoteOK(q)
      BY <2>3, <2>8, <2>9 DEF RemoteOK
    <2> QED
      BY <1>2, <2>8, <2>9, <2>10 DEF q
  <1> QED
    BY <1>1, <1>2 DEF Select

-----------------------------------------------------------------------------
(* The inductive invariant.                                                *)

(* A request has its shape from the time it is submitted to its end; while *)
(* it is queued it names pipes that the function driver still has.         *)
RequestOK ==
    /\ stage \in {"idle", "waiting", "partial", "sent", "ended", "crashed"}
    /\ stage = "idle" => urb = NoUrb
    /\ stage # "idle" => Shape(urb)
    /\ stage \in {"waiting", "partial", "sent"} => urb \in Requests(view) /\ urb.function \in Queued

(* Nobody touches the buffer of a request that is not answered; an answer  *)
(* that ended a request is in its buffer.                                  *)
MemoryOK ==
    /\ Fits(urb, memory)
    /\ stage \in {"waiting", "partial", "sent"} => Untouched(urb, memory)
    /\ answer = NoAnswer \/ stage \in {"ended", "crashed"}
    /\ stage = "ended" /\ answer # NoAnswer => Holds(urb, answer, result.irp, memory)

(* What the program has of a request: nothing, a header that announces     *)
(* data, or all of it.                                                     *)
WireOK ==
    /\ wire = [message |-> wire.message, room |-> wire.room]
    /\ stage \in {"idle", "waiting"} => wire.message = Nothing
    /\ stage = "partial" =>
            /\ HeaderOK(urb, wire.message.hdr)
            /\ wire.message.data = <<>> /\ wire.message.descs = <<>>
            /\ Direction(urb) = "out" /\ urb.function \in Transfers \cup Control
    /\ stage = "sent" => Complete(urb, wire.room, wire.message)

ExtensionOK ==
    /\ pdo = [speed |-> pdo.speed, dsc_conf |-> pdo.dsc_conf]
    /\ pdo.speed \in Speed /\ pdo.dsc_conf \in Config \cup {NoConfig}

(* The driver fails over requests that bring data or none.                 *)
CrashOK == stage = "crashed" => Direction(urb) = "out"

IInv ==
    RequestOK /\ MemoryOK /\ WireOK /\ ExtensionOK /\ CrashOK /\ ViewOK(view) /\ RemoteOK(remote)

LEMMA ViewPipes ==
  ASSUME NEW v, ViewOK(v)
  PROVE  v.config \in Config \cup {NoConfig} /\ Handles(v) \subseteq Nat
  <1>1. CASE v = NoView
    <2>1. DOMAIN v.interfaces = {} /\ v.config = NoConfig
      BY <1>1, EmptySeq DEF NoView
    <2>2. Handles(v) = {}
      BY <2>1 DEF Handles, Pipes
    <2> QED
      BY <2>1, <2>2
  <1>2. CASE v.config \in Config /\ \A n \in DOMAIN v.interfaces : PipesOK(v.interfaces[n].pipes)
    <2>1. ASSUME NEW p \in Pipes(v) PROVE p.PipeHandle \in Nat
      <3>1. PICK n \in DOMAIN v.interfaces : p \in Range(v.interfaces[n].pipes)
        BY DEF Pipes
      <3>2. PipeOK(p)
        BY <1>2, <3>1 DEF PipesOK, Range
      <3> QED
        BY <3>2, HandleUnpacked
    <2> QED
      BY <1>2, <2>1 DEF Handles
  <1> QED
    BY <1>1, <1>2 DEF ViewOK

LEMMA NoUrbFits == Fits(NoUrb, NoMemory)
  <1>1. LengthOf(NoUrb) = 0 /\ OffsetsOf(NoUrb) = <<>>
    BY DEF LengthOf, OffsetsOf, NoUrb
  <1>2. NoMemory = [buffer |-> <<>>, length |-> 0, packets |-> <<>>]
    BY DEF NoMemory
  <1> QED
    BY <1>1, <1>2, EmptyIsSeq DEF Fits

LEMMA InitOK == Init => IInv
  <1> SUFFICES ASSUME Init PROVE IInv
    OBVIOUS
  <1>1. RequestOK
    BY DEF Init, RequestOK
  <1>2. MemoryOK
    BY NoUrbFits DEF Init, MemoryOK
  <1>3. WireOK
    BY DEF Init, WireOK, NoWire
  <1>4. ExtensionOK
    BY DEF Init, ExtensionOK
  <1>5. CrashOK
    BY DEF Init, CrashOK
  <1>6. ViewOK(view) /\ RemoteOK(remote)
    BY DEF Init, ViewOK, RemoteOK
  <1> QED
    BY <1>1, <1>2, <1>3, <1>4, <1>5, <1>6 DEF IInv

LEMMA ReturnStep ==
  ASSUME IInv, Return
  PROVE  IInv'
  <1>1. RequestOK'
    BY DEF Return, RequestOK
  <1>2. MemoryOK'
    BY NoUrbFits DEF Return, MemoryOK
  <1>3. WireOK'
    BY DEF Return, WireOK, NoWire
  <1>4. ExtensionOK'
    BY DEF Return, IInv, ExtensionOK
  <1>5. CrashOK'
    BY DEF Return, CrashOK
  <1>6. ViewOK(view)' /\ RemoteOK(remote)'
    BY DEF Return, IInv
  <1> QED
    BY <1>1, <1>2, <1>3, <1>4, <1>5, <1>6 DEF IInv

LEMMA SubmitStep ==
  ASSUME IInv, NEW r \in Requests(view), process_irp_urb_req(r)
  PROVE  IInv'
  <1>1. Shape(r)
    BY ViewPipes, RequestShape DEF IInv
  <1>2. /\ stage = "idle" /\ urb' = r /\ stage' \in {"waiting", "ended"}
        /\ stage' = "waiting" => r.function \in Queued
        /\ wire' = wire /\ answer' = answer /\ pdo' = pdo /\ view' = view /\ remote' = remote
    BY DEF process_irp_urb_req, End
  <1>3. RequestOK'
    BY <1>1, <1>2 DEF RequestOK
  <1>4. MemoryOK'
    <2> DEFINE packets == [i \in DOMAIN OffsetsOf(r) |-> 0]
    <2>1. memory' = [buffer |-> Bytes(LengthOf(r)), length |-> LengthOf(r), packets |-> packets]
      BY DEF process_irp_urb_req, Bytes
    <2>2. DOMAIN packets = DOMAIN OffsetsOf(r)
      OBVIOUS
    <2> HIDE DEF packets
    <2>3. /\ memory' = [buffer |-> memory'.buffer, length |-> memory'.length,
                        packets |-> memory'.packets]
          /\ Untouched(r, memory') /\ DOMAIN memory'.packets = DOMAIN OffsetsOf(r)
      BY <2>1, <2>2 DEF Untouched
    <2>4. Fits(r, memory')
      BY <1>1, <2>3, UntouchedFits
    <2>5. answer = NoAnswer
      BY <1>2 DEF IInv, MemoryOK
    <2> QED
      BY <1>2, <2>3, <2>4, <2>5 DEF MemoryOK
  <1>5. WireOK'
    BY <1>2 DEF IInv, WireOK
  <1>6. ExtensionOK' /\ CrashOK'
    BY <1>2 DEF IInv, ExtensionOK, CrashOK
  <1>7. ViewOK(view)' /\ RemoteOK(remote)'
    BY <1>2 DEF IInv
  <1> QED
    BY <1>3, <1>4, <1>5, <1>6, <1>7 DEF IInv

LEMMA CompleteFields ==
  ASSUME NEW r, NEW room, NEW x, NEW y, x.hdr = y.hdr, x.data = y.data, x.descs = y.descs,
         Complete(r, room, x)
  PROVE  Complete(r, room, y)
  BY DEF Complete

(* The first read of a request.                                            *)
LEMMA FirstReadStep ==
  ASSUME IInv, NEW room \in ReadLength, Read(room), stage = "waiting"
  PROVE  IInv'
  <1> DEFINE s == store_urbr(urb, memory, room)
             got == Delivered(s)
             message == [hdr |-> got.hdr, data |-> <<>> \o got.data, descs |-> <<>> \o got.descs]
  <1>1. /\ UNCHANGED <<urb, memory, answer, pdo, view, remote>>
        /\ \/ /\ s.status = "SUCCESS"
              /\ stage' = IF s.len = 0 THEN "sent" ELSE "partial"
              /\ wire' = [message |-> [hdr   |-> got.hdr,
                                       data  |-> wire.message.data \o got.data,
                                       descs |-> wire.message.descs \o got.descs],
                          room |-> room]
              /\ UNCHANGED result
           \/ /\ s.status = "crash"
              /\ stage' = "crashed"
              /\ UNCHANGED <<wire, result>>
           \/ /\ s.status \notin {"SUCCESS", "crash"}
              /\ stage' = "ended" /\ wire' = [wire EXCEPT !.room = room]
    BY Zenon DEF Read, Stores, End
  <1>2. /\ Shape(urb) /\ urb.function \in Queued /\ urb \in Requests(view)
        /\ Untouched(urb, memory) /\ Fits(urb, memory) /\ answer = NoAnswer
        /\ wire.message = Nothing /\ wire = [message |-> wire.message, room |-> wire.room]
        /\ memory.buffer = Bytes(LengthOf(urb))
    BY DEF IInv, RequestOK, MemoryOK, WireOK, Untouched
  <1>3. room \in Nat
    BY TransferAssumption
  <1>4. Outcome(urb, memory, room, s)
    BY <1>2, <1>3, FirstRead
  <1> HIDE DEF s
  <1>5. ExtensionOK' /\ ViewOK(view)' /\ RemoteOK(remote)'
    BY <1>1 DEF IInv, ExtensionOK
  <1>6. CASE s.status = "SUCCESS"
    <2>1. /\ got.data \in Seq(Int) /\ got.descs \in Seq(Desc) /\ HeaderOK(urb, got.hdr)
          /\ s.len = 0 => Complete(urb, room, got)
          /\ s.len # 0 =>
                /\ got.data = <<>> /\ got.descs = <<>>
                /\ Direction(urb) = "out" /\ urb.function \in Transfers \cup Control
      BY <1>2, <1>3, <1>4, <1>6, FirstComplete
    <2> HIDE DEF got
    <2>2. /\ stage' = (IF s.len = 0 THEN "sent" ELSE "partial")
          /\ wire' = [message |-> message, room |-> room]
      BY <1>1, <1>2, <1>6 DEF Nothing
    <2>3. message.hdr = got.hdr /\ message.data = got.data /\ message.descs = got.descs
      BY <2>1, ConcatEmptySeq
    <2> HIDE DEF message
    <2>4. wire'.message = message /\ wire'.room = room
      BY <2>2
    <2>5. RequestOK' /\ MemoryOK' /\ CrashOK'
      BY <1>1, <1>2, <2>2 DEF RequestOK, MemoryOK, CrashOK
    <2>6. s.len = 0 => Complete(urb, room, message)
      BY <2>1, <2>3, CompleteFields
    <2>7. WireOK'
      BY <1>1, <2>1, <2>2, <2>3, <2>4, <2>6 DEF WireOK
    <2> QED
      BY <1>5, <2>5, <2>7 DEF IInv
  <1>7. CASE s.status = "crash"
    <2>1. Unmapped(urb)
      BY <1>4, <1>7 DEF Outcome, Header, HeaderOnly, Stored
    <2>2. stage' = "crashed" /\ wire' = wire
      BY <1>1, <1>7
    <2>3. RequestOK' /\ MemoryOK' /\ WireOK'
      BY <1>1, <1>2, <2>2 DEF RequestOK, MemoryOK, WireOK
    <2>4. CrashOK'
      BY <1>1, <2>1 DEF CrashOK, Unmapped
    <2> QED
      BY <1>5, <2>3, <2>4 DEF IInv
  <1>8. CASE s.status \notin {"SUCCESS", "crash"}
    <2>1. stage' = "ended" /\ wire' = [wire EXCEPT !.room = room]
      BY <1>1, <1>8
    <2>2. RequestOK' /\ MemoryOK' /\ CrashOK'
      BY <1>1, <1>2, <2>1 DEF RequestOK, MemoryOK, CrashOK
    <2>3. WireOK'
      BY <1>2, <2>1 DEF WireOK
    <2> QED
      BY <1>5, <2>2, <2>3 DEF IInv
  <1> QED
    BY <1>6, <1>7, <1>8

(* The second, of a request whose header the program has.                  *)
LEMMA SecondReadStep ==
  ASSUME IInv, NEW room \in ReadLength, Read(room), stage = "partial"
  PROVE  IInv'
  <1> DEFINE s == store_urbr_partial(urb, memory, room)
             got == Delivered(s)
             h == wire.message.hdr
             message == [hdr |-> h, data |-> <<>> \o got.data, descs |-> <<>> \o got.descs]
  <1>1. /\ UNCHANGED <<urb, memory, answer, pdo, view, remote>>
        /\ \/ /\ s.status = "SUCCESS"
              /\ stage' = IF s.len = 0 THEN "sent" ELSE "partial"
              /\ wire' = [message |-> [hdr   |-> h,
                                       data  |-> wire.message.data \o got.data,
                                       descs |-> wire.message.descs \o got.descs],
                          room |-> room]
              /\ UNCHANGED result
           \/ /\ s.status = "crash"
              /\ stage' = "crashed"
              /\ UNCHANGED <<wire, result>>
           \/ /\ s.status \notin {"SUCCESS", "crash"}
              /\ stage' = "ended" /\ wire' = [wire EXCEPT !.room = room]
    <2>1. stage # "waiting"
      OBVIOUS
    <2> QED
      BY <2>1, Zenon DEF Read, Stores, End
  <1>2. /\ Shape(urb) /\ urb.function \in Queued /\ urb \in Requests(view)
        /\ Untouched(urb, memory) /\ Fits(urb, memory) /\ answer = NoAnswer
        /\ wire = [message |-> wire.message, room |-> wire.room]
        /\ memory.buffer = Bytes(LengthOf(urb))
        /\ HeaderOK(urb, h) /\ wire.message.data = <<>> /\ wire.message.descs = <<>>
        /\ Direction(urb) = "out" /\ urb.function \in Transfers \cup Control
    BY DEF IInv, RequestOK, MemoryOK, WireOK, Untouched
  <1>3. room \in Nat
    BY TransferAssumption
  <1>4. Rest(urb, memory, room, s)
    BY <1>2, <1>3, SecondRead
  <1> HIDE DEF s
  <1>5. ExtensionOK' /\ ViewOK(view)' /\ RemoteOK(remote)'
    BY <1>1 DEF IInv, ExtensionOK
  <1>6. CASE s.status = "SUCCESS"
    <2>1. /\ got.data \in Seq(Int) /\ got.descs \in Seq(Desc) /\ s.len = 0
          /\ Complete(urb, room, [hdr |-> h, data |-> got.data, descs |-> got.descs])
      BY <1>2, <1>3, <1>4, <1>6, SecondComplete
    <2> HIDE DEF got
    <2>2. stage' = "sent" /\ wire' = [message |-> message, room |-> room]
      BY <1>1, <1>2, <1>6, <2>1
    <2>3. message.hdr = h /\ message.data = got.data /\ message.descs = got.descs
      BY <2>1, ConcatEmptySeq
    <2> HIDE DEF message
    <2>4. wire'.message = message /\ wire'.room = room
      BY <2>2
    <2>5. RequestOK' /\ MemoryOK' /\ CrashOK'
      BY <1>1, <1>2, <2>2 DEF RequestOK, MemoryOK, CrashOK
    <2>6. Complete(urb, room, message)
      BY <2>1, <2>3, CompleteFields
    <2>7. WireOK'
      BY <1>1, <2>2, <2>4, <2>6 DEF WireOK
    <2> QED
      BY <1>5, <2>5, <2>7 DEF IInv
  <1>7. CASE s.status = "crash"
    <2>1. Unmapped(urb)
      BY <1>4, <1>7 DEF Rest, Stored
    <2>2. stage' = "crashed" /\ wire' = wire
      BY <1>1, <1>7
    <2>3. RequestOK' /\ MemoryOK' /\ WireOK'
      BY <1>1, <1>2, <2>2 DEF RequestOK, MemoryOK, WireOK
    <2>4. CrashOK'
      BY <1>1, <2>1 DEF CrashOK, Unmapped
    <2> QED
      BY <1>5, <2>3, <2>4 DEF IInv
  <1>8. CASE s.status \notin {"SUCCESS", "crash"}
    <2>1. stage' = "ended" /\ wire' = [wire EXCEPT !.room = room]
      BY <1>1, <1>8
    <2>2. RequestOK' /\ MemoryOK' /\ CrashOK'
      BY <1>1, <1>2, <2>1 DEF RequestOK, MemoryOK, CrashOK
    <2>3. WireOK'
      BY <1>2, <2>1 DEF WireOK
    <2> QED
      BY <1>5, <2>2, <2>3 DEF IInv
  <1> QED
    BY <1>6, <1>7, <1>8

(* What holds of a request that is answered.                               *)
LEMMA SentFacts ==
  ASSUME IInv, stage = "sent"
  PROVE  /\ Shape(urb) /\ urb \in Requests(view) /\ urb.function \in Queued
         /\ Fits(urb, memory) /\ Untouched(urb, memory)
         /\ HeaderOK(urb, wire.message.hdr)
  BY DEF IInv, RequestOK, MemoryOK, WireOK, Complete

(* An answer that leaves the buffer alone, and what is not told.           *)
LEMMA AnswerLeaves ==
  ASSUME IInv, stage = "sent", UNCHANGED <<urb, memory, wire>>,
         stage' \in {"ended", "crashed"},
         stage' = "ended" =>
             result'.irp # "SUCCESS" \/ (Direction(urb) = "out" /\ urb.function # "ISOCH_TRANSFER"),
         stage' = "crashed" => Direction(urb) = "out"
  PROVE  RequestOK' /\ MemoryOK' /\ WireOK' /\ CrashOK'
  <1>1. Shape(urb) /\ Fits(urb, memory) /\ Untouched(urb, memory)
    BY SentFacts
  <1>2. RequestOK'
    BY <1>1 DEF RequestOK
  <1>3. stage' = "ended" => Holds(urb, answer', result'.irp, memory)
    BY <1>1 DEF Holds
  <1>4. MemoryOK'
    BY <1>1, <1>3 DEF MemoryOK
  <1>5. WireOK'
    BY DEF IInv, WireOK
  <1>6. CrashOK'
    BY DEF CrashOK
  <1> QED
    BY <1>2, <1>4, <1>5, <1>6

LEMMA WriteResetStep ==
  ASSUME IInv, NEW a, WriteReset(a)
  PROVE  IInv'
  <1>1. /\ stage = "sent" /\ stage' = "ended" /\ urb.function = "RESET_PORT"
        /\ UNCHANGED <<urb, memory, wire, pdo, view, remote>>
    BY DEF WriteReset, Answered, End
  <1>2. Direction(urb) = "out" /\ urb.function # "ISOCH_TRANSFER"
    BY <1>1, SentFacts, DirectionIs
    DEF Data, Transfers, Class, Vendor, GetDescriptor
  <1>3. RequestOK' /\ MemoryOK' /\ WireOK' /\ CrashOK'
    BY <1>1, <1>2, AnswerLeaves
  <1>4. ExtensionOK' /\ ViewOK(view)' /\ RemoteOK(remote)'
    BY <1>1 DEF IInv, ExtensionOK
  <1> QED
    BY <1>3, <1>4 DEF IInv

LEMMA WriteErrorStep ==
  ASSUME IInv, NEW a, WriteError(a)
  PROVE  IInv'
  <1>1. /\ stage = "sent" /\ stage' = "ended" /\ result'.irp = "UNSUCCESSFUL"
        /\ UNCHANGED <<urb, memory, wire, pdo, view, remote>>
    BY DEF WriteError, Answered, End
  <1>2. RequestOK' /\ MemoryOK' /\ WireOK' /\ CrashOK'
    BY <1>1, AnswerLeaves
  <1>3. ExtensionOK' /\ ViewOK(view)' /\ RemoteOK(remote)'
    BY <1>1 DEF IInv, ExtensionOK
  <1> QED
    BY <1>2, <1>3 DEF IInv

LEMMA WriteDataStep ==
  ASSUME IInv, NEW a \in Replies(urb, wire.message.hdr), WriteData(a)
  PROVE  IInv'
  <1> DEFINE t == store_urb_data(urb, memory, a)
  <1>1. /\ stage = "sent" /\ answer' = a /\ a.status = "OK" /\ urb.function \notin Select
        /\ UNCHANGED <<urb, wire, pdo, view, remote>>
        /\ \/ stage' = "ended" /\ memory' = t.memory /\ result'.irp = t.status
           \/ stage' = "crashed" /\ memory' = memory /\ ReadsPast(urb, memory, a)
    BY DEF WriteData, Answered, End
  <1>2. /\ Shape(urb) /\ Fits(urb, memory) /\ Untouched(urb, memory)
        /\ HeaderOK(urb, wire.message.hdr)
    BY <1>1, SentFacts
  <1>3. /\ urb.function = "ISOCH_TRANSFER" => IsoAnswer(urb, a)
        /\ urb.function # "ISOCH_TRANSFER" /\ Direction(urb) # "out" => PlainAnswer(urb, a)
    BY <1>1, <1>2, ReplyIs
  <1>4. Fits(urb, t.memory) /\ Holds(urb, a, t.status, t.memory)
    <2>1. CASE urb.function = "ISOCH_TRANSFER"
      BY <1>2, <1>3, <2>1, IsoTaken
    <2>2. CASE urb.function # "ISOCH_TRANSFER"
      BY <1>2, <1>3, <2>2, PlainTaken
    <2> QED
      BY <2>1, <2>2
  <1> HIDE DEF t
  <1>5. RequestOK'
    BY <1>1, <1>2 DEF RequestOK
  <1>6. MemoryOK'
    BY <1>1, <1>2, <1>4 DEF MemoryOK
  <1>7. WireOK' /\ ExtensionOK'
    BY <1>1 DEF IInv, WireOK, ExtensionOK
  <1>8. ViewOK(view)' /\ RemoteOK(remote)'
    BY <1>1 DEF IInv
  <1>9. CrashOK'
    <2>1. ReadsPast(urb, memory, a) => Direction(urb) = "out"
      <3>1. ReadsPast(urb, memory, a) => urb.function = "ISOCH_TRANSFER"
        BY Zenon DEF ReadsPast
      <3> QED
        BY <1>2, <1>3, <3>1, DirectionIs, ReadsWithin
    <2> QED
      BY <1>1, <2>1 DEF CrashOK
  <1> QED
    BY <1>5, <1>6, <1>7, <1>8, <1>9 DEF IInv

(* A selection changes the configuration of the remote device, if it can   *)
(* follow the request.                                                     *)
LEMMA Selecting ==
  ASSUME IInv, stage = "sent", urb.function \in Select,
         NEW a \in Replies(urb, wire.message.hdr), a.status = "OK", Moves(a)
  PROVE  /\ RemoteOK(remote')
         /\ remote' = Set(wire.message.hdr.setup) /\ Followed(wire.message.hdr.setup)
         /\ Direction(urb) = "out" /\ urb.function # "ISOCH_TRANSFER"
  <1>1. Shape(urb) /\ HeaderOK(urb, wire.message.hdr)
    BY SentFacts
  <1>2. Followed(wire.message.hdr.setup)
    BY <1>1, ReplyIs
  <1>3. Setting(wire.message.hdr)
    BY <1>1 DEF HeaderOK, Select
  <1>4. remote' = Set(wire.message.hdr.setup)
    BY <1>3 DEF Moves
  <1>5. RemoteOK(Set(wire.message.hdr.setup))
    BY <1>1, <1>2, RemoteMoves DEF IInv
  <1>6. Direction(urb) = "out" /\ urb.function # "ISOCH_TRANSFER"
    BY <1>1, DirectionIs DEF Data, Transfers, Class, Vendor, GetDescriptor, Select
  <1> QED
    BY <1>2, <1>4, <1>5, <1>6

(* The configuration that a request asks for, and the setting.             *)
LEMMA AskedConfig ==
  ASSUME IInv, stage = "sent", urb.function = "SELECT_CONFIGURATION", urb.config # NoConfig
  PROVE  urb.config \in Config /\ urb.infos \in InfoLists(urb.config)
  BY SentFacts DEF Shape

LEMMA AskedSetting ==
  ASSUME IInv, stage = "sent", urb.function = "SELECT_INTERFACE"
  PROVE  view.config \in Config /\ urb.info \in Infos(view.config)
  <1>1. urb \in Requests(view)
    BY SentFacts
  <1> DEFINE r == urb
  <1>5. r.function = "SELECT_INTERFACE"
    OBVIOUS
  <1>6. r \in Requests(view)
    BY <1>1
  <1> HIDE DEF r
  <1>7. r \notin [function : GetDescriptor, length : BufferLength, at : {"pointer", "mdl"},
                  descriptor : {"device", "string", "other"}]
    BY <1>5 DEF GetDescriptor
  <1>8. r \notin [function : Class \cup Vendor, length : BufferLength, at : {"pointer", "mdl"},
                  in : BOOLEAN]
    BY <1>5 DEF Class, Vendor
  <1>9. /\ r \notin [function : {"BULK_OR_INTERRUPT_TRANSFER"}, length : BufferLength,
                     at : {"pointer", "mdl", "none"}, pipe : Handles(view), short_ok : BOOLEAN]
        /\ r \notin {q \in [function : {"ISOCH_TRANSFER"}, length : BufferLength,
                            at : {"pointer", "mdl", "none"}, pipe : Handles(view),
                            offsets : PacketOffset] :
                        \A i \in DOMAIN q.offsets : q.offsets[i] <= q.length}
    BY <1>5
  <1>10. /\ r \notin {[function |-> "SELECT_CONFIGURATION", config |-> NoConfig, infos |-> <<>>]}
         /\ r \notin UNION {[function : {"SELECT_CONFIGURATION"}, config : {c},
                             infos : InfoLists(c)] : c \in Config}
    BY <1>5
  <1>11. r \notin [function : Immediate \cup {"RESET_PORT", "OTHER"}]
    BY <1>5 DEF Immediate
  <1>12. r \in (IF view.config = NoConfig THEN {} ELSE
          {[function |-> "SELECT_INTERFACE", info |-> info,
            handle |-> [number |-> info.number, alt |-> view.interfaces[info.number].alt]] :
                info \in Infos(view.config)})
    BY <1>6, <1>7, <1>8, <1>9, <1>10, <1>11, Zenon DEF Requests
  <1>2. /\ view.config # NoConfig
        /\ \E info \in Infos(view.config) :
            r = [function |-> "SELECT_INTERFACE", info |-> info,
                 handle |-> [number |-> info.number, alt |-> view.interfaces[info.number].alt]]
    BY <1>12
  <1>13. r.info \in Infos(view.config)
    BY <1>2
  <1>4. view.config \in Config
    BY <1>2, ViewPipes DEF IInv
  <1> QED
    BY <1>4, <1>13 DEF r

(* What a selection of a configuration does.                               *)
LEMMA ConfigTold ==
  ASSUME IInv, stage = "sent", NEW a \in Replies(urb, wire.message.hdr), NEW allocated,
         WriteSelectConfig(a, allocated)
  PROVE  /\ stage' \in {"ended", "crashed"}
         /\ ViewOK(view') /\ ExtensionOK'
         /\ view' # view => urb.config \in Config /\ Tells(view', urb.config, urb.infos, pdo.speed)
         /\ stage' = "ended" /\ result'.irp = "SUCCESS" =>
                urb.config \in Config /\ Tells(view', urb.config, urb.infos, pdo.speed)
  <1> DEFINE set == select_config(urb.config.dsc, urb.infos, pdo.speed)
             told == Told(urb.config, urb.infos, set.pipes)
  <1>1. urb.function = "SELECT_CONFIGURATION"
    BY DEF WriteSelectConfig
  <1>2. ViewOK(view) /\ ExtensionOK
    BY DEF IInv
  <1>3. \/ /\ urb.config = NoConfig
           /\ stage' = "crashed" /\ UNCHANGED <<pdo, view>>
        \/ /\ urb.config # NoConfig
           /\ stage' = "ended" /\ result'.irp = "UNSUCCESSFUL" /\ UNCHANGED <<pdo, view>>
        \/ /\ urb.config # NoConfig /\ pdo' = [pdo EXCEPT !.dsc_conf = urb.config]
           /\ \/ set.status = "lost" /\ stage' = "crashed" /\ view' = view
              \/ /\ set.status # "lost" /\ stage' = "ended" /\ result'.irp = set.status
                 /\ view' = IF set.status # "SUCCESS" THEN view ELSE told
    <2> HIDE DEF set, told
    <2>1. \/ /\ urb.config = NoConfig
             /\ stage' = "crashed" /\ UNCHANGED <<pdo, view, result>>
          \/ /\ urb.config # NoConfig /\ ~ allocated
             /\ End("UNSUCCESSFUL", to_usbd_status(a.status)) /\ UNCHANGED <<pdo, view>>
          \/ /\ urb.config # NoConfig /\ allocated
             /\ pdo' = [pdo EXCEPT !.dsc_conf = urb.config]
             /\ \/ set.status = "lost" /\ stage' = "crashed" /\ UNCHANGED <<view, result>>
                \/ /\ set.status # "lost" /\ End(set.status, to_usbd_status(a.status))
                   /\ view' = IF set.status # "SUCCESS" THEN view ELSE told
      BY Zenon DEF WriteSelectConfig, set, told
    <2>2. \A irp, status : End(irp, status) => stage' = "ended" /\ result'.irp = irp
      BY DEF End
    <2> HIDE DEF End
    <2> QED
      BY <2>1, <2>2, Zenon
  <1>4. CASE urb.config = NoConfig
    <2>1. stage' = "crashed" /\ UNCHANGED <<pdo, view>>
      BY <1>3, <1>4
    <2> QED
      BY <1>1, <1>2, <1>4, <2>1 DEF ExtensionOK
  <1>5. CASE urb.config # NoConfig /\ UNCHANGED <<pdo, view>> /\ result'.irp = "UNSUCCESSFUL"
             /\ stage' = "ended"
    BY <1>2, <1>5 DEF ExtensionOK
  <1>6. CASE /\ urb.config # NoConfig /\ pdo' = [pdo EXCEPT !.dsc_conf = urb.config]
             /\ \/ set.status = "lost" /\ stage' = "crashed" /\ view' = view
                \/ /\ set.status # "lost" /\ stage' = "ended" /\ result'.irp = set.status
                   /\ view' = IF set.status # "SUCCESS" THEN view ELSE told
    <2>1. urb.config \in Config /\ urb.infos \in InfoLists(urb.config)
      BY <1>1, <1>6, AskedConfig
    <2>2. set.status = "SUCCESS" => Tells(told, urb.config, urb.infos, pdo.speed)
      <3>1. Selects(urb.config, urb.infos, pdo.speed)
        BY <2>1, ConfigSelected
      <3> QED
        BY <3>1, Zenon DEF Selects
    <2>3. ExtensionOK'
      BY <1>2, <1>6, <2>1 DEF ExtensionOK
    <2> HIDE DEF set, told
    <2>4. CASE set.status = "lost"
      BY <1>1, <1>2, <1>6, <2>2, <2>3, <2>4
    <2>5. CASE set.status # "lost"
      <3>1. set.status = "SUCCESS" => ViewOK(told)
        BY <2>2 DEF Tells
      <3> QED
        BY <1>2, <1>6, <2>1, <2>2, <2>3, <2>5, <3>1
    <2> QED
      BY <2>4, <2>5
  <1> QED
    BY <1>3, <1>4, <1>5, <1>6

LEMMA WriteSelectConfigStep ==
  ASSUME IInv, NEW a \in Replies(urb, wire.message.hdr), NEW allocated,
         WriteSelectConfig(a, allocated)
  PROVE  IInv'
  <1>1. /\ stage = "sent" /\ urb.function = "SELECT_CONFIGURATION" /\ a.status = "OK" /\ Moves(a)
        /\ UNCHANGED <<urb, memory, wire>>
    BY DEF WriteSelectConfig, Answered
  <1>2. /\ stage' \in {"ended", "crashed"}
        /\ ViewOK(view') /\ ExtensionOK'
    BY <1>1, ConfigTold
  <1>3. RemoteOK(remote') /\ Direction(urb) = "out" /\ urb.function # "ISOCH_TRANSFER"
    BY <1>1, Selecting DEF Select
  <1>4. RequestOK' /\ MemoryOK' /\ WireOK' /\ CrashOK'
    BY <1>1, <1>2, <1>3, AnswerLeaves
  <1> QED
    BY <1>2, <1>3, <1>4 DEF IInv

(* What a selection of a setting does.                                     *)
Resets(old, new, info) ==
    /\ new.config = old.config /\ DOMAIN new.interfaces = DOMAIN old.interfaces
    /\ info.number \in DOMAIN new.interfaces /\ new.interfaces[info.number].alt = info.alt
    /\ \A n \in DOMAIN old.interfaces \ {info.number} : new.interfaces[n] = old.interfaces[n]

Retold(v, info, pipes) ==
    [v EXCEPT !.interfaces[info.number] = [alt |-> info.alt, pipes |-> pipes]]

LEMMA SettingChanged ==
  ASSUME NEW v, ViewOK(v), v.config \in Config, NEW info, info.number \in Range(v.config.numbers),
         HasSetting(v.config, info.number, info.alt), NEW pipes, PipesOK(pipes)
  PROVE  LET w == Retold(v, info, pipes)
         IN  ViewOK(w) /\ Resets(v, w, info) /\ w.interfaces[info.number].pipes = pipes
  <1> DEFINE w == Retold(v, info, pipes)
             number == info.number
             one == [alt |-> info.alt, pipes |-> pipes]
             interfaces == [v.interfaces EXCEPT ![number] = one]
  <1>1. /\ v = [config |-> v.config, interfaces |-> v.interfaces]
        /\ DOMAIN v.interfaces = Range(v.config.numbers)
        /\ \A n \in DOMAIN v.interfaces :
            PipesOK(v.interfaces[n].pipes) /\ HasSetting(v.config, n, v.interfaces[n].alt)
    BY TransferAssumption DEF ViewOK, NoView
  <1>2. w = [v EXCEPT !.interfaces = interfaces]
    BY Zenon DEF Retold
  <1>3. one.alt = info.alt /\ one.pipes = pipes
    OBVIOUS
  <1> HIDE DEF one
  <1>4. /\ DOMAIN interfaces = DOMAIN v.interfaces /\ interfaces[number] = one
        /\ \A n \in DOMAIN v.interfaces \ {number} : interfaces[n] = v.interfaces[n]
    BY <1>1
  <1> HIDE DEF interfaces, w
  <1>5. w.config = v.config /\ w.interfaces = interfaces
        /\ w = [config |-> w.config, interfaces |-> w.interfaces]
    BY <1>1, <1>2
  <1>6. \A n \in DOMAIN interfaces :
            PipesOK(interfaces[n].pipes) /\ HasSetting(v.config, n, interfaces[n].alt)
    BY <1>1, <1>3, <1>4
  <1>7. ViewOK(w)
    BY <1>1, <1>4, <1>5, <1>6 DEF ViewOK
  <1>8. Resets(v, w, info) /\ w.interfaces[number].pipes = pipes
    BY <1>1, <1>3, <1>4, <1>5 DEF Resets
  <1> QED
    BY <1>7, <1>8 DEF w

LEMMA InterfaceTold ==
  ASSUME IInv, NEW a \in Replies(urb, wire.message.hdr), WriteSelectInterface(a)
  PROVE  /\ stage = "sent" /\ stage' = "ended" /\ ViewOK(view')
         /\ view' # view \/ result'.irp = "SUCCESS" =>
                /\ Resets(view, view', urb.info)
                /\ pdo.dsc_conf = view.config =>
                    Describes(view'.interfaces[urb.info.number].pipes, urb.info.number,
                              urb.info.alt, view.config.dsc, pdo.speed)
  <1> DEFINE set == IF pdo.dsc_conf = NoConfig THEN Setup("INVALID_DEVICE_REQUEST", <<>>)
                    ELSE select_interface(pdo.dsc_conf.dsc, urb.handle, urb.info, pdo.speed)
             told == [view EXCEPT !.interfaces[urb.info.number] =
                                [alt |-> urb.info.alt, pipes |-> set.pipes]]
  <1>1. /\ stage = "sent" /\ urb.function = "SELECT_INTERFACE"
        /\ stage' = "ended" /\ result'.irp = set.status
        /\ view' = IF set.status # "SUCCESS" THEN view ELSE told
    <2>1. /\ stage = "sent" /\ urb.function = "SELECT_INTERFACE"
          /\ End(set.status, to_usbd_status(a.status))
          /\ view' = IF set.status # "SUCCESS" THEN view ELSE told
      BY Zenon DEF WriteSelectInterface, Answered
    <2> HIDE DEF set, told
    <2> QED
      BY <2>1 DEF End
  <1>2. view.config \in Config /\ urb.info \in Infos(view.config)
    BY <1>1, AskedSetting
  <1>3. /\ urb.info.fits \in Int /\ urb.info.number \in Range(view.config.numbers)
        /\ HasSetting(view.config, urb.info.number, urb.info.alt)
    BY <1>2, InfoFits
  <1>4. ViewOK(view) /\ pdo.dsc_conf \in Config \cup {NoConfig}
    BY DEF IInv, ExtensionOK
  <1>5. set.status = "SUCCESS" =>
            /\ PipesOK(set.pipes)
            /\ pdo.dsc_conf = view.config =>
                Describes(set.pipes, urb.info.number, urb.info.alt, view.config.dsc, pdo.speed)
    <2>1. CASE pdo.dsc_conf = NoConfig
      BY <2>1 DEF Setup
    <2>2. CASE pdo.dsc_conf # NoConfig
      <3> DEFINE sel == select_interface(pdo.dsc_conf.dsc, urb.handle, urb.info, pdo.speed)
      <3>1. pdo.dsc_conf \in Config
        BY <1>4, <2>2
      <3>2. /\ sel.status = "SUCCESS" => PipesOK(sel.pipes)
            /\ sel.status = "SUCCESS" /\ urb.info \in Infos(pdo.dsc_conf) =>
                Describes(sel.pipes, urb.info.number, urb.info.alt, pdo.dsc_conf.dsc, pdo.speed)
        BY <1>3, <3>1, InterfaceSelected
      <3>3. set = sel
        BY <2>2
      <3> HIDE DEF set, sel
      <3> QED
        BY <1>2, <3>2, <3>3
    <2> QED
      BY <2>1, <2>2
  <1>6. set.status = "SUCCESS" =>
            /\ ViewOK(told) /\ Resets(view, told, urb.info)
            /\ told.interfaces[urb.info.number].pipes = set.pipes
    <2>1. told = Retold(view, urb.info, set.pipes)
      BY Zenon DEF Retold
    <2> HIDE DEF set, told
    <2> QED
      BY <1>2, <1>3, <1>4, <1>5, <2>1, SettingChanged
  <1> HIDE DEF set, told
  <1>7. CASE set.status = "SUCCESS"
    BY <1>1, <1>5, <1>6, <1>7
  <1>8. CASE set.status # "SUCCESS"
    BY <1>1, <1>4, <1>8
  <1> QED
    BY <1>7, <1>8

LEMMA WriteSelectInterfaceStep ==
  ASSUME IInv, NEW a \in Replies(urb, wire.message.hdr), WriteSelectInterface(a)
  PROVE  IInv'
  <1>1. /\ stage = "sent" /\ urb.function = "SELECT_INTERFACE" /\ a.status = "OK" /\ Moves(a)
        /\ UNCHANGED <<urb, memory, wire, pdo>>
    BY DEF WriteSelectInterface, Answered
  <1>2. stage' = "ended" /\ ViewOK(view')
    BY InterfaceTold
  <1>3. RemoteOK(remote') /\ Direction(urb) = "out" /\ urb.function # "ISOCH_TRANSFER"
    BY <1>1, Selecting DEF Select
  <1>4. RequestOK' /\ MemoryOK' /\ WireOK' /\ CrashOK'
    BY <1>1, <1>2, <1>3, AnswerLeaves
  <1>5. ExtensionOK'
    BY <1>1 DEF IInv, ExtensionOK
  <1> QED
    BY <1>2, <1>3, <1>4, <1>5 DEF IInv

-----------------------------------------------------------------------------
(* Every step keeps the invariant.                                         *)

LEMMA WriteStep ==
  ASSUME IInv, NEW a \in Replies(urb, wire.message.hdr), Write(a)
  PROVE  IInv'
  <1>1. CASE WriteReset(a)
    BY <1>1, WriteResetStep
  <1>2. CASE WriteError(a)
    BY <1>2, WriteErrorStep
  <1>3. CASE WriteData(a)
    BY <1>3, WriteDataStep
  <1>4. CASE \E allocated \in BOOLEAN : WriteSelectConfig(a, allocated)
    BY <1>4, WriteSelectConfigStep
  <1>5. CASE WriteSelectInterface(a)
    BY <1>5, WriteSelectInterfaceStep
  <1> QED
    BY <1>1, <1>2, <1>3, <1>4, <1>5 DEF Write

LEMMA NextStep ==
  ASSUME IInv, [Next]_vars
  PROVE  IInv'
  <1>1. ASSUME NEW r \in Requests(view), process_irp_urb_req(r) PROVE IInv'
    BY <1>1, SubmitStep
  <1>2. ASSUME NEW room \in ReadLength, Read(room) PROVE IInv'
    <2>1. stage = "waiting" \/ stage = "partial"
      BY <1>2 DEF Read
    <2> QED
      BY <1>2, <2>1, FirstReadStep, SecondReadStep
  <1>3. ASSUME NEW a \in Replies(urb, wire.message.hdr), Write(a) PROVE IInv'
    BY <1>3, WriteStep
  <1>4. CASE Return
    BY <1>4, ReturnStep
  <1>5. CASE UNCHANGED vars
    BY <1>5 DEF vars, IInv, RequestOK, MemoryOK, WireOK, ExtensionOK, CrashOK
  <1> QED
    BY <1>1, <1>2, <1>3, <1>4, <1>5 DEF Next

(* IInv is an invariant: the state of the one request that is followed, of *)
(* its buffer, of what was read of it, and of the two sides' view of the   *)
(* configuration, fit together after every handler.                        *)
THEOREM InvariantHolds == Spec => []IInv
  <1>1. Init => IInv
    BY InitOK
  <1>2. IInv /\ [Next]_vars => IInv'
    BY NextStep
  <1> QED
    BY <1>1, <1>2, PTL DEF Spec

-----------------------------------------------------------------------------
(* What it implies.                                                        *)

LEMMA TypesFollow == IInv => TypeOK
  <1> SUFFICES ASSUME IInv PROVE TypeOK
    OBVIOUS
  <1>1. stage \in {"idle", "waiting", "partial", "sent", "ended", "crashed"}
    BY DEF IInv, RequestOK
  <1>2. urb.function \in Queued \cup Immediate \cup {"OTHER", "none"}
    <2>1. CASE stage = "idle"
      BY <2>1 DEF IInv, RequestOK, NoUrb
    <2>2. CASE stage # "idle"
      BY <2>2 DEF IInv, RequestOK, Shape
    <2> QED
      BY <2>1, <2>2
  <1>3. /\ DOMAIN memory.buffer = 1 .. LengthOf(urb) /\ memory.length \in Nat
        /\ urb.function # "ISOCH_TRANSFER" => memory.length <= LengthOf(urb)
        /\ DOMAIN memory.packets = DOMAIN OffsetsOf(urb)
    BY DEF IInv, MemoryOK, Fits
  <1>4. stage \in {"partial", "sent"} => wire.message.hdr # NoHeader
    <2>1. stage \in {"partial", "sent"} => wire.message.hdr \in UsbipHeader
      BY DEF IInv, WireOK, Complete, HeaderOK
    <2> QED
      BY <2>1, TransferAssumption
  <1>5. answer # NoAnswer => stage \in {"ended", "crashed"}
    BY DEF IInv, MemoryOK
  <1>6. pdo.speed \in Speed /\ pdo.dsc_conf \in Config \cup {NoConfig}
    BY DEF IInv, ExtensionOK
  <1>7. view.config \in Config \cup {NoConfig}
    BY ViewPipes DEF IInv
  <1> QED
    BY <1>1, <1>2, <1>3, <1>4, <1>5, <1>6, <1>7 DEF TypeOK

LEMMA MessageFollows == IInv => MessageComplete
  <1> SUFFICES ASSUME IInv, stage = "sent"
               PROVE  LET m == wire.message
                      IN  /\ m.hdr.direction = Direction(urb)
                          /\ m.hdr.length = LengthOf(urb)
                          /\ m.hdr.setup # NoSetup =>
                                /\ m.hdr.setup.direction = m.hdr.direction
                                /\ LengthOf(urb) < UShortSize =>
                                        m.hdr.setup.length = m.hdr.length
                          /\ ~ Outgoing => m.data = <<>> /\ m.descs = <<>>
                          /\ (Outgoing /\ ~ BulkTailLost /\ OffsetsGrow
                                /\ (urb.function = "ISOCH_TRANSFER" => get_buf(urb)))
                             => /\ m.data = [k \in 1 .. m.hdr.length |-> k]
                                /\ Len(m.descs) = m.hdr.packets
                                /\ \A i \in DOMAIN m.descs :
                                    m.descs[i].offset + m.descs[i].length = OffsetAt(urb, i + 1)
    BY Zenon DEF MessageComplete
  <1> DEFINE m == wire.message
  <1>1. Complete(urb, wire.room, m) /\ Shape(urb)
    BY DEF IInv, WireOK, RequestOK
  <1>2. /\ m.hdr.direction = Direction(urb) /\ m.hdr.length = LengthOf(urb)
        /\ m.hdr.setup # NoSetup =>
                /\ m.hdr.setup.direction = m.hdr.direction
                /\ LengthOf(urb) < UShortSize => m.hdr.setup.length = m.hdr.length
    BY <1>1 DEF Complete, HeaderOK
  <1>3. ~ Outgoing => m.data = <<>> /\ m.descs = <<>>
    BY <1>1, DirectionIs DEF Complete, Outgoing
  <1>4. ASSUME Outgoing, ~ BulkTailLost, OffsetsGrow,
               urb.function = "ISOCH_TRANSFER" => get_buf(urb)
        PROVE  /\ m.data = [k \in 1 .. m.hdr.length |-> k]
               /\ Len(m.descs) = m.hdr.packets
               /\ \A i \in DOMAIN m.descs :
                    m.descs[i].offset + m.descs[i].length = OffsetAt(urb, i + 1)
    <2>1. /\ Direction(urb) = "out" /\ InOrder(urb)
          /\ ~ (urb.function = "BULK_OR_INTERRUPT_TRANSFER"
                    /\ wire.room >= HeaderLength + urb.length)
      BY <1>4 DEF Outgoing, BulkTailLost, OffsetsGrow, InOrder
    <2>2. /\ m.data = Bytes(LengthOf(urb)) /\ Len(m.descs) = m.hdr.packets
          /\ \A i \in DOMAIN m.descs :
                m.descs[i].offset + m.descs[i].length = OffsetAt(urb, i + 1)
      BY <1>1, <1>4, <2>1, Zenon DEF Complete
    <2> QED
      BY <1>2, <2>2 DEF Bytes
  <1> QED
    BY <1>2, <1>3, <1>4

LEMMA AnswerFollows == IInv => BufferHoldsAnswer
  <1> SUFFICES ASSUME IInv, stage = "ended", answer # NoAnswer
               PROVE  LET taken == result.irp = "SUCCESS" /\ ~ Outgoing
                          iso   == urb.function = "ISOCH_TRANSFER"
                      IN  /\ taken => memory.length = answer.actual_length
                          /\ taken /\ ~ iso => \A k \in DOMAIN memory.buffer :
                                memory.buffer[k] = IF k <= answer.actual_length
                                                   THEN answer.data[k] ELSE k
                          /\ taken /\ iso /\ PacketsAgree =>
                             LET new == {k \in DOMAIN memory.buffer : memory.buffer[k] # k}
                             IN  /\ new = UNION {OffsetsOf(urb)[i] + 1 ..
                                                    OffsetsOf(urb)[i] + memory.packets[i] :
                                                        i \in DOMAIN OffsetsOf(urb)}
                                 /\ Len(answer.data) = Cardinality(new)
                                 /\ \A k \in new : memory.buffer[k] =
                                        answer.data[Cardinality({j \in new : j <= k})]
                          /\ ~ taken /\ (iso => result.irp # "SUCCESS") =>
                                /\ memory.buffer = [k \in 1 .. LengthOf(urb) |-> k]
                                /\ memory.length = LengthOf(urb)
    BY Zenon DEF BufferHoldsAnswer
  <1>1. Holds(urb, answer, result.irp, memory)
    BY DEF IInv, MemoryOK
  <1>2. Outgoing <=> Direction(urb) = "out"
    BY DEF Outgoing
  <1>6. PacketsAgree <=> Agree(urb, answer, memory)
    BY Zenon DEF PacketsAgree, Agree
  <1>3. HoldsPackets(urb, answer, memory) =>
             LET new == {k \in DOMAIN memory.buffer : memory.buffer[k] # k}
             IN  /\ new = UNION {OffsetsOf(urb)[i] + 1 .. OffsetsOf(urb)[i] + memory.packets[i] :
                                    i \in DOMAIN OffsetsOf(urb)}
                 /\ Len(answer.data) = Cardinality(new)
                 /\ \A k \in new :
                        memory.buffer[k] = answer.data[Cardinality({j \in new : j <= k})]
    BY Zenon DEF HoldsPackets, Changed, Cells
  <1>4. HoldsBytes(answer, memory) =>
            \A k \in DOMAIN memory.buffer :
                memory.buffer[k] = IF k <= answer.actual_length THEN answer.data[k] ELSE k
    BY Zenon DEF HoldsBytes
  <1>5. Untouched(urb, memory) =>
            /\ memory.buffer = [k \in 1 .. LengthOf(urb) |-> k]
            /\ memory.length = LengthOf(urb)
    BY Zenon DEF Untouched, Bytes
  <1> QED
    BY <1>1, <1>2, <1>3, <1>4, <1>5, <1>6, Zenon DEF Holds

LEMMA InsideFollows == IInv => TakesOnlyTheAnswer
  <1> SUFFICES ASSUME IInv, ~ Outgoing PROVE TakesOnlyTheAnswer
    BY DEF TakesOnlyTheAnswer
  <1>1. stage # "crashed"
    BY DEF IInv, CrashOK, Outgoing
  <1>2. ASSUME stage = "ended", answer # NoAnswer PROVE Inside(urb, answer, memory)
    <2>1. Holds(urb, answer, result.irp, memory)
      BY <1>2 DEF IInv, MemoryOK
    <2>2. CASE result.irp = "SUCCESS"
      BY <2>1, <2>2, Zenon DEF Holds, Outgoing
    <2>3. CASE result.irp # "SUCCESS"
      <3>1. Untouched(urb, memory)
        BY <2>1, <2>3, Zenon DEF Holds
      <3>2. \A k \in DOMAIN memory.buffer : memory.buffer[k] = k
        BY <3>1 DEF Untouched, Bytes
      <3> QED
        BY <3>2 DEF Inside
    <2> QED
      BY <2>2, <2>3
  <1>3. Inside(urb, answer, memory) =>
            \A k \in DOMAIN memory.buffer : memory.buffer[k] # k =>
                /\ \E j \in DOMAIN answer.data : memory.buffer[k] = answer.data[j]
                /\ urb.function = "ISOCH_TRANSFER" =>
                    \E i \in DOMAIN urb.offsets :
                        /\ k \in urb.offsets[i] + 1 .. urb.offsets[i] + memory.packets[i]
                        /\ urb.offsets[i] + memory.packets[i] <= LengthOf(urb)
    BY Zenon DEF Inside
  <1> QED
    BY <1>1, <1>2, <1>3, Zenon DEF TakesOnlyTheAnswer

(* A transfer that is queued names a pipe of the view.                     *)
LEMMA TransferPipe ==
  ASSUME NEW v, NEW r \in Requests(v), r.function \in Transfers
  PROVE  r.pipe \in Handles(v)
  <1>1. r.function = "BULK_OR_INTERRUPT_TRANSFER" \/ r.function = "ISOCH_TRANSFER"
    BY DEF Transfers
  <1>2. r \notin [function : GetDescriptor, length : BufferLength, at : {"pointer", "mdl"},
                  descriptor : {"device", "string", "other"}]
    BY <1>1 DEF GetDescriptor
  <1>3. r \notin [function : Class \cup Vendor, length : BufferLength, at : {"pointer", "mdl"},
                  in : BOOLEAN]
    BY <1>1 DEF Class, Vendor
  <1>4. r \in [function : {"BULK_OR_INTERRUPT_TRANSFER"}, length : BufferLength,
               at : {"pointer", "mdl", "none"}, pipe : Handles(v), short_ok : BOOLEAN]
        => r.pipe \in Handles(v)
    OBVIOUS
  <1>5. r \in {q \in [function : {"ISOCH_TRANSFER"}, length : BufferLength,
                      at : {"pointer", "mdl", "none"}, pipe : Handles(v),
                      offsets : PacketOffset] :
                  \A i \in DOMAIN q.offsets : q.offsets[i] <= q.length}
        => r.pipe \in Handles(v)
    OBVIOUS
  <1>6. /\ r \notin {[function |-> "SELECT_CONFIGURATION", config |-> NoConfig, infos |-> <<>>]}
        /\ r \notin UNION {[function : {"SELECT_CONFIGURATION"}, config : {c},
                            infos : InfoLists(c)] : c \in Config}
    BY <1>1
  <1>7. r \notin (IF v.config = NoConfig THEN {} ELSE
          {[function |-> "SELECT_INTERFACE", info |-> info,
            handle |-> [number |-> info.number, alt |-> v.interfaces[info.number].alt]] :
                info \in Infos(v.config)})
    <2>1. r.function # "SELECT_INTERFACE"
      BY <1>1
    <2> QED
      BY <2>1
  <1>8. r \notin [function : Immediate \cup {"RESET_PORT", "OTHER"}]
    BY <1>1 DEF Immediate
  <1> QED
    BY <1>2, <1>3, <1>4, <1>5, <1>6, <1>7, <1>8, Zenon DEF Requests

LEMMA EndpointReached == IInv => PipeReachesEndpoint
  <1> SUFFICES ASSUME IInv, stage \in {"partial", "sent"}, urb.function \in Transfers, Agreed
               PROVE  LET hdr == wire.message.hdr
                      IN  \E n \in DOMAIN remote.alts :
                          \E ep \in Range(Endpoints(ConfigWith(remote.value).dsc, n,
                                                    remote.alts[n])) :
                            /\ ep.address = hdr.ep + (IF hdr.direction = "in" THEN 128 ELSE 0)
                            /\ ep.interval = hdr.interval
                            /\ (TypeOf(ep) = ISOCHRONOUS) = (urb.function = "ISOCH_TRANSFER")
    BY Zenon DEF PipeReachesEndpoint
  <1> DEFINE hdr == wire.message.hdr
             c == view.config
  <1>1. Shape(urb) /\ urb \in Requests(view) /\ HeaderOK(urb, hdr)
    BY DEF IInv, RequestOK, WireOK, Complete
  <1>2. /\ hdr.direction = PIPE2DIRECT(urb.pipe) /\ hdr.ep = PIPE2ADDR(urb.pipe)
        /\ hdr.interval = PIPE2INTERVAL(urb.pipe)
        /\ (PIPE2TYPE(urb.pipe) = ISOCHRONOUS) <=> (urb.function = "ISOCH_TRANSFER")
    BY <1>1, DirectionIs DEF HeaderOK
  <1>3. /\ c \in Config /\ DOMAIN view.interfaces = Range(c.numbers)
        /\ \A n \in DOMAIN view.interfaces :
            PipesOK(view.interfaces[n].pipes) /\ HasSetting(c, n, view.interfaces[n].alt)
    BY TransferAssumption DEF IInv, ViewOK, NoView, Agreed
  <1>18. PICK p \in Pipes(view) : p.PipeHandle = urb.pipe
    <2>1. urb.pipe \in Handles(view)
      BY <1>1, TransferPipe
    <2> QED
      BY <2>1 DEF Handles
  <1>4. PICK n \in DOMAIN view.interfaces : p \in Range(view.interfaces[n].pipes)
    BY DEF Pipes
  <1> DEFINE alt == remote.alts[n]
             pipes == view.interfaces[n].pipes
             eps == Endpoints(c.dsc, n, alt)
  <1>5. /\ remote.value = c.value /\ alt = view.interfaces[n].alt
        /\ Describes(pipes, n, alt, c.dsc, pdo.speed)
    BY DEF Agreed
  <1>6. PICK i \in DOMAIN pipes : p = pipes[i]
    BY <1>4 DEF Range
  <1>7. PipesOK(pipes) /\ DOMAIN pipes = 1 .. Len(pipes) /\ PipeOK(p)
    BY <1>3, <1>6 DEF PipesOK
  <1>8. /\ PIPE2ADDR(urb.pipe) = p.EndpointAddress % 128
        /\ PIPE2DIRECT(urb.pipe) = (IF p.EndpointAddress >= 128 THEN "in" ELSE "out")
        /\ PIPE2TYPE(urb.pipe) = p.PipeType /\ PIPE2INTERVAL(urb.pipe) = p.Interval
        /\ p.EndpointAddress \in Byte
    BY <1>7, <1>18, HandleUnpacked DEF PipeOK
  <1>9. DOMAIN eps = 1 .. Len(eps)
    <2>1. PICK place \in Places(c, "interface") : c.dsc[place].number = n /\ c.dsc[place].alt = alt
      BY <1>3, <1>5 DEF HasSetting
    <2>2. /\ place \in Nat /\ place > 0 /\ SettingPlaces(c.dsc, n, alt) = {place}
          /\ Cardinality(EndpointsBehind(c.dsc, place)) \in Nat /\ Len(c.dsc) \in Nat
      <3> HIDE DEF alt
      <3>1. /\ place \in Nat /\ place > 0
            /\ SettingPlaces(c.dsc, c.dsc[place].number, c.dsc[place].alt) = {place}
        BY <1>3, SettingIs
      <3>2. Len(c.dsc) \in Nat
        BY <1>3, ConfigIs
      <3>3. Cardinality(EndpointsBehind(c.dsc, place)) \in Nat
        BY <3>1, <3>2, EndpointsCounted
      <3> QED
        BY <2>1, <3>1, <3>2, <3>3
    <2> QED
      BY <2>2, WalkFindsEndpoints
  <1> DEFINE ep == eps[i]
  <1>10. /\ i \in DOMAIN eps /\ p.EndpointAddress = ep.address /\ p.PipeType = TypeOf(ep)
         /\ p.Interval = ep.interval
    <2>1. i \in DOMAIN eps
      BY <1>5, <1>6, <1>7, <1>9 DEF Describes
    <2> QED
      BY <1>5, <1>6, <2>1 DEF Describes
  <1>11. ep \in Range(eps)
    BY <1>10 DEF Range
  <1>12. ep.address = hdr.ep + (IF hdr.direction = "in" THEN 128 ELSE 0)
    <2> DEFINE x == p.EndpointAddress
    <2>1. hdr.ep = x % 128 /\ hdr.direction = (IF x >= 128 THEN "in" ELSE "out") /\ x \in 0 .. 255
      BY <1>2, <1>8 DEF Byte
    <2>2. ep.address = x
      BY <1>10
    <2> HIDE DEF x, ep, hdr
    <2>3. CASE x >= 128
      BY <2>1, <2>2, <2>3
    <2>4. CASE ~ (x >= 128)
      BY <2>1, <2>2, <2>4
    <2> QED
      BY <2>3, <2>4
  <1>13. ConfigWith(remote.value) = c
    BY <1>3, <1>5, ConfigWithIs
  <1>14. n \in DOMAIN remote.alts
    <2>1. c.value # 0 /\ \A d \in Config : d.value = c.value => d = c
      BY <1>3, DeviceAssumption
    <2>2. remote # NoSetting
      BY <1>5, <2>1 DEF NoSetting
    <2>3. PICK d \in Config : remote.value = d.value /\ DOMAIN remote.alts = Range(d.numbers)
      BY <2>2 DEF IInv, RemoteOK
    <2> QED
      BY <1>3, <1>5, <2>1, <2>3
  <1>15. (TypeOf(ep) = ISOCHRONOUS) <=> (urb.function = "ISOCH_TRANSFER")
    BY <1>2, <1>8, <1>10
  <1>16. ep.interval = hdr.interval
    BY <1>2, <1>8, <1>10
  <1> HIDE DEF ep, hdr
  <1>17. (TypeOf(ep) = ISOCHRONOUS) = (urb.function = "ISOCH_TRANSFER")
    BY <1>15
  <1> QED
    BY <1>11, <1>12, <1>13, <1>14, <1>16, <1>17, Zenon DEF hdr

-----------------------------------------------------------------------------
(* Theorems.                                                               *)

(* Every variable has its type, whichever lengths the answers of a device  *)
(* have: outside isochronous requests TransferBufferLength stays within    *)
(* the buffer (vhci_write.c:107), in them it is what the answer says       *)
(* (vhci_write.c:183), and the buffer keeps its size.                      *)
THEOREM TypesCorrect == Spec => []TypeOK
  BY InvariantHolds, TypesFollow, PTL

(* What the program reads of a request, in one read or two of any lengths, *)
(* has the data and the packet descriptors that its header announces, but  *)
(* for the exceptions that MessageComplete names, and a setup packet asks  *)
(* for the same length if an unsigned short holds it (vhci_read.c:13-577). *)
THEOREM MessagesComplete == Spec => []MessageComplete
  BY InvariantHolds, MessageFollows, PTL

(* The bytes of an answer end up in the buffer of the request it is for,   *)
(* each where it belongs, and nothing else in the buffer changes           *)
(* (vhci_write.c:10-230), however the bytes are spread over isochronous    *)
(* packets, if the lengths of the packets add up to that of the answer.    *)
THEOREM AnswersHeld == Spec => []BufferHoldsAnswer
  BY InvariantHolds, AnswerFollows, PTL

(* However the lengths of an answer disagree with each other and with the  *)
(* request, an IN request takes nothing but the data of its answer, into   *)
(* its buffer and nowhere else (vhci_write.c:42-62, 100-118).              *)
THEOREM OnlyTheAnswerTaken == Spec => []TakesOnlyTheAnswer
  BY InvariantHolds, InsideFollows, PTL

(* As long as the driver and the device agree on the settings, a transfer  *)
(* is sent to an endpoint that the device has, with its direction, type    *)
(* and interval: the parts of a handle (vhci_devconf.c:12, usbreq.h:10-13) *)
(* are those of the endpoint's descriptor.                                 *)
THEOREM PipesReachEndpoints == Spec => []PipeReachesEndpoint
  BY InvariantHolds, EndpointReached, PTL

-----------------------------------------------------------------------------
(* Steps.                                                                  *)

(* A failing read had a reason of the request, or was too short.           *)
LEMMA FailureFollows ==
  ASSUME IInv, [Next]_vars, stage \in {"waiting", "partial"}, stage' = "ended"
  PROVE  \/ stage = "waiting" /\ wire'.room < HeaderLength
         \/ stage = "partial" /\ wire'.room <
                LengthOf(urb) + PacketLength * Len(OffsetsOf(urb))
         \/ Unfit(urb)
  <1>1. PICK room \in ReadLength : Read(room)
    <2>1. stage # stage'
      OBVIOUS
    <2> QED
      BY <2>1
      DEF Next, vars, process_irp_urb_req, Return
  <1>2. Shape(urb) /\ urb.function \in Queued /\ room \in Nat
        /\ wire = [message |-> wire.message, room |-> wire.room]
    BY TransferAssumption DEF IInv, RequestOK, WireOK
  <1>3. Stores(room).status \notin {"SUCCESS", "crash"} /\ wire'.room = room
    <2> DEFINE s == Stores(room)
    <2>1. \/ s.status = "SUCCESS" /\ stage' = IF s.len = 0 THEN "sent" ELSE "partial"
          \/ stage' = "crashed"
          \/ s.status \notin {"SUCCESS", "crash"} /\ wire' = [wire EXCEPT !.room = room]
      BY <1>1, Zenon DEF Read
    <2> HIDE DEF s
    <2>2. s.status \notin {"SUCCESS", "crash"} /\ wire' = [wire EXCEPT !.room = room]
      BY <2>1
    <2> QED
      BY <1>2, <2>2 DEF s
  <1>4. CASE stage = "waiting"
    <2> DEFINE s == store_urbr(urb, memory, room)
    <2>1. Outcome(urb, memory, room, s)
      BY <1>2, FirstRead
    <2>2. s.status \notin {"SUCCESS", "crash"}
      BY <1>3, <1>4 DEF Stores
    <2> HIDE DEF s
    <2>3. room < HeaderLength \/ Unfit(urb)
      BY <2>1, <2>2 DEF Outcome, Header, HeaderOnly, Stored
    <2> QED
      BY <1>3, <1>4, <2>3
  <1>5. CASE stage = "partial"
    <2> DEFINE s == store_urbr_partial(urb, memory, room)
    <2>1. Rest(urb, memory, room, s)
      BY <1>2, <1>5, SecondRead DEF IInv, WireOK
    <2>2. s.status \notin {"SUCCESS", "crash"}
      <3>1. stage # "waiting"
        BY <1>5
      <3> QED
        BY <1>3, <3>1 DEF Stores
    <2> HIDE DEF s
    <2>3. room < LengthOf(urb) + PacketLength * Len(OffsetsOf(urb)) \/ Unfit(urb)
      BY <2>1, <2>2 DEF Rest, Stored
    <2> QED
      BY <1>3, <1>5, <2>3
  <1> QED
    BY <1>4, <1>5

(* A request that was queued fails in a read only because of what it asks  *)
(* for, or because the read is too short for it (vhci_read.c:404-577).     *)
THEOREM UnfitRequestsFail == Spec => OnlyUnfitRequestsFail
  <1>1. IInv /\ [Next]_vars =>
            (LET unfit ==
                    \/ stage = "waiting" /\ wire'.room < HeaderLength
                    \/ stage = "partial" /\ wire'.room <
                            LengthOf(urb) + PacketLength * Len(OffsetsOf(urb))
                    \/ urb.function = "VENDOR_OTHER"
                    \/ urb.function = "GET_DESCRIPTOR_FROM_DEVICE" /\ urb.descriptor = "other"
                    \/ urb.function \in Transfers /\ ~ get_buf(urb)
                    \/ urb.function = "ISOCH_TRANSFER" /\ PIPE2TYPE(urb.pipe) # ISOCHRONOUS
                    \/ urb.function \in Transfers \ {"ISOCH_TRANSFER"}
                       /\ PIPE2TYPE(urb.pipe) \notin {BULK, INTERRUPT}
             IN  stage \in {"waiting", "partial"} /\ stage' = "ended" => unfit)
    BY FailureFollows, Zenon DEF Unfit
  <1> QED
    BY <1>1, InvariantHolds, PTL DEF Spec, OnlyUnfitRequestsFail

(* Only a selection changes the view.                                      *)
LEMMA ViewChanges ==
  ASSUME [Next]_vars, view' # view
  PROVE  /\ stage = "sent"
         /\ \E a \in Replies(urb, wire.message.hdr) :
                \/ \E allocated \in BOOLEAN : WriteSelectConfig(a, allocated)
                \/ WriteSelectInterface(a)
  BY DEF Next, vars, process_irp_urb_req, Return, Read, Write, WriteReset, WriteError, WriteData

(* The pipes that a selection gives to the function driver describe the    *)
(* endpoints of the setting, one by one and in their order                 *)
(* (vhci_devconf.c:37-112), for every well-formed configuration.           *)
THEOREM PipesDescribed == Spec => PipesDescribeEndpoints
  <1>1. IInv /\ [Next]_vars =>
            (view' # view /\ (urb.function = "SELECT_INTERFACE" => pdo.dsc_conf = view.config) =>
                \A n \in DOMAIN view'.interfaces :
                    LET new == view'.interfaces[n]
                    IN  \/ n \in DOMAIN view.interfaces /\ new = view.interfaces[n]
                        \/ Describes(new.pipes, n, new.alt, view'.config.dsc, pdo.speed))
    <2> SUFFICES ASSUME IInv, [Next]_vars, view' # view,
                        urb.function = "SELECT_INTERFACE" => pdo.dsc_conf = view.config,
                        NEW n \in DOMAIN view'.interfaces
                 PROVE  \/ n \in DOMAIN view.interfaces /\ view'.interfaces[n] = view.interfaces[n]
                        \/ Describes(view'.interfaces[n].pipes, n, view'.interfaces[n].alt,
                                     view'.config.dsc, pdo.speed)
      BY Zenon
    <2>1. PICK a \in Replies(urb, wire.message.hdr) :
                \/ \E allocated \in BOOLEAN : WriteSelectConfig(a, allocated)
                \/ WriteSelectInterface(a)
      BY ViewChanges
    <2>2. stage = "sent"
      BY ViewChanges
    <2>3. ASSUME NEW allocated \in BOOLEAN, WriteSelectConfig(a, allocated)
          PROVE  Describes(view'.interfaces[n].pipes, n, view'.interfaces[n].alt,
                           view'.config.dsc, pdo.speed)
      <3>1. urb.config \in Config /\ Tells(view', urb.config, urb.infos, pdo.speed)
        BY <2>2, <2>3, ConfigTold
      <3>2. view'.config = urb.config /\ ViewOK(view')
        BY <3>1 DEF Tells
      <3>3. n \in Range(urb.config.numbers)
        BY <3>1, <3>2, TransferAssumption DEF ViewOK, NoView
      <3> QED
        BY <3>1, <3>2, <3>3 DEF Tells
    <2>4. CASE WriteSelectInterface(a)
      <3>1. urb.function = "SELECT_INTERFACE"
        BY <2>4 DEF WriteSelectInterface
      <3>2. /\ Resets(view, view', urb.info)
            /\ Describes(view'.interfaces[urb.info.number].pipes, urb.info.number,
                         urb.info.alt, view.config.dsc, pdo.speed)
        BY <2>4, <3>1, InterfaceTold
      <3> QED
        BY <3>2 DEF Resets
    <2> QED
      BY <2>1, <2>3, <2>4
  <1> QED
    BY <1>1, InvariantHolds, PTL DEF Spec, PipesDescribeEndpoints

(* How a selection can end.                                                *)
LEMMA SelectionEnds ==
  ASSUME IInv, [Next]_vars, stage = "sent", stage' = "ended", urb.function \in Select
  PROVE  \E a \in Replies(urb, wire.message.hdr) :
            \/ WriteError(a)
            \/ \E allocated \in BOOLEAN : WriteSelectConfig(a, allocated)
            \/ WriteSelectInterface(a)
  <1>1. stage' # stage /\ urb.function # "RESET_PORT"
    BY DEF Select
  <1>2. PICK a \in Replies(urb, wire.message.hdr) : Write(a)
    BY <1>1 DEF Next, vars, process_irp_urb_req, Return, Read
  <1> QED
    BY <1>1, <1>2 DEF Write, WriteReset, WriteData

LEMMA SelectionFollows ==
  ASSUME IInv, [Next]_vars, stage = "sent", stage' = "ended", urb.function \in Select
  PROVE  /\ result'.irp = "SUCCESS" /\ AsksFirst =>
                \A n \in Touched : remote'.alts[n] = view'.interfaces[n].alt
         /\ result'.status # "SUCCESS" => UNCHANGED <<pdo, view, remote>>
  <1> DEFINE h == wire.message.hdr
  <1>1. PICK a \in Replies(urb, h) :
            \/ WriteError(a)
            \/ \E allocated \in BOOLEAN : WriteSelectConfig(a, allocated)
            \/ WriteSelectInterface(a)
    BY SelectionEnds
  <1>2. Shape(urb) /\ HeaderOK(urb, h)
    BY SentFacts
  <1>3. CASE WriteError(a)
    BY <1>3 DEF WriteError, End
  <1>4. ASSUME a.status = "OK", Moves(a)
        PROVE  /\ remote' = Set(h.setup)
               /\ urb.function = "SELECT_CONFIGURATION" =>
                    \A c \in Config : c.value = 1 =>
                        \A n \in Range(c.numbers) : remote'.alts[n] = 0
               /\ urb.function = "SELECT_INTERFACE" =>
                    remote'.alts[urb.info.number] = urb.info.alt
    <2>1. remote' = Set(h.setup) /\ Followed(h.setup)
      BY <1>4, Selecting
    <2>2. /\ urb.function = "SELECT_CONFIGURATION" =>
                \A c \in Config : c.value = 1 =>
                    Set(h.setup).value = 1 /\ \A n \in Range(c.numbers) : Set(h.setup).alts[n] = 0
          /\ urb.function = "SELECT_INTERFACE" =>
                Set(h.setup).alts[urb.info.number] = urb.info.alt
      BY <1>2, <2>1, RemoteMoves DEF IInv
    <2> QED
      BY <2>1, <2>2
  <1>5. ASSUME NEW allocated \in BOOLEAN, WriteSelectConfig(a, allocated)
        PROVE  /\ result'.irp = "SUCCESS" /\ AsksFirst =>
                        \A n \in Touched : remote'.alts[n] = view'.interfaces[n].alt
               /\ result'.status = "SUCCESS"
    <2>1. urb.function = "SELECT_CONFIGURATION" /\ a.status = "OK" /\ Moves(a)
      BY <1>5 DEF WriteSelectConfig
    <2>2. result'.status = "SUCCESS"
      BY <1>5, <2>1 DEF WriteSelectConfig, End, to_usbd_status
    <2>3. ASSUME result'.irp = "SUCCESS", AsksFirst, NEW n \in Touched
          PROVE  remote'.alts[n] = view'.interfaces[n].alt
      <3>1. urb.config \in Config /\ Tells(view', urb.config, urb.infos, pdo.speed)
        BY <1>5, <2>3, ConfigTold
      <3>2. n \in Range(urb.config.numbers) /\ urb.config.value = 1
            /\ \A i \in DOMAIN urb.infos : urb.infos[i].alt = 0
        BY <2>1, <2>3 DEF Touched, AsksFirst
      <3>3. remote'.alts[n] = 0
        BY <1>4, <2>1, <3>1, <3>2
      <3>4. view'.interfaces[n].alt = 0
        BY <3>1, <3>2 DEF Tells
      <3> QED
        BY <3>3, <3>4
    <2> QED
      BY <2>2, <2>3
  <1>6. CASE WriteSelectInterface(a)
    <2>1. urb.function = "SELECT_INTERFACE" /\ a.status = "OK" /\ Moves(a)
      BY <1>6 DEF WriteSelectInterface
    <2>2. result'.status = "SUCCESS"
      BY <1>6, <2>1 DEF WriteSelectInterface, End, to_usbd_status
    <2>3. result'.irp = "SUCCESS" => Resets(view, view', urb.info)
      BY <1>6, InterfaceTold
    <2>4. Touched = {urb.info.number}
      BY <2>1 DEF Touched
    <2> QED
      BY <1>4, <2>1, <2>2, <2>3, <2>4 DEF Resets
  <1> QED
    BY <1>1, <1>3, <1>5, <1>6

(* A selection that succeeds leaves the device in the settings that the    *)
(* function driver is told of, if they are the first ones, and one that    *)
(* the device refuses changes nothing (vhci_write.c:67-100).               *)
THEOREM SelectionsTakeEffect == Spec => SelectionTakesEffect
  <1>1. IInv /\ [Next]_vars =>
            (stage = "sent" /\ stage' = "ended" /\ urb.function \in Select =>
                /\ result'.irp = "SUCCESS" /\ AsksFirst =>
                    \A n \in Touched : remote'.alts[n] = view'.interfaces[n].alt
                /\ result'.status # "SUCCESS" => UNCHANGED <<pdo, view, remote>>)
    BY SelectionFollows
  <1> QED
    BY <1>1, InvariantHolds, PTL DEF Spec, SelectionTakesEffect

=============================================================================
