------------------------------ MODULE Transfer ------------------------------
(***************************************************************************)
(* One request of the function driver at a time, with its contents: what   *)
(* the reads of the program deliver of it, what the answer of the remote   *)
(* device leaves in its buffer, and what the two sides then believe of the *)
(* configuration of the device.  UrbQueue has many requests at a time and  *)
(* none of their contents.                                                 *)
(*                                                                         *)
(* The function driver, the program and the remote device are external:    *)
(* they send what the interface between them and the driver allows.        *)
(***************************************************************************)
EXTENDS Configuration

CONSTANTS
    Config,       \* the configurations of the device: [value, numbers, dsc]
    Speed,        \* the speeds the device can have
    BufferLength, \* bound: the lengths of transfer buffers
    PacketOffset, \* the sequences of offsets of isochronous packets
    ReadLength,   \* the lengths of the reads of the program
    AnswerLength, \* the lengths an answer can have, besides those that suit its request
    UShortSize,   \* how many values an unsigned short has (2^16)
    DescriptorByte, \* what a byte of a packet descriptor holds
    StrayByte,      \* what a byte behind the buffer of a write holds
    NoConfig, NoHeader, NoAnswer, NoSetup

Byte == 0 .. 255
Size == 0 .. 2047 \* eleven bits

Places(c, type) == {i \in DOMAIN c.dsc : c.dsc[i].type = type}

(* What a descriptor of an interface or an endpoint holds, and that the    *)
(* interfaces of a configuration are those that its descriptor has, each   *)
(* setting once and followed by the endpoints it announces.                *)
WellFormed(c) ==
    /\ DOMAIN c.dsc = 1 .. Len(c.dsc) /\ Len(c.dsc) \in Nat
    /\ DOMAIN c.numbers = 1 .. Len(c.numbers) /\ Len(c.numbers) \in Nat
    /\ Range(c.numbers) = {c.dsc[i].number : i \in Places(c, "interface")}
    /\ \A i \in Places(c, "interface") :
            /\ c.dsc[i].number \in Byte /\ c.dsc[i].alt \in Byte
            /\ SettingPlaces(c.dsc, c.dsc[i].number, c.dsc[i].alt) = {i}
            /\ c.dsc[i].endpoints = Cardinality(EndpointsBehind(c.dsc, i))
    /\ \A i \in Places(c, "endpoint") :
            /\ c.dsc[i].address \in Byte /\ c.dsc[i].attributes \in Byte
            /\ c.dsc[i].interval \in Byte
            /\ c.dsc[i].size \in Size /\ c.dsc[i].more \in 0 .. 3

(* The device: value 0 stands for a device that is not configured.         *)
ASSUME DeviceAssumption ==
    /\ \A c \in Config : c.value \in Byte \ {0} /\ WellFormed(c)
    /\ \A c, d \in Config : c.value = d.value => c = d

(* What a header and its setup packet can be.                              *)
SetupPacket ==
    [direction : {"in", "out"}, type : {"standard", "class", "vendor"},
     recipient : {"device", "interface", "endpoint", "other"},
     request : {"GET_DESCRIPTOR", "SET_CONFIGURATION", "SET_INTERFACE", "SET_FEATURE", "REQUEST"},
     value : Nat, index : Nat, length : Nat]
UsbipHeader ==
    [direction : {"in", "out"}, ep : Nat, interval : Nat, short_ok : BOOLEAN,
     length : Nat, packets : Nat, setup : SetupPacket \cup {NoSetup}]

(* An isochronous request has packets; of one without, copy_iso_data       *)
(* writes before the first descriptor (vhci_read.c:386), which is not      *)
(* modelled.                                                               *)
ASSUME TransferAssumption ==
    /\ BufferLength \subseteq Nat
    /\ ReadLength \subseteq Nat
    /\ AnswerLength \subseteq Nat
    /\ UShortSize \in Nat \ {0}
    /\ DescriptorByte \notin Int /\ StrayByte \notin Int
    /\ PacketOffset \subseteq Seq(Nat) \ {<<>>}
    /\ NoConfig \notin Config
    /\ NoSetup \notin SetupPacket
    /\ NoHeader \notin UsbipHeader

HeaderLength == 48 \* sizeof(struct usbip_header)
PacketLength == 16 \* sizeof(struct usbip_iso_packet_descriptor)

VARIABLES
    stage,  \* of the request: idle, waiting, partial, sent, ended; or crashed
    urb,    \* the request as it was submitted
    memory, \* what it can change: buffer, TransferBufferLength, IsoPacket[].Length
    wire,   \* what the program has read of it
    answer, \* what the program wrote for it
    result, \* how it ended: IoStatus.Status and UrbHeader.Status
    pdo,    \* the device extension: speed, dsc_conf
    view,   \* the configuration the function driver was told of
    remote  \* the configuration the remote device is in

vars == <<stage, urb, memory, wire, answer, result, pdo, view, remote>>

-----------------------------------------------------------------------------
(* Requests.                                                               *)

GetDescriptor == {"GET_DESCRIPTOR_FROM_DEVICE", "GET_DESCRIPTOR_FROM_INTERFACE"}
Class         == {"CLASS_DEVICE", "CLASS_INTERFACE", "CLASS_ENDPOINT", "CLASS_OTHER"}
Vendor        == {"VENDOR_DEVICE", "VENDOR_INTERFACE", "VENDOR_ENDPOINT", "VENDOR_OTHER"}
Select        == {"SELECT_CONFIGURATION", "SELECT_INTERFACE"}
Transfers     == {"BULK_OR_INTERRUPT_TRANSFER", "ISOCH_TRANSFER"}
Immediate     == {"RESET_PIPE", "ABORT_PIPE", "GET_CURRENT_FRAME_NUMBER"}

(* RESET_PORT is an IOCTL of its own, the others are functions of a URB.   *)
Queued == GetDescriptor \cup Class \cup Vendor \cup Select \cup Transfers \cup {"RESET_PORT"}

(* Mutant: one more function is missing.                                   *)
StorableVendorLess == Vendor \ {"VENDOR_OTHER", "VENDOR_ENDPOINT"}

(* The functions store_urbr_submit and store_urbr_partial know of Vendor.  *)
StorableVendor == Vendor \ {"VENDOR_OTHER"}

(* What the function driver can name: the settings of the configuration,   *)
(* with one pipe too many or a Length one too small as well.               *)
Infos(c) ==
    {[number |-> c.dsc[i].number, alt |-> c.dsc[i].alt,
      pipes |-> c.dsc[i].endpoints + more, fits |-> c.dsc[i].endpoints - less] :
        i \in {j \in DOMAIN c.dsc : c.dsc[j].type = "interface"},
        more \in 0 .. 1, less \in 0 .. 1}

InfoLists(c) ==
    {list \in [DOMAIN c.numbers -> Infos(c)] :
        \A i \in DOMAIN list : list[i].number = c.numbers[i]}

Pipes(v) == UNION {Range(v.interfaces[n].pipes) : n \in DOMAIN v.interfaces}
Handles(v) == {p.PipeHandle : p \in Pipes(v)}

(* A buffer is given by address, by MDL, or not at all.                    *)
Requests(v) ==
    [function : GetDescriptor, length : BufferLength, at : {"pointer", "mdl"},
     descriptor : {"device", "string", "other"}]
    \cup [function : Class \cup Vendor, length : BufferLength, at : {"pointer", "mdl"},
          in : BOOLEAN]
    \cup [function : {"BULK_OR_INTERRUPT_TRANSFER"}, length : BufferLength,
          at : {"pointer", "mdl", "none"}, pipe : Handles(v), short_ok : BOOLEAN]
    \cup {r \in [function : {"ISOCH_TRANSFER"}, length : BufferLength,
                 at : {"pointer", "mdl", "none"}, pipe : Handles(v), offsets : PacketOffset] :
            \A i \in DOMAIN r.offsets : r.offsets[i] <= r.length}
    \cup {[function |-> "SELECT_CONFIGURATION", config |-> NoConfig, infos |-> <<>>]}
    \cup (UNION {[function : {"SELECT_CONFIGURATION"}, config : {c}, infos : InfoLists(c)] :
                    c \in Config})
    \cup (IF v.config = NoConfig THEN {} ELSE
          {[function |-> "SELECT_INTERFACE", info |-> info,
            handle |-> [number |-> info.number, alt |-> v.interfaces[info.number].alt]] :
                info \in Infos(v.config)})
    \cup [function : Immediate \cup {"RESET_PORT", "OTHER"}]

LengthOf(r)  == IF "length" \in DOMAIN r THEN r.length ELSE 0
OffsetsOf(r) == IF "offsets" \in DOMAIN r THEN r.offsets ELSE <<>>

(* Of the transfer functions by the pipe, of class and vendor requests by  *)
(* the flag of the request.                                                *)
Direction(r) ==
    CASE r.function \in Transfers -> PIPE2DIRECT(r.pipe)
      [] r.function \in Class \cup Vendor -> IF r.in THEN "in" ELSE "out"
      [] r.function \in GetDescriptor -> "in"
      [] OTHER -> "out"

get_buf(r) == r.at # "none"

-----------------------------------------------------------------------------
(* Reading: what the driver puts into the buffer of a read.                *)

set_cmd_submit_usbip_header(direction, pipe, short_ok, length, setup) ==
    [direction |-> direction, ep |-> PIPE2ADDR(pipe), interval |-> PIPE2INTERVAL(pipe),
     short_ok |-> short_ok, length |-> length, packets |-> 0, setup |-> setup]

build_setup_packet(direction, type, recipient, request, value, index, length) ==
    [direction |-> direction, type |-> type, recipient |-> recipient, request |-> request,
     value |-> value, index |-> index, length |-> length]

Nothing == [hdr |-> NoHeader, data |-> <<>>, descs |-> <<>>]

(* info is the Information of the read: how much of the message in its     *)
(* buffer is delivered.  len is the new len_sent_partial.                  *)
Stored(message, info, len) ==
    [status |-> "SUCCESS", message |-> message, info |-> info, len |-> len]

NotStored(status) == [status |-> status, message |-> Nothing, info |-> 0, len |-> 0]

(* Mutant: Information keeps the 0 of get_usbip_hdr_from_read_irp.         *)
HeaderUncounted(hdr) == Stored([Nothing EXCEPT !.hdr = hdr], 0, 0)

Header(hdr)     == Stored([Nothing EXCEPT !.hdr = hdr], HeaderLength, 0)
HeaderOnly(hdr) == Stored([Nothing EXCEPT !.hdr = hdr], HeaderLength, HeaderLength)

(* A request without data of its own.                                      *)
HeaderOf(hdr, room) ==
    IF room < HeaderLength THEN NotStored("BUFFER_TOO_SMALL") ELSE Header(hdr)

store_urb_reset_dev(room) ==
    HeaderOf(set_cmd_submit_usbip_header("out", 0, FALSE, 0,
                build_setup_packet("out", "class", "other", "SET_FEATURE", 4, 0, 0)), room)

(* wLength keeps the lower 16 bits of the length (vhci_read.c:106, 147,    *)
(* 229).                                                                   *)
wLength(r) == r.length % UShortSize

(* LanguageId and Index are left out.                                      *)
DescriptorHeader(r, recipient) ==
    set_cmd_submit_usbip_header("in", 0, TRUE, r.length,
        build_setup_packet("in", "standard", recipient, "GET_DESCRIPTOR", 0, 0, wLength(r)))

store_urb_get_dev_desc(r, room) ==
    IF room >= HeaderLength /\ r.descriptor = "other"
    THEN NotStored("INVALID_PARAMETER")
    ELSE HeaderOf(DescriptorHeader(r, "device"), room)

store_urb_get_intf_desc(r, room) == HeaderOf(DescriptorHeader(r, "interface"), room)

Recipient(r) ==
    CASE r.function \in {"CLASS_DEVICE", "VENDOR_DEVICE"} -> "device"
      [] r.function \in {"CLASS_INTERFACE", "VENDOR_INTERFACE"} -> "interface"
      [] r.function \in {"CLASS_ENDPOINT", "VENDOR_ENDPOINT"} -> "endpoint"
      [] OTHER -> "other"

ClassHeader(r) ==
    set_cmd_submit_usbip_header(Direction(r), 0, TRUE, r.length,
        build_setup_packet(Direction(r), IF r.function \in Class THEN "class" ELSE "vendor",
                           Recipient(r), "REQUEST", 0, 0, wLength(r)))

(* The data of an OUT request, taken from TransferBuffer without a look at *)
(* the MDL.                                                                *)
CopyUnmapped(r, message, info) ==
    IF r.at = "pointer" \/ r.length = 0 THEN Stored(message, info, 0) ELSE NotStored("crash")

(* Mutant: the data is copied and not counted.                             *)
store_urb_class_vendor_uncounted(r, m, room) ==
    LET hdr == ClassHeader(r)
    IN  IF room < HeaderLength THEN NotStored("BUFFER_TOO_SMALL")
        ELSE IF r.in THEN Header(hdr)
        ELSE IF room - HeaderLength < r.length THEN HeaderOnly(hdr)
        ELSE CopyUnmapped(r, [hdr |-> hdr, data |-> m.buffer, descs |-> <<>>], HeaderLength)

store_urb_class_vendor(r, m, room) ==
    LET hdr == ClassHeader(r)
    IN  IF room < HeaderLength THEN NotStored("BUFFER_TOO_SMALL")
        ELSE IF r.in THEN Header(hdr)
        ELSE IF room - HeaderLength < r.length THEN HeaderOnly(hdr)
        ELSE CopyUnmapped(r, [hdr |-> hdr, data |-> m.buffer, descs |-> <<>>],
                          HeaderLength + r.length)

store_urb_class_vendor_partial(r, m, room) ==
    IF room < r.length THEN NotStored("BUFFER_TOO_SMALL")
    ELSE CopyUnmapped(r, [Nothing EXCEPT !.data = m.buffer], r.length)

(* The value is 1 whatever the descriptor says.                            *)
store_urb_select_config(room) ==
    HeaderOf(set_cmd_submit_usbip_header("out", 0, FALSE, 0,
                build_setup_packet("out", "standard", "device", "SET_CONFIGURATION", 1, 0, 0)),
             room)

(* Mutant: the setting the interface had.                                  *)
store_urb_select_interface_old(r, room) ==
    HeaderOf(set_cmd_submit_usbip_header("out", 0, FALSE, 0,
                build_setup_packet("out", "standard", "interface", "SET_INTERFACE",
                                   r.handle.alt, r.info.number, 0)), room)

store_urb_select_interface(r, room) ==
    HeaderOf(set_cmd_submit_usbip_header("out", 0, FALSE, 0,
                build_setup_packet("out", "standard", "interface", "SET_INTERFACE",
                                   r.info.alt, r.info.number, 0)), room)

(* Data that fits behind the header is copied there, but not counted in    *)
(* Information.                                                            *)
store_urb_bulk(r, m, room) ==
    LET hdr == set_cmd_submit_usbip_header(Direction(r), r.pipe, r.short_ok, r.length, NoSetup)
    IN  IF room < HeaderLength THEN NotStored("BUFFER_TOO_SMALL")
        ELSE IF PIPE2TYPE(r.pipe) \notin {BULK, INTERRUPT} THEN NotStored("INVALID_PARAMETER")
        ELSE IF Direction(r) = "in" THEN Header(hdr)
        ELSE IF room - HeaderLength < r.length THEN HeaderOnly(hdr)
        ELSE IF ~get_buf(r) THEN NotStored("INSUFFICIENT_RESOURCES")
        ELSE Stored([hdr |-> hdr, data |-> m.buffer, descs |-> <<>>], HeaderLength, 0)

store_urb_bulk_partial(r, m, room) ==
    IF room < r.length THEN NotStored("BUFFER_TOO_SMALL")
    ELSE IF ~get_buf(r) THEN NotStored("INSUFFICIENT_RESOURCES")
    ELSE Stored([Nothing EXCEPT !.data = m.buffer], r.length, 0)

(* The offset of packet i, and of what follows the last one.               *)
OffsetAt(r, i) == IF i \in DOMAIN r.offsets THEN r.offsets[i] ELSE r.length

(* Packets whose offset is below the one before stop the loop: the         *)
(* descriptor before such a packet keeps its length, and those after it    *)
(* everything, as the buffer had them.                                     *)
Unset(r, i) == \E j \in 2 .. i + 1 : j \in DOMAIN r.offsets /\ r.offsets[j] < r.offsets[j - 1]

NoDesc == [offset |-> -1, length |-> -1]

(* Its status is not looked at: without a buffer nothing is written.       *)
copy_iso_data(r, m, hdr) ==
    IF get_buf(r)
    THEN [hdr |-> hdr, data |-> m.buffer,
          descs |-> [i \in DOMAIN r.offsets |->
                        IF Unset(r, i) THEN NoDesc
                        ELSE [offset |-> r.offsets[i],
                              length |-> OffsetAt(r, i + 1) - r.offsets[i]]]]
    ELSE [hdr |-> hdr, data |-> [i \in 1 .. r.length |-> 0],
          descs |-> [i \in DOMAIN r.offsets |-> NoDesc]]

IsoLength(r) == r.length + Len(r.offsets) * PacketLength

store_urb_iso(r, m, room) ==
    LET hdr == [set_cmd_submit_usbip_header(Direction(r), r.pipe, TRUE, r.length, NoSetup)
                    EXCEPT !.packets = Len(r.offsets)]
    IN  IF PIPE2TYPE(r.pipe) # ISOCHRONOUS THEN NotStored("INVALID_PARAMETER")
        ELSE IF room < HeaderLength THEN NotStored("BUFFER_TOO_SMALL")
        ELSE IF Direction(r) = "in" THEN Header(hdr)
        ELSE IF room - HeaderLength < IsoLength(r) THEN HeaderOnly(hdr)
        ELSE Stored(copy_iso_data(r, m, hdr), HeaderLength + IsoLength(r), 0)

store_urb_iso_partial(r, m, room) ==
    IF room < IsoLength(r) THEN NotStored("BUFFER_TOO_SMALL")
    ELSE Stored(copy_iso_data(r, m, NoHeader), IsoLength(r), 0)

store_urbr(r, m, room) ==
    CASE r.function = "BULK_OR_INTERRUPT_TRANSFER" -> store_urb_bulk(r, m, room)
      [] r.function = "ISOCH_TRANSFER" -> store_urb_iso(r, m, room)
      [] r.function = "GET_DESCRIPTOR_FROM_DEVICE" -> store_urb_get_dev_desc(r, room)
      [] r.function = "GET_DESCRIPTOR_FROM_INTERFACE" -> store_urb_get_intf_desc(r, room)
      [] r.function \in Class \cup StorableVendor -> store_urb_class_vendor(r, m, room)
      [] r.function = "SELECT_CONFIGURATION" -> store_urb_select_config(room)
      [] r.function = "SELECT_INTERFACE" -> store_urb_select_interface(r, room)
      [] r.function = "RESET_PORT" -> store_urb_reset_dev(room)
      [] OTHER -> NotStored("INVALID_PARAMETER")

store_urbr_partial(r, m, room) ==
    CASE r.function = "BULK_OR_INTERRUPT_TRANSFER" -> store_urb_bulk_partial(r, m, room)
      [] r.function = "ISOCH_TRANSFER" -> store_urb_iso_partial(r, m, room)
      [] r.function \in Class \cup StorableVendor -> store_urb_class_vendor_partial(r, m, room)
      [] OTHER -> NotStored("INVALID_PARAMETER")

(* The part of a message that Information covers is what the program gets. *)
Delivered(s) ==
    LET left  == s.info - (IF s.message.hdr = NoHeader THEN 0 ELSE HeaderLength)
        bytes == Min({left, Len(s.message.data)})
    IN  [s.message EXCEPT !.hdr   = IF s.info < HeaderLength THEN NoHeader ELSE @,
                          !.data  = SubSeq(@, 1, bytes),
                          !.descs = SubSeq(@, 1, (left - bytes) \div PacketLength)]

-----------------------------------------------------------------------------
(* The remote device and its server, which answer what the program read.   *)

ConfigWith(value) == CHOOSE c \in Config : c.value = value

(* A set request the device can follow.                                    *)
Followed(setup) ==
    \/ setup.request = "SET_CONFIGURATION" /\ \E c \in Config : c.value = setup.value
    \/ /\ setup.request = "SET_INTERFACE"
       /\ remote.value # 0
       /\ SettingPlaces(ConfigWith(remote.value).dsc, setup.index, setup.value) # {}

(* SET_CONFIGURATION takes every interface to its setting 0.               *)
Set(setup) ==
    IF setup.request = "SET_CONFIGURATION"
    THEN [value |-> setup.value,
          alts  |-> [n \in Range(ConfigWith(setup.value).numbers) |-> 0]]
    ELSE [remote EXCEPT !.alts[setup.index] = setup.value]

Setting(h) == h.setup # NoSetup /\ h.setup.request \in {"SET_CONFIGURATION", "SET_INTERFACE"}

Reply(status, actual, data, descs) ==
    [status |-> status, actual_length |-> actual, data |-> data, descs |-> descs]

Sum(f) == FoldFunctionOnSet(+, 0, f, DOMAIN f)

PacketRoom(r, i) == OffsetAt(r, i + 1) - r.offsets[i]

(* The data of the packets of an IN request comes packed, before their     *)
(* descriptors; of an OUT request there are descriptors only.  The         *)
(* descriptors repeat the offsets, or, from a server that packs them too,  *)
(* have other ones.                                                        *)
IsoReply(r, shift, lengths, actual) ==
    Reply("OK", actual,
          IF Direction(r) = "in" THEN [k \in 1 .. actual |-> -k] ELSE <<>>,
          [i \in 1 .. Len(r.offsets) |-> [offset |-> r.offsets[i] + shift[i],
                                          actual_length |-> lengths[i]]])

Shifts(r) ==
    LET n == Len(r.offsets)
    IN  {[i \in 1 .. n |-> 0], [i \in 1 .. n |-> IF i = n THEN 1 ELSE 0]}

(* How many bytes every packet has.  Nothing makes a device keep to the    *)
(* packets it was asked for, nor the lengths of an answer agree.           *)
Fillings(r) ==
    {f \in [1 .. Len(r.offsets) -> AnswerLength \cup 0 .. r.length] :
        \A i \in DOMAIN f : f[i] \in AnswerLength \cup {PacketRoom(r, i)}}

IsoReplies(r) ==
    {IsoReply(r, shift, lengths, actual) :
        shift \in Shifts(r), lengths \in Fillings(r), actual \in AnswerLength \cup {r.length}}

(* A short answer is an error unless the header allows it.                 *)
Replies(r, h) ==
    {Reply("EPIPE", 0, <<>>, <<>>)} \cup
    (CASE Setting(h) -> IF Followed(h.setup) THEN {Reply("OK", 0, <<>>, <<>>)} ELSE {}
       [] ~Setting(h) /\ h.packets > 0 ->
            IF \E i \in DOMAIN r.offsets : Unset(r, i) THEN {} ELSE IsoReplies(r)
       [] ~Setting(h) /\ h.packets = 0 /\ h.direction = "in" ->
            {Reply(IF n >= h.length \/ h.short_ok THEN "OK" ELSE "EREMOTEIO",
                   n, [k \in 1 .. n |-> -k], <<>>) : n \in AnswerLength \cup {h.length}}
       [] OTHER -> {Reply("OK", h.length, <<>>, <<>>)})

-----------------------------------------------------------------------------
(* Writing: what the driver takes from an answer.                          *)

to_usbd_status(status) ==
    CASE status = "OK" -> "SUCCESS"
      [] status = "EPIPE" -> "ENDPOINT_HALTED"
      [] status = "EREMOTEIO" -> "ERROR_SHORT_TRANSFER"

Taken(status, m) == [status |-> status, memory |-> m]

(* The write holds the data and the descriptors of the packets.            *)
Written(a) == Len(a.data) + PacketLength * Len(a.descs)

(* Byte k behind the header, in the write or not.                          *)
Body(a, k) ==
    IF k \in DOMAIN a.data THEN a.data[k]
    ELSE IF k <= Written(a) THEN DescriptorByte ELSE StrayByte

(* RtlCopyMemory: where bytes go, in the buffer or not.                    *)
Overlaid(buffer, bytes) ==
    [k \in DOMAIN buffer \cup DOMAIN bytes |->
        IF k \in DOMAIN bytes THEN bytes[k] ELSE buffer[k]]

copy_to_transfer_buffer(r, m, a) ==
    IF m.length < a.actual_length \/ ~get_buf(r) THEN Taken("INVALID_PARAMETER", m)
    ELSE Taken("SUCCESS",
               [m EXCEPT !.buffer = Overlaid(@, [k \in 1 .. a.actual_length |-> Body(a, k)]),
                         !.length = a.actual_length])

(* The packets before the first whose offset grew take their lengths.      *)
save_iso_desc(r, m, a) ==
    LET grown == {i \in DOMAIN r.offsets : a.descs[i].offset > r.offsets[i]}
    IN  Taken(IF grown = {} THEN "SUCCESS" ELSE "INVALID_PARAMETER",
              [m EXCEPT !.packets = [i \in DOMAIN @ |->
                    IF \E j \in grown : j <= i THEN @[i] ELSE a.descs[i].actual_length]])

(* Where the data of packet i starts in the answer.                        *)
StartOf(m, i) == Sum([j \in 1 .. i - 1 |-> m.packets[j]])

(* Mutant: the packets stay packed.                                        *)
PlacePacked(r, m, i) == StartOf(m, i)

(* Where it goes in the buffer.                                            *)
Place(r, m, i) == r.offsets[i]

(* Mutant: the length of the answer is not looked at.                      *)
FitsBuffer(r, m, a, i) == m.packets[i] = 0 \/ r.offsets[i] + m.packets[i] <= m.length

(* Packet i lies in the buffer, and its data in the bytes of the answer.   *)
PacketFits(r, m, a, i) ==
    \/ m.packets[i] = 0
    \/ /\ r.offsets[i] + m.packets[i] <= m.length
       /\ StartOf(m, i) + m.packets[i] <= a.actual_length

(* The packets before the first that does not fit.                         *)
Copied(r, m, a) == {i \in DOMAIN r.offsets : \A j \in 1 .. i : PacketFits(r, m, a, j)}

Span(r, m, i) == Place(r, m, i) + 1 .. Place(r, m, i) + m.packets[i]

copy_iso_packets(r, m, a) ==
    LET holds(k) == {i \in Copied(r, m, a) : k \in Span(r, m, i)}
        bytes == [k \in UNION {Span(r, m, i) : i \in Copied(r, m, a)} |->
                    LET i == Max(holds(k)) IN Body(a, StartOf(m, i) + k - Place(r, m, i))]
    IN  Overlaid(m.buffer, bytes)

(* The direction is looked at only to find the descriptors.                *)
take_urb_iso(r, m, a) ==
    LET saved == save_iso_desc(r, m, a)
    IN  IF saved.status # "SUCCESS" THEN saved
        ELSE IF ~get_buf(r) THEN Taken("INVALID_PARAMETER", saved.memory)
        ELSE Taken("SUCCESS", [saved.memory EXCEPT !.buffer = copy_iso_packets(r, saved.memory, a),
                                                   !.length = a.actual_length])

(* The copy reads behind the write: the code copies actual_length bytes    *)
(* for an OUT request too, of which the answer holds the descriptors only. *)
ReadsPast(r, m, a) ==
    LET saved == save_iso_desc(r, m, a)
    IN  /\ r.function = "ISOCH_TRANSFER" /\ saved.status = "SUCCESS" /\ get_buf(r)
        /\ \E i \in Copied(r, saved.memory, a) :
                /\ saved.memory.packets[i] > 0
                /\ StartOf(saved.memory, i) + saved.memory.packets[i] > Written(a)

store_urb_data(r, m, a) ==
    IF r.function = "ISOCH_TRANSFER" THEN take_urb_iso(r, m, a)
    ELSE IF Direction(r) = "in" THEN copy_to_transfer_buffer(r, m, a)
    ELSE Taken("SUCCESS", m)

-----------------------------------------------------------------------------
NoUrb     == [function |-> "none"]
NoMemory  == [buffer |-> <<>>, length |-> 0, packets |-> <<>>]
NoResult  == [irp |-> "PENDING", status |-> "PENDING"]
NoWire    == [message |-> Nothing, room |-> 0]
NoView    == [config |-> NoConfig, interfaces |-> <<>>]
NoSetting == [value |-> 0, alts |-> <<>>]

Init ==
    /\ stage = "idle" /\ urb = NoUrb /\ memory = NoMemory /\ wire = NoWire
    /\ answer = NoAnswer /\ result = NoResult
    /\ pdo \in [speed : Speed, dsc_conf : {NoConfig}]
    /\ view = NoView /\ remote = NoSetting

End(irp, status) == stage' = "ended" /\ result' = [irp |-> irp, status |-> status]

(* The function driver has seen the result.                                *)
Return ==
    /\ stage = "ended"
    /\ stage' = "idle" /\ urb' = NoUrb /\ memory' = NoMemory /\ wire' = NoWire
    /\ answer' = NoAnswer /\ result' = NoResult
    /\ UNCHANGED <<pdo, view, remote>>

(* A request of the function driver.                                       *)
process_irp_urb_req(r) ==
    /\ stage = "idle"
    /\ urb' = r
    /\ memory' = [buffer  |-> [k \in 1 .. LengthOf(r) |-> k],
                  length  |-> LengthOf(r),
                  packets |-> [i \in DOMAIN OffsetsOf(r) |-> 0]]
    /\ \/ r.function \in Queued /\ stage' = "waiting" /\ result' = NoResult
       \/ r.function \in Immediate /\ End("SUCCESS", "PENDING")
       \/ r.function \notin Queued \cup Immediate /\ End("INVALID_PARAMETER", "PENDING")
    /\ UNCHANGED <<wire, answer, pdo, view, remote>>

Stores(room) ==
    IF stage = "waiting" THEN store_urbr(urb, memory, room)
    ELSE store_urbr_partial(urb, memory, room)

(* A read of the program, or one that was waiting when the request came.   *)
Read(room) ==
    /\ stage \in {"waiting", "partial"}
    /\ LET s == Stores(room)
           got == Delivered(s)
       IN  \/ /\ s.status = "SUCCESS"
              /\ stage' = IF s.len = 0 THEN "sent" ELSE "partial"
              /\ wire' = [message |-> [hdr   |-> IF stage = "waiting" THEN got.hdr
                                                ELSE wire.message.hdr,
                                       data  |-> wire.message.data \o got.data,
                                       descs |-> wire.message.descs \o got.descs],
                          room |-> room]
              /\ UNCHANGED result
           \/ /\ s.status = "crash"
              /\ stage' = "crashed"
              /\ UNCHANGED <<wire, result>>
           \/ /\ s.status \notin {"SUCCESS", "crash"}
              /\ End("INVALID_PARAMETER", "PENDING")
              /\ wire' = [wire EXCEPT !.room = room]
    /\ UNCHANGED <<urb, memory, answer, pdo, view, remote>>

(* A write of the program.                                                 *)
Answered(a) == stage = "sent" /\ answer' = a

Moves(a) == remote' = IF Setting(wire.message.hdr) /\ a.status = "OK"
                      THEN Set(wire.message.hdr.setup) ELSE remote

(* A port reset carries no URB.                                            *)
WriteReset(a) ==
    /\ Answered(a)
    /\ urb.function = "RESET_PORT"
    /\ End("SUCCESS", "PENDING")
    /\ UNCHANGED <<urb, memory, wire, pdo, view, remote>>

WriteError(a) ==
    /\ Answered(a)
    /\ urb.function # "RESET_PORT" /\ a.status # "OK"
    /\ End("UNSUCCESSFUL", to_usbd_status(a.status))
    /\ UNCHANGED <<urb, memory, wire, pdo, view, remote>>

(* What is behind the write may be there to read or not.                   *)
WriteData(a) ==
    /\ Answered(a)
    /\ urb.function \notin Select \cup {"RESET_PORT"} /\ a.status = "OK"
    /\ LET taken == store_urb_data(urb, memory, a)
       IN  \/ /\ memory' = taken.memory
              /\ End(taken.status,
                     IF taken.status = "SUCCESS" THEN to_usbd_status(a.status) ELSE "PENDING")
           \/ /\ ReadsPast(urb, memory, a)
              /\ stage' = "crashed"
              /\ UNCHANGED <<memory, result>>
    /\ UNCHANGED <<urb, wire, pdo, view, remote>>

(* What a successful selection tells the function driver.                  *)
Told(c, infos, pipes) ==
    [config |-> c,
     interfaces |-> [n \in Range(c.numbers) |->
        LET i == CHOOSE j \in DOMAIN c.numbers : c.numbers[j] = n
        IN  [alt |-> infos[i].alt, pipes |-> pipes[i]]]]

(* The descriptor is kept even if the interfaces do not suit it.  Without  *)
(* one (the function driver asks for no configuration) the code follows a  *)
(* null pointer.                                                           *)
WriteSelectConfig(a, allocated) ==
    /\ Answered(a)
    /\ urb.function = "SELECT_CONFIGURATION" /\ a.status = "OK"
    /\ Moves(a)
    /\ LET set == select_config(urb.config.dsc, urb.infos, pdo.speed)
       IN  \/ /\ urb.config = NoConfig
              /\ stage' = "crashed"
              /\ UNCHANGED <<pdo, view, result>>
           \/ /\ urb.config # NoConfig /\ ~allocated
              /\ End("UNSUCCESSFUL", to_usbd_status(a.status))
              /\ UNCHANGED <<pdo, view>>
           \/ /\ urb.config # NoConfig /\ allocated
              /\ pdo' = [pdo EXCEPT !.dsc_conf = urb.config]
              /\ \/ /\ set.status = "lost"
                    /\ stage' = "crashed"
                    /\ UNCHANGED <<view, result>>
                 \/ /\ set.status # "lost"
                    /\ End(set.status, to_usbd_status(a.status))
                    /\ view' = IF set.status # "SUCCESS" THEN view
                               ELSE Told(urb.config, urb.infos, set.pipes)
    /\ UNCHANGED <<urb, memory, wire>>

WriteSelectInterface(a) ==
    /\ Answered(a)
    /\ urb.function = "SELECT_INTERFACE" /\ a.status = "OK"
    /\ Moves(a)
    /\ LET set == IF pdo.dsc_conf = NoConfig THEN Setup("INVALID_DEVICE_REQUEST", <<>>)
                  ELSE select_interface(pdo.dsc_conf.dsc, urb.handle, urb.info, pdo.speed)
       IN  /\ End(set.status, to_usbd_status(a.status))
           /\ view' = IF set.status # "SUCCESS" THEN view
                      ELSE [view EXCEPT !.interfaces[urb.info.number] =
                                [alt |-> urb.info.alt, pipes |-> set.pipes]]
    /\ UNCHANGED <<urb, memory, wire, pdo>>

Write(a) ==
    \/ WriteReset(a)
    \/ WriteError(a)
    \/ WriteData(a)
    \/ \E allocated \in BOOLEAN : WriteSelectConfig(a, allocated)
    \/ WriteSelectInterface(a)

Next ==
    \/ \E r \in Requests(view) : process_irp_urb_req(r)
    \/ \E room \in ReadLength : Read(room)
    \/ /\ stage = "sent"
       /\ \E a \in Replies(urb, wire.message.hdr) : Write(a)
    \/ Return

Spec == Init /\ [][Next]_vars

-----------------------------------------------------------------------------
(* Properties.                                                             *)

(* Every variable has its type; a request that was read has a header, and  *)
(* TransferBufferLength never exceeds the buffer, but for isochronous      *)
(* requests, which take it from the answer unchecked (vhci_write.c:183).   *)
TypeOK ==
    /\ stage \in {"idle", "waiting", "partial", "sent", "ended", "crashed"}
    /\ urb.function \in Queued \cup Immediate \cup {"OTHER", "none"}
    /\ DOMAIN memory.buffer = 1 .. LengthOf(urb) /\ memory.length \in Nat
    /\ urb.function # "ISOCH_TRANSFER" => memory.length <= LengthOf(urb)
    /\ DOMAIN memory.packets = DOMAIN OffsetsOf(urb)
    /\ stage \in {"partial", "sent"} => wire.message.hdr # NoHeader
    /\ answer # NoAnswer => stage \in {"ended", "crashed"}
    /\ pdo.speed \in Speed /\ pdo.dsc_conf \in Config \cup {NoConfig}
    /\ view.config \in Config \cup {NoConfig}

Outgoing == Direction(urb) = "out"

(* A bulk or interrupt OUT request whose data was copied behind the header *)
(* and lost.                                                               *)
BulkTailLost ==
    /\ urb.function = "BULK_OR_INTERRUPT_TRANSFER" /\ Outgoing
    /\ wire.room >= HeaderLength + urb.length

OffsetsGrow == \A i \in DOMAIN OffsetsOf(urb) : ~Unset(urb, i)

(* usbip_proto.h:56: transfer_buffer_length is "the following data size    *)
(* (out)".  When the program has read a request, in one read or in two, it *)
(* has exactly the data that length announces, and the descriptor of every *)
(* packet of an isochronous one, covering the buffer: except bulk data     *)
(* that fitted behind the header, packets out of order, and isochronous    *)
(* data without a buffer.  A setup packet asks for the same length, if 16  *)
(* bits hold it.                                                           *)
MessageComplete ==
    stage = "sent" =>
        LET m == wire.message
        IN  /\ m.hdr.direction = Direction(urb)
            /\ m.hdr.length = LengthOf(urb)
            /\ m.hdr.setup # NoSetup =>
                    /\ m.hdr.setup.direction = m.hdr.direction
                    /\ LengthOf(urb) < UShortSize => m.hdr.setup.length = m.hdr.length
            /\ ~Outgoing => m.data = <<>> /\ m.descs = <<>>
            /\ (Outgoing /\ ~BulkTailLost /\ OffsetsGrow
                    /\ (urb.function = "ISOCH_TRANSFER" => get_buf(urb)))
                => /\ m.data = [k \in 1 .. m.hdr.length |-> k]
                   /\ Len(m.descs) = m.hdr.packets
                   /\ \A i \in DOMAIN m.descs :
                        m.descs[i].offset + m.descs[i].length = OffsetAt(urb, i + 1)

(* The packets of an answer keep to their places and add up to its length. *)
PacketsAgree ==
    /\ \A i \in DOMAIN OffsetsOf(urb) : memory.packets[i] <= PacketRoom(urb, i)
    /\ Sum(memory.packets) = answer.actual_length

(* When a request ends with an answer, the buffer of an IN request holds   *)
(* the bytes of the answer, those of an isochronous packet at its offset   *)
(* if the lengths of the answer agree, and is otherwise as it was; a       *)
(* request that failed and an OUT request leave it alone, except that the  *)
(* answer to an isochronous OUT request is copied into the buffer as if it *)
(* had data.                                                               *)
BufferHoldsAnswer ==
    (stage = "ended" /\ answer # NoAnswer) =>
        LET taken == result.irp = "SUCCESS" /\ ~Outgoing
            iso   == urb.function = "ISOCH_TRANSFER"
        IN  /\ taken => memory.length = answer.actual_length
            /\ taken /\ ~iso => \A k \in DOMAIN memory.buffer :
                    memory.buffer[k] = IF k <= answer.actual_length THEN answer.data[k] ELSE k
            /\ taken /\ iso /\ PacketsAgree =>
                LET new == {k \in DOMAIN memory.buffer : memory.buffer[k] # k}
                IN  /\ new = UNION {OffsetsOf(urb)[i] + 1 .. OffsetsOf(urb)[i] + memory.packets[i] :
                                        i \in DOMAIN OffsetsOf(urb)}
                    /\ Len(answer.data) = Cardinality(new)
                    /\ \A k \in new :
                        memory.buffer[k] = answer.data[Cardinality({j \in new : j <= k})]
            /\ ~taken /\ (iso => result.irp # "SUCCESS") =>
                    /\ memory.buffer = [k \in 1 .. LengthOf(urb) |-> k]
                    /\ memory.length = LengthOf(urb)

(* However wrong the lengths of an answer are, and however they disagree,  *)
(* an IN request takes nothing but the data of its answer (vhci_write.c:51,*)
(* 55, 107): each byte of its buffer is its own or one of that data, a     *)
(* packet is placed within the buffer or not at all, and nothing is read   *)
(* from behind the write.  (An isochronous OUT request takes what is       *)
(* behind the header whatever it is, vhci_write.c:182.)                    *)
TakesOnlyTheAnswer ==
    ~Outgoing =>
        /\ stage # "crashed"
        /\ (stage = "ended" /\ answer # NoAnswer) =>
            \A k \in DOMAIN memory.buffer : memory.buffer[k] # k =>
                /\ \E j \in DOMAIN answer.data : memory.buffer[k] = answer.data[j]
                /\ urb.function = "ISOCH_TRANSFER" =>
                    \E i \in DOMAIN urb.offsets :
                        /\ k \in urb.offsets[i] + 1 .. urb.offsets[i] + memory.packets[i]
                        /\ urb.offsets[i] + memory.packets[i] <= LengthOf(urb)

(* vhci_ioctl.c:67-83 accepts what store_urbr and store_urbr_partial can   *)
(* store, in one read or in two: a request that was queued fails in a read *)
(* only for a reason of its own, or because the read is too short.  The    *)
(* exception is VENDOR_OTHER, which the two do not know.                   *)
OnlyUnfitRequestsFail ==
    [][LET unfit ==
            \/ stage = "waiting" /\ wire'.room < HeaderLength
            \/ stage = "partial" /\ wire'.room <
                    LengthOf(urb) + PacketLength * Len(OffsetsOf(urb))
            \/ urb.function = "VENDOR_OTHER"
            \/ urb.function = "GET_DESCRIPTOR_FROM_DEVICE" /\ urb.descriptor = "other"
            \/ urb.function \in Transfers /\ ~get_buf(urb)
            \/ urb.function = "ISOCH_TRANSFER" /\ PIPE2TYPE(urb.pipe) # ISOCHRONOUS
            \/ urb.function \in Transfers \ {"ISOCH_TRANSFER"}
               /\ PIPE2TYPE(urb.pipe) \notin {BULK, INTERRUPT}
       IN  stage \in {"waiting", "partial"} /\ stage' = "ended" => unfit]_vars

(* Pipe n of an interface is endpoint n of its setting.  set_pipe counts   *)
(* the additional packets of isochronous endpoints only; of an interrupt   *)
(* endpoint that has some, MaximumPacketSize is no size.                   *)
Describes(pipes, n, alt, dsc, speed) ==
    LET eps == Endpoints(dsc, n, alt)
    IN  /\ Len(pipes) = Len(eps)
        /\ \A i \in DOMAIN eps :
            /\ pipes[i].EndpointAddress = eps[i].address
            /\ pipes[i].PipeType = TypeOf(eps[i])
            /\ pipes[i].Interval = eps[i].interval
            /\ (eps[i].more = 0 \/ (TypeOf(eps[i]) = ISOCHRONOUS /\ speed = "high")) =>
                    pipes[i].MaximumPacketSize = BytesPerFrame(eps[i])

(* The pipes a successful selection gives the function driver describe the *)
(* endpoints of the setting it asked for, unless an earlier selection      *)
(* failed after it had replaced dsc_conf: SELECT_INTERFACE then reads the  *)
(* descriptor of the other configuration.                                  *)
PipesDescribeEndpoints ==
    [][view' # view /\ (urb.function = "SELECT_INTERFACE" => pdo.dsc_conf = view.config) =>
        \A n \in DOMAIN view'.interfaces :
            LET new == view'.interfaces[n]
            IN  \/ n \in DOMAIN view.interfaces /\ new = view.interfaces[n]
                \/ Describes(new.pipes, n, new.alt, view'.config.dsc, pdo.speed)]_vars

(* The function driver and the device agree on the settings, and the pipes *)
(* are those of the settings.                                              *)
Agreed ==
    /\ view.config # NoConfig /\ remote.value = view.config.value
    /\ \A n \in DOMAIN view.interfaces :
        /\ remote.alts[n] = view.interfaces[n].alt
        /\ Describes(view.interfaces[n].pipes, n, remote.alts[n], view.config.dsc, pdo.speed)

(* As long as they agree, a transfer that goes out names an endpoint of    *)
(* the setting the device is in, with its direction, its interval and a    *)
(* type that suits the request: what MAKE_PIPE packs is what PIPE2... take *)
(* out.                                                                    *)
PipeReachesEndpoint ==
    (stage \in {"partial", "sent"} /\ urb.function \in Transfers /\ Agreed) =>
        LET hdr == wire.message.hdr
        IN  \E n \in DOMAIN remote.alts :
            \E ep \in Range(Endpoints(ConfigWith(remote.value).dsc, n, remote.alts[n])) :
                /\ ep.address = hdr.ep + (IF hdr.direction = "in" THEN 128 ELSE 0)
                /\ ep.interval = hdr.interval
                /\ (TypeOf(ep) = ISOCHRONOUS) = (urb.function = "ISOCH_TRANSFER")

(* The configuration with value 1 and the first settings: what             *)
(* store_urb_select_config asks the device for, whatever the request says. *)
AsksFirst == \/ urb.function = "SELECT_INTERFACE"
             \/ urb.config.value = 1 /\ \A i \in DOMAIN urb.infos : urb.infos[i].alt = 0

Touched == IF urb.function = "SELECT_INTERFACE" THEN {urb.info.number}
           ELSE Range(urb.config.numbers)

(* A selection that succeeds leaves the device in the settings the         *)
(* function driver is told of, if they are the first ones; one that the    *)
(* device refused changes nothing on either side.                          *)
SelectionTakesEffect ==
    [][stage = "sent" /\ stage' = "ended" /\ urb.function \in Select =>
        /\ result'.irp = "SUCCESS" /\ AsksFirst =>
            \A n \in Touched : remote'.alts[n] = view'.interfaces[n].alt
        /\ result'.status # "SUCCESS" => UNCHANGED <<pdo, view, remote>>]_vars

=============================================================================
