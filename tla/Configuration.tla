---------------------------- MODULE Configuration ----------------------------
(***************************************************************************)
(* How the driver reads a configuration descriptor when the function       *)
(* driver selects a configuration or an alternate setting, and how it      *)
(* packs an endpoint into a pipe handle and takes it out again.            *)
(*                                                                         *)
(* A configuration descriptor is a sequence of descriptors in the order    *)
(* they have in memory: of an interface [type, number, alt, endpoints], of *)
(* an endpoint [type, address, attributes, size, more, interval] with the  *)
(* two fields of wMaxPacketSize, or of another type, which is skipped.     *)
(***************************************************************************)
EXTENDS Integers, SequencesExt

CONSTANT PointerBits \* of the build: 32 or 64

ASSUME PointerAssumption == PointerBits \in {32, 64}

(* Endpoint types, as in bmAttributes.                                     *)
ISOCHRONOUS == 1
BULK        == 2
INTERRUPT   == 3

(* Mutant: the address keeps its direction bit.                            *)
PIPE2ADDRRaw(pipe) == pipe % 256

(* Pipe handles, vhci_devconf.c:12 and usbreq.h:10-13.                     *)
MAKE_PIPE(address, type, interval) == address + 256 * interval + 65536 * type
PIPE2DIRECT(pipe)   == IF (pipe \div 128) % 2 = 1 THEN "in" ELSE "out"
PIPE2ADDR(pipe)     == pipe % 128
PIPE2TYPE(pipe)     == (pipe \div 65536) % 256
PIPE2INTERVAL(pipe) == (pipe \div 256) % 256

(* The first descriptor of a type from a place on; 0 when there is none.   *)
USBD_ParseDescriptors(dsc, start, type) ==
    SelectInSubSeq(dsc, start, Len(dsc), LAMBDA d : d.type = type)

(* Also what USBD_ParseConfigurationDescriptorEx finds in setup_intf.      *)
dsc_find_intf(dsc, number, alt) ==
    SelectInSeq(dsc, LAMBDA d : /\ d.type = "interface"
                                /\ d.number = number
                                /\ d.alt = alt)

wMaxPacketSize(ep) == ep.size + 2048 * ep.more

(* The low two bits of bmAttributes.                                       *)
TypeOf(ep) == ep.attributes % 4

(* The two bits above the packet size count additional packets per         *)
(* microframe of a high-speed isochronous endpoint.                        *)
PacketSize(ep, speed) ==
    IF TypeOf(ep) = ISOCHRONOUS /\ speed = "high"
    THEN (wMaxPacketSize(ep) % 2048) * (1 + ((wMaxPacketSize(ep) \div 2048) % 4))
    ELSE wMaxPacketSize(ep)

set_pipe(ep, speed) ==
    [EndpointAddress   |-> ep.address,
     PipeType          |-> TypeOf(ep),
     Interval          |-> ep.interval,
     MaximumPacketSize |-> PacketSize(ep, speed),
     PipeHandle        |-> MAKE_PIPE(ep.address, TypeOf(ep), ep.interval)]

(* Mutant: the walk does not go on to the next descriptor.                 *)
EndpointPlacesStuck(dsc, start, n) ==
    [i \in 1 .. n |-> USBD_ParseDescriptors(dsc, start, "endpoint")]

(* The places of the first n endpoint descriptors after the interface's;   *)
(* the walk does not stop at the next interface.                           *)
EndpointPlaces(dsc, start, n) ==
    LET place[i \in 0 .. n] ==
            CASE i = 0 -> start
              [] i > 0 /\ place[i - 1] = 0 -> 0
              [] OTHER -> USBD_ParseDescriptors(dsc, place[i - 1] + 1, "endpoint")
    IN  [i \in 1 .. n |-> place[i]]

Setup(status, pipes) == [status |-> status, pipes |-> pipes]

setup_endpoints(n, dsc, start, speed) ==
    LET places == EndpointPlaces(dsc, start, n)
    IN  IF \E i \in 1 .. n : places[i] = 0
        THEN Setup("INVALID_DEVICE_REQUEST", <<>>)
        ELSE Setup("SUCCESS", [i \in 1 .. n |-> set_pipe(dsc[places[i]], speed)])

(* info is a USBD_INTERFACE_INFORMATION: [number, alt, pipes, fits], with  *)
(* the number of pipes it announces and the number its Length has room     *)
(* for, -1 when not even the part before the pipes fits.                   *)
setup_intf(info, dsc, speed) ==
    LET place == dsc_find_intf(dsc, info.number, info.alt)
    IN  IF info.fits < 0 THEN Setup("SUCCESS", <<>>)
        ELSE IF place = 0 THEN Setup("INVALID_DEVICE_REQUEST", <<>>)
        ELSE IF dsc[place].endpoints # info.pipes THEN Setup("INVALID_DEVICE_REQUEST", <<>>)
        ELSE IF info.fits < info.pipes THEN Setup("INVALID_PARAMETER", <<>>)
        ELSE setup_endpoints(info.pipes, dsc, place, speed)

(* NEXT_USBD_INTERFACE_INFO computes NumberOfPipes - 1 in an unsigned      *)
(* 32-bit type: without pipes it leads back over the array of one pipe     *)
(* when pointers have 32 bits, and far beyond the request when they have   *)
(* 64.                                                                     *)
Reached(infos, i) == \A j \in 1 .. i - 1 : infos[j].pipes > 0 \/ PointerBits = 32

(* The walk over the interfaces of the request; "lost" when it leaves the  *)
(* request.                                                                *)
select_config(dsc, infos, speed) ==
    LET one  == [i \in DOMAIN infos |-> setup_intf(infos[i], dsc, speed)]
        bad  == {i \in DOMAIN infos : ~Reached(infos, i) \/ one[i].status # "SUCCESS"}
    IN  IF bad = {} THEN Setup("SUCCESS", [i \in DOMAIN infos |-> one[i].pipes])
        ELSE IF ~Reached(infos, Min(bad)) THEN Setup("lost", <<>>)
        ELSE one[Min(bad)]

(* handle names the setting the interface had, info the one it is to have. *)
select_interface(dsc, handle, info, speed) ==
    IF dsc_find_intf(dsc, handle.number, handle.alt) = 0
    THEN Setup("INVALID_PARAMETER", <<>>)
    ELSE setup_intf(info, dsc, speed)

(***************************************************************************)
(* Reference definitions for the properties.                               *)
(***************************************************************************)
SettingPlaces(dsc, number, alt) ==
    {i \in DOMAIN dsc : /\ dsc[i].type = "interface"
                        /\ dsc[i].number = number /\ dsc[i].alt = alt}

(* The endpoint descriptors between an interface descriptor and the next.  *)
EndpointsBehind(dsc, place) ==
    {j \in place + 1 .. Len(dsc) :
        /\ dsc[j].type = "endpoint"
        /\ \A i \in place + 1 .. j : dsc[i].type # "interface"}

(* The descriptors of the endpoints of a setting, in their order.          *)
Endpoints(dsc, number, alt) ==
    LET places == EndpointsBehind(dsc, Min(SettingPlaces(dsc, number, alt)))
        nth(n) == CHOOSE j \in places : Cardinality({i \in places : i <= j}) = n
    IN  [n \in 1 .. Cardinality(places) |-> dsc[nth(n)]]

(* The bytes an endpoint moves in a (micro)frame.                          *)
BytesPerFrame(ep) == ep.size * (1 + ep.more)

=============================================================================
