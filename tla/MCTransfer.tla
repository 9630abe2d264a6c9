----------------------------- MODULE MCTransfer -----------------------------
(***************************************************************************)
(* Instances of Transfer for TLC: a device with two configurations.        *)
(***************************************************************************)
EXTENDS Transfer

Interface(number, alt, endpoints) ==
    [type |-> "interface", number |-> number, alt |-> alt, endpoints |-> endpoints]

Endpoint(address, attributes, size, more) ==
    [type |-> "endpoint", address |-> address, attributes |-> attributes,
     size |-> size, more |-> more, interval |-> 4]

ClassSpecific == [type |-> "class"]

(* A bulk interface, and one that has no endpoints until its second        *)
(* setting is chosen.                                                      *)
Camera == [value |-> 1, numbers |-> <<0, 1>>,
    dsc |-> <<Interface(0, 0, 2), Endpoint(2, BULK, 512, 0), ClassSpecific,
                                  Endpoint(129, INTERRUPT, 1024, 1),
              Interface(1, 0, 0), ClassSpecific,
              Interface(1, 1, 2), Endpoint(131, 4 + ISOCHRONOUS, 1024, 2),
                                  Endpoint(4, ISOCHRONOUS, 1023, 0)>>]

(* The interface without endpoints comes first.                            *)
Modem == [value |-> 2, numbers |-> <<0, 1>>,
    dsc |-> <<Interface(0, 0, 0), Interface(1, 0, 1), Endpoint(130, BULK, 64, 0),
              Interface(1, 1, 2), Endpoint(130, BULK, 64, 0), Endpoint(5, BULK, 64, 0)>>]

Configs == {Camera, Modem}
Offsets == {<<0>>, <<0, 1>>, <<1, 0>>}

=============================================================================
