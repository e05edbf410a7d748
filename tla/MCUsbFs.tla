------------------------------ MODULE MCUsbFs ------------------------------
(***************************************************************************)
(* The instance of UsbFs that TLC checks: packets of two units, a          *)
(* descriptor of two packets and one that ends with a full packet, one     *)
(* that the device does not have, and one request of each other kind that  *)
(* the device treats differently.                                          *)
(***************************************************************************)
EXTENDS UsbFs

Lengths == [config |-> 3, string |-> 2]

Get(d, n) == [kind |-> "descriptor", desc |-> d, len |-> n]
Ask(k, n) == [kind |-> k, desc |-> "none", len |-> n]

SomeRequests ==
    {Get("config", 4), Get("string", 4), Get("qualifier", 2),
     Ask("address", 0), Ask("configuration", 0), Ask("read", 1),
     Ask("line", 1), Ask("state", 0), Ask("ask", 1)}
=============================================================================
