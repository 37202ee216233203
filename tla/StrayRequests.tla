---------------------------- MODULE StrayRequests ----------------------------
(***************************************************************************)
(* The keyboard and the mouse hand their bytes over in one buffer of the   *)
(* 8042 controller, and each byte raises the request of its device.  A     *)
(* request is stray when something other than its handler has read its     *)
(* byte.  The handler of a stray request reads all the same: what was read *)
(* last over again, or a byte of the other device, whose request is stray  *)
(* from then on.                                                           *)
(*                                                                         *)
(* Keyboard and Mouse, which each model one device and its handler, take   *)
(* this module for the rest of the machine; Interrupts, which models the   *)
(* two controllers and the code that polls and serves them, implements it. *)
(***************************************************************************)

Ports == {"keyboard", "mouse"}
Other(port) == IF port = "keyboard" THEN "mouse" ELSE "keyboard"

VARIABLE strays   \* the devices with a stray request

\* The polling of PS2MouseInit may leave a request of each.
SInit == strays \in SUBSET Ports

\* A stray request gets a byte of its own, or is served without one.
Settle(port) == /\ port \in strays
                /\ strays' = strays \ {port}

\* A stray request is served with a byte of the other device.
Pass(port) == /\ strays = {port}
              /\ strays' = {Other(port)}

SNext == \E port \in Ports : Settle(port) \/ Pass(port)
=============================================================================
