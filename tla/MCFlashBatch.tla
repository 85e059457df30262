---------------------------- MODULE MCFlashBatch ----------------------------
(* A bare board in DFU mode, written without an outage, then a CAN node, a *)
(* USB board and a USB-CAN bridge within one.                              *)
EXTENDS FlashBatch

CONSTANTS dfu, usb, can, bridge, flashtool, dfuutil

MCPlace == [b \in Board |-> IF b = can THEN 1 ELSE IF b = dfu THEN 2
                         ELSE IF b = usb THEN 3 ELSE 4]
MCFlasherOf == [b \in Board |-> IF b = dfu THEN dfuutil ELSE flashtool]
MCKind == [b \in Board |-> IF b = dfu THEN "dfu" ELSE IF b = can THEN "native"
                        ELSE IF b = usb THEN "usb" ELSE "bridge"]
AllKnown == [b \in Board |-> TRUE]
=============================================================================
