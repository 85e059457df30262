--------------------------- MODULE MCFirstInstall ---------------------------
(* Two boards on two ports, one die at a time: with a bootloader of its    *)
(* own or without, from each builder.                                      *)
EXTENDS FirstInstall, TLC

CONSTANTS b1, b2, id1, id2

Kind(die, boot, builder, helper, configured) ==
    [die |-> die, boot |-> boot, builder |-> builder, helper |-> helper, configured |-> configured]

AllTypes ==
    {Kind("stm32", TRUE, "kconfig", "none", {}), Kind("stm32", FALSE, "kconfig", "none", {}),
     Kind("rp2040", TRUE, "kconfig", "none", {}), Kind("rp2040", FALSE, "kconfig", "none", {}),
     Kind("rp2040", FALSE, "kconfig", "klipper", {}), Kind("rp2040", FALSE, "cmake", "klipper", {}),
     Kind("esp32", FALSE, "platformio", "none", {b2})}

AllLists == {<<"flashtool">>, <<"dfu_util", "bootsel">>, <<"platformio">>}

\* Two boards whose ROMs name them apart, or give one placeholder to both.
AllRomIds == {(b1 :> id1) @@ (b2 :> id2), [b \in Board |-> id1]}

Ports == Permutations(Port)
=============================================================================
