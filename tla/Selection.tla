------------------------------ MODULE Selection ------------------------------
(* Which flasher writes a device: flashers/registry.py over the four       *)
(* flashers' own answers. A family is a list of flashers and a helper; a   *)
(* device is its kind, chipset and state; what a build staged is a set of  *)
(* images, one per kind. A refusal is the set of the fixes its sentence    *)
(* names, so that following one is an edit of the configuration.           *)
EXTENDS Naturals, Sequences

FLASHERS == {"flashtool", "platformio", "dfu_util", "bootsel"}

\* What each flasher takes, and the boot ROM the three scanners write through.
accepts == [flashtool |-> "bin", platformio |-> "pio_env", dfu_util |-> "bin", bootsel |-> "uf2"]
rom == [platformio |-> "esp_rom", dfu_util |-> "dfu", bootsel |-> "bootsel"]

candidate_scanner == DOMAIN rom
first_writer == {"platformio"}

Helpers == {"none", "klipper"}

\* The helper that can ask a running board for BOOTSEL.
bootsel_requester(helper) == helper = "klipper"

flashtool_supports(device) ==
    device.kind \in {"serial", "canbus_uuid"} /\ device.chip \in {"stm32", "rp2040", "lpc176"}

platformio_supports(device) ==
    \/ device.kind = "port"
    \/ device.kind = "bare" /\ device.state = "esp_rom" /\ device.chip = "esp32"

dfu_util_supports(device) ==
    device.kind = "bare" /\ device.state = "dfu" /\ device.chip = "stm32"

\* Through a helper the chipset is not asked: the helper answers for its board.
bootsel_supports(device, helper) ==
    IF device.state = "bootsel" THEN device.chip = "rp2040"
    ELSE device.kind = "serial" /\ bootsel_requester(helper)

supports(f, device, helper) ==
    \/ f = "flashtool" /\ flashtool_supports(device)
    \/ f = "platformio" /\ platformio_supports(device)
    \/ f = "dfu_util" /\ dfu_util_supports(device)
    \/ f = "bootsel" /\ bootsel_supports(device, helper)

\* The least of a set of positions: "the first in list order".
earliest(positions) == CHOOSE i \in positions : \A j \in positions : i <= j

first_of(staged, kind) == CHOOSE image \in staged : image.kind = kind

\* Where in the list a flasher supports the device and was staged its kind.
writers(listed, device, helper, staged) ==
    {i \in DOMAIN listed : /\ supports(listed[i], device, helper)
                           /\ \E image \in staged : image.kind = accepts[listed[i]]}

\* The flasher that writes the device, or "nobody".
resolve(listed, device, helper, staged) ==
    LET able == writers(listed, device, helper, staged)
    IN  IF able = {} THEN "nobody" ELSE listed[earliest(able)]

\* Those that could write it had its image been staged.
unstaged(listed, device, helper) ==
    {i \in DOMAIN listed : supports(listed[i], device, helper)}

\* Mutant: names bootsel, which a helper must ask for, alone.
ListBootsel(listed, device, helper) == {"list_bootsel"}

\* The edit that would bring bootsel to a device with a staged .uf2.
bootsel_route(listed, device, helper) ==
    IF device.kind # "serial" THEN {}
    ELSE IF bootsel_requester(helper) THEN {"list_bootsel"}
    ELSE IF helper # "none" THEN {}
    ELSE IF \E i \in DOMAIN listed : listed[i] = "bootsel" THEN {"add_helper"}
    ELSE {"list_bootsel_and_helper"}

\* What a refusal tells the user to do; a kconfig build alone has an offset.
refusal_error(listed, device, helper, staged, builder) ==
    LET waiting == unstaged(listed, device, helper)
        kinds == IF builder = "kconfig" THEN {image.kind : image \in staged} ELSE {}
    IN  IF waiting = {} THEN {}
        ELSE IF "bin" \in kinds /\ "uf2" \notin kinds THEN {"no_offset", "list_flashtool"}
        ELSE IF "uf2" \in kinds /\ "bin" \notin kinds
             THEN {"some_offset"} \cup bootsel_route(listed, device, helper)
        ELSE {"build"}

\* A target or a refusal, as every single-device and batch caller gets it.
select(listed, device, helper, staged, builder) ==
    LET f == resolve(listed, device, helper, staged)
    IN  [flasher |-> f,
         fix |-> IF f = "nobody" THEN refusal_error(listed, device, helper, staged, builder) ELSE {}]

bare(chip, f) == [kind |-> "bare", chip |-> chip, state |-> rom[f]]

\* The line to add when the list lacks the one flasher this boot ROM takes.
no_first_install_writer(f) ==
    {[platformio |-> "list_platformio", dfu_util |-> "list_dfu_util", bootsel |-> "list_bootsel"][f]}

\* Who sets a bare board of this chipset up, and what to do when nobody does.
first_install(listed, chip) ==
    LET scanners == {i \in DOMAIN listed : listed[i] \in candidate_scanner}
        able == {i \in scanners : supports(listed[i], bare(chip, listed[i]), "none")}
        others == {f \in candidate_scanner \ {listed[i] : i \in DOMAIN listed} :
                       supports(f, bare(chip, f), "none")}
    IN  IF able # {} THEN [flasher |-> listed[earliest(able)], fix |-> {}]
        ELSE [flasher |-> "nobody",
              fix |-> IF scanners # {} /\ chip = "" THEN {"set_chipset"}
                      ELSE IF others # {} THEN no_first_install_writer(CHOOSE f \in others : TRUE)
                      ELSE {}]
=============================================================================
