--------------------------- MODULE MCSanitization ---------------------------
(* A disk, an SSD, a self-encrypting drive, a stick, a system disk and a   *)
(* blocked one.                                                            *)
EXTENDS Sanitization

Device(media, system, blocked) ==
  [media |-> media, system |-> system, blocked |-> blocked]

MCTargets == {Device("Hdd", FALSE, FALSE), Device("Nvme", FALSE, FALSE),
              Device("Sed", FALSE, FALSE), Device("Usb", FALSE, FALSE),
              Device("Hdd", TRUE, FALSE), Device("Hdd", FALSE, TRUE)}

=============================================================================
