--------------------------- MODULE MCAcquisition ---------------------------
(* Instances of Acquisition for TLC.  Five sectors in chunks of two leave  *)
(* a short last chunk; sector 1 is flaky, sector 3 unreadable.             *)
EXTENDS Acquisition

MCConfig  == [chunk |-> 2, min |-> 1, interval |-> 2]
MCDefault == [chunk |-> 3, min |-> 2, interval |-> 3]

MCProfiles == {Physical, <<1, 9>>, <<3, 2>>}
=============================================================================
