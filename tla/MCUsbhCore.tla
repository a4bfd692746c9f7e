---------------------------- MODULE MCUsbhCore ----------------------------
(* UsbhCore for TLC.                                                         *)
EXTENDS UsbhCore
MCAllUpsets == AllUpsets
MCUnplug == {"unplug"}
=============================================================================
