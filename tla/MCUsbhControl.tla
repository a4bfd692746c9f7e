--------------------------- MODULE MCUsbhControl ---------------------------
(* UsbhControl for TLC.                                                      *)
EXTENDS UsbhControl
MCAllFaults == AllFaults
MCErrors == {"error"}
MCStalls == {"stall"}
=============================================================================
