----------------------------- MODULE MCUsbhHub -----------------------------
(* UsbhHub for TLC.                                                          *)
EXTENDS UsbhHub
=============================================================================
