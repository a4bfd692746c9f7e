---------------------------- MODULE MCUsbhPipes ----------------------------
(* UsbhPipes with a table that a hub and two children can exhaust: root 2    *)
(* control pipes + 1 interrupt pipe, each child 2 + 2, is 11 numbers.        *)
EXTENDS UsbhPipes, TLC
Ports == Permutations(Children)
=============================================================================
