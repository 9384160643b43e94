----------------------------- MODULE MCFirmware -----------------------------
(* A small instance of Firmware: three versions, images of two chunks, and   *)
(* enough resets for an update, its roll-back and the way into safe mode.    *)
EXTENDS Firmware
=============================================================================
