-------------------------- MODULE MCGpioController --------------------------
(* The instance of GpioController for TLC: its constants are model values. *)
EXTENDS GpioController
=============================================================================
