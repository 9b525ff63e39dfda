--------------------------- MODULE MCUringDevice ---------------------------
(***************************************************************************)
(* TLC instance of UringDevice.                                            *)
(***************************************************************************)
EXTENDS UringDevice
=============================================================================
