--------------------------- MODULE MCBleTransport ---------------------------
(* BleTransport for TLC: every constant gets its value in a .cfg.            *)
EXTENDS BleTransport
=============================================================================
