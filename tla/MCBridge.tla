------------------------------ MODULE MCBridge ------------------------------
(* The bridge alone: the PC asks for the options and sets them.              *)
EXTENDS AquilaBridge

Questions == {<<CMD_PING>>, <<CMD_GET_OPT>>, <<CMD_SET_OPT, 0, 91, 202, 20, 192, 0>>}

NothingReceived == {}

LineNoise == {0, SLIP_END, SLIP_ESC}

=============================================================================
