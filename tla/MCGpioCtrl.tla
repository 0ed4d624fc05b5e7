----------------------------- MODULE MCGpioCtrl -----------------------------
(* Small instances of the GPIO driver of lab 03.                           *)
EXTENDS GpioCtrl

(* Every interval in range and the two next to the ends of the range.      *)
MCPollWrites == (MIN_POLL_MS - 1)..(MAX_POLL_MS + 1)

(* One interval that is refused, one that is accepted.                     *)
MCTwoPollWrites == {MIN_POLL_MS - 1, MAX_POLL_MS}
=============================================================================
