---------------------------- MODULE MCSupervisor ----------------------------
(* The chat turn for TLC. *)
EXTENDS Supervisor

\* A tool the loop may call, and one to confirm.
MCBatches == {<<"plain">>, <<"confirm">>}
=============================================================================
