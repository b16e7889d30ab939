-------------------------- MODULE MCCommandChannel --------------------------
(***************************************************************************)
(* CommandChannel for TLC: commands that differ in their data, callbacks   *)
(* that echo the data or refuse.                                           *)
(***************************************************************************)
EXTENDS CommandChannel

MCAnswers(h, cmd) ==
  IF h = "echo" THEN {[reply_verb |-> "SEND", reply_data |-> cmd.command_data]}
  ELSE {[reply_verb |-> "SEND", reply_data |-> d] : d \in {"SEND", "CAN"}}
=============================================================================
