--------------------------- MODULE MCPackageChannel ---------------------------
(***************************************************************************)
(* PackageChannel for TLC: a client that connects to the proxy, which      *)
(* sends it what one publisher sends, and to another publisher; protocols  *)
(* C and CF, with sources that are missing and with a bar.                 *)
(***************************************************************************)
EXTENDS PackageChannel

C == 67
F == 70

MCLink == {<<"can", "proxy">>, <<"proxy", "client">>, <<"canfd", "client">>}

MCHeaderOf(p) ==
  IF p = "can" THEN [protocol_name |-> <<C>>, source |-> <<>>]
  ELSE [protocol_name |-> <<C, F>>, source |-> <<F, Bar>>]

(* Room for a package on the link of a publisher, for two behind the proxy.*)
MCHighWater(l) == IF l[1] = "proxy" THEN 2 ELSE 1

MCTopic == {<<C>>, <<C, F>>}
=============================================================================
