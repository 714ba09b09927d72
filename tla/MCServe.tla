-------------------------------- MODULE MCServe --------------------------------
(* Two peers, one of them in the keyring.                                  *)
EXTENDS ServeConsole
CONSTANTS p1, p2
MCPeers == {p1, p2}
MCGranted == {p1}
MCProcs == {"whoami", "serve"}
===============================================================================
