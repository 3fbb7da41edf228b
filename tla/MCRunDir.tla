------------------------------ MODULE MCRunDir ------------------------------
(* Small instances of RunDir. *)
EXTENDS RunDir

MCPids == 1..2
MCNames == {<<"a">>}
MCOptions == {{"profile", "name"}, {"profile", "net", "x11"}, {"name"}}
=============================================================================
