------------------------------ MODULE MCHosts ------------------------------
(***************************************************************************)
(* Two clients that get in each other's way: what starts against what      *)
(* stops it, what a CLI command's host refuses, and a window.              *)
(***************************************************************************)
EXTENDS Hosts

CONSTANTS c1, c2

ASSUME Clients = {c1, c2}

They(a, b) == (c1 :> a) @@ (c2 :> b)

MCWants ==
    {They("start", "stop"), They("start", "takeover"), They("start", "edit"),
     They("edit", "select"), They("toggle", "stop"), They("export", "exportCancel"),
     They("export", "start"), They("export", "export"), They("export", "takeover"),
     They("takeover", "takeover")}
=============================================================================
