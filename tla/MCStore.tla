------------------------------ MODULE MCStore ------------------------------
(***************************************************************************)
(* One take, two scenes, two entries; one is compacted away.  Store.cfg    *)
(* has a crash, or two failing writes, or one and an edit by hand.         *)
(***************************************************************************)
EXTENDS ProjectStore

CrashOrTwo == {<<0, 1, 0>>} \cup {<<f, 0, 0>> : f \in 0 .. 2} \cup {<<f, 0, 1>> : f \in 0 .. 1}
OneFault   == {<<1, 0, 0>>}
OneEdit    == {<<0, 0, 1>>}
=============================================================================
