---------------------------- MODULE MCWorkspace ----------------------------
(* Two notes, a free name and one note to create. *)
EXTENDS Workspace
CONSTANTS pa, pb, pc, new
MCPaths == {pa, pb, pc}
MCBirth == {pa, pb}
MCFresh == {new}
Patience == {}
Impatience == {"loading"}
=============================================================================
