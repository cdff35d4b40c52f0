------------------------- MODULE MCOfflineSession --------------------------
(***************************************************************************)
(* A vault of two notes, one of them in a folder, and room for a second    *)
(* note at the top, a second folder, and the note moved into it.           *)
(***************************************************************************)
EXTENDS OfflineSession

Folders == {<<"f">>, <<"g">>}
Notes   == {<<"a">>, <<"b">>, <<"f", "a">>, <<"g", "a">>}
Vault   == {<<"a">>, <<"f">>, <<"f", "a">>}
=============================================================================
