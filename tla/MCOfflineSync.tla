--------------------------- MODULE MCOfflineSync ---------------------------
(***************************************************************************)
(* A vault of one note, and room for a second.                             *)
(***************************************************************************)
EXTENDS OfflineSync

Notes == {<<"a">>, <<"b">>}
Vault == {<<"a">>}
=============================================================================
