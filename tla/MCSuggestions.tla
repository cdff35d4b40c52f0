--------------------------- MODULE MCSuggestions ---------------------------
(***************************************************************************)
(* Two subjects, "x" and "y", more alike to themselves than to each other. *)
(***************************************************************************)
EXTENDS Suggestions

Alike(a, b) == IF a = b THEN 3 ELSE 2
NoteContents == {<<>>, <<"x">>, <<"y", "x">>}
OnePassage == {<<"x">>, <<"y">>}
=============================================================================
