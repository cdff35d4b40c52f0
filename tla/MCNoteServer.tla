---------------------------- MODULE MCNoteServer ---------------------------
(***************************************************************************)
(* Three paths, of which two are notes at first; texts can link to the     *)
(* second, as the first does.                                              *)
(***************************************************************************)
EXTENDS NoteServer

Notes   == {<<"a">>, <<"b">>, <<"c">>}
TwoNotes == {<<"a">>, <<"b">>}
Targets == {<<"b">>}
Requests == Permutations(Req)
AtFirst == [p \in TwoNotes |->
              IF p = <<"a">> THEN [id |-> 0, link |-> <<"b">>] ELSE [id |-> -1, link |-> Nothing]]
=============================================================================
