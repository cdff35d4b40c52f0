---------------------------- MODULE MCGraphView ----------------------------
(***************************************************************************)
(* Two notes of a folder and one at the root.                              *)
(***************************************************************************)
EXTENDS GraphView, TLC

CONSTANTS n1, n2, n3

A == <<"f", "a">>
B == <<"f", "b">>
C == <<"c">>
Paths3   == {A, B, C, <<"g", "a">>, <<"g", "b">>, <<"d">>}
FoldersM == {<<"f">>, <<"g">>}
Order == [p \in Paths3 |-> Len(p) * 4 + (IF Stem(p) \in {"a", "c"} THEN 0 ELSE 1)
                                      + (IF p[1] = "g" THEN 2 ELSE 0)]

To(key)          == [key |-> key, label |-> None, more |-> "nothing"]
Says(key, label) == [To(key) EXCEPT !.label = label]
At3(a, b, c) ==
  [p \in {A, B, C} |-> IF p = A THEN [id |-> n1, doc |-> a]
                       ELSE IF p = B THEN [id |-> n2, doc |-> b] ELSE [id |-> n3, doc |-> c]]

\* A link from a note of the folder to an earlier one is never by the whole path.
Ahead == {At3(<<To(B)>>, <<Says(C, "cites")>>, <<To(A), To(<<"b">>)>>),
          At3(<<To(<<"d">>), Says(C, "cites")>>, <<To(<<"a">>)>>,
              <<[Says(<<"b">>, "cites") EXCEPT !.more = "anchor"]>>)}
\* One such link.
Back == {At3(<<>>, <<To(A)>>, <<>>)}

Near == {[pair |-> <<n1, n2>>, score |-> 3], [pair |-> <<n2, n1>>, score |-> 2],
         [pair |-> <<n3, n1>>, score |-> 1]}
=============================================================================
