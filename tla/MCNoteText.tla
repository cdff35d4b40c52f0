----------------------------- MODULE MCNoteText -----------------------------
(***************************************************************************)
(* Notes of up to three blocks, with and without front matter.             *)
(***************************************************************************)
EXTENDS NoteText

CONSTANT MaxBlocks

Run(kind, toks) == [kind |-> kind, toks |-> toks]
Block(kind, level, lang, runs) == [kind |-> kind, level |-> level, lang |-> lang, runs |-> runs]
Para(runs) == Block("para", 0, <<>>, runs)
Fence(lang, toks) == Block("fence", 0, lang, <<Run("text", toks)>>)
Break == Run("break", <<>>)
LinkB == <<"[[", "b", "]]">>

Blocks == {
  Para(<<Run("text", <<"a">>)>>),
  Para(<<Run("text", <<"a", "a", " ", "b", "b", "b", "b", "b", "b", "b", "b", "b", "b", "b">>)>>),
  Para(<<Run("text", <<"#", "a", " ", "!">> \o LinkB), Run("code", LinkB)>>),
  Para(<<Run("text", <<"[[", "a">>), Run("code", <<"#", "b">>), Run("text", <<"]]", " ", "#", "1">>)>>),
  Para(<<Run("text", <<"[[", "a">>), Break, Run("text", LinkB)>>),
  Para(<<Run("text", <<"[[", "c", "::", "./", "b", "#", "a", "|", "c", "]]">>), Run("link", <<"c">>)>>),
  Block("list", 0, <<>>, <<Run("text", <<"a", "a", " ", "a">>)>>),
  Block("head", 1, <<>>, <<Run("text", <<"a">>)>>),
  Block("head", 2, <<>>, <<Run("text", <<"b">>)>>),
  Block("head", 1, <<>>, <<Run("text", <<>>)>>),
  Fence(<<>>, LinkB),
  Fence(<<"mermaid">>, <<"graph", " ", "a", "-->", "b">>),
  Block("html", 0, <<>>, <<Run("text", LinkB)>>)}

\* Two lists in a row would be one.
Notes ==
  {[front |-> front, blocks |-> blocks] :
     front \in {"none", "closed", "listed", "open"},
     blocks \in {bs \in UNION {[1..n -> Blocks] : n \in 0..MaxBlocks} :
                   \A i \in 1..(Len(bs) - 1) : ~(bs[i].kind = "list" /\ bs[i + 1].kind = "list")}}
=============================================================================
