---------------------------- MODULE NoteDocument ----------------------------
(***************************************************************************)
(* A note as text.  A document is what somebody wrote: front matter and a  *)
(* sequence of blocks.  Source is its text, a sequence of tokens, each of  *)
(* which counts for one character; Events is what the CommonMark parser    *)
(* makes of the body, with ranges <<first, last + 1>> counted from the     *)
(* start of the body.                                                      *)
(***************************************************************************)
EXTENDS Integers, Sequences, FiniteSets, SequencesExt

\* A run is [kind |-> "text" | "code" | "link" | "break", toks]; a block is
\* [kind |-> "para" | "list" | "head" | "fence" | "html", level, lang, runs].
Ev(kind, from, to, level, lang) ==
  [kind |-> kind, from |-> from, to |-> to, level |-> level, lang |-> lang]
Mark(kind) == Ev(kind, 0, 0, 0, <<>>)

RunSource(run) ==
  CASE run.kind = "text"  -> run.toks
    [] run.kind = "code"  -> <<"tick">> \o run.toks \o <<"tick">>
    [] run.kind = "link"  -> <<"[">> \o run.toks \o <<"](">> \o run.toks \o <<")">>
    [] run.kind = "break" -> <<"nl">>

\* at: how many tokens of the body there are before the run.
RunEvents(run, at) ==
  LET n == Len(run.toks)
  IN  CASE run.kind = "text"  -> <<Ev("text", at + 1, at + n + 1, 0, <<>>)>>
        [] run.kind = "code"  -> <<Ev("code", at + 1, at + n + 3, 0, <<>>)>>
        [] run.kind = "link"  -> <<Ev("link", at + 1, at + 2 * n + 4, 0, <<>>),
                                   Ev("text", at + 2, at + n + 2, 0, <<>>)>>
        [] run.kind = "break" -> <<Mark("break")>>

\* Both at once, appended to what there is.
Put(r, src, evs) == [src |-> r.src \o src, evs |-> r.evs \o evs]
PutRuns(r, runs) ==
  FoldLeft(LAMBDA acc, run : Put(acc, RunSource(run), RunEvents(run, Len(acc.src))), r, runs)

PutBlock(r, block) ==
  CASE block.kind = "para"  -> Put(PutRuns(Put(r, <<>>, <<Mark("start")>>), block.runs),
                                   <<"nl", "nl">>, <<Mark("end")>>)
    [] block.kind = "list"  -> Put(PutRuns(Put(r, <<"-", " ">>, <<Mark("start")>>), block.runs),
                                   <<"nl", "nl">>, <<Mark("end")>>)
    [] block.kind = "head"  -> Put(PutRuns(Put(r, [i \in 1..block.level |-> "#"] \o <<" ">>,
                                               <<Ev("head", 0, 0, block.level, <<>>)>>),
                                           block.runs),
                                   <<"nl">>, <<Mark("endHead")>>)
    [] block.kind = "fence" ->
         LET toks  == block.runs[1].toks
             first == Len(r.src) + Len(block.lang) + 3
         IN  Put(r, <<"fence">> \o block.lang \o <<"nl">> \o toks \o <<"nl", "fence", "nl">>,
                 <<Ev("fence", Len(r.src) + 1, first + Len(toks) + 3, 0, block.lang),
                   Ev("text", first, first + Len(toks), 0, <<>>), Mark("endFence")>>)
    [] block.kind = "html"  ->
         LET toks == block.runs[1].toks
         IN  Put(r, <<"<">> \o toks \o <<">", "nl", "nl">>,
                 <<Ev("html", Len(r.src) + 1, Len(r.src) + Len(toks) + 3, 0, <<>>)>>)

\* front: "none", "closed" or "listed" (a tag on its line, or in a list), or "open": a
\* fence that is never closed.
FrontMatter(d) ==
  CASE d.front = "none"   -> <<>>
    [] d.front = "closed" -> <<"---", "nl", "tags:", " ", "b", "nl", "---", "nl">>
    [] d.front = "listed" -> <<"---", "nl", "tags:", "nl", "-", " ", "b", "nl", "---", "nl">>
    [] d.front = "open"   -> <<"---", "nl">>
Body(d) ==
  FoldLeft(PutBlock,
           IF d.front = "open" THEN [src |-> <<"---", "nl">>, evs |-> <<Mark("rule")>>]
           ELSE [src |-> <<>>, evs |-> <<>>], d.blocks)
Source(d) == (IF d.front = "open" THEN <<>> ELSE FrontMatter(d)) \o Body(d).src
Events(d) == Body(d).evs
=============================================================================
