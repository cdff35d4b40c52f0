------------------------------ MODULE NoteText ------------------------------
(***************************************************************************)
(* Reading a note: links and tags (crates/server/src/markdown.rs), then    *)
(* the passages an embedding model sees (crates/server/src/chunk.rs), and  *)
(* what a device off line reads in the same text                           *)
(* (crates/ui/src/offline/index.rs).                                       *)
(*                                                                         *)
(* The parser's events are walked one by one, then the text is scanned,    *)
(* then the events are walked again for the passages.  A character is its  *)
(* position in the body; Space and Newline are those the code puts in.     *)
(***************************************************************************)
EXTENDS NoteDocument, Functions

CONSTANTS
  Docs,                          \* the notes
  MinChars, DEFAULT_CHUNK_CHARS, \* the shortest passage worth embedding, and the longest
  MAX_RELATION

MaxChars == IF DEFAULT_CHUNK_CHARS < MinChars THEN MinChars ELSE DEFAULT_CHUNK_CHARS

ASSUME NoteTextAssumption == {MinChars, DEFAULT_CHUNK_CHARS, MAX_RELATION} \subseteq Nat \ {0}

VARIABLES
  doc, source, events,
  phase, at,     \* "walk", "scan", "chunk" or "done"; the next event or character
  inCode,        \* within a fence, for both walks
  text,          \* body_text: the characters that are searched
  mask,          \* ranges of the source the scan skips
  links, tags,
  current,       \* the passage under way
  headings, headingAtStart,      \* [level, text] that enclose; the path of the passage
  headingText,   \* the heading being read: [level, text], or NoHeading
  mermaid,       \* the diagram being read, or <<>>
  out            \* the passages: [heading, body, diagram]

parseVars == <<text, mask, links, tags>>
chunkVars == <<current, headings, headingAtStart, headingText, mermaid, out>>
vars == <<doc, source, events, phase, at, inCode, parseVars, chunkVars>>

NoHeading == [level |-> 0, text |-> <<>>]
Space   == 0
Newline == -1

-----------------------------------------------------------------------------
(***************************************************************************)
(* Front matter.                                                           *)
(***************************************************************************)
LineStarts(src) == {p \in DOMAIN src : p = 1 \/ src[p - 1] = "nl"}
Closers(src) == {p \in LineStarts(src) \ {1} : src[p] = "---" /\ (p < Len(src) => src[p + 1] = "nl")}
\* How many characters come before the body.
SplitFrontmatter(src) ==
  IF Len(src) >= 2 /\ src[1] = "---" /\ src[2] = "nl" /\ Closers(src) # {}
  THEN Min({Min(Closers(src)) + 1, Len(src)}) ELSE 0

Offset == SplitFrontmatter(source)
Tok(p) == source[Offset + p]

Trim(s) == LET solid == {i \in DOMAIN s : s[i] # " "}
           IN  IF solid = {} THEN <<>> ELSE SubSeq(s, Min(solid), Max(solid))
Before(s, t) == IF t \in Range(s) THEN SubSeq(s, 1, Min({i \in DOMAIN s : s[i] = t}) - 1) ELSE s
Line(src, l) == Before(SubSeq(src, l, Len(src)), "nl")
Rest(src, l) == Trim(Tail(Line(src, l)))

\* The lines of the list under a line.
Items(src, l) ==
  {m \in LineStarts(src) : m > l /\ \A k \in LineStarts(src) \cap (l + 1)..m : src[k] = "-"}
TagLines(src, end) == {l \in LineStarts(src) \cap 1..end : src[l] = "tags:"}
\* A list of tags, or words on one line.
FrontmatterTags(src) ==
  UNION {IF Rest(src, l) = <<>> THEN {Rest(src, m) : m \in Items(src, l)}
         ELSE {<<t>> : t \in Range(Rest(src, l)) \ {" "}} : l \in TagLines(src, SplitFrontmatter(src))}

-----------------------------------------------------------------------------
(***************************************************************************)
(* What is written between the brackets.                                   *)
(***************************************************************************)
IsAlpha(t) == t \in {"a", "b", "c"}
IsWord(t)  == IsAlpha(t) \/ t = "1"

After(s, t)  == SubSeq(s, Min({i \in DOMAIN s : s[i] = t}) + 1, Len(s))

IsRelationLabel(label) ==
  /\ Len(label) \in 1..MAX_RELATION /\ IsAlpha(label[1])
  /\ \A i \in DOMAIN label : IsWord(label[i]) \/ label[i] \in {" ", "-", "_"}
SplitRelation(inner) ==
  IF /\ "::" \in Range(inner) /\ IsRelationLabel(Trim(Before(inner, "::")))
     /\ Trim(After(inner, "::")) # <<>>
  THEN [relation |-> Trim(Before(inner, "::")), target |-> After(inner, "::")]
  ELSE [relation |-> <<>>, target |-> inner]

\* relation::target#anchor|alias, from the right.
ParseWikilink(inner) == SplitRelation(Before(Before(inner, "|"), "#"))

Lead(s, t) == CHOOSE n \in 0..Len(s) : /\ \A i \in 1..n : s[i] = t
                                      /\ n < Len(s) => s[n + 1] # t
Tail1(s, t) == IF s # <<>> /\ s[Len(s)] = t THEN SubSeq(s, 1, Len(s) - 1) ELSE s
NormalizeTargetKey(target) ==
  LET key == Trim(target) IN Trim(Tail1(SubSeq(key, Lead(key, "./") + 1, Len(key)), ".md"))

-----------------------------------------------------------------------------
(***************************************************************************)
(* The first walk: text, ordinary links, and what the scan must skip.      *)
(***************************************************************************)
Event == events[at]
Here(kinds) == phase = "walk" /\ at <= Len(events) /\ Event.kind \in kinds
Shift(e) == <<e.from + Offset, e.to + Offset>>
Span(from, to) == [i \in 1..(to - from) |-> from + i - 1]
Says(e)   == IF e.kind = "code" THEN Span(e.from + 1, e.to - 1) ELSE Span(e.from, e.to)
Masks(e)  == mask' = mask \cup {Shift(e)}
Reads(cs) == text' = text \o cs
Onward    == at' = at + 1 /\ UNCHANGED <<doc, source, events, phase, chunkVars, tags>>

WalkText ==
  /\ Here({"text"}) /\ Onward /\ UNCHANGED <<inCode, links>>
  /\ IF inCode THEN Masks(Event) /\ UNCHANGED text
     ELSE Reads(Says(Event)) /\ UNCHANGED mask
\* Mutant: inline code is read, and left to the scan.
WalkCode_Unmasked ==
  /\ Here({"code"}) /\ Reads(Says(Event)) /\ UNCHANGED mask
  /\ Onward /\ UNCHANGED <<inCode, links>>
WalkCode ==
  /\ Here({"code"}) /\ Reads(Says(Event)) /\ Masks(Event)
  /\ Onward /\ UNCHANGED <<inCode, links>>
WalkHtml == Here({"html"}) /\ Masks(Event) /\ Onward /\ UNCHANGED <<inCode, links, text>>
WalkFence ==
  /\ Here({"fence", "endFence"}) /\ inCode' = (Event.kind = "fence")
  /\ IF inCode' THEN Masks(Event) ELSE UNCHANGED mask
  /\ Onward /\ UNCHANGED <<links, text>>
WalkLink ==
  /\ Here({"link"})
  /\ LET dest == [i \in 1..((Event.to - Event.from - 3) \div 2) |-> Tok(Event.from + i)]
     IN  links' = links \cup {[kind |-> "markdown", key |-> NormalizeTargetKey(Before(dest, "#")),
                               relation |-> <<>>, from |-> Shift(Event)[1], to |-> Shift(Event)[2]]}
  /\ Onward /\ UNCHANGED <<inCode, text, mask>>
WalkBreak ==
  /\ Here({"break", "rule", "end", "endHead"}) /\ Reads(<<Newline>>)
  /\ Onward /\ UNCHANGED <<inCode, mask, links>>
WalkOther ==
  /\ Here({"start", "head"}) /\ Onward /\ UNCHANGED <<inCode, text, mask, links>>
WalkEnds ==
  /\ phase = "walk" /\ at > Len(events) /\ phase' = "scan" /\ at' = Offset + 1
  /\ UNCHANGED <<doc, source, events, inCode, parseVars, chunkVars>>

-----------------------------------------------------------------------------
(***************************************************************************)
(* The scan: wikilinks and tags, by positions of the source.               *)
(***************************************************************************)
Masked(p)   == \E r \in mask : p \in r[1]..(r[2] - 1)
Scanning    == phase = "scan" /\ at <= Len(source)
\* Mutant: a stray bracket takes the close of another line for its own.
Closes_Anywhere(p) == {q \in (p + 1)..Len(source) : source[q] = "]]"}
Closes(p)   == {q \in (p + 1)..Len(source) :
                  source[q] = "]]" /\ \A i \in p..q : source[i] # "nl"}
OpensLink   == source[at] = "[[" /\ Closes(at) # {}
IsTagChar(t) == IsWord(t) \/ t \in {"-", "_", "/"}
TagEnd(p)   == CHOOSE q \in p..Len(source) : /\ \A i \in (p + 1)..q : IsTagChar(source[i])
                                             /\ q < Len(source) => ~IsTagChar(source[q + 1])
TagName(s)  ==
  LET n == CHOOSE n \in 0..Len(s) : /\ \A i \in (n + 1)..Len(s) : s[i] \in {"-", "_", "/"}
                                    /\ n > 0 => s[n] \notin {"-", "_", "/"}
  IN  SubSeq(s, 1, n)
IsName(s)   == s # <<>> /\ \E i \in DOMAIN s : s[i] # "1"
TagAt(p)    == TagName(SubSeq(source, p + 1, TagEnd(p)))
OpensTag    == /\ source[at] = "#" /\ (at > 1 => source[at - 1] \in {" ", "nl", "(", "["})
               /\ IsName(TagAt(at))
ScanStays   == UNCHANGED <<doc, source, events, phase, inCode, text, mask, chunkVars>>

ScanLink ==
  /\ Scanning /\ ~Masked(at) /\ OpensLink
  /\ LET close == Min(Closes(at))
         inner == ParseWikilink(SubSeq(source, at + 1, close - 1))
         embed == at > Offset + 1 /\ source[at - 1] = "!"
     IN  /\ links' = IF Trim(inner.target) = <<>> THEN links ELSE links \cup
               {[kind |-> IF embed THEN "embed" ELSE "wikilink", key |-> NormalizeTargetKey(inner.target),
                 relation |-> inner.relation, from |-> IF embed THEN at - 1 ELSE at, to |-> close + 1]}
         /\ at' = close + 1
  /\ ScanStays /\ UNCHANGED tags
ScanTag ==
  /\ Scanning /\ ~Masked(at) /\ OpensTag
  /\ tags' = tags \cup {TagAt(at)} /\ at' = TagEnd(at) + 1
  /\ ScanStays /\ UNCHANGED links
ScanOn ==
  /\ Scanning /\ (Masked(at) \/ ~(OpensLink \/ OpensTag)) /\ at' = at + 1
  /\ ScanStays /\ UNCHANGED <<links, tags>>
ScanEnds ==
  /\ phase = "scan" /\ at > Len(source) /\ phase' = "chunk" /\ at' = 1 /\ inCode' = FALSE
  /\ tags' = tags \cup FrontmatterTags(source)
  /\ UNCHANGED <<doc, source, events, text, mask, links, chunkVars>>

-----------------------------------------------------------------------------
(***************************************************************************)
(* The second walk: runs of prose under a heading, cut at the cap.         *)
(***************************************************************************)
White(c)   == c \in {Space, Newline} \/ Tok(c) \in {" ", "nl"}
TrimText(s) == LET solid == {i \in DOMAIN s : ~White(s[i])}
               IN  IF solid = {} THEN <<>> ELSE SubSeq(s, Min(solid), Max(solid))
Flushed(s, diagram) ==
  IF Len(TrimText(s)) < MinChars THEN out
  ELSE Append(out, [heading |-> headingAtStart, body |-> TrimText(s), diagram |-> diagram])
Flushes(s) == out' = Flushed(s, FALSE)
SplitAtSpace(s) ==
  LET spaces == {i \in 1..MaxChars : s[i] = Space \/ (s[i] > 0 /\ Tok(s[i]) = " ")}
  IN  IF spaces = {} THEN MaxChars ELSE Max(spaces)
IsMermaid(lang) == lang = <<"mermaid">>
Declarations == {"graph"}
Directions   == {"TD"}
\* One line of a diagram: no declaration, no lone direction, blanks for the syntax.
ExtractMermaidLabels(s) ==
  LET line == IF s # <<>> /\ Tok(s[1]) \in Declarations THEN SubSeq(s, 2, Len(s)) ELSE s
      words == TrimText(line)
      put(acc, c) == IF IsWord(Tok(c)) \/ Tok(c) \in Directions THEN Append(acc, c)
                     ELSE IF acc = <<>> \/ acc[Len(acc)] = Space THEN acc ELSE Append(acc, Space)
  IN  IF Len(words) = 1 /\ Tok(words[1]) \in Directions THEN <<>>
      ELSE TrimText(FoldLeft(put, <<>>, words))

\* What was just pushed has not made the passage too long.
Pushed      == at > 1 /\ events[at - 1].kind \in {"text", "code"}
Whole       == Pushed => Len(current) <= 2 * MaxChars
Next1(kinds) == phase = "chunk" /\ at <= Len(events) /\ Event.kind \in kinds /\ Whole
ChunkOnward == at' = at + 1 /\ UNCHANGED <<doc, source, events, phase, parseVars>>
InHeading   == headingText # NoHeading

ChunkFence ==
  /\ Next1({"fence"}) /\ Flushes(current) /\ current' = <<>> /\ inCode' = TRUE
  /\ mermaid' = [on |-> IsMermaid(Event.lang), text |-> <<>>]
  /\ ChunkOnward /\ UNCHANGED <<headings, headingAtStart, headingText>>
ChunkEndFence ==
  /\ Next1({"endFence"}) /\ inCode' = FALSE /\ mermaid' = [mermaid EXCEPT !.on = FALSE]
  /\ out' = IF mermaid.on THEN Flushed(ExtractMermaidLabels(mermaid.text), TRUE) ELSE out
  /\ ChunkOnward /\ UNCHANGED <<current, headings, headingAtStart, headingText>>
ChunkHeading ==
  /\ Next1({"head"}) /\ Flushes(current) /\ current' = <<>>
  /\ headingText' = [level |-> Event.level, text |-> <<>>]
  /\ ChunkOnward /\ UNCHANGED <<inCode, headings, headingAtStart, mermaid>>
\* Mutant: a heading of the same level does not end the one before.
Under_Equal(level) == SelectSeq(headings, LAMBDA h : h.level <= level)
Under(level) == SelectSeq(headings, LAMBDA h : h.level < level)
ChunkEndHeading ==
  /\ Next1({"endHead"}) /\ headingText' = NoHeading
  /\ LET title == TrimText(headingText.text)
     IN  headings' = Under(headingText.level) \o
                     (IF title = <<>> THEN <<>> ELSE <<[headingText EXCEPT !.text = title]>>)
  /\ headingAtStart' = headings'
  /\ ChunkOnward /\ UNCHANGED <<inCode, current, mermaid, out>>
ChunkText ==
  /\ Next1({"text", "code"})
  /\ IF InHeading THEN /\ headingText' = [headingText EXCEPT !.text = @ \o Says(Event)]
                        /\ UNCHANGED <<current, mermaid>>
     ELSE IF inCode THEN /\ mermaid' = IF mermaid.on THEN [mermaid EXCEPT !.text = @ \o Says(Event)] ELSE mermaid
                         /\ UNCHANGED <<current, headingText>>
     ELSE current' = current \o Says(Event) /\ UNCHANGED <<mermaid, headingText>>
  /\ ChunkOnward /\ UNCHANGED <<inCode, headings, headingAtStart, out>>
\* A paragraph past twice the cap is cut at a space, before the next event.
\* Mutant: what is after the cut goes with it.
ChunkCut_Truncates ==
  /\ phase = "chunk" /\ ~Whole /\ Flushes(SubSeq(current, 1, SplitAtSpace(current))) /\ current' = <<>>
  /\ UNCHANGED <<doc, source, events, phase, at, inCode, parseVars, headings, headingAtStart,
                 headingText, mermaid>>
ChunkCut ==
  /\ phase = "chunk" /\ ~Whole
  /\ LET head == SplitAtSpace(current)
     IN  Flushes(SubSeq(current, 1, head)) /\ current' = SubSeq(current, head + 1, Len(current))
  /\ UNCHANGED <<doc, source, events, phase, at, inCode, parseVars, headings, headingAtStart,
                 headingText, mermaid>>
ChunkEnd ==
  /\ Next1({"end"})
  /\ LET ended == current \o <<Newline, Newline>>
     IN  IF inCode \/ InHeading THEN UNCHANGED <<current, out>>
         ELSE IF Len(ended) >= MaxChars THEN Flushes(ended) /\ current' = <<>>
         ELSE current' = ended /\ UNCHANGED out
  /\ ChunkOnward /\ UNCHANGED <<inCode, headings, headingAtStart, headingText, mermaid>>
ChunkBreak ==
  /\ Next1({"break"})
  /\ current' = IF inCode \/ InHeading THEN current ELSE Append(current, Space)
  /\ ChunkOnward /\ UNCHANGED <<inCode, headings, headingAtStart, headingText, mermaid, out>>
ChunkOther ==
  /\ Next1({"start", "link", "html", "rule"})
  /\ ChunkOnward /\ UNCHANGED <<inCode, chunkVars>>
ChunkEnds ==
  /\ phase = "chunk" /\ at > Len(events) /\ Whole /\ phase' = "done"
  /\ Flushes(current) /\ current' = <<>>
  /\ UNCHANGED <<doc, source, events, at, inCode, parseVars, headings, headingAtStart,
                 headingText, mermaid>>

Init ==
  /\ doc \in Docs /\ source = Source(doc) /\ events = Events(doc)
  /\ phase = "walk" /\ at = 1 /\ inCode = FALSE
  /\ text = <<>> /\ mask = {} /\ links = {} /\ tags = {}
  /\ current = <<>> /\ headings = <<>> /\ headingAtStart = <<>> /\ headingText = NoHeading
  /\ mermaid = [on |-> FALSE, text |-> <<>>] /\ out = <<>>
Next ==
  \/ WalkText \/ WalkCode \/ WalkHtml \/ WalkFence \/ WalkLink \/ WalkBreak \/ WalkOther \/ WalkEnds
  \/ ScanLink \/ ScanTag \/ ScanOn \/ ScanEnds
  \/ ChunkFence \/ ChunkEndFence \/ ChunkHeading \/ ChunkEndHeading \/ ChunkText \/ ChunkCut
  \/ ChunkEnd \/ ChunkBreak \/ ChunkOther \/ ChunkEnds
Spec == Init /\ [][Next]_vars /\ WF_vars(Next)

-----------------------------------------------------------------------------
(***************************************************************************)
(* A device off line: it reads lines, and knows fences and ticks only.     *)
(***************************************************************************)
\* Where the body starts, and the tags before it: what is on the line is one tag.
FrontmatterEnd ==
  LET closers == {l \in LineStarts(source) : l > 1 /\ source[l] = "---" /\ Line(source, l) = <<"---">>}
  IN  IF closers # {} /\ Line(source, 1) = <<"---">>
      THEN Min({Min(closers) + 1, Len(source)}) ELSE 0
FrontmatterTagsHere ==
  UNION {IF Rest(source, l) = <<>> THEN {Rest(source, m) : m \in Items(source, l)}
         ELSE {Rest(source, l)} : l \in TagLines(source, FrontmatterEnd)}
BodyLines == {l \in LineStarts(source) : l > FrontmatterEnd}
LineOf(p)  == Max({l \in LineStarts(source) : l <= p})
FenceLine(l) == source[l] = "fence"
InFence(l) == Cardinality({k \in BodyLines : k < l /\ FenceLine(k)}) % 2 = 1
Ticks(l, p) == {q \in l..p : LineOf(q) = l /\ source[q] = "tick"}
\* An odd tick with none after it on its line is prose.
InProse(p) ==
  LET l == LineOf(p)
      before == Cardinality(Ticks(l, p - 1))
      after  == {q \in p..Len(source) : LineOf(q) = l /\ source[q] = "tick"}
  IN  /\ p > FrontmatterEnd /\ ~FenceLine(l) /\ ~InFence(l)
      /\ IF before % 2 = 1 THEN after = {}
         ELSE source[p] = "tick" => after = {p}
ClosesHere(p) == {q \in (p + 1)..Len(source) : source[q] = "]]" /\ LineOf(q) = LineOf(p)
                                               /\ \A i \in p..q : InProse(i)}
LinksIn ==
  LET step(acc, p) ==
        IF p < acc.next \/ source[p] # "[[" \/ ~InProse(p) \/ ClosesHere(p) = {} THEN acc
        ELSE LET close == Min(ClosesHere(p))
                 target == Trim(ParseWikilink(SubSeq(source, p + 1, close - 1)).target)
             IN  [next |-> close + 1,
                  found |-> IF target = <<>> THEN acc.found ELSE acc.found \cup {[target |-> target, from |-> p]}]
  IN  FoldLeft(step, [next |-> 1, found |-> {}], [i \in 1..Len(source) |-> i]).found
TagsIn ==
  {SubSeq(source, p + 1, TagEnd(p)) :
     p \in {q \in DOMAIN source : /\ source[q] = "#" /\ InProse(q)
                                  /\ q > 1 => source[q - 1] \in {" ", "nl"}
                                  /\ IsName(SubSeq(source, q + 1, TagEnd(q)))}}
  \cup FrontmatterTagsHere
NormalizeTarget(target) ==
  LET n == CHOOSE n \in 0..Len(target) : /\ \A i \in (n + 1)..Len(target) : target[i] = ".md"
                                         /\ n > 0 => target[n] # ".md"
  IN  SubSeq(target, 1, n)

-----------------------------------------------------------------------------
(***************************************************************************)
(* Correctness.                                                            *)
(***************************************************************************)
\* What the blocks say, whatever the walks made of them.
Spoken(k)  == events[k].kind \in {"text", "code"}
Said(k)    == Range(Says(events[k]))
Fenced(k)  == \E j \in 1..k : events[j].kind = "fence" /\ \A i \in j..k : events[i].kind # "endFence"
Headed(k)  == \E j \in 1..k : events[j].kind = "head" /\ \A i \in j..k : events[i].kind # "endHead"
ProseEvents == {k \in DOMAIN events : Spoken(k) /\ ~Fenced(k) /\ ~Headed(k)}
Prose      == UNION {Said(k) : k \in ProseEvents}
EventOf(c) == CHOOSE k \in DOMAIN events : Spoken(k) /\ c \in Said(k)
Barrier(k) == events[k].kind \in {"head", "fence"}
Together(c, d) == \A k \in EventOf(c)..EventOf(d) : ~Barrier(k)
TitleOf(j) ==
  LET ks == {k \in (j + 1)..Len(events) : Spoken(k) /\ \A i \in j..k : events[i].kind # "endHead"}
  IN  TrimText(SetToSortSeq(UNION {Said(k) : k \in ks}, <))
PathAt(k) ==
  LET over == {j \in 1..k : /\ events[j].kind = "head" /\ TitleOf(j) # <<>>
                            /\ \A i \in (j + 1)..k : events[i].kind = "head" => events[i].level > events[j].level}
  IN  [i \in 1..Cardinality(over) |->
         LET j == SetToSortSeq(over, <)[i] IN [level |-> events[j].level, text |-> TitleOf(j)]]
Chars(passage) == {c \in Range(passage.body) : c > 0}

\* What is shown as code, or is front matter, is no link and no tag, on the server or on
\* a device (markdown.rs:9-14, index.rs:11-14).
Shown(p) ==
  \/ p <= Offset
  \/ \E k \in DOMAIN events : /\ events[k].kind \in {"code", "fence"}
                               /\ p - Offset \in events[k].from..(events[k].to - 1)
Used(tag) == \E p \in DOMAIN source :
  source[p] = "#" /\ ~Shown(p) /\ SubSeq(source, p + 1, p + Len(tag)) = tag
NoPhantoms ==
  phase = "done" =>
    /\ \A l \in links \cup LinksIn : ~Shown(l.from)
    /\ \A tag \in tags \cup TagsIn : Used(tag) \/ tag \in FrontmatterTags(source) \cup FrontmatterTagsHere

\* A device finds a note's link where the server does, raw HTML and links through code
\* aside, and takes it for the same note unless it is written ./note; and it finds the
\* same tags in the text (index.rs:184-188, 226-268).
Html(p) == \E k \in DOMAIN events : events[k].kind = "html" /\ p - Offset \in events[k].from..(events[k].to - 1)
DeviceAgrees ==
  phase = "done" =>
    /\ {<<l.from, l.key>> : l \in {m \in links : m.kind # "markdown" /\ \A p \in m.from..(m.to - 1) : ~Shown(p)}}
       = {<<IF l.from > Offset + 1 /\ source[l.from - 1] = "!" THEN l.from - 1 ELSE l.from,
         IF "./" \in Range(l.target) THEN NormalizeTargetKey(l.target) ELSE NormalizeTarget(l.target)>> :
         l \in {m \in LinksIn : ~Html(m.from)}}
    /\ tags \cup FrontmatterTagsHere = TagsIn \cup FrontmatterTags(source)

\* A passage is a run of the note's own prose, with nothing left out, of one section and
\* under the headings over it; it is long enough to say something about, and no longer than
\* twice the cap (chunk.rs:13-19, 320, 393-399).
PassagesFaithful ==
  phase = "done" => \A i \in {j \in DOMAIN out : ~out[j].diagram} :
    LET cs == Chars(out[i])
    IN  /\ cs = {c \in Prose : Min(cs) <= c /\ c <= Max(cs)}
        /\ \A c \in cs : Together(Min(cs), c)
        /\ out[i].heading = PathAt(EventOf(Min(cs)))
        /\ Len(out[i].body) \in MinChars..(2 * MaxChars)

\* Prose is dropped only in bits too short to compare: never so much of it in a row, and
\* none of it is in two passages (chunk.rs:284-288).
Kept == UNION {Chars(out[i]) : i \in DOMAIN out}
NothingTruncated ==
  phase = "done" =>
    /\ \A i, j \in DOMAIN out : i # j => Chars(out[i]) \cap Chars(out[j]) = {}
    /\ \A c, d \in Prose \ Kept :
         c < d /\ Together(c, d) /\ (\A e \in Prose : c <= e /\ e <= d => e \notin Kept)
         => Cardinality({e \in Prose : c <= e /\ e <= d /\ ~White(e)}) < MinChars
=============================================================================
