----------------------------- MODULE GraphView -----------------------------
(***************************************************************************)
(* The graph of the vault: the request that draws it from three reads of   *)
(* the index (crates/server/src/routes/graph.rs) while a move may be       *)
(* rewriting links, and the view that asks for it, shows it and lets a     *)
(* pointer take hold of its nodes (crates/ui/src/components/graph.rs).     *)
(*                                                                         *)
(* Nodes are named by what they stand for, a note's id or the key of a     *)
(* link that leads nowhere, and not numbered; positions are left out, so a *)
(* pointer may be over any node or none.                                   *)
(***************************************************************************)
EXTENDS LinkRewrite

CONSTANTS
  Suggested,     \* the rows of semantic_links: {[pair: <<note, note>>, score]}
  MaxDepth,
  Steps,         \* the lengths a pointer can travel in one event
  MaxFetches, MaxFaults

ASSUME GraphAssumption ==
  /\ IsFiniteSet(NoteId \cup Key) /\ NoteId \cap Key = {}
  /\ None \notin NotePath \cup NoteId \cup Key
  /\ Suggested \subseteq [pair : NoteId \X NoteId, score : Int]
  /\ MaxDepth \in Nat \ {0} /\ Steps \subseteq Nat \ {0}

VARIABLES
  fetch,   \* the request's place: [at, ask, nodes, edges, kept, queue]
  scene,   \* what is drawn: [nodes, edges]
  hand,    \* the pointer: [down, dragging, panning, pinned, moved]
  past,    \* ghost: [travel, opened]: how far it came since it went down, what it opened
  fetches, faults

counts   == <<fetches, faults>>
handVars == <<hand, past>>
vars     == <<rewriteVars, fetch, scene, handVars, counts>>

-----------------------------------------------------------------------------
NoGraph == [nodes |-> {}, edges |-> {}]
NoHand  == [down |-> FALSE, dragging |-> None, panning |-> FALSE, pinned |-> {}, moved |-> FALSE]
NoPast  == [travel |-> 0, opened |-> None]
NoFetch == [at |-> "off", ask |-> None, nodes |-> {}, edges |-> {}, kept |-> {}, queue |-> <<>>]

Ids(nodes)  == {n.id : n \in nodes}
Joins(edge) == Range(edge.ends)

-----------------------------------------------------------------------------
(***************************************************************************)
(* The request.                                                            *)
(***************************************************************************)
At(place) == fetch.at = place

\* The view asks when it opens, when the vault changes, and when a control does.
Questions ==
  {[local |-> FALSE, depth |-> 0, focus |-> None, semantic |-> s] : s \in BOOLEAN}
  \cup [local : {TRUE}, depth : 1..MaxDepth, focus : NotePath, semantic : BOOLEAN]
Asks(ask) ==
  /\ At("off") /\ fetches < MaxFetches /\ fetches' = fetches + 1
  /\ fetch' = [NoFetch EXCEPT !.at = "notes", !.ask = ask]
  /\ UNCHANGED <<rewriteVars, scene, handVars, faults>>

Notes == {[id |-> rows[p].id, path |-> p] : p \in DOMAIN rows}
ReadsNotes ==
  /\ At("notes")
  /\ fetch' = [fetch EXCEPT !.at = "links", !.nodes = Notes]
  /\ UNCHANGED <<rewriteVars, scene, handVars, counts>>

\* A link is drawn from a note that was read to another, or to its key if it leads
\* nowhere; two that say the same of a pair are one edge, and none is a loop.
LinkRows ==
  UNION {{[source |-> rows[p].id, to |-> rows[p].to[k],
           key |-> rows[p].doc[k].key, label |-> rows[p].doc[k].label] :
            k \in DOMAIN rows[p].doc} : p \in DOMAIN rows}
Drawable(notes) ==
  {l \in LinkRows : l.source \in Ids(notes) /\ l.to \in Ids(notes) \cup {Nothing}}
Target(link)    == IF link.to = Nothing THEN link.key ELSE link.to
Phantoms(links) == {[id |-> l.key, path |-> None] : l \in {l \in links : l.to = Nothing}}
Edges(links)    == {[ends |-> <<l.source, Target(l)>>, kind |-> "link", label |-> l.label] :
                      l \in {l \in links : l.source # Target(l)}}
ReadsLinks ==
  LET links == Drawable(fetch.nodes)
  IN  /\ At("links")
      /\ fetch' = [fetch EXCEPT !.at = IF fetch.ask.semantic THEN "suggested" ELSE "scope",
                                !.nodes = @ \cup Phantoms(links), !.edges = Edges(links)]
      /\ UNCHANGED <<rewriteVars, scene, handVars, counts>>

\* A suggestion is drawn between two notes that were read and that no link joins, the
\* better one of a pair, either of two as good.
SamePair(s, t)  == Range(s.pair) = Range(t.pair)
Linked(pair)    == \E e \in fetch.edges : Joins(e) = Range(pair)
NotLinked(s)    == ~Linked(s.pair)
Fit == {s \in Suggested : /\ Range(s.pair) \subseteq Ids(fetch.nodes) /\ s.pair[1] # s.pair[2]
                          /\ NotLinked(s)}
BestOf(fit) ==
  {best \in SUBSET fit : \A s \in fit : \E t \in best : /\ SamePair(s, t) /\ s.score <= t.score
                                                     /\ \A u \in best : SamePair(s, u) => u = t}
ReadsSuggested ==
  /\ At("suggested")
  /\ \E best \in BestOf(Fit) :
       fetch' = [fetch EXCEPT !.at = "scope",
         !.edges = @ \cup {[ends |-> s.pair, kind |-> "suggested", label |-> None] : s \in best}]
  /\ UNCHANGED <<rewriteVars, scene, handVars, counts>>

\* restrict_to_neighbourhood walks out from the focus, in either direction of an edge.
Scopes ==
  LET start == {n \in fetch.nodes : n.path = fetch.ask.focus}
  IN  /\ At("scope")
      /\ fetch' = IF ~fetch.ask.local THEN [fetch EXCEPT !.at = "answer"]
                  ELSE IF start = {} THEN [fetch EXCEPT !.at = "answer", !.nodes = {}, !.edges = {}]
                  ELSE LET n == CHOOSE n \in start : TRUE
                       IN  [fetch EXCEPT !.at = "walk", !.kept = {n.id}, !.queue = <<<<n.id, 0>>>>]
      /\ UNCHANGED <<rewriteVars, scene, handVars, counts>>
Neighbours(id) == UNION {Joins(e) : e \in {e \in fetch.edges : id \in Joins(e)}}
\* Mutant: the neighbours of the last hop are let in too.
Spent_Late(distance) == distance > fetch.ask.depth
Spent(distance)      == distance >= fetch.ask.depth
Walks ==
  LET id       == Head(fetch.queue)[1]
      distance == Head(fetch.queue)[2]
      new      == IF Spent(distance) THEN {} ELSE Neighbours(id) \ fetch.kept
      queued   == SetToSeq({<<n, distance + 1>> : n \in new})
  IN  /\ At("walk") /\ fetch.queue # <<>>
      /\ fetch' = [fetch EXCEPT !.kept = @ \cup new, !.queue = Tail(@) \o queued]
      /\ UNCHANGED <<rewriteVars, scene, handVars, counts>>
KeepsWalked ==
  /\ At("walk") /\ fetch.queue = <<>>
  /\ fetch' = [fetch EXCEPT !.at = "answer", !.nodes = {n \in @ : n.id \in fetch.kept},
                            !.edges = {e \in @ : Joins(e) \subseteq fetch.kept}]
  /\ UNCHANGED <<rewriteVars, scene, handVars, counts>>

-----------------------------------------------------------------------------
(***************************************************************************)
(* The view.                                                               *)
(***************************************************************************)
\* GraphScene::load lays out what it is given anew, and lets go of what was held.
\* Mutant: the node that is dragged stays dragged.
Loads_Dragging(nodes, edges) ==
  /\ scene' = [nodes |-> nodes, edges |-> edges]
  /\ hand' = [hand EXCEPT !.pinned = {}]
Loads(nodes, edges) ==
  /\ scene' = [nodes |-> nodes, edges |-> edges]
  /\ hand' = [hand EXCEPT !.dragging = None, !.pinned = {}]

\* The answer; or no connection, and nothing is drawn; or an error, and what was stays.
Answered ==
  /\ fetch.at \in {"notes", "answer"} /\ fetch' = NoFetch
  /\ \/ At("answer") /\ Loads(fetch.nodes, fetch.edges) /\ UNCHANGED faults
     \/ /\ faults < MaxFaults /\ faults' = faults + 1
        /\ Loads({}, {}) \/ UNCHANGED <<scene, hand>>
  /\ UNCHANGED <<rewriteVars, past, fetches>>

Down ==
  /\ ~hand.down /\ past' = NoPast
  /\ \/ \E id \in Ids(scene.nodes) :
          hand' = [hand EXCEPT !.down = TRUE, !.moved = FALSE, !.dragging = id, !.pinned = @ \cup {id}]
     \/ hand' = [hand EXCEPT !.down = TRUE, !.moved = FALSE, !.panning = TRUE]
  /\ UNCHANGED <<rewriteVars, fetch, scene, counts>>

\* More than three pixels since the last event is a drag.
Moves(step) ==
  /\ hand.down /\ past.travel <= 3 /\ past' = [past EXCEPT !.travel = @ + step]
  /\ hand' = [hand EXCEPT !.moved = @ \/ (step > 3 /\ (hand.dragging # None \/ hand.panning))]
  /\ UNCHANGED <<rewriteVars, fetch, scene, counts>>

LetGo == [hand EXCEPT !.dragging = None, !.pinned = @ \ {hand.dragging}, !.panning = FALSE]
Leaves ==
  /\ hand.down /\ hand' = LetGo
  /\ UNCHANGED <<rewriteVars, fetch, scene, past, counts>>
\* The pointer goes up, and a click follows: it opens the note that it is over, unless
\* the pointer moved.
Up ==
  /\ hand.down /\ hand' = [LetGo EXCEPT !.down = FALSE]
  /\ \/ UNCHANGED past
     \/ /\ ~hand.moved
        /\ \E n \in scene.nodes : n.path # None /\ past' = [past EXCEPT !.opened = n.path]
  /\ UNCHANGED <<rewriteVars, fetch, scene, counts>>

\* The view has been open for a while, and shows the vault as it is.
Init ==
  /\ RewriteInit
  /\ scene = [nodes |-> Notes \cup Phantoms(Drawable(Notes)), edges |-> Edges(Drawable(Notes))]
  /\ fetch = NoFetch /\ hand = NoHand /\ past = NoPast /\ fetches = 0 /\ faults = 0

Next ==
  \/ RewriteNext /\ UNCHANGED <<fetch, scene, handVars, counts>>
  \/ \E ask \in Questions : Asks(ask)
  \/ ReadsNotes \/ ReadsLinks \/ ReadsSuggested \/ Scopes \/ Walks \/ KeepsWalked
  \/ Answered \/ Down \/ \E step \in Steps : Moves(step)
  \/ Leaves \/ Up

Spec == Init /\ [][Next]_vars

-----------------------------------------------------------------------------
(***************************************************************************)
(* Correctness.                                                            *)
(***************************************************************************)
\* What is drawn, or about to be, is a graph: each node once, each edge between two of
\* its nodes, whatever a move did between the reads (routes/graph.rs:126-153).  And a
\* node is held in place while the pointer has it and no longer, whatever is drawn
\* meanwhile: "rather than staying frozen where it was dropped" (graph.rs:335-336).
WellFormed(nodes, edges) ==
  /\ \A m, n \in nodes : m.id = n.id => m = n
  /\ \A e \in edges : Joins(e) \subseteq Ids(nodes) /\ Cardinality(Joins(e)) = 2
TypeOK ==
  /\ DOMAIN files \cup DOMAIN rows \subseteq NotePath
  /\ WellFormed(fetch.nodes, fetch.edges) /\ WellFormed(scene.nodes, scene.edges)
  /\ hand.dragging \in Ids(scene.nodes) \cup {None}
  /\ hand.pinned = IF hand.dragging = None THEN {} ELSE {hand.dragging}

\* "a suggestion never duplicates a connection the author made themselves"
\* (routes/graph.rs:132-134), in either direction, and no two suggest one pair.
SuggestionsAddOnly ==
  \A e, f \in scene.edges :
    e.kind = "suggested" /\ Joins(e) = Joins(f) => e = f

\* A local graph is "the notes within `depth` hops of `focus`" (routes/graph.rs:236):
\* those a path of so many edges leads to, with every edge between them.
Paths(n)  == [1..n -> Ids(fetch.nodes)]
Hops(from, to, n) ==
  \E path \in Paths(n + 1) :
    /\ path[1] = from /\ path[n + 1] = to
    /\ \A k \in 1..n : path[k + 1] \in Neighbours(path[k])
LocalIsNear ==
  At("walk") /\ fetch.queue = <<>> =>
    LET focus == CHOOSE n \in fetch.nodes : n.path = fetch.ask.focus
    IN  fetch.kept = {id \in Ids(fetch.nodes) : \E n \in 0..fetch.ask.depth : Hops(focus.id, id, n)}

\* Without the flag, "panning the canvas with a finger and happening to lift over a
\* node opens that note" (graph.rs:56-60).  With it too: the distance is from event to
\* event, and a graph drawn meanwhile ends the hold and not the gesture.
DragOpensNothing == past.opened # None => past.travel <= 3
=============================================================================
