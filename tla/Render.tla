------------------------------- MODULE Render -------------------------------
(***************************************************************************)
(* The client renderer (ketjs-view/src/render.ts): a root shows one view;  *)
(* a first render builds its nodes or adopts what the server wrote, later  *)
(* ones write to the holes whose value changed and reconcile keyed lists.  *)
(*                                                                         *)
(* The document is the container's children in order, each a node with an  *)
(* identity and what it shows; the markers that fence holes show nothing.  *)
(* A template is its top level: static nodes and holes.  Attributes and    *)
(* events, which a part keeps with its element, and names of elements are  *)
(* left out.                                                               *)
(***************************************************************************)
EXTENDS Integers, Sequences, FiniteSets, SequencesExt, FiniteSetsExt, TLC

CONSTANTS
    Templates,    \* template -> its top level: a hole's number, or 0 for a static node
    Views,        \* what is rendered: [template, values]
    MaxRenders

VARIABLES
    rdRoot,       \* the root's instance, or NoRoot
    rdDoc,        \* the container's nodes: <<[id, shows], ...>>
    rdNext,       \* the next node's identity
    rdView,       \* what was rendered last
    rdRenders, rdThrew,   \* how many renders, and whether the last threw, or one did since the instance was made
    rdMoves               \* nodes and instances of lists the last render moved

rdVars == <<rdRoot, rdDoc, rdNext, rdView, rdRenders, rdThrew, rdMoves>>

\* Hole values: text (nothing and FALSE are the empty one), markup, a view, a keyed list.
Plain(t) == [kind |-> "text", text |-> t]
Markup(nodes) == [kind |-> "markup", nodes |-> nodes]
Result(view) == [kind |-> "result", view |-> view]
Each(items) == [kind |-> "each", items |-> items]      \* <<[key, view], ...>>
Primitive(v) == v.kind \in {"text", "markup"}

NoRoot == [template |-> "none"]

-----------------------------------------------------------------------------
(* The host: what a render does to the document.  `ok` turns false where   *)
(* the code throws, and nothing is done from there on.                     *)

Host(doc, next) == [doc |-> doc, next |-> next, moves |-> 0, ok |-> TRUE]

IndexOf(doc, id) == IF id = 0 THEN Len(doc) + 1 ELSE CHOOSE i \in DOMAIN doc : doc[i].id = id
InsertBefore(doc, nodes, anchor) ==
    LET at == IndexOf(doc, anchor) IN SubSeq(doc, 1, at - 1) \o nodes \o SubSeq(doc, at, Len(doc))

\* New nodes before the anchor, with the identities next, next + 1, ...
Create(host, shows, anchor) ==
    LET nodes == [i \in DOMAIN shows |-> [id |-> host.next + i - 1, shows |-> shows[i]]] IN
    [host EXCEPT !.doc = InsertBefore(@, nodes, anchor), !.next = @ + Len(shows)]
NewIds(host, shows) == [i \in DOMAIN shows |-> host.next + i - 1]

RemoveNodes(host, ids) == [host EXCEPT !.doc = SelectSeq(@, LAMBDA n : n.id \notin ids)]
SetText(host, id, t) == [host EXCEPT !.doc = [i \in DOMAIN @ |-> IF @[i].id = id THEN [@[i] EXCEPT !.shows = t] ELSE @[i]]]
MoveBefore(host, ids, anchor) ==
    LET moved == [i \in DOMAIN ids |-> host.doc[IndexOf(host.doc, ids[i])]]
        rest == SelectSeq(host.doc, LAMBDA n : n.id \notin ToSet(ids))
    IN [host EXCEPT !.doc = InsertBefore(rest, moved, anchor), !.moves = @ + 1]

-----------------------------------------------------------------------------
(* Instances and their parts.                                              *)

EmptyPart(anchor) == [anchor |-> anchor, kind |-> "none", nodes |-> <<>>, html |-> <<>>,
                      child |-> <<>>, keyed |-> <<>>, keys |-> <<>>]

RECURSIVE Collect(_), CollectPart(_), FirstNode(_), AllNodes(_)

HolesOf(template) == {Templates[template][i] : i \in DOMAIN Templates[template]} \ {0}
PartAt(inst, id) == {h \in DOMAIN inst.parts : inst.parts[h].anchor = id}

\* The nodes a part shows, and an instance's, in document order: a hole's before its anchor.
CollectPart(part) ==
    IF part.kind \in {"text", "markup"} THEN part.nodes
    ELSE IF part.kind = "result" THEN FlattenSeq([i \in DOMAIN part.child |-> Collect(part.child[i])])
    ELSE FlattenSeq([i \in DOMAIN part.keys |->
            IF part.keys[i] \in DOMAIN part.keyed THEN Collect(part.keyed[part.keys[i]]) ELSE <<>>])
Collect(inst) ==
    FlattenSeq([i \in DOMAIN inst.roots |->
        FlattenSeq([h \in 1..Cardinality(PartAt(inst, inst.roots[i])) |->
            CollectPart(inst.parts[CHOOSE p \in PartAt(inst, inst.roots[i]) : TRUE])]) \o <<inst.roots[i]>>])

\* Mutant: what a hole at its beginning shows is passed over.
FirstRoot(inst) == inst.roots[1]
\* Where an instance begins in the document.
FirstNode(inst) ==
    LET first == inst.roots[1]
        part == inst.parts[CHOOSE h \in PartAt(inst, first) : TRUE]
    IN IF PartAt(inst, first) = {} THEN first
       ELSE IF part.kind \in {"text", "markup"} /\ part.nodes # <<>> THEN part.nodes[1]
       ELSE IF part.kind = "result" THEN FirstNode(part.child[1])
       ELSE IF part.kind = "each" /\ part.keys # <<>> /\ part.keys[1] \in DOMAIN part.keyed THEN FirstNode(part.keyed[part.keys[1]])
       ELSE part.anchor

\* Every node of an instance, the entries its lists no longer name among them.
PartNodes(part) ==
    ToSet(part.nodes) \union UNION {AllNodes(part.child[i]) : i \in DOMAIN part.child}
                      \union UNION {AllNodes(part.keyed[k]) : k \in DOMAIN part.keyed}
AllNodes(inst) == ToSet(inst.roots) \union UNION {PartNodes(inst.parts[h]) : h \in DOMAIN inst.parts}

Clear(host, part) == RemoveNodes(host, PartNodes(part))

Shape(template) == [i \in DOMAIN Templates[template] |-> IF Templates[template][i] = 0 THEN template ELSE ""]
\* `mount`: the static nodes, and an anchor for each hole.
Mounted(host, template) ==
    LET ids == NewIds(host, Shape(template)) IN
    [template |-> template, roots |-> ids, values |-> <<>>, pos |-> 0,
     parts |-> [h \in HolesOf(template) |-> EmptyPart(ids[CHOOSE i \in DOMAIN ids : Templates[template][i] = h])]]
Mount(host, template, anchor) == Create(host, Shape(template), anchor)

\* Mutant: what is greater than all before it stays.
StaysAscending(old) == {i \in DOMAIN old : old[i] # 0 /\ \A j \in 1..(i - 1) : old[j] < old[i]}
\* `lisIndices`: patience sorting over the old positions; 0 marks a new entry.
Stays(old) ==
    LET pile(acc, i) ==
            LET at == Cardinality({p \in DOMAIN acc.piles : old[acc.piles[p]] < old[i]}) + 1 IN
            IF old[i] = 0 THEN acc
            ELSE [piles |-> SubSeq(acc.piles, 1, at - 1) \o <<i>> \o SubSeq(acc.piles, at + 1, Len(acc.piles)),
                  parent |-> [acc.parent EXCEPT ![i] = IF at = 1 THEN 0 ELSE acc.piles[at - 1]]]
        sorted == FoldLeft(pile, [piles |-> <<>>, parent |-> [i \in DOMAIN old |-> 0]], [i \in DOMAIN old |-> i])
        chain[i \in 0..Len(old)] == IF i = 0 THEN {} ELSE {i} \union chain[sorted.parent[i]]
    IN IF sorted.piles = <<>> THEN {} ELSE chain[sorted.piles[Len(sorted.piles)]]

-----------------------------------------------------------------------------
(* Updates: the host and the part or instance after.                       *)

RECURSIVE Commit(_, _, _)

\* `update`: a primitive hole that holds the same value is passed over.
Update(host, inst, values) ==
    LET committed(acc, h, done) == [host |-> done.host, inst |-> [acc.inst EXCEPT !.parts[h] = done.part]]
        apply(acc, h) ==
            IF ~acc.host.ok \/ (h \in DOMAIN inst.values /\ Primitive(values[h]) /\ inst.values[h] = values[h]) THEN acc
            ELSE committed(acc, h, Commit(acc.host, acc.inst.parts[h], values[h]))
        remembered(done) == IF done.host.ok THEN [done EXCEPT !.inst.values = values] ELSE done
    IN remembered(FoldLeft(apply, [host |-> host, inst |-> inst], [h \in DOMAIN values |-> h]))

\* A new instance before the anchor, with its values.
Show(host, view, anchor) == Update(Mount(host, view.template, anchor), Mounted(host, view.template), view.values)

Fresh(part, kind) == [EmptyPart(part.anchor) EXCEPT !.kind = kind]

CommitNodes(host, part, kind, shows) ==
    LET cleared == Clear(host, part) IN
    [host |-> Create(cleared, shows, part.anchor),
     part |-> [Fresh(part, kind) EXCEPT !.nodes = NewIds(cleared, shows), !.html = shows]]

CommitText(host, part, t) ==
    IF part.kind = "text" THEN [host |-> SetText(host, part.nodes[1], t), part |-> part]
    ELSE CommitNodes(host, part, "text", <<t>>)

CommitMarkup(host, part, nodes) ==
    IF part.kind = "markup" /\ part.html = nodes THEN [host |-> host, part |-> part]
    ELSE CommitNodes(host, part, "markup", nodes)

CommitResult(host, part, view) ==
    LET reused == part.kind = "result" /\ part.child[1].template = view.template
        showing(done) == [host |-> done.host, part |-> [Fresh(part, "result") EXCEPT !.child = <<done.inst>>]]
    IN showing(IF reused THEN Update(host, part.child[1], view.values) ELSE Show(Clear(host, part), view, part.anchor))

Reusable(keyed, item) == item.key \in DOMAIN keyed /\ keyed[item.key].template = item.view.template

\* The same keys in the same places: nothing moves.  Stops at an entry whose template changed.
InPlace(host, part, items) ==
    LET updated(acc, i, done) == [acc EXCEPT !.host = done.host, !.keyed[items[i].key] = done.inst]
        each(acc, i) ==
            IF ~acc.same \/ ~acc.host.ok THEN acc
            ELSE IF ~Reusable(acc.keyed, items[i]) THEN [acc EXCEPT !.same = FALSE]
            ELSE updated(acc, i, Update(acc.host, acc.keyed[items[i].key], items[i].view.values))
    IN FoldLeft(each, [host |-> host, keyed |-> part.keyed, same |-> part.keys = [i \in DOMAIN items |-> items[i].key]],
                [i \in DOMAIN items |-> i])

\* Entries gone are removed; then from the last to the first, each is updated or made anew,
\* and moved when its place among those that stay is not its own.
ReconcileList(host, part, items) ==
    LET keys == [i \in DOMAIN items |-> items[i].key]
        old == [i \in DOMAIN items |-> IF Reusable(part.keyed, items[i]) THEN part.keyed[keys[i]].pos ELSE 0]
        stays == Stays(old)
        gone == IF Cardinality({i \in DOMAIN old : old[i] # 0}) = Cardinality(DOMAIN part.keyed) THEN {}
                ELSE DOMAIN part.keyed \ ToSet(keys)
        without(acc, key) ==
            IF key \in DOMAIN acc.keyed THEN RemoveNodes(acc.host, AllNodes(acc.keyed[key])) ELSE acc.host
        moved(done, anchor) == [done EXCEPT !.host = MoveBefore(@, Collect(done.inst), anchor)]
        updated(acc, i, done) == IF i \in stays THEN done ELSE moved(done, acc.anchor)
        placed(acc, i, done) ==
            [host |-> done.host,
             keyed |-> (keys[i] :> [done.inst EXCEPT !.pos = i]) @@ acc.keyed,
             anchor |-> FirstNode(done.inst)]
        place(acc, i) ==
            IF ~acc.host.ok THEN acc
            ELSE placed(acc, i,
                    IF old[i] = 0 THEN Show(without(acc, keys[i]), items[i].view, acc.anchor)
                    ELSE updated(acc, i, Update(acc.host, acc.keyed[keys[i]], items[i].view.values)))
        kept == [k \in DOMAIN part.keyed \ gone |-> part.keyed[k]]
        listed(done) ==
            [host |-> done.host,
             part |-> [part EXCEPT !.keyed = done.keyed, !.keys = IF done.host.ok THEN keys ELSE @]]
    IN listed(FoldLeft(place,
                    [host |-> RemoveNodes(host, UNION {AllNodes(part.keyed[k]) : k \in gone}),
                     keyed |-> kept, anchor |-> part.anchor],
                    Reverse([i \in DOMAIN items |-> i])))

CommitEach(host, part, items) ==
    LET begun == IF part.kind = "each" THEN [host |-> host, part |-> part]
                 ELSE [host |-> Clear(host, part), part |-> Fresh(part, "each")]
        after(inPlace, updated) ==
            IF inPlace.same \/ ~inPlace.host.ok THEN [host |-> inPlace.host, part |-> updated]
            ELSE IF \E i, j \in DOMAIN items : i # j /\ items[i].key = items[j].key
            THEN [host |-> [inPlace.host EXCEPT !.ok = FALSE], part |-> updated]
            ELSE ReconcileList(inPlace.host, updated, items)
        begunIn(inPlace) == after(inPlace, [begun.part EXCEPT !.keyed = inPlace.keyed])
    IN begunIn(InPlace(begun.host, begun.part, items))

Commit(host, part, v) ==
    CASE v.kind = "text" -> CommitText(host, part, v.text)
      [] v.kind = "markup" -> CommitMarkup(host, part, v.nodes)
      [] v.kind = "result" -> CommitResult(host, part, v.view)
      [] v.kind = "each" -> CommitEach(host, part, v.items)

-----------------------------------------------------------------------------
(* What the server wrote, and hydration that adopts it.                    *)

RECURSIVE Shows(_), ShowsOf(_), Adopt(_, _)

\* What a view shows: also what a render of it alone leaves in the document.
ShowsOf(v) ==
    CASE v.kind = "text" -> IF v.text = "" THEN <<>> ELSE <<v.text>>
      [] v.kind = "markup" -> v.nodes
      [] v.kind = "result" -> Shows(v.view)
      [] v.kind = "each" -> FlattenSeq([i \in DOMAIN v.items |-> Shows(v.items[i].view)])
Shows(view) ==
    FlattenSeq([i \in DOMAIN Templates[view.template] |->
        LET h == Templates[view.template][i] IN IF h = 0 THEN <<view.template>> ELSE ShowsOf(view.values[h])])

\* The server's nodes for a view, numbered from `next`, with the instance that claims them:
\* a marker opens each hole and another, its anchor, ends it; an empty text is no node.
Adopt(view, next) ==
    LET Node(id, t) == <<[id |-> id, shows |-> t]>>
        Claimed(part, nodes, last) == [part |-> part, nodes |-> nodes, next |-> last]
        Written(shows, from) == [i \in DOMAIN shows |-> [id |-> from + i - 1, shows |-> shows[i]]]
        entry(acc, item) ==
            LET done == Adopt(item.view, acc.next)
                inst == [done.inst EXCEPT !.pos = Len(acc.part.keys) + 1]
            IN Claimed([acc.part EXCEPT !.keyed = @ @@ (item.key :> inst), !.keys = Append(@, item.key)],
                       acc.nodes \o done.nodes, done.next)
        claim(v, from) ==
            CASE v.kind \in {"text", "markup"} ->
                    LET shows == ShowsOf(v) IN
                    Claimed([EmptyPart(0) EXCEPT !.kind = IF v.kind = "text" /\ shows = <<>> THEN "none" ELSE v.kind,
                                                 !.nodes = [i \in DOMAIN shows |-> from + i - 1], !.html = shows],
                            Written(shows, from), from + Len(shows))
              [] v.kind = "result" ->
                    LET done == Adopt(v.view, from) IN
                    Claimed([EmptyPart(0) EXCEPT !.kind = "result", !.child = <<done.inst>>], done.nodes, done.next)
              [] v.kind = "each" -> FoldLeft(entry, Claimed([EmptyPart(0) EXCEPT !.kind = "each"], <<>>, from), v.items)
        walk(acc, h) ==
            LET held == claim(view.values[h], acc.next + 1)
                end == held.next
            IN IF h = 0
               THEN [acc EXCEPT !.nodes = @ \o Node(acc.next, view.template), !.next = @ + 1, !.inst.roots = Append(@, acc.next)]
               ELSE [nodes |-> acc.nodes \o Node(acc.next, "") \o held.nodes \o Node(end, ""), next |-> end + 1,
                     inst |-> [acc.inst EXCEPT !.roots = @ \o <<acc.next, end>>,
                                               !.parts = @ @@ (h :> [held.part EXCEPT !.anchor = end])]]
    IN FoldLeft(walk, [nodes |-> <<>>, next |-> next,
                       inst |-> [template |-> view.template, roots |-> <<>>, values |-> view.values, pos |-> 0, parts |-> <<>>]],
                Templates[view.template])

-----------------------------------------------------------------------------
RECURSIVE Sound(_)
\* No list of it repeats a key.
Sound(view) ==
    \A h \in DOMAIN view.values : LET v == view.values[h] IN
        /\ v.kind = "result" => Sound(v.view)
        /\ v.kind = "each" => /\ \A i, j \in DOMAIN v.items : i # j => v.items[i].key # v.items[j].key
                              /\ \A i \in DOMAIN v.items : Sound(v.items[i].view)

Visible == SelectSeq([i \in DOMAIN rdDoc |-> rdDoc[i].shows], LAMBDA t : t # "")

RdInit ==
    /\ rdRenders = 0 /\ rdThrew = FALSE /\ rdMoves = 0
    /\ \/ /\ rdRoot = NoRoot /\ rdDoc = <<>> /\ rdNext = 1
          /\ rdView = NoRoot
       \/ \E view \in {v \in Views : Sound(v)} : \E done \in {Adopt(view, 1)} :   \* `hydrateRoot`
          /\ rdRoot = done.inst /\ rdDoc = done.nodes /\ rdNext = done.next
          /\ rdView = view

\* `render`: another template replaces the instance.
RdRender(view) ==
    /\ rdRenders < MaxRenders
    /\ rdRenders' = rdRenders + 1
    /\ \E kept \in {rdRoot.template = view.template} :
         \E before \in {Host(IF kept \/ rdRoot = NoRoot THEN rdDoc
                             ELSE RemoveNodes(Host(rdDoc, rdNext), AllNodes(rdRoot)).doc, rdNext)} :
         \E done \in {IF kept THEN Update(before, rdRoot, view.values) ELSE Show(before, view, 0)} :
           /\ rdRoot' = done.inst /\ rdDoc' = done.host.doc /\ rdNext' = done.host.next
           /\ rdMoves' = done.host.moves
           /\ rdThrew' = (~done.host.ok \/ (kept /\ rdThrew))
    /\ rdView' = view

\* `dispose` with the nodes.
RdDispose ==
    /\ rdRoot # NoRoot
    /\ rdDoc' = RemoveNodes(Host(rdDoc, rdNext), AllNodes(rdRoot)).doc
    /\ rdRoot' = NoRoot /\ rdView' = NoRoot
    /\ rdThrew' = FALSE /\ rdMoves' = 0
    /\ UNCHANGED <<rdNext, rdRenders>>

RdNext == (\E view \in Views : RdRender(view)) \/ RdDispose
RdSpec == RdInit /\ [][RdNext]_rdVars

-----------------------------------------------------------------------------
\* However it came about, what a root shows is what its last view alone would show: while
\* no render of its instance threw.
RendersAsFresh == ~rdThrew => Visible = IF rdRoot = NoRoot THEN <<>> ELSE Shows(rdView)

\* The most entries of a list that keep their order among those of the list before.
Flat(v) == v.kind = "each" /\ \A i \in DOMAIN v.items : \A h \in DOMAIN v.items[i].view.values : v.items[i].view.values[h].kind # "each"
Needed(before, after) ==
    LET place(i) == {j \in DOMAIN before : before[j].key = after[i].key /\ before[j].view.template = after[i].view.template}
        both == {i \in DOMAIN after : place(i) # {}}
        at == [i \in both |-> CHOOSE j \in place(i) : TRUE]
        ordered == {s \in SUBSET both : \A i, j \in s : i < j => at[i] < at[j]}
    IN Cardinality(both) - Max({Cardinality(s) : s \in ordered})

\* A list is put in its new order with the fewest moves that can do it.
FewestMoves == [][
    rdRenders' > rdRenders /\ ~rdThrew' /\ rdRoot # NoRoot /\ rdView.template = rdView'.template =>
        LET lists == {h \in DOMAIN rdView.values : Flat(rdView.values[h]) /\ Flat(rdView'.values[h])} IN
        lists = {h \in DOMAIN rdView.values : rdView.values[h].kind = "each" \/ rdView'.values[h].kind = "each"} =>
            rdMoves' = FoldSet(LAMBDA h, n : n + Needed(rdView.values[h].items, rdView'.values[h].items), 0, lists)
    ]_rdVars
=============================================================================
