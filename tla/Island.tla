------------------------------- MODULE Island -------------------------------
(***************************************************************************)
(* createIslandManager (ketjs-view/src/island.ts): the islands of a page's *)
(* slot, started over the hosts the server wrote, kept by their identity   *)
(* when a navigation brings the slot's next content, and disposed.         *)
(*                                                                         *)
(* A host is an element with an identity (name and key), props and the     *)
(* hosts its island's view places in it.  Elements and island instances    *)
(* are numbered.  Every operation is synchronous.  An island's code does   *)
(* not throw here: what becomes of a navigation where it does is in        *)
(* Navigation.                                                             *)
(***************************************************************************)
EXTENDS Integers, Sequences, FiniteSets, SequencesExt, TLC

CONSTANTS
    Inner,        \* identity -> the identities its view places inside its host
    Updating,     \* identities whose controller has `update`
    Registered,   \* identities whose name has a factory
    Contents,     \* what the server may send: sequences of [id, props, matches]
    MaxLoads

VARIABLES
    isHosts,      \* element -> [id, props, matches, inner]
    isSlot,       \* the slot's own hosts, in order
    isLive,       \* element -> its instance, while it is managed
    isRunning,    \* instances started and not disposed
    isProps,      \* instance -> the props it was last given
    isLoads

isVars == <<isHosts, isSlot, isLive, isRunning, isProps, isLoads>>

-----------------------------------------------------------------------------
(* The elements of new content: each host, and after it those inside it.   *)

Build(content, from) ==
    LET place(acc, host) ==
            LET own == from + Cardinality(DOMAIN acc.hosts)
                inner == [i \in DOMAIN Inner[host.id] |-> own + i]
                nested(e) == [id |-> Inner[host.id][e - own], props |-> host.props, matches |-> TRUE, inner |-> <<>>]
                made == [e \in {own} \union ToSet(inner) |-> IF e = own THEN host @@ [inner |-> inner] ELSE nested(e)]
            IN [hosts |-> acc.hosts @@ made, slot |-> Append(acc.slot, own)]
    IN FoldLeft(place, [hosts |-> <<>>, slot |-> <<>>], content)

\* `elementsOf` a slot, in document order.
ElementsOf(hosts, slot) == FlattenSeq([i \in DOMAIN slot |-> <<slot[i]>> \o hosts[slot[i]].inner])

\* Mutant: an element is compared with itself too.
UniqueButItself(hosts, elements) ==
    SelectSeq(elements, LAMBDA e : \A o \in ToSet(elements) : hosts[o].id # hosts[e].id)
\* `uniqueByIdentity`: the elements whose identity no other has.
Unique(hosts, elements) ==
    SelectSeq(elements, LAMBDA e : \A o \in ToSet(elements) : hosts[o].id = hosts[e].id => o = e)

-----------------------------------------------------------------------------
(* Starting and ending instances.  A page is [hosts, live, running, props]. *)

Page == [hosts |-> isHosts, live |-> isLive, running |-> isRunning, props |-> isProps]

Manage(page, e) ==
    LET instance == Cardinality(DOMAIN page.props) + 1 IN
    [page EXCEPT !.live = @ @@ (e :> instance), !.running = @ \union {instance},
                 !.props = @ @@ (instance :> page.hosts[e].props)]

\* What a client render puts in a host instead of the server's nodes.
Rerender(page, e) ==
    LET from == Cardinality(DOMAIN page.hosts)
        placed == Inner[page.hosts[e].id]
        made == [n \in {from + i : i \in DOMAIN placed} |->
                    [id |-> placed[n - from], props |-> page.hosts[e].props, matches |-> TRUE, inner |-> <<>>]]
    IN [page EXCEPT !.hosts = [@ EXCEPT ![e].inner = [i \in DOMAIN placed |-> from + i], ![e].matches = TRUE] @@ made]

Starts(page, e) == e \notin DOMAIN page.live /\ page.hosts[e].id \in Registered

\* `start`: markup that does not match is discarded with the hosts in it, and what the render
\* places there is started after it.
Start(page, elements) ==
    LET one(p, e) == IF Starts(p, e) THEN Manage(p, e) ELSE p
        each(acc, e) ==
            IF e \in acc.discarded \/ ~Starts(acc.page, e) THEN acc
            ELSE IF acc.page.hosts[e].matches THEN [acc EXCEPT !.page = Manage(@, e)]
            ELSE LET again == Manage(Rerender(acc.page, e), e) IN
                 [page |-> FoldLeft(one, again, again.hosts[e].inner),
                  discarded |-> acc.discarded \union ToSet(acc.page.hosts[e].inner)]
    IN FoldLeft(each, [page |-> page, discarded |-> {}], elements).page

\* Mutant: the element is forgotten, its instance not stopped.
DisposeForgets(page, elements) == [page EXCEPT !.live = [e \in DOMAIN @ \ elements |-> @[e]]]
\* `disposeElement`
Dispose(page, elements) ==
    LET gone == elements \intersect DOMAIN page.live IN
    [page EXCEPT !.live = [e \in DOMAIN @ \ gone |-> @[e]], !.running = @ \ {page.live[e] : e \in gone}]

-----------------------------------------------------------------------------
(* `reconcile`: a running island whose identity the next content has too   *)
(* takes its props, when it can, and its element the next one's place.     *)

\* The one element moves to where the other is, which goes.
Replace(page, slot, moved, other) ==
    LET put(place) == [i \in DOMAIN SelectSeq(place, LAMBDA e : e # moved) |->
                          LET e == SelectSeq(place, LAMBDA o : o # moved)[i] IN IF e = other THEN moved ELSE e]
    IN [page |-> [page EXCEPT !.hosts = [e \in DOMAIN @ |-> [@[e] EXCEPT !.inner = put(@)]]], slot |-> put(slot)]

Keep(acc, e, current) ==
    LET mine == {c \in ToSet(current) : acc.page.hosts[c].id = acc.page.hosts[e].id}
        c == CHOOSE c \in mine : TRUE
        next == acc.page.hosts[e].props
        changed == acc.page.hosts[c].props # next
        replaced == Replace([acc.page EXCEPT !.hosts[c].props = next, !.props[acc.page.live[c]] = next], acc.slot, c, e)
    IN IF mine = {} \/ c \notin DOMAIN acc.page.live THEN acc
       ELSE IF changed /\ acc.page.hosts[c].id \notin Updating THEN acc
       ELSE [page |-> replaced.page, slot |-> replaced.slot, preserved |-> acc.preserved \union {c}]

Reconcile(content) ==
    LET built == Build(content, Cardinality(DOMAIN isHosts) + 1)
        page == [Page EXCEPT !.hosts = @ @@ built.hosts]
        current == ElementsOf(isHosts, isSlot)
        unique == Unique(isHosts, current)
        keep(acc, e) == Keep(acc, e, unique)
        kept == FoldLeft(keep, [page |-> page, slot |-> built.slot, preserved |-> {}],
                         Unique(page.hosts, ElementsOf(page.hosts, built.slot)))
        left == Dispose(kept.page, ToSet(current) \ kept.preserved)
    IN [page |-> Start(left, ElementsOf(left.hosts, kept.slot)), slot |-> kept.slot]

-----------------------------------------------------------------------------
Becomes(page, slot) ==
    /\ isHosts' = page.hosts /\ isLive' = page.live /\ isRunning' = page.running /\ isProps' = page.props
    /\ isSlot' = slot

IsInit ==
    /\ isHosts = <<>> /\ isSlot = <<>> /\ isLive = <<>> /\ isRunning = {} /\ isProps = <<>>
    /\ isLoads = 0

OneMoreLoad == isLoads < MaxLoads /\ isLoads' = isLoads + 1

\* A document loads, and its islands are hydrated.
IsLoad(content) ==
    LET built == Build(content, 1)
        page == [hosts |-> built.hosts, live |-> <<>>, running |-> {}, props |-> <<>>]
    IN /\ OneMoreLoad /\ isLoads = 0
       /\ Becomes(Start(page, ElementsOf(page.hosts, built.slot)), built.slot)

IsReconcile(content) ==
    LET done == Reconcile(content) IN
    /\ OneMoreLoad /\ isLoads > 0
    /\ Becomes(done.page, done.slot)

\* `dispose` of the slot.
IsDispose ==
    /\ isRunning # {}
    /\ Becomes(Dispose(Page, ToSet(ElementsOf(isHosts, isSlot))), isSlot)
    /\ UNCHANGED isLoads

IsNext == (\E content \in Contents : IsLoad(content) \/ IsReconcile(content)) \/ IsDispose
IsSpec == IsInit /\ [][IsNext]_isVars

-----------------------------------------------------------------------------
InPage == ToSet(ElementsOf(isHosts, isSlot))
Nested == UNION {ToSet(Inner[id]) : id \in DOMAIN Inner}

\* The islands that run are those managed, each once; of those no other island contains the
\* host is in the page, with the props it names; and after a reconciliation every one that
\* can run does.
TopIslandsKept ==
    /\ \A e \in DOMAIN isLive : isHosts[e].id \notin Nested => e \in ToSet(isSlot) /\ isProps[isLive[e]] = isHosts[e].props
    /\ isRunning = {isLive[e] : e \in DOMAIN isLive}
    /\ (\E e \in ToSet(isSlot) : e \in DOMAIN isLive) => \A e \in InPage : isHosts[e].id \in Registered => e \in DOMAIN isLive

\* The elements of the content that a reconciliation brought, whatever became of them.
Brought == DOMAIN isHosts' \ DOMAIN isHosts

\* An island alone with its identity in the page and in the content brought, that takes what
\* props it is given, is the same instance after, on the same element of the page: its local
\* state is not lost.  An island inside the host of one that runs then is not meant: where that
\* one is kept or renders its host anew, the element is taken out of the page (island.ts:405).
InstanceIsKept == [][
    isLoads' > isLoads /\ isLoads > 0 =>
        \A e \in DOMAIN isLive \intersect InPage :
            LET id == isHosts[e].id
                same == {n \in Brought : isHosts'[n].id = id}
            IN
            /\ \A o \in InPage : isHosts[o].id = id => o = e
            /\ Cardinality(same) = 1
            /\ \A n \in same : isHosts'[n].props = isHosts[e].props \/ id \in Updating
            /\ \A o \in ToSet(isSlot') : id \in ToSet(Inner[isHosts'[o].id]) => o \notin DOMAIN isLive'
            => e \in InPage' /\ e \in DOMAIN isLive' /\ isLive'[e] = isLive[e]
    ]_isVars
=============================================================================
