------------------------------- MODULE MCPages -------------------------------
(***************************************************************************)
(* What a page is made of, each as a small instance: a value's way through *)
(* a form's contract, an editor's form over a record others edit, the      *)
(* renders of a root, the islands of a slot, the navigations of a          *)
(* document, and the calls that answer it, over rows of two companies.     *)
(* They share no variable, so a behaviour exercises one of them, the part  *)
(* it starts with, and leaves the others as they begin.                    *)
(***************************************************************************)
EXTENDS FormCheck, FormSession, Render, Island, Navigation, Context

CONSTANTS here, there, auditRow, customerRow, customerAgain, orderRow

VARIABLE part

-----------------------------------------------------------------------------
(* Forms.                                                                  *)

MCText(trim, length, number, flag, json) ==
    [trim |-> trim, length |-> length, number |-> number,
     decimal |-> IF trim = "+1" THEN "1" ELSE trim, flag |-> flag, json |-> json]
MCTexts ==
    ("" :> MCText("", 0, -1, -1, Undefined)) @@ ("  " :> MCText("", 2, -1, -1, Undefined)) @@
    ("a" :> MCText("a", 1, -1, -1, Undefined)) @@ (" a" :> MCText("a", 2, -1, -1, Undefined)) @@
    ("b" :> MCText("b", 1, -1, -1, Undefined)) @@ ("on" :> MCText("on", 2, -1, 1, Undefined)) @@
    (" 7 " :> MCText("7", 3, 7, -1, Number(7))) @@ ("7" :> MCText("7", 1, 7, -1, Number(7))) @@
    ("+1" :> MCText("+1", 2, 1, -1, Undefined)) @@ ("1" :> MCText("1", 1, 1, 1, Number(1))) @@
    ("[]" :> MCText("[]", 2, -1, -1, List(<<>>)))

\* Every rule for one value, and every value there may be for it.
MCFlags(rule) ==
    {[rule EXCEPT !.required = rq, !.trim = tr, !.multiple = mu, !.nullable = nu, !.empty = em, !.max = 6] :
        rq, tr, mu \in BOOLEAN, nu \in {"unset", "yes", "no"}, em \in {"drop", "null", "keep"}}
MCDecimals == {[Rule EXCEPT !.type = "decimal", !.min = least] : least \in {0, 1}}
MCTextRules == {[Rule EXCEPT !.minLength = ml, !.default = df] : ml \in {0, 2}, df \in {Undefined, Text("a")}}
MCOtherRules == {[Rule EXCEPT !.type = type] : type \in {"int", "bool", "json"}} \union MCDecimals
MCValues ==
    {Undefined, Null, Number(1), Number(7), Boolean(TRUE), Record([a |-> Text("a")]), List(<<>>), List(<<Null>>)}
    \union {Text(t) : t \in DOMAIN MCTexts}
    \union {List(<<v, w>>) : v, w \in {Text(""), Text(" a"), Text("a"), Text("7"), Text("+1"), Number(1)}}

\* Records, lists, and lists of records with a key.
MCName == [Rule EXCEPT !.trim = TRUE, !.required = TRUE]
MCObject(rq, fields) == [Rule EXCEPT !.type = "object", !.required = rq] @@ [fields |-> fields]
MCLine == MCObject(TRUE, [a |-> MCName, b |-> [Rule EXCEPT !.type = "int", !.nullable = "yes", !.empty = "null"]])
MCArray(rule, key, least, most) ==
    [Rule EXCEPT !.type = "array", !.key = key, !.minItems = least, !.maxItems = most] @@ [items |-> rule]
MCStructures ==
    {MCObject(FALSE, [a |-> MCName]), MCLine, MCArray(MCName, "", 1, 2), MCArray(MCLine, "a", 0, 2),
     [Rule EXCEPT !.type = "record", !.maxItems = 1] @@ [entries |-> MCName],
     MCArray([Rule EXCEPT !.nullable = "yes"], "", 0, 9), MCArray(MCObject(TRUE, [a |-> Rule]), "a", 0, 2)}
MCFew == {Text(t) : t \in {"", " a", "a", "7"}}
MCRows == {Record([a |-> v]) : v \in MCFew} \union {Record([a |-> v, b |-> w]) : v \in MCFew, w \in MCFew \union {Null}}
MCData ==
    {Undefined, Null, Text(""), Text("a"), List(<<>>), List(<<Null>>), Record([a |-> Text("a"), c |-> Text("a")])}
    \union MCRows \union {List(<<v>>) : v \in MCRows} \union {List(<<v, w>>) : v, w \in MCRows}
    \union {List(<<v, w>>) : v, w \in MCFew} \union {List(<<v, v, v>>) : v \in MCFew}

MCFormCases ==
    ((UNION {MCFlags(rule) : rule \in MCTextRules \union MCOtherRules}) \X MCValues) \union (MCStructures \X MCData)

\* The record of the form session: a title and a note that may be nothing.
MCFormRule ==
    MCObject(FALSE, [title |-> MCName, note |-> [Rule EXCEPT !.nullable = "yes", !.empty = "null"]])
MCFormEntries == [title |-> {Text(""), Text(" a")}, note |-> {Text("b")}]
MCFirst == [title |-> Text("a"), note |-> Null]
MCOthers == {[title |-> Text("b"), note |-> Text("b")]}

-----------------------------------------------------------------------------
(* Views: a page has a hole, a node and a list; a row a node and a hole; a *)
(* bare one is a hole, a list another and a node.                          *)

MCTemplates == [page |-> <<1, 0, 2>>, row |-> <<0, 1>>, bare |-> <<1>>, list |-> <<1, 0>>]
MCView(t, values) == [template |-> t, values |-> values]
MCRow(t) == MCView("row", <<Plain(t)>>)
MCBare(t) == MCView("bare", <<Plain(t)>>)
MCItem(k, v) == [key |-> k, view |-> v]
MCHeads == {Plain(""), Plain("x"), Markup(<<"m", "n">>), Result(MCBare("x")), Result(MCRow("x"))}
MCOrders == {<<1, 1>>, <<1, 2, 3>>, <<3, 1, 2>>, <<3, 2, 1>>, <<2, 4, 1, 3>>}
MCOrdered(o, bare, t) ==
    Each([i \in DOMAIN o |-> MCItem(o[i], IF o[i] \in bare THEN MCBare(t) ELSE MCRow(t))])
MCListsInside == {Each(<<MCItem(1, MCBare("z"))>>), Each(<<MCItem(2, MCRow("")), MCItem(1, MCBare("z"))>>)}
MCViews ==
    {MCView("page", <<Plain(t), MCOrdered(o, b, t)>>) : o \in MCOrders, b \in {{1}, {2, 3}}, t \in {"", "x"}}
    \union {MCView("page", <<h, MCOrdered(<<2, 1>>, {1}, "y")>>) : h \in MCHeads}
    \union {MCView("page", <<Plain("y"), h>>) : h \in MCHeads}
    \union {MCView("list", <<Each(<<MCItem(1, MCView("bare", <<h>>)), MCItem(2, MCBare("x"))>>)>>)
                : h \in MCHeads \union MCListsInside}
    \union {MCView("list", <<Each(<<MCItem(2, MCBare("x")), MCItem(1, MCView("bare", <<h>>))>>)>>) : h \in MCListsInside}

-----------------------------------------------------------------------------
(* Islands: an order has a line inside it; a chart has no factory; the     *)
(* inbox and the order take new props.  Behaviors that match two pages.    *)

MCInner == [inbox |-> <<>>, order |-> <<"line">>, line |-> <<>>, chart |-> <<"line">>]
MCHost(id, props, matches) == [id |-> id, props |-> props, matches |-> matches]
MCHosts ==
    {MCHost("inbox", "p", TRUE), MCHost("inbox", "q", TRUE), MCHost("order", "p", TRUE), MCHost("order", "q", FALSE),
     MCHost("chart", "p", TRUE)}
MCContents == UNION {[1..n -> MCHosts] : n \in 0..3}

MCMatching ==
    [sidebar |-> [home |-> {}, orders |-> {"menu"}, order |-> {"menu"}],
     content |-> [home |-> {}, orders |-> {}, order |-> {"shortcut"}]]

-----------------------------------------------------------------------------
(* Calls.                                                                  *)

MCIds == {auditRow, customerRow, customerAgain, orderRow}
MCCompanies == {here, there}
\* Orders of a customer, and an audit that is only added to, for two companies of a branch
\* each.  A batch enqueues a job of its own scope and one across companies.
MCTarget(scope, append, target) == [scope |-> scope, append |-> append, target |-> target]
MCModelDefs ==
    [audit |-> MCTarget("company", TRUE, "none"), customer |-> MCTarget("company", FALSE, "none"),
     order |-> MCTarget("company+branch", FALSE, "customer")]
MCModelOf ==
    (auditRow :> "audit") @@ (customerRow :> "customer") @@ (customerAgain :> "customer") @@ (orderRow :> "order")
\* The id of a customer can be used again.
MCNameOf == [id \in MCIds |-> IF id = customerAgain THEN customerRow ELSE id]
MCFn(kind, reads, writes, enqueues, uses) ==
    [kind |-> kind, reads |-> reads, writes |-> writes, enqueues |-> enqueues, uses |-> uses,
     cross |-> FALSE, transactional |-> FALSE, dryRun |-> TRUE]
MCBoth == {"customer", "order"}
MCFns ==
    [place |-> MCFn("function", MCBoth, MCBoth, {}, {}),
     batch |-> MCFn("function", {}, {"audit"}, {"follow", "fan"}, {"tx", "notify"}),
     book |-> [MCFn("function", {}, {"audit"}, {}, {"notify"}) EXCEPT !.transactional = TRUE],
     follow |-> MCFn("job", {"audit"}, {"order"}, {}, {}),
     fan |-> [MCFn("job", {}, {"order"}, {"follow"}, {}) EXCEPT !.cross = TRUE]]
MCMaxOps == [place |-> 1, batch |-> 2, book |-> 2, follow |-> 1, fan |-> 1]

MCScope(c, cs, b, bs) == [company |-> c, companies |-> cs, branch |-> b, branches |-> bs]
MCRequest(fn, scope, dry) == [fn |-> fn, scope |-> scope, allow |-> {"place", "book", "batch"}, dry |-> dry]
MCRequests ==
    {MCRequest("place", MCScope(here, {here, there}, here, {here}), FALSE),
     MCRequest("place", MCScope(NoOne, {here, there}, NoOne, NoOne), FALSE),
     MCRequest("place", MCScope(there, NoOne, here, {there}), FALSE),
     MCRequest("book", MCScope(there, {there}, there, NoOne), FALSE)}
    \union {MCRequest("batch", MCScope(here, NoOne, here, {here}), dry) : dry \in BOOLEAN}
MCKeptRow(model, branch) ==
    [model |-> model, company |-> there, branch |-> branch, ref |-> NoOne, blind |-> FALSE, by |-> 0]
MCKeptRows == (customerRow :> MCKeptRow("customer", NoOne)) @@ (orderRow :> MCKeptRow("order", there))

-----------------------------------------------------------------------------
MCInit ==
    /\ part \in {"contract", "form", "render", "islands", "navigation", "context"}
    /\ IF part = "contract" THEN FcInit
       ELSE fcRule = Rule /\ fcRaw = Undefined /\ fcHeld = Undefined /\ fcPass = 0
    /\ FsInit /\ IsInit /\ NgInit
    /\ CxInit /\ (part # "context" => \A id \in Ids : cxRows[id] = NoOne)
    /\ IF part = "render" THEN RdInit
       ELSE /\ rdRoot = NoRoot /\ rdDoc = <<>> /\ rdNext = 1 /\ rdView = NoRoot
            /\ rdRenders = 0 /\ rdThrew = FALSE /\ rdMoves = 0

\* Nothing changes outside the part.
Only(p) ==
    /\ part = p /\ UNCHANGED part
    /\ p # "contract" => UNCHANGED fcVars
    /\ p # "form" => UNCHANGED fsVars
    /\ p # "render" => UNCHANGED rdVars
    /\ p # "islands" => UNCHANGED isVars
    /\ p # "navigation" => UNCHANGED ngVars
    /\ p # "context" => UNCHANGED cxVars

MCNext ==
    \/ Only("contract") /\ FcNext
    \/ Only("form") /\ FsNext
    \/ Only("render") /\ RdNext
    \/ Only("islands") /\ IsNext
    \/ Only("navigation") /\ NgNext
    \/ Only("context") /\ CxNext

MCSpec == MCInit /\ [][MCNext]_<<part, fcVars, fsVars, rdVars, isVars, ngVars, cxVars>>

\* The variables of every part keep their types.
TypesOK == FsTypeOK /\ NgTypeOK /\ CxTypeOK
=============================================================================
