------------------------------ MODULE MCUpgrade ------------------------------
(***************************************************************************)
(* Checkouts of up to four modules, each with a few revisions that         *)
(* exercise one part of composition: what reaches over modules, what is    *)
(* taken twice, what is there or not, and what an upgrade changes.         *)
(***************************************************************************)
EXTENDS Upgrade, TLC

Rank(order) == [m \in {order[i] : i \in DOMAIN order} |-> CHOOSE i \in DOMAIN order : order[i] = m]
MCRanks == {Rank(<<"base", "shop", "promo", "theme">>), Rank(<<"promo", "shop", "base", "theme">>),
            Rank(<<"theme", "shop", "base", "promo">>), Rank(<<"shop", "promo", "theme", "base">>)}

\* Every choice of an offer for each module, or of none.
Worlds(offers, companies) ==
    LET All == {c \in [DOMAIN offers -> {Nothing} \union UNION {offers[m] : m \in DOMAIN offers}] :
                  \A m \in DOMAIN offers : c[m] \in offers[m] \union {Nothing}}
        Kept(c) == {m \in DOMAIN c : c[m] # Nothing}
    IN  {[mods |-> [m \in Kept(c) |-> c[m]], rank |-> Rank(<<"base", "shop", "promo", "theme">>), companies |-> companies,
          headless |-> "theme" \notin DOMAIN offers, required |-> {}, covered |-> FALSE, templates |-> {}] : c \in All}

F(name, base, optional) == [name |-> name, base |-> base, optional |-> optional, target |-> Nothing, sensitive |-> FALSE]
Ref(name, target) == [F(name, "ref", TRUE) EXCEPT !.target = target]
Model(name, scope, fields) ==
    [name |-> name, scope |-> scope, append |-> FALSE, timestamps |-> FALSE, fields |-> fields, indexes |-> {<<"id">>}]
Fn(name, flags, effects, input) == [name |-> name, flags |-> flags, effects |-> effects, input |-> input, returns |-> Nothing]
Job(name, effects, input) ==
    [name |-> name, idempotent |-> TRUE, effects |-> effects, input |-> input, queue |-> "default", schedule |-> Nothing]
Does(does, on) == [does |-> does, on |-> on]
Arg(name, optional) == [name |-> name, optional |-> optional]
Report(target, source) == [name |-> "sales", target |-> target, source |-> source]

Order == <<"base", "Order">>
Line == <<"shop", "Line">>
Id == F("id", "id", FALSE)
Orders(scope, fields) == {Model("Order", scope, {Id} \union fields)}
Base == [Bare EXCEPT !.models = Orders("shared", {F("note", "text", TRUE)})]
Over == [Bare EXCEPT !.depends = {"base"}]

\* Models as they are declared, and what changes of them.
Modelling ==
    LET With(model) == [Bare EXCEPT !.models = {model}]
        Plain == Model("Order", "company", {Id, F("note", "text", TRUE)})
    IN  Worlds([base |-> {With(Plain),
                          With([Plain EXCEPT !.append = TRUE, !.timestamps = TRUE, !.indexes = {<<"note", "companyId">>}]),
                          With([Plain EXCEPT !.scope = "branch", !.fields = {Id, [F("note", "text", FALSE) EXCEPT !.sensitive = TRUE]}]),
                          With([Plain EXCEPT !.fields = {Id, F("note", "int", FALSE)}]),
                          With([Plain EXCEPT !.fields = {Id, F("note", "int", TRUE), F("companyId", "text", TRUE)}]),
                          With([Plain EXCEPT !.scope = "none"]),
                          With([Plain EXCEPT !.timestamps = TRUE, !.fields = {Id, F("createdAt", "datetime", TRUE), F("x", "unknown", TRUE)}]),
                          With([Plain EXCEPT !.fields = @ \union {[Ref("prior", Order) EXCEPT !.optional = FALSE]},
                                             !.indexes = {<<>>, <<"gone">>, <<"id", "id">>}])},
                shop |-> {[Over EXCEPT !.models = {Model("Line", "company", {Id, Ref("order", Order)})}, !.depends = @ \union {"promo"}],
                          [Bare EXCEPT !.models = {Model("Table", "shared", {Id})},
                                       !.views = {[name |-> "Notes", of |-> Order, fields |-> {"id"}]}],
                          [Over EXCEPT !.views = {[name |-> "Notes", of |-> Order, fields |-> {"id", "note"}]}]},
                promo |-> {[Bare EXCEPT !.models = {Model("Table", "shared", {Id})}, !.depends = {"shop"}],
                           [Over EXCEPT !.extend = {[on |-> Order, field |-> F("companyId", "text", TRUE)]}]}], TRUE)

\* Extension, views and relations over modules.
Extending ==
    LET Tag == [on |-> Order, field |-> F("tag", "text", TRUE)]
        Lines == [on |-> Order, name |-> "lines", many |-> TRUE, target |-> Line, by |-> "order"]
        Lined == [Over EXCEPT !.models = {Model("Line", "company", {Id, Ref("order", Order)})}]
    IN  Worlds([base |-> {Base, [Base EXCEPT !.models = Orders("company", {F("tag", "text", FALSE)})],
                          [Base EXCEPT !.models = Orders("company", {F("note", "text", TRUE)})]},
                shop |-> {[Over EXCEPT !.extend = {Tag}], [Bare EXCEPT !.extend = {Tag}], [Lined EXCEPT !.relations = {Lines}],
                          [Lined EXCEPT !.models = {Model("Line", "shared", {Id})}, !.relations = {Lines}],
                          [Over EXCEPT !.extend = {[Tag EXCEPT !.field.optional = FALSE]}]},
                promo |-> {[Over EXCEPT !.extend = {[Tag EXCEPT !.field = F("tag", "json", FALSE)]}],
                           [Over EXCEPT !.views = {[name |-> "Tags", of |-> Order, fields |-> {"id", "tag"}]}],
                           [Over EXCEPT !.relations = {Lines}],
                           [Over EXCEPT !.depends = @ \union {"shop"}, !.relations = {[Lines EXCEPT !.on = Line, !.target = Order]}],
                           [Bare EXCEPT !.models = {Model("Line", "shared", {Id})},
                                        !.relations = {[Lines EXCEPT !.on = <<"promo", "Line">>]}]}], TRUE)

\* Functions, jobs and reports: what they touch and enqueue.
Calling ==
    LET Sync == <<"promo", "sync">>
        Push(effects) == {Job("push", effects, {})}
    IN  Worlds([base |-> {[Base EXCEPT !.functions = {Fn("list", {}, {Does("read", Order)}, {})}],
                          [Base EXCEPT !.functions = {Fn("list", {}, {Does("write", Order)}, {})}],
                          [Base EXCEPT !.jobs = Push({Does("read", Line), Does("enqueue", <<"base", "gone">>)})]},
                shop |-> {[Bare EXCEPT !.optional = {"promo"}, !.jobs = Push({Does("enqueue", Sync)})],
                          [Over EXCEPT !.jobs = Push({Does("enqueue", Sync)}), !.functions = {Fn("now", {}, {Does("write", Line)}, {})}],
                          [Over EXCEPT !.depends = {"promo"}, !.jobs = Push({Does("write", Order), Does("enqueue", Sync)})],
                          [Over EXCEPT !.reports = {Report(Order, <<"base", "list">>)}],
                          [Bare EXCEPT !.reports = {Report(Order, <<"base", "list">>)}]},
                promo |-> {[Over EXCEPT !.jobs = {Job("sync", {Does("read", Order)}, {})}],
                           [Bare EXCEPT !.jobs = {Job("sync", {Does("read", Order)}, {})}],
                           [Bare EXCEPT !.optional = {"base"}, !.jobs = {Job("sync", {Does("read", Order)}, {})},
                                        !.functions = {Fn("now", {}, {Does("enqueue", Sync), Does("enqueue", <<"shop", "push">>)}, {})}],
                           [Over EXCEPT !.functions = {Fn("now", {}, {Does("enqueue", <<"base", "gone">>), Does("read", <<"base", "Gone">>)}, {})}]}],
               FALSE)

\* The contracts of one module's functions, jobs and reports as they change.
Changing ==
    LET Of(function, job, report) == [Base EXCEPT !.functions = {function}, !.jobs = {job}, !.reports = {report}]
        List == Fn("list", {"idempotent"}, {Does("read", Order)}, {Arg("page", TRUE)})
        Sync == Job("sync", {}, {Arg("since", TRUE)})
        Sales == Report(Order, <<"base", "list">>)
    IN  Worlds([base |-> {Of(List, Sync, Sales),
                          Of([List EXCEPT !.flags = @ \union {"internal"}], [Sync EXCEPT !.input = {}], Sales),
                          Of([List EXCEPT !.flags = {"crossCompany"}, !.input = {Arg("page", FALSE)}],
                             [Sync EXCEPT !.input = {Arg("since", FALSE)}], Sales),
                          Of([List EXCEPT !.flags = @ \union {"transactional", "internal", "provision"}, !.input = {Arg("size", FALSE)}],
                             [Sync EXCEPT !.input = @ \union {Arg("shop", FALSE)}], Sales),
                          Of([List EXCEPT !.flags = {"anonymous", "agent", "dryRun"}, !.returns = "many"],
                             [Sync EXCEPT !.queue = "slow", !.schedule = "1h"], Sales),
                          Of([List EXCEPT !.flags = {"transactional", "provision"}], [Sync EXCEPT !.idempotent = FALSE], Sales),
                          Of([List EXCEPT !.returns = "one"], [Sync EXCEPT !.schedule = "1h", !.input = {Arg("since", FALSE)}], Sales)},
                shop |-> {[Bare EXCEPT !.functions = {Fn("run", {"anonymous"}, {}, {})}],
                          [Over EXCEPT !.models = {Model("Line", "none", {Id})}, !.functions = {Fn("run", {}, {}, {})},
                                       !.reports = {Report(Line, <<"shop", "run">>)}],
                          [Over EXCEPT !.functions = {Fn("run", {}, {Does("write", Order)}, {})}, !.reports = {Report(Order, <<"base", "list">>)}],
                          [Over EXCEPT !.models = {Model("Line", "company", {Id})}, !.reports = {Report(Order, <<"shop", "run">>)}]}], FALSE)

\* Navigation, joints, sections and islands.
Showing ==
    LET Aside == <<"base", "aside">>
        View == <<"base", "Orders">>
        Entry(id, parent, needs) == [id |-> id, parent |-> parent, needs |-> needs, requires |-> {}]
        Cart(props) == {[name |-> "cart", props |-> props, client |-> TRUE]}
        Latest(resolve) == {[name |-> "latest", resolve |-> resolve]}
        Shown == [Base EXCEPT !.joints = {[name |-> "aside", multiple |-> FALSE, props |-> {}]},
                              !.menus = {Entry("root", Nothing, Nothing)},
                              !.views = {[name |-> "Orders", of |-> Order, fields |-> {"id"}]},
                              !.functions = {Fn("list", {"anonymous"}, {Does("read", Order)}, {})}]
    IN  Worlds([base |-> {Shown, [Shown EXCEPT !.menus = {Entry("root", "promos", <<"promo", "run">>)}, !.omits = {Aside}],
                          [Shown EXCEPT !.joints = {[name |-> "aside", multiple |-> TRUE, props |-> {View}]}]},
                shop |-> {[Over EXCEPT !.fills = {Aside}, !.menus = {Entry("orders", "root", <<"base", "list">>)}],
                          [Bare EXCEPT !.fills = {Aside}, !.menus = {Entry("orders", "root", <<"promo", "run">>)}],
                          [Over EXCEPT !.assets = TRUE, !.behaviors = {"drag"}, !.islands = Cart({View}), !.sections = Latest(<<"base", "list">>)],
                          [Bare EXCEPT !.islands = Cart({View, Order}), !.sections = Latest(<<"base", "list">>), !.behaviors = {"drag"}]},
                promo |-> {[Over EXCEPT !.fills = {Aside}, !.menus = {Entry("promos", "root", Nothing)},
                                        !.functions = {Fn("run", {}, {Does("write", Order)}, {})}],
                           [Over EXCEPT !.menus = {[Entry("orders", "root", Nothing) EXCEPT !.requires = {<<"base", "list">>}]},
                                        !.islands = Cart({}), !.functions = {Fn("run", {"anonymous"}, {Does("write", Order)}, {})},
                                        !.sections = Latest(<<"promo", "run">>)],
                           [Over EXCEPT !.assets = TRUE, !.behaviors = {"drag"}, !.omits = {Aside}],
                           [Bare EXCEPT !.omits = {Aside}],
                           [Bare EXCEPT !.joints = {[name |-> "aside", multiple |-> TRUE, props |-> {View}]},
                                        !.menus = {[Entry("promos", Nothing, Nothing) EXCEPT !.requires = {<<"base", "list">>}]}]}], FALSE)

\* Paths, versions, the theme's regions, tokens and content.
Serving ==
    LET At(path, through) == [path |-> path, through |-> through]
        Ink(value) == {[name |-> "ink", value |-> value]}
        From(op, parts) == {[on |-> "base", range |-> [op |-> op, parts |-> parts]]}
        Topic(refs) == {[name |-> "topic", refs |-> refs]}
        Post(refs) == {[name |-> "post", refs |-> refs]}
        Bound(worlds) == worlds \union {[w EXCEPT !.headless = TRUE] : w \in worlds}
    IN  Bound(Worlds([base |-> {[Bare EXCEPT !.reserves = {<<"shop">>}, !.routes = {At(<<"shop", "{id}">>, Nothing)}, !.version = <<1, 2, 0>>, !.tokens = Ink("black")],
                          [Bare EXCEPT !.version = <<2, 0, 0>>, !.routes = {At(<<"shop">>, Nothing)}, !.requires = {"footer"},
                                       !.taxonomies = Topic({<<"shop", "post">>})],
                          [Bare EXCEPT !.taxonomies = Topic({}), !.version = <<0, 3, 1>>, !.requires = {"footer"}]},
                shop |-> {[Over EXCEPT !.compatible = From("^", <<1, 1>>), !.routes = {At(<<"shop", "cart">>, "base")}, !.tokens = Ink("blue")],
                          [Over EXCEPT !.compatible = From("~", <<0, 3>>), !.routes = {At(<<"shop", "deals", "{id}">>, Nothing)},
                                       !.contentTypes = Post({<<"base", "topic">>})],
                          [Over EXCEPT !.compatible = From("=", <<2, 0, 0>>), !.routes = {At(<<"{slug}">>, Nothing), At(<<"shop", "cart">>, Nothing)}],
                          [Bare EXCEPT !.contentTypes = Post({<<"base", "topic">>}), !.compatible = From("^", <<0, 3, 0>>)]},
                promo |-> {[Bare EXCEPT !.routes = {At(<<"{id}", "cart">>, Nothing)}, !.reserves = {<<"deals">>}, !.tokens = Ink("red")],
                           [Bare EXCEPT !.routes = {At(<<"shop">>, Nothing)}, !.reserves = {<<"shop", "deals">>}]},
                theme |-> {[Bare EXCEPT !.theme = TRUE, !.provides = {"footer"}, !.tokens = Ink("grey")]}], FALSE))

\* The catalogue of permissions, with its coverage and a role.
Granting ==
    LET View == <<"base", "view">>
        Manage == <<"shop", "manage">>
        Catalogue(bundles, classified) == [bundles |-> bundles, classified |-> classified, exempt |-> {}]
        Bundle(key, includes) == [key |-> key, includes |-> includes]
        Class(fn, risk, bundles) == [fn |-> fn, risk |-> risk, bundles |-> bundles, policy |-> risk # "security"]
        Listed(bundles, classified) == [Bare EXCEPT !.functions = {Fn("list", {}, {}, {})}, !.permissions = Catalogue(bundles, classified)]
        List == <<"base", "list">>
        Edit == <<"shop", "edit">>
        Edited(risk, keys) == [Over EXCEPT !.functions = {Fn("edit", {}, {}, {})},
                                           !.permissions = Catalogue({Bundle(Manage, {View})}, {Class(Edit, risk, keys)})]
        Run == <<"promo", "run">>
        Given(offers) == {[w EXCEPT !.covered = TRUE, !.templates = {[key |-> "base.clerk", bundles |-> {View}]}]
                          : w \in Worlds(offers, FALSE)}
    IN  Given([base |-> {Listed({Bundle(View, {})}, {Class(List, "read", {View})}), Listed({Bundle(View, {Manage})}, {}),
                         [Listed({Bundle(View, {})}, {}) EXCEPT !.permissions.exempt = {List}],
                         Listed({Bundle(View, {View})}, {Class(List, "operate", {View})})},
               shop |-> {Edited("operate", {View}), Edited("approve", {View, Manage}), Edited("security", {Manage}),
                         [Edited("operate", {Manage}) EXCEPT !.depends = {}]},
               promo |-> {[Bare EXCEPT !.functions = {Fn("run", {"internal"}, {}, {})}],
                          [Over EXCEPT !.functions = {Fn("run", {}, {}, {})}, !.permissions = Catalogue({}, {Class(Run, "read", {View})})],
                          [Bare EXCEPT !.permissions = Catalogue({}, {Class(Run, "security", {})})]}])

MCCheckouts == {"modelling", "extending", "calling", "changing", "showing", "serving", "granting"}
MCRevisions(checkout) ==
    CASE checkout = "modelling" -> Modelling [] checkout = "extending" -> Extending [] checkout = "calling" -> Calling
      [] checkout = "changing" -> Changing [] checkout = "showing" -> Showing [] checkout = "serving" -> Serving
      [] checkout = "granting" -> Granting

\* tableNameFor escapes what would make two models one table; of these it makes the two
\* Tables one, as it does models whose names differ in case.
MCTableOf(key) == IF key[2] = "Table" THEN <<"any", "Table">> ELSE key
=============================================================================
