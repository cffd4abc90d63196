------------------------------- MODULE Compose -------------------------------
(***************************************************************************)
(* The composition of modules into a manifest: kernel/compose.ts with the  *)
(* dependency order of graph.ts, the version ranges of semver.ts and the   *)
(* route patterns of routes.ts.  A function of the declarations, so this   *)
(* module has no variables: Upgrade composes again and again.              *)
(*                                                                         *)
(* What is composed is a world: the modules by their names, the rank of    *)
(* each name in the order of sort(), and the options.  A model, function,  *)
(* job, view, joint, bundle, content type or taxonomy is the pair of its   *)
(* module and its own name (qualify, jointKey).  The composition so far is *)
(* a record of sets, and errors the codes that were reported: whom a       *)
(* diagnostic names, how it reads, and what is checked of one string       *)
(* alone (a name, a pattern, a path) is left out.                          *)
(***************************************************************************)
EXTENDS Integers, Sequences, FiniteSets
LOCAL INSTANCE TLC
LOCAL INSTANCE SequencesExt
LOCAL INSTANCE FiniteSetsExt

CONSTANT
    TableOf(_),     \* tableNameFor: the table of a model
    Nothing         \* no parent, no gate, no resolver

-----------------------------------------------------------------------------
(* Declarations                                                            *)

\* What defineModule makes of a module that declares nothing.
Bare == [ depends |-> {}, optional |-> {}, theme |-> FALSE, version |-> <<0, 0, 0>>, compatible |-> {},
          assets |-> FALSE, reserves |-> {}, routes |-> {}, models |-> {}, extend |-> {}, relations |-> {},
          menus |-> {}, joints |-> {}, fills |-> {}, omits |-> {}, functions |-> {}, jobs |-> {},
          reports |-> {}, views |-> {}, behaviors |-> {}, islands |-> {}, sections |-> {},
          contentTypes |-> {}, taxonomies |-> {}, provides |-> {}, requires |-> {}, tokens |-> {},
          permissions |-> Nothing ]

-----------------------------------------------------------------------------
(* graph.ts                                                                *)

MissingDependency(mods) == \E m \in DOMAIN mods : ~(mods[m].depends \subseteq DOMAIN mods)

\* visit: of each in the order of sort(), its dependencies and then the module.
RECURSIVE Visited(_, _, _)
Visited(w, s, names) ==
    LET One(t, m) ==
            IF m \in t.open THEN [t EXCEPT !.cycle = TRUE]
            ELSE IF Contains(t.out, m) THEN t
            ELSE LET below == Visited(w, [t EXCEPT !.open = @ \union {m}], w.mods[m].depends)
                 IN  [below EXCEPT !.open = @ \ {m}, !.out = Append(@, m)]
    IN  FoldLeft(One, s, SetToSortSeq(names, LAMBDA m, n : w.rank[m] < w.rank[n]))

TopoSort(w) == Visited(w, [out |-> <<>>, open |-> {}, cycle |-> FALSE], DOMAIN w.mods)

\* closureOf: the module and everything its dependencies reach.
Closure(mods, m) ==
    LET reached[n \in Nat] ==
            IF n = 0 THEN {m}
            ELSE reached[n - 1] \union UNION {mods[x].depends : x \in reached[n - 1] \intersect DOMAIN mods}
    IN  reached[Cardinality(DOMAIN mods)]

Sees(mods, m, other) == m = other \/ other \in mods[m].depends
Reaches(mods, m, other) == other \in Closure(mods, m) \/ other \in mods[m].optional

-----------------------------------------------------------------------------
(* semver.ts: versions and ranges without prereleases                      *)

VersionAtLeast(v, w) ==
    \/ v = w
    \/ \E i \in 1 .. 3 : v[i] > w[i] /\ \A j \in 1 .. i - 1 : v[j] = w[j]

\* The first version a range of one to three parts leaves out.
Ceil(range) ==
    LET p == range.parts IN
    CASE range.op = "^" /\ (p[1] > 0 \/ Len(p) = 1) -> <<p[1] + 1, 0, 0>>
      [] range.op = "^" /\ p[1] = 0 /\ Len(p) > 1 /\ (p[2] > 0 \/ Len(p) = 2) -> <<0, p[2] + 1, 0>>
      [] range.op = "^" /\ p[1] = 0 /\ Len(p) = 3 /\ p[2] = 0 -> <<0, 0, p[3] + 1>>
      [] range.op # "^" /\ Len(p) = 1 -> <<p[1] + 1, 0, 0>>
      [] range.op # "^" /\ Len(p) > 1 -> <<p[1], p[2] + 1, 0>>

Satisfies(version, range) ==
    LET low == [i \in 1 .. 3 |-> IF i <= Len(range.parts) THEN range.parts[i] ELSE 0]
    IN  IF range.op = "=" /\ Len(range.parts) = 3 THEN version = low
        ELSE VersionAtLeast(version, low) /\ ~VersionAtLeast(version, Ceil(range))

-----------------------------------------------------------------------------
(* routes.ts: a path is the sequence of its segments                       *)

IsParam(segment) == segment \in {"{id}", "{slug}"}
StaticCount(path) == Cardinality({i \in DOMAIN path : ~IsParam(path[i])})

\* Both can match one path and neither is more specific.
AmbiguousRoutes(a, b) ==
    /\ Len(a) = Len(b) /\ StaticCount(a) = StaticCount(b)
    /\ \A i \in DOMAIN a : IsParam(a[i]) \/ IsParam(b[i]) \/ a[i] = b[i]

-----------------------------------------------------------------------------
(* The passes.  Each goes over the modules in dependency order and keeps   *)
(* the entries that pass its checks, the first of which that fails is the  *)
(* error.                                                                  *)

Refused(checks) ==
    LET failed == {i \in DOMAIN checks : checks[i][1]} IN
    IF failed = {} THEN {} ELSE {checks[Min(failed)][2]}

Pass(w, c, Of(_), Checks(_, _, _), Put(_, _, _)) ==
    LET Kept(e, d, m, no) == IF no = {} THEN Put(d, m, e) ELSE [d EXCEPT !.errors = @ \union no]
        Entry(e, d, m) == Kept(e, d, m, Refused(Checks(d, m, e)))
    IN  FoldLeft(LAMBDA d, m : FoldSet(LAMBDA e, x : Entry(e, x, m), d, Of(m)), c, w.order)

\* Errors that do not keep an entry out.
Reported(c, found) == [c EXCEPT !.errors = @ \union {f[2] : f \in {x \in found : x[1]}}]

Keys(entries) == {e.key : e \in entries}
The(entries, key) == CHOOSE e \in entries : e.key = key
Changes(effect) == effect.does \in {"write", "enqueue"}

Reserves(w, c) ==
    Pass(w, c, LAMBDA m : w.mods[m].reserves,
         LAMBDA d, m, p : << <<\E q \in d.prefixes : IsPrefix(p, q.path) \/ IsPrefix(q.path, p), "E_ROUTE_PREFIX_CLASH">> >>,
         LAMBDA d, m, p : [d EXCEPT !.prefixes = @ \union {[path |-> p, by |-> m]}])

Compatible(w, c) ==
    Pass(w, c, LAMBDA m : w.mods[m].compatible,
         LAMBDA d, m, x : << <<x.on \notin w.mods[m].depends, "E_MODULE_COMPATIBILITY_DEPENDENCY">>,
                             <<x.on \in w.mods[m].depends /\ ~Satisfies(w.mods[x.on].version, x.range),
                               "E_MODULE_VERSION_SKEW">> >>,
         LAMBDA d, m, x : d)

\* Mutant: prefixes are taken along with the routes, module by module.
TrespassesSoFar(w, d, m, r) ==
    \E q \in d.prefixes : /\ \E i, j \in DOMAIN w.order : i < j /\ w.order[i] = q.by /\ w.order[j] = m
                          /\ IsStrictPrefix(q.path, r.path) /\ ~(r.through = q.by /\ q.by \in w.mods[m].depends)

\* Inside a prefix only its owner serves, or who goes through it and depends on it.
Trespasses(w, d, m, r) ==
    \E q \in d.prefixes : /\ IsStrictPrefix(q.path, r.path)
                          /\ m # q.by /\ ~(r.through = q.by /\ q.by \in w.mods[m].depends)

Routes(w, c) ==
    Pass(w, c, LAMBDA m : w.mods[m].routes,
         LAMBDA d, m, r : << <<Len(r.path) > 1 /\ r.path[1] = "_ket", "E_ROUTE_RESERVED">>,
                             <<Trespasses(w, d, m, r), "E_ROUTE_RESERVED">>,
                             <<\E o \in d.routes : o.path = r.path, "E_ROUTE_CLASH">>,
                             <<\E o \in d.routes : AmbiguousRoutes(o.path, r.path), "E_ROUTE_AMBIGUOUS">> >>,
         LAMBDA d, m, r : [d EXCEPT !.routes = @ \union {[path |-> r.path, by |-> m]}])

-----------------------------------------------------------------------------
(* Models, their extension, relations                                      *)

Supplied(names, by, optional) ==
    {[name |-> n, base |-> "text", optional |-> optional, target |-> Nothing, sensitive |-> FALSE, by |-> by] : n \in names}
ScopeColumns(scope) ==
    (IF scope \in {"company", "branch"} THEN {"companyId"} ELSE {}) \union (IF scope = "branch" THEN {"branchId"} ELSE {})
Stamps(def) == IF def.timestamps THEN {"createdAt", "updatedAt"} ELSE {}

FieldNames(model) == {f.name : f \in model.fields}
By(f, m) == [name |-> f.name, base |-> f.base, optional |-> f.optional, target |-> f.target, sensitive |-> f.sensitive, by |-> m]

FieldChecks(def, key, f) ==
    << <<f.name \in ScopeColumns(def.scope), "E_SCOPE_FIELD_RESERVED">>,
       <<f.name \in Stamps(def), "E_TIMESTAMP_FIELD_RESERVED">>,
       <<f.base = "unknown", "E_BAD_TYPE">>,
       <<f.base = "ref" /\ f.target = key /\ ~f.optional, "E_SELF_REF_REQUIRED">> >>

IndexChecks(names, index) ==
    << <<index = <<>>, "E_INDEX_EMPTY">>,
       <<~(ToSet(index) \subseteq names), "E_INDEX_UNKNOWN_FIELD">>,
       <<~IsInjective(index), "E_INDEX_DUPLICATE_FIELD">> >>

Composed(m, def) ==
    LET key == <<m, def.name>>
        own == {By(f, m) : f \in {x \in def.fields : Refused(FieldChecks(def, key, x)) = {}}}
        fields == own \union Supplied(ScopeColumns(def.scope), "(scope)", FALSE)
                      \union Supplied(Stamps(def), "(timestamps)", TRUE)
    IN  [ key |-> key, scope |-> IF def.scope = "none" THEN "shared" ELSE def.scope, append |-> def.append,
          fields |-> fields,
          indexes |-> {i \in def.indexes : Refused(IndexChecks({f.name : f \in fields}, i)) = {}} ]

\* Two models of one table, whether or not they are kept.
TableCollision(w) ==
    LET all == UNION {{<<m, def.name>> : def \in w.mods[m].models} : m \in DOMAIN w.mods}
    IN  \E a, b \in all : a # b /\ TableOf(a) = TableOf(b)

PutModel(d, m, def) ==
    LET model == Composed(m, def) IN
    [d EXCEPT !.models = @ \union {model},
              !.errors = @ \union UNION {Refused(FieldChecks(def, model.key, f)) : f \in def.fields}
                           \union UNION {Refused(IndexChecks(FieldNames(model), i)) : i \in def.indexes}]

Models(w, c) ==
    Pass(w, Reported(c, {<<TableCollision(w), "E_TABLE_NAME_COLLISION">>}), LAMBDA m : w.mods[m].models,
         LAMBDA d, m, def : << <<def.scope = "none" /\ w.companies, "E_MODEL_NO_SCOPE">>,
                               <<def.scope \in {"company", "branch"} /\ ~w.companies, "E_COMPANIES_DISABLED">> >>,
         PutModel)

Extends(w, c) ==
    Pass(w, c, LAMBDA m : w.mods[m].extend,
         LAMBDA d, m, x : << <<x.on \notin Keys(d.models), "E_EXTEND_UNKNOWN_MODEL">>,
                             <<~Sees(w.mods, m, x.on[1]), "E_EXTEND_NOT_DEPENDED">>,
                             <<x.field.name \in {"companyId", "branchId"}, "E_SCOPE_FIELD_RESERVED">>,
                             <<\E o \in d.models : o.key = x.on /\ x.field.name \in FieldNames(o), "E_FIELD_COLLISION">>,
                             <<x.field.base = "unknown", "E_BAD_TYPE">>,
                             <<~x.field.optional /\ x.field.base # "json", "E_EXTEND_REQUIRES_OPTIONAL">> >>,
         LAMBDA d, m, x : [d EXCEPT !.models = {IF o.key = x.on THEN [o EXCEPT !.fields = @ \union {By(x.field, m)}] ELSE o
                                                : o \in @}])

\* The key is on the model itself for belongsTo, on the far side for hasMany.
LacksKey(d, x) == \E o \in d.models : o.key = (IF x.many THEN x.target ELSE x.on) /\ x.by \notin FieldNames(o)
Widens(d, x) == \E o, t \in d.models : o.key = x.on /\ t.key = x.target /\ o.scope = "shared" /\ t.scope # "shared"

\* A name that is taken is taken over.
Relations(w, c) ==
    Pass(w, c, LAMBDA m : w.mods[m].relations,
         LAMBDA d, m, x : << <<x.on \notin Keys(d.models), "E_RELATION_UNKNOWN_MODEL">>,
                             <<~Sees(w.mods, m, x.on[1]), "E_RELATION_NOT_DEPENDED">>,
                             <<x.target \notin Keys(d.models), "E_RELATION_UNKNOWN_TARGET">>,
                             <<~Sees(w.mods, m, x.target[1]), "E_RELATION_NOT_DEPENDED">>,
                             <<LacksKey(d, x), "E_RELATION_NO_KEY">>,
                             <<Widens(d, x), "E_RELATION_WIDENS_SCOPE">> >>,
         LAMBDA d, m, x : [d EXCEPT !.relations =
                              {r \in @ : ~(r.on = x.on /\ r.name = x.name)}
                              \union {[on |-> x.on, name |-> x.name, many |-> x.many, target |-> x.target, by |-> x.by,
                                       declaredBy |-> m]}])

-----------------------------------------------------------------------------
(* Navigation                                                              *)

\* The entries on the way up from one, itself included when the way comes back to it.
Ancestors(menus, id) ==
    LET up[n \in Nat] == IF n = 0 THEN {o.parent : o \in {x \in menus : x.id = id}}
                         ELSE up[n - 1] \union {o.parent : o \in {x \in menus : x.id \in up[n - 1]}}
    IN  up[Cardinality(menus)] \ {Nothing}

Menus(w, c) ==
    LET Under(e, p) == e.parent = p.id
        Linked(d) ==
            Reported(d, {<<\E e \in d.menus : e.parent # Nothing /\ ~\E p \in d.menus : Under(e, p), "E_MENU_UNKNOWN_PARENT">>,
                         <<\E e, p \in d.menus : Under(e, p) /\ ~Sees(w.mods, e.by, p.by), "E_MENU_NOT_DEPENDED">>,
                         <<\E e \in d.menus : e.id \in Ancestors(d.menus, e.id), "E_MENU_CYCLE">>})
    IN  Linked(Pass(w, c, LAMBDA m : w.mods[m].menus,
                    LAMBDA d, m, e : << <<\E o \in d.menus : o.id = e.id, "E_MENU_DUPLICATE">> >>,
                    LAMBDA d, m, e : [d EXCEPT !.menus = @ \union
                                        {[id |-> e.id, parent |-> e.parent, needs |-> e.needs, requires |-> e.requires, by |-> m]}]))

\* Once the functions are there: a gate of a module that is here must exist, and what an
\* entry that is shown requires.
Gates(w, c) ==
    LET Here(f) == f \in Keys(c.functions) IN
    Reported(c, {<<\E e \in c.menus : e.needs # Nothing /\ ~Here(e.needs) /\ e.needs[1] \in DOMAIN w.mods,
                   "E_MENU_UNKNOWN_FUNCTION">>,
                 <<\E e \in c.menus : (e.needs # Nothing => Here(e.needs)) /\ \E f \in e.requires : ~Here(f),
                   "E_MENU_UNKNOWN_FUNCTION">>})

-----------------------------------------------------------------------------
(* Joints, fills and omissions                                             *)

Joints(w, c) ==
    [c EXCEPT !.joints = UNION {{[key |-> <<m, j.name>>, multiple |-> j.multiple, props |-> j.props] : j \in w.mods[m].joints}
                                : m \in DOMAIN w.mods}]

FillsOf(c, key) == {f \in c.fills : f.joint = key}

Fills(w, c) ==
    LET Filled(d) ==
            Reported(d, {<<\E j \in d.joints : ~j.multiple /\ Cardinality(FillsOf(d, j.key)) > 1, "E_JOINT_CARDINALITY">>})
    IN  Filled(Pass(w, c, LAMBDA m : w.mods[m].fills,
                    LAMBDA d, m, key : << <<key \notin Keys(d.joints), "E_FILL_UNKNOWN_JOINT">>,
                                          <<~Sees(w.mods, m, key[1]), "E_FILL_NOT_DEPENDED">> >>,
                    LAMBDA d, m, key : [d EXCEPT !.fills = @ \union {[joint |-> key, by |-> m]}]))

\* A joint that is omitted and filled is recorded.
Omits(w, c) ==
    Pass(w, c, LAMBDA m : w.mods[m].omits,
         LAMBDA d, m, key : << <<key \notin Keys(d.joints), "E_OMIT_UNKNOWN_JOINT">>,
                               <<~Sees(w.mods, m, key[1]), "E_OMIT_NOT_DEPENDED">> >>,
         LAMBDA d, m, key : IF FillsOf(d, key) = {} THEN d ELSE [d EXCEPT !.patches = @ \union {key}])

-----------------------------------------------------------------------------
(* Functions, jobs and what they may touch                                 *)

\* checkModelEffect: the model is there and out of reach; or it is not there, and neither
\* is its module, which was not declared optional; or it is not there at all.
EffectOutside(w, d, m, key) == key \in Keys(d.models) /\ ~Reaches(w.mods, m, key[1])
EffectAbsent(w, d, m, key) == key \notin Keys(d.models) /\ key[1] \notin DOMAIN w.mods /\ key[1] \notin w.mods[m].optional
EffectUnknown(w, d, m, key) == key \notin Keys(d.models) /\ key[1] \in DOMAIN w.mods

OnModels(effects) == {e.on : e \in {x \in effects : x.does # "enqueue"}}

\* A transactional function has no dry run.
Flags(f) == IF "transactional" \in f.flags THEN f.flags \ {"dryRun"} ELSE f.flags

\* A function out of its reach is warned about.
PutFunction(w, d, m, f) ==
    LET on == OnModels(f.effects)
        bad == {<<"transactional" \in f.flags /\ ("idempotent" \notin f.flags \/ "dryRun" \in f.flags), "E_FUNCTION_TRANSACTION">>,
                <<"provision" \in f.flags /\ "internal" \notin f.flags, "E_PROVISION_EXPOSED">>,
                <<\E k \in on : EffectUnknown(w, d, m, k), "E_FN_EFFECT">>}
        warned == \E k \in on : EffectOutside(w, d, m, k) \/ EffectAbsent(w, d, m, k)
    IN  [Reported(d, bad) EXCEPT
           !.functions = @ \union {[key |-> <<m, f.name>>, flags |-> Flags(f), effects |-> f.effects, input |-> f.input,
                                    returns |-> f.returns]},
           !.warnings = @ \union (IF warned THEN {"E_FN_EFFECT_NOT_DEPENDED"} ELSE {})]

Functions(w, c) == Pass(w, c, LAMBDA m : w.mods[m].functions, LAMBDA d, m, f : <<>>, LAMBDA d, m, f : PutFunction(w, d, m, f))

\* The inputs without which a call or a job is refused.
Needed(input) == {a.name : a \in {x \in input : ~x.optional}}

PutJob(w, d, m, j) ==
    LET on == OnModels(j.effects)
        bad == {<<\E k \in on : EffectOutside(w, d, m, k), "E_JOB_EFFECT_NOT_DEPENDED">>,
                <<\E k \in on : EffectAbsent(w, d, m, k) \/ EffectUnknown(w, d, m, k), "E_JOB_EFFECT">>}
    IN  [Reported(d, bad) EXCEPT
           !.jobs = @ \union {[key |-> <<m, j.name>>, effects |-> j.effects, input |-> j.input, queue |-> j.queue,
                               schedule |-> j.schedule]}]

Jobs(w, c) ==
    Pass(w, c, LAMBDA m : w.mods[m].jobs,
         LAMBDA d, m, j : << <<~j.idempotent, "E_JOB_NOT_IDEMPOTENT">>,
                             <<j.schedule # Nothing /\ Needed(j.input) # {}, "E_SCHEDULED_JOB_INPUT">> >>,
         LAMBDA d, m, j : PutJob(w, d, m, j))

\* Once every job is there: whoever enqueues names a job that is there and in its reach.
Enqueues(w, c) ==
    LET Enqueued(producers) == UNION {{e.on : e \in {x \in p.effects : x.does = "enqueue"}} : p \in producers}
        Unknown(m, k) == k \notin Keys(c.jobs) /\ ~(k[1] \notin DOMAIN w.mods /\ k[1] \in w.mods[m].optional)
        Outside(m, k) == k \in Keys(c.jobs) /\ ~Reaches(w.mods, m, k[1])
        Some(Wrong(_, _), Of(_)) == \E m \in DOMAIN w.mods : \E k \in Enqueued(Of(m)) : Wrong(m, k)
    IN  Reported(c, {<<Some(Unknown, LAMBDA m : w.mods[m].jobs), "E_JOB_EFFECT">>,
                     <<Some(Unknown, LAMBDA m : w.mods[m].functions), "E_FN_EFFECT">>,
                     <<Some(Outside, LAMBDA m : w.mods[m].jobs), "E_JOB_EFFECT_NOT_DEPENDED">>,
                     <<Some(Outside, LAMBDA m : w.mods[m].functions), "E_FN_EFFECT_NOT_DEPENDED">>})

ReadOnly(d, key) == \A f \in d.functions : f.key = key => \A e \in f.effects : ~Changes(e)

Reports(w, c) ==
    Pass(w, c, LAMBDA m : w.mods[m].reports,
         LAMBDA d, m, r : << <<r.target \notin Keys(d.models), "E_REPORT_UNKNOWN_MODEL">>,
                             <<r.source \notin Keys(d.functions), "E_REPORT_UNKNOWN_SOURCE">>,
                             <<~ReadOnly(d, r.source), "E_REPORT_SOURCE_WRITES">> >>,
         LAMBDA d, m, r : [d EXCEPT !.reports = @ \union {[key |-> <<m, r.name>>, target |-> r.target, source |-> r.source]}])

-----------------------------------------------------------------------------
(* Views, and what is shown                                                *)

Views(w, c) ==
    Pass(w, c, LAMBDA m : w.mods[m].views,
         LAMBDA d, m, v : << <<v.of \notin Keys(d.models), "E_VIEW_UNKNOWN_MODEL">>,
                             <<\E o \in d.models : o.key = v.of /\ ~(v.fields \subseteq FieldNames(o)), "E_VIEW_UNKNOWN_FIELD">>,
                             <<\E o \in d.models : o.key = v.of /\ \E f \in o.fields : f.sensitive /\ f.name \in v.fields,
                               "E_VIEW_SENSITIVE_FIELD">>,
                             <<v.of[1] \notin Closure(w.mods, m), "E_VIEW_NOT_DEPENDED">> >>,
         LAMBDA d, m, v : [d EXCEPT !.views = @ \union {[key |-> <<m, v.name>>, of |-> v.of, fields |-> v.fields]}])

\* Of the types a prop may have, the views: the scalars are always valid.
JointProps(w, c) == Reported(c, {<<\E j \in c.joints : ~(j.props \subseteq Keys(c.views)), "E_JOINT_PROP_TYPE">>})

Behaviors(w, c) ==
    Pass(w, c, LAMBDA m : w.mods[m].behaviors,
         LAMBDA d, m, name : << <<\E o \in d.behaviors : o.name = name, "E_BEHAVIOR_DUPLICATE">>,
                                <<~w.mods[m].assets, "E_BEHAVIOR_WITHOUT_ASSETS">> >>,
         LAMBDA d, m, name : [d EXCEPT !.behaviors = @ \union {[name |-> name, by |-> m]}])

Islands(w, c) ==
    Pass(w, c, LAMBDA m : w.mods[m].islands,
         LAMBDA d, m, i : << <<\E o \in d.islands : o.name = i.name, "E_ISLAND_DUPLICATE">> >>,
         LAMBDA d, m, i : [Reported(d, {<<~(i.props \subseteq Keys(d.views)), "E_ISLAND_PROP_TYPE">>,
                                        <<i.client /\ ~w.mods[m].assets, "E_ISLAND_CLIENT_WITHOUT_ASSETS">>}) EXCEPT
                             !.islands = @ \union {[name |-> i.name, by |-> m]}])

\* A section is on public pages: what resolves it must be callable by anyone, and only read.
Sections(w, c) ==
    Pass(w, c, LAMBDA m : w.mods[m].sections,
         LAMBDA d, m, s : << <<\E o \in d.sections : o.name = s.name, "E_SECTION_DUPLICATE">>,
                             <<s.resolve # Nothing /\ s.resolve \notin Keys(d.functions), "E_SECTION_UNKNOWN_RESOLVER">>,
                             <<\E f \in d.functions : f.key = s.resolve /\ ("anonymous" \notin f.flags \/ ~ReadOnly(d, f.key)),
                               "E_SECTION_RESOLVER_UNSAFE">> >>,
         LAMBDA d, m, s : [d EXCEPT !.sections = @ \union {[name |-> s.name, resolve |-> s.resolve, by |-> m]}])

\* Content types and taxonomies name each other; both are there before either is checked.
Content(w, c) ==
    LET Of(Part(_)) == UNION {{[key |-> <<m, e.name>>, refs |-> e.refs] : e \in Part(m)} : m \in DOMAIN w.mods}
        d == [c EXCEPT !.contentTypes = Of(LAMBDA m : w.mods[m].contentTypes), !.taxonomies = Of(LAMBDA m : w.mods[m].taxonomies)]
        Lost(from, to) == \E e \in from : ~(e.refs \subseteq Keys(to))
        Hidden(from, to) == \E e \in from : \E k \in e.refs \intersect Keys(to) : ~Sees(w.mods, e.key[1], k[1])
    IN  Reported(d, {<<Lost(d.contentTypes, d.taxonomies), "E_CONTENT_TAXONOMY_MISSING">>,
                     <<Hidden(d.contentTypes, d.taxonomies), "E_CONTENT_TAXONOMY_DEPENDENCY">>,
                     <<Lost(d.taxonomies, d.contentTypes), "E_TAXONOMY_CONTENT_MISSING">>,
                     <<Hidden(d.taxonomies, d.contentTypes), "E_TAXONOMY_CONTENT_DEPENDENCY">>})

Regions(w, c) ==
    LET provided == UNION {w.mods[m].provides : m \in DOMAIN w.mods}
        required == w.required \union UNION {w.mods[m].requires : m \in DOMAIN w.mods}
    IN  Reported([c EXCEPT !.provided = provided, !.required = required],
                 {<<~w.headless /\ ~(required \subseteq provided), "E_REGION_MISSING">>})

\* A later module layers over earlier ones; two that do not know of each other are warned about.
\* layers holds who set a token last, themes aside.
PutToken(w, d, m, t) ==
    LET clash == /\ ~w.mods[m].theme
                 /\ \E l \in d.layers : l.name = t.name /\ l.value # t.value /\ l.by \notin Closure(w.mods, m)
        Over(set, x) == {l \in set : l.name # x.name} \union {x}
    IN  [d EXCEPT !.warnings = @ \union (IF clash THEN {"E_TOKEN_CONFLICT"} ELSE {}),
                  !.layers = IF w.mods[m].theme THEN @ ELSE Over(@, [name |-> t.name, value |-> t.value, by |-> m]),
                  !.tokens = Over(@, t)]

Tokens(w, c) == Pass(w, c, LAMBDA m : w.mods[m].tokens, LAMBDA d, m, t : <<>>, LAMBDA d, m, t : PutToken(w, d, m, t))

-----------------------------------------------------------------------------
(* permissions.ts: the catalogue of bundles.  A module's declaration is its *)
(* own or the one the deployment gives it.                                  *)

HighRisk == {"approve", "configure", "sensitive", "security"}
NotGrantable == {"anonymous", "internal", "provision"}

Declaring(w) == {m \in DOMAIN w.mods : w.mods[m].permissions # Nothing}
Tagged(w, part) == UNION {{[by |-> m, of |-> e] : e \in w.mods[m].permissions[part]} : m \in Declaring(w)}
BundleKeys(w) == {b.of.key : b \in Tagged(w, "bundles")}
Classified(w) == {x.of.fn : x \in Tagged(w, "classified")}
Exempt(w) == {x.of : x \in Tagged(w, "exempt")}

\* What a bundle and all it includes were given.
FunctionsOf(w, key) ==
    LET Includes(k) == UNION {b.of.includes : b \in {x \in Tagged(w, "bundles") : x.of.key = k}}
        within[n \in Nat] == IF n = 0 THEN {key} ELSE within[n - 1] \union UNION {Includes(k) : k \in within[n - 1]}
        all == within[Cardinality(BundleKeys(w))]
    IN  {x.of.fn : x \in {y \in Tagged(w, "classified") : y.of.bundles \intersect all # {}}}

IncludesItself(w, key) ==
    LET Includes(k) == UNION {b.of.includes : b \in {x \in Tagged(w, "bundles") : x.of.key = k}}
        below[n \in Nat] == IF n = 0 THEN Includes(key) ELSE below[n - 1] \union UNION {Includes(k) : k \in below[n - 1]}
    IN  key \in below[Cardinality(BundleKeys(w))]

\* A bundle is named by its own module and those that depend on it.
NamesBundles(w, m, keys) ==
    {<<~(keys \subseteq BundleKeys(w)), "E_PERMISSION_BUNDLE_UNKNOWN">>,
     <<\E k \in keys \intersect BundleKeys(w) : ~Sees(w.mods, m, k[1]), "E_PERMISSION_CATALOG_INVALID">>}

ClassifiedWrong(w, c, m, x) ==
    {<<x.fn \notin Keys(c.functions), "E_PERMISSION_FUNCTION_STALE">>,
     <<x.fn \in Keys(c.functions) /\ x.fn[1] # m, "E_PERMISSION_CATALOG_INVALID">>,
     <<\E f \in c.functions : f.key = x.fn /\ f.flags \intersect NotGrantable # {}, "E_PERMISSION_CATALOG_INVALID">>,
     <<x.bundles = {}, "E_PERMISSION_CATALOG_INVALID">>,
     <<x.risk \in HighRisk /\ ~x.policy, "E_PERMISSION_CATALOG_INVALID">>}
    \union NamesBundles(w, m, x.bundles)

Permissions(w, c) ==
    LET classified == Tagged(w, "classified")
        wrong ==
          {<<\E b \in Tagged(w, "bundles") : b.of.key[1] # b.by, "E_PERMISSION_CATALOG_INVALID">>,
           <<\E x, y \in classified : x # y /\ x.of.fn = y.of.fn, "E_PERMISSION_CATALOG_INVALID">>,
           <<~(Exempt(w) \subseteq Keys(c.functions)), "E_PERMISSION_FUNCTION_STALE">>,
           <<\E x \in Tagged(w, "exempt") : x.of \in Keys(c.functions) /\ x.of[1] # x.by, "E_PERMISSION_CATALOG_INVALID">>,
           <<Exempt(w) \intersect Classified(w) # {}, "E_PERMISSION_CATALOG_INVALID">>,
           <<w.covered /\ ~(Keys(c.functions) \subseteq Classified(w) \union Exempt(w)), "E_PERMISSION_FUNCTION_UNCLASSIFIED">>,
           <<w.covered /\ \E m \in DOMAIN w.mods \ Declaring(w) : ~w.mods[m].theme, "E_PERMISSION_CATALOG_INVALID">>,
           <<\E k \in BundleKeys(w) : IncludesItself(w, k), "E_PERMISSION_BUNDLE_CYCLE">>,
           <<\E k \in BundleKeys(w) : FunctionsOf(w, k) = {}, "E_PERMISSION_CATALOG_INVALID">>,
           <<\E t \in w.templates : t.bundles = {}, "E_PERMISSION_CATALOG_INVALID">>,
           <<\E t \in w.templates : ~(t.bundles \subseteq BundleKeys(w)), "E_PERMISSION_BUNDLE_UNKNOWN">>}
          \union UNION {ClassifiedWrong(w, c, x.by, x.of) : x \in classified}
          \union UNION {NamesBundles(w, b.by, b.of.includes) : b \in Tagged(w, "bundles")}
    IN  Reported([c EXCEPT !.bundles = {[key |-> k, functions |-> FunctionsOf(w, k)] : k \in BundleKeys(w)},
                           !.risks = {[key |-> x.of.fn, risk |-> x.of.risk] : x \in classified},
                           !.roles = {[key |-> t.key, functions |-> UNION {FunctionsOf(w, k) : k \in t.bundles}]
                                      : t \in w.templates}],
                 wrong)

-----------------------------------------------------------------------------
(* compose                                                                 *)

Empty == [ prefixes |-> {}, routes |-> {}, models |-> {}, relations |-> {}, menus |-> {}, joints |-> {}, fills |-> {},
           patches |-> {}, functions |-> {}, bundles |-> {}, risks |-> {}, roles |-> {}, reports |-> {}, jobs |-> {},
           views |-> {}, behaviors |-> {}, islands |-> {}, sections |-> {}, contentTypes |-> {}, taxonomies |-> {},
           provided |-> {}, required |-> {}, tokens |-> {}, layers |-> {}, errors |-> {}, warnings |-> {} ]

Thrown(code) == [Empty EXCEPT !.errors = {code}]

\* The catalogue throws what it has found before the rest is looked at.
Composition(w) ==
    LET models == Relations(w, Extends(w, Models(w, Routes(w, Compatible(w, Reserves(w, Empty))))))
        called(c) == Gates(w, Enqueues(w, Jobs(w, Reports(w, c))))
        placed(c) == Sections(w, Islands(w, Behaviors(w, JointProps(w, Views(w, c)))))
        after(catalogue, errors) ==
            IF catalogue.errors # {} THEN catalogue
            ELSE Tokens(w, Regions(w, Content(w, placed(called([catalogue EXCEPT !.errors = errors])))))
        catalogued(c) == after(Permissions(w, [c EXCEPT !.errors = {}]), c.errors)
    IN  catalogued(Functions(w, Omits(w, Fills(w, Joints(w, Menus(w, models))))))

Compose(world) ==
    IF MissingDependency(world.mods) THEN Thrown("E_MISSING_DEPENDENCY")
    ELSE LET sorted == TopoSort(world) IN
         IF sorted.cycle THEN Thrown("E_DEPENDENCY_CYCLE")
         ELSE Composition([order |-> sorted.out] @@ world)

Composes(composed) == composed.errors = {}

=============================================================================
