------------------------------- MODULE Upgrade -------------------------------
(***************************************************************************)
(* A deployment whose modules come, change and go: the checkout is moved   *)
(* to another revision, composed and, when composition accepts it,         *)
(* deployed in place of what runs.  ket diff (kernel/diff.ts) compares the *)
(* manifest that runs with the one to come, and planMigration              *)
(* (data/migrate.ts) the schemas of the two.  What a diff says is the set  *)
(* of its codes; the code decides the severity.                            *)
(***************************************************************************)
EXTENDS Compose

CONSTANTS
    Checkouts,      \* checkouts, each with
    Revisions(_),   \* the worlds that are its revisions
    Ranks           \* the orders the names of the modules may sort in

VARIABLES
    upCheckout,     \* the checkout
    upWorld,        \* the revision it has
    upLive,         \* the manifest that runs, Nothing before the first
    upLast          \* the manifest that ran before it

upVars == <<upCheckout, upWorld, upLive, upLast>>

UpTypeOK ==
    /\ upCheckout \in Checkouts /\ upWorld \in Revisions(upCheckout)
    /\ \A manifest \in {upLive, upLast} \ {Nothing} : DOMAIN manifest = DOMAIN Empty /\ Composes(manifest)

UpInit ==
    /\ upCheckout \in Checkouts
    /\ upWorld \in Revisions(upCheckout)
    /\ upLive = Nothing /\ upLast = Nothing

\* The checkout moves to any revision, any number of modules at once.  Bound: once what it
\* has is deployed.
Pull ==
    /\ upLast = Nothing /\ upLive = Compose(upWorld)
    /\ \E world \in Revisions(upCheckout) : upWorld' = world
    /\ UNCHANGED <<upCheckout, upLive, upLast>>

\* A composition that throws deploys nothing.  Bound: two deployments.
Deploy ==
    /\ upLast = Nothing
    /\ \E composed \in {Compose(upWorld)} :
         /\ Composes(composed)
         /\ upLast' = upLive /\ upLive' = composed
    /\ UNCHANGED <<upCheckout, upWorld>>

UpNext == Pull \/ Deploy

UpSpec == UpInit /\ [][UpNext]_upVars

-----------------------------------------------------------------------------
(* diffManifests                                                           *)

Pairs(before, after) == {p \in before \X after : p[1].key = p[2].key}
Gone(before, after) == Keys(before) \ Keys(after)
Lost(flag, p) == flag \in p[1].flags /\ flag \notin p[2].flags
Gained(flag, p) == flag \notin p[1].flags /\ flag \in p[2].flags
Said(found) == {f[2] : f \in {x \in found : x[1]}}

\* The first thing that is found of a field; whether it is personal is left out.
FieldDiff(f, model) ==
    LET now == {g \in model.fields : g.name = f.name}
        Some(P(_)) == \E g \in now : P(g)
    IN  Refused(<< <<now = {}, "FIELD_REMOVED">>,
                   <<Some(LAMBDA g : g.base # f.base \/ g.target # f.target), "FIELD_TYPE_CHANGED">>,
                   <<Some(LAMBDA g : f.optional /\ ~g.optional), "FIELD_NOW_REQUIRED">>,
                   <<Some(LAMBDA g : f.sensitive # g.sensitive), "FIELD_SENSITIVITY_CHANGED">> >>)

ModelDiff(b, a) ==
    Said({<<Gone(b, a) # {}, "MODEL_REMOVED">>,
          <<\E p \in Pairs(b, a) : p[1].scope # p[2].scope, "MODEL_SCOPE_CHANGED">>,
          <<\E p \in Pairs(b, a) : p[1].append # p[2].append, "MODEL_APPEND_CHANGED">>})
    \union UNION {UNION {FieldDiff(f, p[2]) : f \in p[1].fields} : p \in Pairs(b, a)}

Named(input) == {x.name : x \in input}
InputGone(p) == ~(Named(p[1].input) \subseteq Named(p[2].input))
InputAsked(p) == ~(Needed(p[2].input) \subseteq Named(p[1].input))

FunctionDiff(b, a) ==
    LET Some(P(_)) == \E p \in Pairs(b, a) : P(p)
        ChangesMore(p) == \E e \in p[2].effects \ p[1].effects : Changes(e)
    IN  Said({<<Gone(b, a) # {}, "FUNCTION_REMOVED">>,
              <<Some(InputGone), "INPUT_REMOVED">>,
              <<Some(InputAsked), "INPUT_ADDED_REQUIRED">>,
              <<Some(LAMBDA p : p[1].returns \notin {Nothing, p[2].returns}), "RETURNS_CHANGED">>,
              <<Some(LAMBDA p : Lost("idempotent", p)), "IDEMPOTENCY_LOST">>,
              <<Some(LAMBDA p : Lost("transactional", p) \/ Gained("transactional", p)), "FUNCTION_TRANSACTION_CHANGED">>,
              <<Some(LAMBDA p : Gained("internal", p)), "FUNCTION_HTTP_REMOVED">>,
              <<Some(LAMBDA p : Gained("crossCompany", p)), "CROSS_COMPANY_GAINED">>,
              <<Some(LAMBDA p : Gained("anonymous", p)), "ANONYMOUS_GAINED">>,
              <<Some(LAMBDA p : Lost("internal", p)), "FUNCTION_HTTP_EXPOSED">>,
              <<Some(LAMBDA p : Gained("agent", p)), "AGENT_GAINED">>,
              <<Some(ChangesMore), "EFFECTS_WIDENED">>,
              <<\E f \in a : f.key \notin Keys(b) /\ "anonymous" \in f.flags, "FUNCTION_ADDED_ANONYMOUS">>})

GrantsMore(b, a) == \E p \in Pairs(b, a) : ~(p[2].functions \subseteq p[1].functions)
Differ(b, a, field) == \E p \in Pairs(b, a) : p[1][field] # p[2][field]

Diff(before, after) ==
    ModelDiff(before.models, after.models)
    \union FunctionDiff(before.functions, after.functions)
    \union Said({<<Gone(before.joints, after.joints) # {}, "JOINT_REMOVED">>,
                 <<Differ(before.risks, after.risks, "risk"), "PERMISSION_RISK_CHANGED">>,
                 <<GrantsMore(before.bundles, after.bundles), "BUNDLE_WIDENED">>,
                 <<GrantsMore(before.roles, after.roles), "ROLE_TEMPLATE_WIDENED">>,
                 <<Gone(before.jobs, after.jobs) # {}, "JOB_REMOVED">>,
                 <<\E p \in Pairs(before.jobs, after.jobs) : InputGone(p), "JOB_INPUT_REMOVED">>,
                 <<\E p \in Pairs(before.jobs, after.jobs) : InputAsked(p), "JOB_INPUT_ADDED_REQUIRED">>,
                 <<Differ(before.jobs, after.jobs, "queue"), "JOB_QUEUE_CHANGED">>,
                 <<Gone(before.reports, after.reports) # {}, "REPORT_REMOVED">>,
                 <<Differ(before.reports, after.reports, "target"), "REPORT_TARGET_CHANGED">>,
                 <<Differ(before.reports, after.reports, "source"), "REPORT_SOURCE_CHANGED">>,
                 <<(before.provided \ after.provided) \intersect after.required # {}, "REGION_LOST">>,
                 <<after.patches # {}, "UNSAFE_PATCH">>})

Breaking == {"JOINT_REMOVED", "MODEL_SCOPE_CHANGED", "MODEL_REMOVED", "FIELD_REMOVED", "FIELD_TYPE_CHANGED",
             "FUNCTION_REMOVED", "INPUT_REMOVED", "INPUT_ADDED_REQUIRED", "RETURNS_CHANGED",
             "FUNCTION_TRANSACTION_CHANGED", "FUNCTION_HTTP_REMOVED", "JOB_REMOVED", "JOB_INPUT_REMOVED",
             "JOB_INPUT_ADDED_REQUIRED", "REPORT_REMOVED", "REPORT_TARGET_CHANGED", "REGION_LOST"}

-----------------------------------------------------------------------------
(* schemaFromManifest and planMigration: tables, columns, and what a plan  *)
(* drops or converts.  Indexes are in Migration.                           *)

TablesOf(manifest) == {TableOf(model.key) : model \in manifest.models}
ColumnsOf(manifest) ==
    UNION {{[table |-> TableOf(model.key), name |-> f.name, base |-> f.base] : f \in model.fields} : model \in manifest.models}

\* A column that is dropped or of another type, in a table that stays, or a table that goes.
DestroysData(before, after) ==
    \/ ~(TablesOf(before) \subseteq TablesOf(after))
    \/ \E c \in ColumnsOf(before) : c.table \in TablesOf(after) /\ c \notin ColumnsOf(after)

-----------------------------------------------------------------------------
(* Properties                                                              *)

Composing == upLive = Nothing
Upgraded == upLast # Nothing

\* Renaming modules changes neither whether they compose nor what they make: names decide
\* only the order among modules that do not know of each other, and no pass may depend on
\* it.  Tokens and relations are aside, where whoever comes last wins.
NamesDoNotMatter ==
    Composing =>
        LET Same(a, b) == \A part \in DOMAIN Empty \ {"tokens", "layers", "relations", "errors", "warnings"} : a[part] = b[part]
        IN  \A as \in {Compose(upWorld)} : \A renamed \in {Compose([upWorld EXCEPT !.rank = r]) : r \in Ranks} :
               /\ Composes(renamed) <=> Composes(as)
               /\ Composes(as) => Same(renamed, as)

\* What composition asks only to be there, of whoever declares it: a deployment that lets
\* such a name cross modules cannot lose the module behind it.
ByNameOnly == {"E_REPORT_UNKNOWN_MODEL", "E_REPORT_UNKNOWN_SOURCE", "E_SECTION_UNKNOWN_RESOLVER",
               "E_MENU_UNKNOWN_FUNCTION", "E_JOINT_PROP_TYPE", "E_ISLAND_PROP_TYPE", "E_REGION_MISSING",
               "E_VIEW_UNKNOWN_FIELD", "E_RELATION_NO_KEY"}

\* A bundle that only other modules gave functions to.
LeftEmpty(w) == IF \E k \in BundleKeys(w) : FunctionsOf(w, k) = {} THEN {"E_PERMISSION_CATALOG_INVALID"} ELSE {}

\* A module that no other depends on, nor a role, can be taken out of what composes: everything else that
\* names another module is refused unless its own depends on it, or declares it optional and
\* then does without it.  A bundle is kept by the functions that others give it.
LeavesCleanly ==
    Composing /\ Composes(Compose(upWorld)) =>
        \A m \in DOMAIN upWorld.mods :
            LET rest == [upWorld EXCEPT !.mods = [n \in DOMAIN upWorld.mods \ {m} |-> upWorld.mods[n]]] IN
            (/\ \A n \in DOMAIN rest.mods : m \notin rest.mods[n].depends
             /\ \A t \in rest.templates : \A k \in t.bundles : k[1] # m)
                => Compose(rest).errors \subseteq ByNameOnly \union LeftEmpty(rest)

\* An upgrade that would make the migration drop or convert data is called breaking: the
\* diff goes by models and fields, the plan by tables and columns.
LossIsTold ==
    Upgraded /\ DestroysData(upLast, upLive) => Diff(upLast, upLive) \intersect Breaking # {}

\* What an upgrade may count on: all of the above.
UpgradeKept == NamesDoNotMatter /\ LeavesCleanly /\ LossIsTold
=============================================================================
