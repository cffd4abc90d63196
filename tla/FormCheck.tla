----------------------------- MODULE FormCheck -----------------------------
(***************************************************************************)
(* A value's way through a contract: the browser validates a draft, sends  *)
(* what it got, the server validates that and answers with its values, and *)
(* the browser takes the answer.                                           *)
(***************************************************************************)
EXTENDS FormContract

CONSTANT
    FormCases   \* <<rule, raw>> to validate

VARIABLES
    fcRule, fcHeld,   \* the rule, and the value as it is now
    fcRaw,            \* what the user entered
    fcPass            \* how many validations it went through, -1 once refused

fcVars == <<fcRule, fcHeld, fcRaw, fcPass>>

-----------------------------------------------------------------------------
FcInit ==
    /\ \E case \in FormCases : fcRule = case[1] /\ fcRaw = case[2]
    /\ fcHeld = fcRaw /\ fcPass = 0

\* The next of the three validations a value goes through.
FcValidate ==
    LET result == Field(fcRule, fcHeld) IN
    /\ fcPass \in 0..2
    /\ IF result.ok THEN fcHeld' = result.value /\ fcPass' = fcPass + 1
       ELSE fcPass' = -1 /\ UNCHANGED fcHeld
    /\ UNCHANGED <<fcRule, fcRaw>>

FcNext == FcValidate
FcSpec == FcInit /\ [][FcNext]_fcVars

-----------------------------------------------------------------------------
(* What a rule asks of a normalized value, said of the value itself.       *)

RECURSIVE Meets(_, _)

Typed(rule, v) ==
    CASE rule.type = "text" -> v.js = "string" /\ ~Blank(v) /\ (rule.trim => Texts[v.text].trim = v.text)
      [] rule.type = "int" -> v.js = "number"
      [] rule.type = "decimal" -> v.js = "string" /\ Texts[v.text].number >= 0 /\ Texts[v.text].decimal = v.text
      [] rule.type = "bool" -> v.js = "boolean"
      [] rule.type = "json" -> v.js \in {"array", "object"}

Meets(rule, v) ==
    \/ v = Undefined /\ ~rule.required
    \/ v = Null /\ rule.nullable = "yes"
    \/ v = EmptyText /\ rule.empty = "keep" /\ ~rule.required /\ ~Structured(rule) /\ Checks(rule, v)
    \/ ~Structured(rule) /\ ~rule.multiple /\ Typed(rule, v) /\ Checks(rule, v)
    \/ /\ ~Structured(rule) /\ rule.multiple
       /\ v.js = "array" /\ (v.js = "array" => v.items # <<>> /\ \A i \in DOMAIN v.items : Typed(rule, v.items[i]))
       /\ Checks(rule, v)
    \/ /\ rule.type = "array" /\ v.js = "array"
       /\ Len(v.items) >= rule.minItems /\ Len(v.items) <= rule.maxItems
       /\ \A i \in DOMAIN v.items : Meets([rule.items EXCEPT !.required = TRUE], v.items[i])
       /\ rule.key # "" => KeysApart([i \in DOMAIN v.items |-> KeyOf(rule, v.items[i])])
    \/ /\ rule.type \in {"object", "record"} /\ v.js = "object"
       /\ Cardinality(DOMAIN v.fields) <= rule.maxItems
       /\ IF rule.type = "record"
          THEN \A f \in DOMAIN v.fields : Meets([rule.entries EXCEPT !.required = TRUE], v.fields[f])
          ELSE /\ DOMAIN v.fields \subseteq DOMAIN rule.fields
               /\ \A f \in DOMAIN rule.fields :
                    Meets(rule.fields[f], IF f \in DOMAIN v.fields THEN v.fields[f] ELSE Undefined)

\* JSON.parse takes a text for the value it spells, each time.
RECURSIVE Reparses(_)
Reparses(rule) ==
    \/ rule.type = "json"
    \/ rule.type = "array" /\ Reparses(rule.items)
    \/ rule.type = "record" /\ Reparses(rule.entries)
    \/ rule.type = "object" /\ \E f \in DOMAIN rule.fields : Reparses(rule.fields[f])

RECURSIVE Defaults(_)
Defaults(rule) ==
    \/ rule.default # Undefined
    \/ rule.type = "array" /\ Defaults(rule.items)
    \/ rule.type = "record" /\ Defaults(rule.entries)
    \/ rule.type = "object" /\ \E f \in DOMAIN rule.fields : Defaults(rule.fields[f])

\* What is accepted meets the rule, and what the browser sends after accepting a draft
\* the server accepts unchanged, and the browser its answer: unless a field parses JSON
\* or has a default.
NormalIsStable ==
    /\ fcPass > 0 => Meets(fcRule, fcHeld) \/ Reparses(fcRule)
    /\ fcPass # 0 /\ Meets(fcRule, fcRaw) /\ ~Defaults(fcRule) /\ ~Reparses(fcRule) => fcPass > 0 /\ fcHeld = fcRaw
    /\ fcPass > 0 /\ ~Defaults(fcRule) /\ ~Reparses(fcRule) => Field(fcRule, fcHeld) = Ok(fcHeld)

=============================================================================
