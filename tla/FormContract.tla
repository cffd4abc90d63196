---------------------------- MODULE FormContract ----------------------------
(***************************************************************************)
(* validateForm (ketjs-view/src/form.ts): a field's raw value becomes a    *)
(* normalized one or an issue.  The browser and the server both run it.    *)
(*                                                                         *)
(* A contract is a rule, an object with its fields.  Texts are tokens with *)
(* what the code asks of them (Texts): their trimmed form, the number they *)
(* spell and as what text a decimal keeps that, the value they are JSON    *)
(* of.  The rules a contract's callbacks add, patterns, and the limits on  *)
(* depth and visits are left out.                                          *)
(***************************************************************************)
EXTENDS Integers, Sequences, FiniteSets

CONSTANT
    Texts       \* text -> [trim, length, number, decimal, flag, json]; "" is one, and blanks trim to it

-----------------------------------------------------------------------------
(* Values: JSON, and undefined.                                            *)

Undefined == [js |-> "undefined"]
Null == [js |-> "null"]
Text(t) == [js |-> "string", text |-> t]
EmptyText == Text("")
Number(n) == [js |-> "number", number |-> n]
Boolean(b) == [js |-> "boolean", flag |-> b]
List(s) == [js |-> "array", items |-> s]
Record(f) == [js |-> "object", fields |-> f]

\* A rule says nothing but what it names.
Rule == [type |-> "text", required |-> FALSE, trim |-> FALSE, multiple |-> FALSE, nullable |-> "unset",
         empty |-> "drop", default |-> Undefined, unknown |-> "reject", key |-> "",
         min |-> 0, max |-> 9, minLength |-> 0, maxLength |-> 9, minItems |-> 0, maxItems |-> 9]

Structured(rule) == rule.type \in {"array", "object", "record"}

\* Mutant: blanks are something.
BlankUntrimmed(v) == v \in {Undefined, Null, EmptyText}
\* `empty`
Blank(v) == v \in {Undefined, Null} \/ (v.js = "string" /\ Texts[v.text].trim = "")

-----------------------------------------------------------------------------
(* One field.                                                              *)

Ok(v) == [ok |-> TRUE, value |-> v]
Bad == [ok |-> FALSE, value |-> Undefined]

\* `decimalText`: the text that spells a number, and is its own decimal.
DecimalText(n) == Text(CHOOSE t \in DOMAIN Texts : Texts[t].number = n /\ Texts[t].decimal = t)

\* A decimal stays text, without blanks or a plus; a JSON number becomes the text that spells it.
Decimal(raw) ==
    IF raw.js = "number" THEN Ok(DecimalText(raw.number))
    ELSE IF raw.js = "string" /\ Texts[raw.text].number >= 0 THEN Ok(Text(Texts[raw.text].decimal)) ELSE Bad

\* `cast`
Cast(rule, raw) ==
    CASE rule.type = "text" ->
            IF raw.js = "string" THEN Ok(IF rule.trim THEN Text(Texts[raw.text].trim) ELSE raw) ELSE Bad
      [] rule.type = "int" ->
            IF raw.js = "string" /\ Texts[raw.text].number >= 0 THEN Ok(Number(Texts[raw.text].number))
            ELSE IF raw.js = "number" THEN Ok(raw) ELSE Bad
      [] rule.type = "decimal" -> Decimal(raw)
      [] rule.type = "bool" ->
            IF raw.js = "boolean" THEN Ok(raw)
            ELSE IF raw.js \in {"number", "string"}
            THEN LET n == IF raw.js = "number" THEN raw.number ELSE Texts[raw.text].flag IN
                 IF n \in {0, 1} THEN Ok(Boolean(n = 1)) ELSE Bad
            ELSE Bad
      [] rule.type = "json" ->
            IF raw.js = "string" THEN (IF Texts[raw.text].json # Undefined THEN Ok(Texts[raw.text].json) ELSE Bad)
            ELSE IF raw.js \in {"array", "object"} THEN Ok(raw) ELSE Bad

\* `checkValue` of one value, and of what has a length.
Numeric(rule, v) == v.js = "number" \/ rule.type = "decimal"
\* Number(''), which `empty: 'keep'` lets through, is 0.
NumberOf(v) == IF v.js = "number" THEN v.number ELSE IF v = EmptyText THEN 0 ELSE Texts[v.text].number
InRange(rule, v) == Numeric(rule, v) => NumberOf(v) >= rule.min /\ NumberOf(v) <= rule.max
LengthOf(v) == IF v.js = "string" THEN Texts[v.text].length ELSE Len(v.items)
Checks(rule, v) ==
    /\ \A held \in (IF v.js = "array" /\ rule.multiple THEN {v.items[i] : i \in DOMAIN v.items} ELSE {v}) : InRange(rule, held)
    /\ v.js \in {"string", "array"} => LengthOf(v) >= rule.minLength /\ LengthOf(v) <= rule.maxLength

\* A scalar field, or the entries of a repeated one.
Scalar(rule, raw) ==
    LET entries == SelectSeq(IF rule.multiple /\ raw.js = "array" THEN raw.items ELSE <<raw>>, LAMBDA v : ~Blank(v))
        cast == [i \in DOMAIN entries |-> Cast(rule, entries[i])]
        value == IF rule.multiple THEN List([i \in DOMAIN cast |-> cast[i].value]) ELSE cast[1].value
    IN IF entries = <<>> THEN (IF rule.required THEN Bad ELSE Ok(Undefined))
       ELSE IF \E i \in DOMAIN cast : ~cast[i].ok THEN Bad
       ELSE IF rule.required /\ value = EmptyText THEN Bad
       ELSE IF Checks(rule, value) THEN Ok(value) ELSE Bad

\* The key of a row, and that rows have keys that differ.
KeyOf(rule, v) == IF v.js = "object" /\ rule.key \in DOMAIN v.fields THEN v.fields[rule.key] ELSE Undefined
KeysApart(keys) ==
    /\ \A i \in DOMAIN keys : keys[i].js = "string" /\ keys[i] # EmptyText
    /\ \A i, j \in DOMAIN keys : i # j => keys[i] # keys[j]

RECURSIVE Field(_, _), Items(_, _)

\* Entries validated one by one, under the rule `of` gives each; the keys of rows differ.
Fields(of, data) ==
    LET held == [f \in DOMAIN of |-> Field(of[f], IF f \in DOMAIN data THEN data[f] ELSE Undefined)]
        kept == {f \in DOMAIN of : held[f].value # Undefined}
    IN IF \E f \in DOMAIN of : ~held[f].ok THEN Bad ELSE Ok(Record([f \in kept |-> held[f].value]))

Items(rule, entries) ==
    LET held == [i \in DOMAIN entries |-> Field([rule.items EXCEPT !.required = TRUE], entries[i])]
        keys == [i \in DOMAIN entries |-> KeyOf(rule, held[i].value)]
    IN IF \E i \in DOMAIN entries : ~held[i].ok THEN Bad
       ELSE IF rule.key # "" /\ ~KeysApart(keys) THEN Bad
       ELSE Ok(List([i \in DOMAIN entries |-> held[i].value]))

Structure(rule, raw) ==
    LET size == IF raw.js = "array" THEN Len(raw.items) ELSE Cardinality(DOMAIN raw.fields)
        json == IF rule.type = "array" THEN "array" ELSE "object"
    IN IF raw = Undefined /\ ~rule.required THEN Ok(Undefined)
       ELSE IF raw.js # json THEN Bad
       ELSE IF size < rule.minItems \/ size > rule.maxItems THEN Bad
       ELSE CASE rule.type = "array" -> Items(rule, raw.items)
              [] rule.type = "record" ->
                    Fields([f \in DOMAIN raw.fields |-> [rule.entries EXCEPT !.required = TRUE]], raw.fields)
              [] rule.type = "object" ->
                    IF rule.unknown = "reject" /\ ~(DOMAIN raw.fields \subseteq DOMAIN rule.fields) THEN Bad
                    ELSE Fields(rule.fields, raw.fields)

\* What validateRecord does with one field.
Field(rule, raw) ==
    LET given == IF raw = Undefined THEN rule.default ELSE raw IN
    IF rule.nullable = "yes" /\ (given = Null \/ (given = EmptyText /\ rule.empty = "null")) THEN Ok(Null)
    ELSE IF rule.nullable = "no" /\ given = Null THEN Bad
    ELSE IF Structured(rule) THEN Structure(rule, given)
    ELSE IF given = EmptyText /\ rule.empty = "keep" /\ ~rule.required
         THEN (IF Checks(rule, EmptyText) THEN Ok(EmptyText) ELSE Bad)
    ELSE Scalar(rule, given)
=============================================================================
