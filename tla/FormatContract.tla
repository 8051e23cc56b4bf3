--------------------------- MODULE FormatContract ---------------------------
(***************************************************************************)
(* internal/format/format.go and keys: what a format module declares, how a *)
(* declaration claims a file, and how modelled keys are taken out of a raw   *)
(* payload and put back.  A file is a set of payloads, each with its         *)
(* container and its top-level fields.                                      *)
(***************************************************************************)
EXTENDS Naturals, FiniteSets, Sequences, Functions, Lists

(* Functions put together, as module TLC has it: the left one wins. *)
f @@ g == [x \in DOMAIN f \cup DOMAIN g |-> IF x \in DOMAIN f THEN f[x] ELSE g[x]]
d :> e == [x \in {d} |-> e]

NoText == ""

OriginIllarin == "illarin"
OriginV1 == "v1"

(* Grades of support for a role. *)
Full == "full"
Partial == "partial"
None == "none"

Support(read, write) == [read |-> read, write |-> write]

-----------------------------------------------------------------------------
(* A JSON value is its type followed by what it holds; fields are a function   *)
(* from keys to values.                                                       *)
Str(text) == <<"string", text>>
List(items) == <<"array">> \o items
Flag(b) == <<"boolean", IF b THEN "true" ELSE "false">>
Num(digits) == <<"number", digits>>
Obj(fields) == <<"object", fields>>
Null == <<"null">>
TypeOf(value) == Head(value)
(* A JSON array: a list whose first entry says what it is. *)
IsList(value) ==
    /\ TypeOf(value) = "array" /\ Len(value) \in Nat \ {0}
    /\ value = [i \in 1 .. Len(value) |-> value[i]]

(* keys.Object: nothing where there is no object. *)
FieldsOf(value) == IF TypeOf(value) = "object" THEN value[2] ELSE <<>>
FieldsAt(fields, key) == IF key \in DOMAIN fields THEN FieldsOf(fields[key]) ELSE <<>>

(* keys.Take consumes a key that holds a value of the type asked for; a null    *)
(* and a value of another type stay behind, to be preserved.                  *)
Takes(fields, key, type) ==
    /\ key \in DOMAIN fields /\ TypeOf(fields[key]) = type
    /\ type = "array" => IsList(fields[key])
(* A plain json.Unmarshal takes a null for any type, as nothing. *)
Unmarshals(fields, key, type) ==
    \/ Takes(fields, key, type)
    \/ key \in DOMAIN fields /\ TypeOf(fields[key]) = "null"
TextOf(fields, key) == IF Takes(fields, key, "string") THEN fields[key][2] ELSE NoText
ListOf(fields, key) == IF Takes(fields, key, "array") THEN Tail(fields[key]) ELSE <<>>
IsSet(fields, key, otherwise) ==
    IF Takes(fields, key, "boolean") THEN fields[key][2] = "true" ELSE otherwise
Without(fields, names) == Restrict(fields, DOMAIN fields \ names)
Unmarshalled(fields, types) ==
    Without(fields, {k \in DOMAIN types : Unmarshals(fields, k, types[k])})
Consumes(fields, types) == Without(fields, {k \in DOMAIN types : Takes(fields, k, types[k])})

(* keys.WriteIfSet and keys.MergeAbsent: what the writer wrote wins over what   *)
(* was preserved.                                                            *)
WriteIfSet(key, set, value) == IF set THEN key :> value ELSE <<>>
MergeOver(target, source) == source @@ target
MergeAbsent(target, source) == target @@ source

(* Items get Illarin's own ids when they are read, by kind and place; the text of an   *)
(* id is what a file can hold of it.  An asset and its book own rows too.              *)
ItemId(i) == <<"item", i>>
NoItem == <<>>
TheAsset == <<"asset">>
TheBook == <<"book">>
TLCModule == INSTANCE TLC
IdText(id) == TLCModule!ToString(id)

(* A preserved row: its owner, its namespace and its payload, which may not be  *)
(* an object.                                                                *)
Object(fields) == [object |-> TRUE, fields |-> fields]
NotAnObject == [object |-> FALSE, fields |-> <<>>]
Row(owner, ns, payload) == [owner |-> owner, ns |-> ns, payload |-> payload]
RowIfAny(owner, ns, payload) ==
    IF payload.object /\ DOMAIN payload.fields = {} THEN {} ELSE {Row(owner, ns, payload)}

(* Restoring into fields a writer wrote whatever a row of this owner kept. *)
Restored(fields, rows, owner, ns) ==
    LET held == {r \in rows : r.owner = owner /\ r.ns = ns}
    IN IF held = {} THEN fields
       ELSE MergeAbsent(fields, (CHOOSE r \in held : TRUE).payload.fields)

(* The header fields a file can fill.  A description binds to the blurb where it  *)
(* is short enough.                                                           *)
Header(name, nickname, blurb) ==
    [name |-> name, nickname |-> nickname, blurb |-> blurb, version |-> NoText]
MaxBlurbRunes == {NoText, "short"}

(* format.Parsed: what a reader makes of a file, and what becomes the asset. *)
Parsed(kind, origin, cover, header, content, preserved) ==
    [kind |-> kind, origin |-> origin, cover |-> cover, header |-> header, content |-> content,
     preserved |-> preserved, protected |-> {}]
Unreadable == [kind |-> "unreadable"]

-----------------------------------------------------------------------------
(* Content.  An asset holds a value for each role on its page; Content.Empty      *)
(* says that nobody wrote anything under one, and a writer is given a role only   *)
(* where somebody did.                                                        *)
Empty(role, c) ==
    CASE role \in {"description", "personality"} -> c = NoText
      [] role \in {"greetings", "group_greetings", "lorebook_entries"} ->
            \A i \in DOMAIN c : c[i].text = NoText
      [] role = "prompt_fragments" -> c.fragments = <<>>
      [] role \in {"sampler_settings", "theme_controls"} -> \A n \in DOMAIN c : c[n] = Null
      [] role = "prompt_nudges" -> \A n \in DOMAIN c : c[n] = NoText
      [] role = "theme_tokens" ->
            \A m \in DOMAIN c : \A n \in DOMAIN c[m].colors : c[m].colors[n] = NoText
      [] role = "stylesheets" ->
            c.global = NoText /\ c.assets = <<>> /\ \A i \in DOMAIN c.sheets : c.sheets[i].css = NoText
      [] OTHER -> c = <<>>
WrittenRoles(content) == {r \in DOMAIN content : ~Empty(r, content[r])}

(* ExportAsset.Content *)
Written(asset, role, nothing) ==
    IF role \in WrittenRoles(asset.content) THEN asset.content[role] ELSE nothing

-----------------------------------------------------------------------------
(* Recognition *)

(* A rule by the value of a key, and one by the types of several keys. *)
Discriminator(containers, key, values, supersededBy) ==
    [kind |-> "discriminator", containers |-> containers, key |-> key, values |-> values,
     supersededBy |-> supersededBy, legacyOnly |-> FALSE, required |-> <<>>]
Signature(containers, required, legacyOnly) ==
    [kind |-> "signature", containers |-> containers, key |-> NoText, values |-> {},
     supersededBy |-> {}, legacyOnly |-> legacyOnly, required |-> required]

PayloadValue(payload, key) ==
    IF \E type \in {"string", "number", "boolean"} : Takes(payload.root, key, type)
    THEN {payload.root[key][2]} ELSE {}

NeverSuperseded(payloads, rule) == FALSE
SupersededInFile(payloads, rule) ==
    \E p \in payloads : /\ p.container \in rule.containers
                        /\ PayloadValue(p, rule.key) \cap rule.supersededBy # {}

SignatureMatches(payload, required) ==
    \A key \in DOMAIN required : Takes(payload.root, key, required[key])

Recognises(rule, payload) ==
    /\ payload.container \in rule.containers
    /\ \/ rule.kind = "discriminator" /\ PayloadValue(payload, rule.key) \cap rule.values # {}
       \/ /\ rule.kind = "signature" /\ SignatureMatches(payload, rule.required)
          /\ ~ (rule.legacyOnly /\ PayloadValue(payload, "spec") \notin {{}, {NoText}})

(* ClaimByDeclaration: the first rule that recognises a payload decides; an     *)
(* authoritative claim is stronger than a compatible one.                     *)
ClaimingRules(payloads, d) ==
    {i \in DOMAIN d.recognition :
        /\ ~SupersededInFile(payloads, d.recognition[i])
        /\ \E p \in payloads : Recognises(d.recognition[i], p)}
ClaimStrength(payloads, d) ==
    LET rules == ClaimingRules(payloads, d)
        first == CHOOSE i \in rules : \A j \in rules : i <= j
    IN IF rules = {} THEN 0
       ELSE IF d.recognition[first].kind = "discriminator" THEN 2 ELSE 1

=============================================================================
