------------------------------ MODULE Presets ------------------------------
(***************************************************************************)
(* internal/format/preset: the Lumiverse and SillyTavern presets.            *)
(*                                                                         *)
(* A preset file is its top-level fields.  One group of settings stands for   *)
(* the three (samplers, completion, advanced), which are read and written     *)
(* alike; a setting is Null where its slot is there and unfilled.  A          *)
(* fragment's text stands for its name and depth, a variable's widget for     *)
(* its options, bounds, label and default, and a script's pattern for its     *)
(* replacement, flags and depths.                                           *)
(***************************************************************************)
EXTENDS FormatContract

CONSTANTS
    SourceKeys,         \* the keys a sealed prompt may be known by, each a text of its own
    Placeholder(_)      \* the text {{presetBlock::key}} that stands for a sealed prompt

(* A placeholder is a text, and says which prompt it stands for. *)
ASSUME PlaceholderAssumption ==
    /\ NoText \notin SourceKeys
    /\ \A k \in SourceKeys : Placeholder(k) # NoText
    /\ \A j, k \in SourceKeys : Placeholder(j) = Placeholder(k) => j = k

Lumiverse == "preset_lumiverse"
SillyTavern == "preset_sillytavern"
PresetFile(format, root) == [format |-> format, container |-> "json", root |-> root]
NoPrompts == [groups |-> <<>>, fragments |-> <<>>]

(* slotsByApp *)
Slots(id) == IF id = Lumiverse THEN {"temperature", "topP"} ELSE {"temperature", "top_p"}
Nudges(id) == IF id = Lumiverse THEN {"continueNudge"} ELSE {"continue_nudge_prompt"}

KnownRoles == {NoText, "system", "user"}
KnownPlacements == {NoText, "pre_history", "in_history"}
KnownWidgets == {"text", "switch"}

Objects(items) == Kept(items, {i \in DOMAIN items : FieldsOf(items[i]) # <<>>})
StringAt(fields, key) == Takes(fields, key, "string")
ScriptId(i) == <<"script", i>>
VariableId(owner, i) == owner \o <<"variable", i>>

-----------------------------------------------------------------------------
(* Settings, nudges and scripts, which both apps share. *)

(* settingsElement and readValue: a null is a slot nobody filled in, a value of   *)
(* the wrong type stays behind.                                               *)
Supplied(values, id) ==
    {n \in Slots(id) \cap DOMAIN values : TypeOf(values[n]) \in {"null", "number"}}
SettingsElement(values, id) == Restrict(values, Supplied(values, id))

(* nudgesElement *)
SentNudges(values, id) == {n \in Nudges(id) : StringAt(values, n)}
NudgesElement(values, id) == [n \in SentNudges(values, id) |-> values[n][2]]

(* takeScriptTargets, takeScriptEffects and takeNumberedTargets: a list holding   *)
(* a name there is no wording for stays where it is, whole.                     *)
Worded(fields, key, known) ==
    /\ Takes(fields, key, "array")
    /\ \A i \in DOMAIN ListOf(fields, key) : ListOf(fields, key)[i] \in DOMAIN known
Wording(fields, key, known) ==
    IF Worded(fields, key, known)
    THEN [i \in DOMAIN ListOf(fields, key) |-> known[ListOf(fields, key)[i]]] ELSE <<>>

ScriptTargets(id) ==
    IF id = Lumiverse THEN Str("user_input") :> "user_input" @@ Str("ai_output") :> "model_output"
    ELSE Num("1") :> "user_input" @@ Num("2") :> "model_output" @@ Num("5") :> "lorebook"
ScriptEffects == Str("display") :> "display" @@ Str("prompt") :> "prompt"
FindKey(id) == IF id = Lumiverse THEN "find_regex" ELSE "findRegex"

(* takeSillyTavernEffects: two switches, and neither one set changes both. *)
SwitchedEffects(f) ==
    LET display == IsSet(f, "markdownOnly", FALSE)  prompt == IsSet(f, "promptOnly", FALSE)
    IN CASE ~Takes(f, "markdownOnly", "boolean") /\ ~Takes(f, "promptOnly", "boolean") -> <<>>
         [] display /\ ~prompt -> <<"display">>
         [] prompt /\ ~display -> <<"prompt">>
         [] OTHER -> <<"display", "prompt">>

ReadScript(id, i, f) ==
    [id |-> ScriptId(i), find |-> TextOf(f, FindKey(id)),
     enabled |-> ~IsSet(f, "disabled", FALSE),
     targets |-> Wording(f, "placement", ScriptTargets(id)),
     affects |-> IF id = Lumiverse THEN Wording(f, "target", ScriptEffects)
                 ELSE SwitchedEffects(f)]
ScriptLeftovers(id, f) ==
    Without(Consumes(f, FindKey(id) :> "string" @@ "disabled" :> "boolean"
                        @@ (IF id = Lumiverse THEN <<>>
                            ELSE "markdownOnly" :> "boolean" @@ "promptOnly" :> "boolean")),
            (IF Worded(f, "placement", ScriptTargets(id)) THEN {"placement"} ELSE {})
            \cup (IF id = Lumiverse /\ Worded(f, "target", ScriptEffects) THEN {"target"} ELSE {}))

(* namesFor and numbersFor *)
NamesFor(values, known) ==
    List([i \in DOMAIN values |-> CHOOSE name \in DOMAIN known : known[name] = values[i]])
KnownTo(values, known) ==
    SelectSeq(values, LAMBDA v : \E name \in DOMAIN known : known[name] = v)
Affects(s, effect) == \E i \in DOMAIN s.affects : s.affects[i] = effect

(* writeLumiverseScripts and writeSillyTavernScripts *)
WriteScript(id, s) ==
    (FindKey(id) :> Str(s.find) @@ "disabled" :> Flag(~s.enabled))
    @@ WriteIfSet("placement", s.targets # <<>>,
           NamesFor(KnownTo(s.targets, ScriptTargets(id)), ScriptTargets(id)))
    @@ (IF id = Lumiverse
        THEN WriteIfSet("target", s.affects # <<>>, NamesFor(s.affects, ScriptEffects))
        ELSE IF s.affects = <<>> THEN <<>>
        ELSE "markdownOnly" :> Flag(Affects(s, "display") /\ ~Affects(s, "prompt"))
             @@ "promptOnly" :> Flag(Affects(s, "prompt") /\ ~Affects(s, "display")))
WriteScripts(asset, id, rows) ==
    LET list == Written(asset, "regex_scripts", <<>>)
    IN [i \in DOMAIN list |->
           Obj(Restored(WriteScript(id, list[i]), rows, list[i].id, id \o "_script"))]

-----------------------------------------------------------------------------
(* preservation: what is left of the file, its extensions as namespaces of their  *)
(* own, save the names the module keeps for itself, and each item's leftovers.     *)

Reserved(id) ==
    {id, id \o "_script"} \cup (IF id = Lumiverse
        THEN {id \o "_block", id \o "_category", id \o "_variable"} ELSE {id \o "_prompt"})

PresetRemainder(id, source) ==
    LET ext == FieldsAt(source, "extensions")
        clashes == Restrict(ext, DOMAIN ext \cap Reserved(id))
        own == IF \E type \in {"object", "null"} : Takes(source, "extensions", type)
               THEN Without(source, {"extensions"})
                    @@ WriteIfSet("extensions", clashes # <<>>, Obj(clashes))
               ELSE source
    IN RowIfAny(TheAsset, id, Object(own))
       \cup {Row(TheAsset, n, Object(n :> ext[n])) : n \in DOMAIN ext \ Reserved(id)}

(* restoreExtensions: what the writer wrote wins, then the body's own, then the    *)
(* namespaces.                                                                *)
KeptNamespaces(rows, id) ==
    LET named == {r \in rows : r.owner = TheAsset /\ r.ns # id}
    IN [n \in {r.ns : r \in named} |-> (CHOOSE r \in named : r.ns = n).payload.fields[n]]
RestoreExtensions(body, rows, id) ==
    LET ext == MergeAbsent(FieldsAt(body, "extensions"), KeptNamespaces(rows, id))
    IN IF ext = <<>> THEN body ELSE "extensions" :> Obj(ext) @@ body

(* preservedBy, kept.item and itemName *)
KeptFields(rows, owner, ns) == Restored(<<>>, rows, owner, ns)
ItemName(rows, ns, id, key) ==
    IF TextOf(KeptFields(rows, id, ns), key) # NoText
    THEN TextOf(KeptFields(rows, id, ns), key) ELSE IdText(id)

-----------------------------------------------------------------------------
(* Reading a Lumiverse preset *)

IsHeading(f) == TextOf(f, "marker") = "category"
SealKeys(f) == DOMAIN f \cap {"sealedKey", "sealed_key"}

(* validateLumiverseHeadingSealing *)
HeadingSealed(f) ==
    \/ SealKeys(f) # {}
    \/ "sealed" \in DOMAIN f /\ f["sealed"] \notin {Flag(FALSE), Null}

(* readLumiverseSealedPrompt *)
SealSays(f) == IF "sealed" \in DOMAIN f THEN f["sealed"] ELSE <<"absent">>
SealKey(f) == TextOf(f, CHOOSE k \in SealKeys(f) : TRUE)
SealUnread(f) ==
    CASE SealSays(f) = Flag(TRUE) ->
            \/ TextOf(f, "marker") # NoText \/ Cardinality(SealKeys(f)) # 1
            \/ ~StringAt(f, "content") \/ SealKey(f) \notin SourceKeys
            \/ \E k \in SourceKeys \ {SealKey(f)} : f["content"] = Str(Placeholder(k))
      [] SealSays(f) \in {Flag(FALSE), Null, <<"absent">>} -> SealKeys(f) # {}
      [] OTHER -> TRUE
IsSealed(f) == SealSays(f) = Flag(TRUE) /\ ~SealUnread(f)

ReuseExisting(f) == f["content"] = Str(Placeholder(SealKey(f)))
SealedPrompt(id, f) ==
    [fragment |-> id, key |-> SealKey(f), reuse |-> ReuseExisting(f),
     text |-> IF ReuseExisting(f) THEN NoText ELSE TextOf(f, "content")]

(* fragmentHeading: a named heading above, or the last one above where the        *)
(* fragment names none at all.                                                *)
HeadingsAbove(blocks, i) == {j \in 1 .. i - 1 : IsHeading(blocks[j])}
NamedAbove(blocks, i) ==
    {j \in HeadingsAbove(blocks, i) : TextOf(blocks[j], "id") = TextOf(blocks[i], "group")}
First(indexes) == CHOOSE j \in indexes : \A k \in indexes : j <= k
Last(indexes) == CHOOSE j \in indexes : \A k \in indexes : k <= j
GroupOf(blocks, i) ==
    LET under == IF "group" \notin DOMAIN blocks[i] THEN HeadingsAbove(blocks, i)
                 ELSE IF StringAt(blocks[i], "group") THEN NamedAbove(blocks, i) ELSE {}
    IN IF under = {} THEN NoItem ELSE ItemId(Last(under))

ReadFragment(blocks, i) ==
    LET f == blocks[i]
        Vocabulary(key, known) == IF TextOf(f, key) \in known THEN TextOf(f, key) ELSE NoText
    IN [id |-> ItemId(i), text |-> IF IsSealed(f) THEN NoText ELSE TextOf(f, "content"),
        role |-> Vocabulary("role", KnownRoles),
        placement |-> Vocabulary("position", KnownPlacements),
        marker |-> TextOf(f, "marker"), enabled |-> IsSet(f, "enabled", FALSE),
        group |-> GroupOf(blocks, i), protected |-> IsSealed(f)]

(* readBlocks.keep: the file's own id is among what an item leaves behind. *)
BlockLeftovers(blocks, i) ==
    LET f == blocks[i]
        Says(key, known) == IF StringAt(f, key) /\ f[key][2] \in known THEN {key} ELSE {}
        blank == Says("id", {NoText})
    IN IF IsHeading(f) THEN Without(Consumes(f, [marker |-> "string", name |-> "string"]), blank)
       ELSE Without(Consumes(f, [marker |-> "string", content |-> "string",
                                 enabled |-> "boolean", variables |-> "array"]),
                    blank \cup Says("role", KnownRoles) \cup Says("position", KnownPlacements)
                    \cup (IF StringAt(f, "group") /\ NamedAbove(blocks, i) = {} THEN {}
                          ELSE {"group"})
                    \cup (IF IsSealed(f) THEN {"sealed"} \cup SealKeys(f) ELSE {}))

(* readLumiverseVariables and readFreeValue *)
FreeValue(fields, name) ==
    IF name \in DOMAIN fields /\ TypeOf(fields[name]) \in {"number", "boolean", "string"}
    THEN fields[name] ELSE Null
ReadVariable(owner, i, d, saved) ==
    [id |-> VariableId(owner, i), fragment |-> owner, name |-> TextOf(d, "name"),
     widget |-> IF TextOf(d, "type") \in KnownWidgets THEN TextOf(d, "type") ELSE "text",
     value |-> FreeValue(saved, TextOf(d, "name"))]
VariableLeftovers(d) ==
    (IF TextOf(d, "type") \in KnownWidgets THEN <<>> ELSE "type" :> Str(TextOf(d, "type")))
    @@ Without(Consumes(d, [name |-> "string"]), {"type"})

Definitions(f) == Objects(ListOf(f, "variables"))

(* savedValues: kept by block and then by name, and taken whole. *)
SavedTaken(root) ==
    /\ Takes(root, "promptVariables", "object")
    /\ \A b \in DOMAIN FieldsAt(root, "promptVariables") :
           Takes(FieldsAt(root, "promptVariables"), b, "object")
SavedFor(root, f) ==
    IF SavedTaken(root) THEN FieldsAt(FieldsAt(root, "promptVariables"), TextOf(f, "id")) ELSE <<>>
ReadVariables(root, blocks, i) ==
    [v \in DOMAIN Definitions(blocks[i]) |->
        ReadVariable(ItemId(i), v, FieldsOf(Definitions(blocks[i])[v]), SavedFor(root, blocks[i]))]

(* readNested: an object is left with what was not read, and the key goes where   *)
(* nothing is left of it.                                                     *)
NestedLeft(fields, key, read) ==
    IF ~Takes(fields, key, "object") THEN fields
    ELSE IF DOMAIN FieldsAt(fields, key) \subseteq read THEN Without(fields, {key})
    ELSE key :> Obj(Without(FieldsAt(fields, key), read)) @@ fields

(* readLumiverseScripts: the list is in the file twice; an empty one stays. *)
TakesScripts(fields) == ListOf(fields, "regex_scripts") # <<>>
ScriptsIn(fields) == Objects(ListOf(fields, "regex_scripts"))
ReadScripts(id, list) == [i \in DOMAIN list |-> ReadScript(id, i, FieldsOf(list[i]))]
ScriptRows(id, list) ==
    UNION {RowIfAny(ScriptId(i), id \o "_script", Object(ScriptLeftovers(id, FieldsOf(list[i]))))
           : i \in DOMAIN list}

LumiverseSource(root) ==
    LET nested == NestedLeft(NestedLeft(Without(root, {"blocks"}), "samplerOverrides",
                          Supplied(FieldsAt(root, "samplerOverrides"), Lumiverse)),
                      "promptBehavior", SentNudges(FieldsAt(root, "promptBehavior"), Lumiverse))
        read == IF TakesScripts(root)
                THEN NestedLeft(Without(nested, {"regex_scripts"}), "extensions", {"regex_scripts"})
                ELSE nested
    IN Without(Consumes(read, [name |-> "string"]),
               (IF SavedTaken(root) THEN {"promptVariables"} ELSE {})
               \cup (IF StringAt(root, "description") /\ root["description"][2] \in MaxBlurbRunes
                     THEN {"description"} ELSE {}))

(* readLumiverseBlocks: the blocks that are objects, the prompts and the headings among  *)
(* them in their order, and the prompts that are sealed.                            *)
Blocks(root) ==
    LET raw == Objects(ListOf(root, "blocks"))
    IN [i \in DOMAIN raw |-> FieldsOf(raw[i])]
PromptsIn(blocks) == {i \in DOMAIN blocks : ~IsHeading(blocks[i])}
SealedIn(blocks) == {i \in PromptsIn(blocks) : IsSealed(blocks[i])}
BlocksUnread(blocks) ==
    \/ \E i \in DOMAIN blocks : IF IsHeading(blocks[i]) THEN HeadingSealed(blocks[i])
                                ELSE SealUnread(blocks[i])
    \/ \E i, j \in SealedIn(blocks) : i # j /\ SealKey(blocks[i]) = SealKey(blocks[j])
ReadPrompts(blocks) ==
    LET prompts == Ordered(PromptsIn(blocks))
        headings == Ordered(DOMAIN blocks \ PromptsIn(blocks))
    IN [groups |-> [n \in DOMAIN headings |->
            [id |-> ItemId(headings[n]), name |-> TextOf(blocks[headings[n]], "name")]],
        fragments |-> [n \in DOMAIN prompts |-> ReadFragment(blocks, prompts[n])]]
AllVariables(root, blocks) ==
    LET prompts == Ordered(PromptsIn(blocks))
        upTo[n \in 0 .. Len(prompts)] ==
            IF n = 0 THEN <<>> ELSE upTo[n - 1] \o ReadVariables(root, blocks, prompts[n])
    IN upTo[Len(prompts)]
LumiverseContent(root, blocks) ==
    LET variables == AllVariables(root, blocks)
        settings == SettingsElement(FieldsAt(root, "samplerOverrides"), Lumiverse)
        nudges == NudgesElement(FieldsAt(root, "promptBehavior"), Lumiverse)
        scripts == ScriptsIn(root)
    IN [prompt_fragments |-> ReadPrompts(blocks)]
       @@ WriteIfSet("prompt_variables", variables # <<>>, variables)
       @@ WriteIfSet("sampler_settings", settings # <<>>, settings)
       @@ WriteIfSet("prompt_nudges", nudges # <<>>, nudges)
       @@ WriteIfSet("regex_scripts", scripts # <<>>, ReadScripts(Lumiverse, scripts))
LumiverseRows(root, blocks) ==
    PresetRemainder(Lumiverse, LumiverseSource(root))
    \cup UNION {RowIfAny(ItemId(i),
           Lumiverse \o (IF IsHeading(blocks[i]) THEN "_category" ELSE "_block"),
           Object(BlockLeftovers(blocks, i))) : i \in DOMAIN blocks}
    \cup UNION {UNION {RowIfAny(VariableId(ItemId(i), v), Lumiverse \o "_variable",
           Object(VariableLeftovers(FieldsOf(Definitions(blocks[i])[v]))))
           : v \in DOMAIN Definitions(blocks[i])} : i \in PromptsIn(blocks)}
    \cup ScriptRows(Lumiverse, ScriptsIn(root))

(* LumiverseModule.Parse *)
ParseLumiverse(file) ==
    LET root == file.root
        blocks == Blocks(root)
        blurb == TextOf(root, "description")
    IN IF ~Takes(root, "blocks", "array") \/ BlocksUnread(blocks) THEN Unreadable
       ELSE [Parsed("preset", Lumiverse, "none",
                 Header(TextOf(root, "name"), NoText, IF blurb \in MaxBlurbRunes THEN blurb ELSE NoText),
                 LumiverseContent(root, blocks), LumiverseRows(root, blocks))
             EXCEPT !.protected = {SealedPrompt(ItemId(i), blocks[i]) : i \in SealedIn(blocks)}]

-----------------------------------------------------------------------------
(* Writing a Lumiverse preset *)

(* writeLumiverseHeading, writeLumiverseVariable and writeLumiverseFragment *)
BlockName(rows, kind, id) == ItemName(rows, Lumiverse \o kind, id, "id")
WriteHeading(rows, g) ==
    Obj(Restored("id" :> Str(BlockName(rows, "_category", g.id)) @@ "name" :> Str(g.name)
                 @@ "marker" :> Str("category"), rows, g.id, Lumiverse \o "_category"))
WriteVariable(rows, v) ==
    Obj(Restored("id" :> Str(ItemName(rows, Lumiverse \o "_variable", v.id, "id"))
                 @@ "name" :> Str(v.name) @@ "type" :> Str(v.widget),
                 rows, v.id, Lumiverse \o "_variable"))
NameOfGroup(rows, list, id) ==
    IF \E g \in DOMAIN list.groups : list.groups[g].id = id
    THEN BlockName(rows, "_category", id) ELSE NoText
WriteFragment(rows, list, form, p) ==
    Obj(Restored(
        ("id" :> Str(BlockName(rows, "_block", p.id)) @@ "content" :> Str(p.text)
         @@ "enabled" :> Flag(p.enabled))
        @@ WriteIfSet("role", p.role # NoText, Str(p.role))
        @@ WriteIfSet("position", p.placement # NoText, Str(p.placement))
        @@ WriteIfSet("marker", p.marker # NoText, Str(p.marker))
        @@ WriteIfSet("group", p.group # NoItem, Str(NameOfGroup(rows, list, p.group)))
        @@ WriteIfSet("variables", form # <<>>,
               List([v \in DOMAIN form |-> WriteVariable(rows, form[v])])),
        rows, p.id, Lumiverse \o "_block"))

(* writeLumiverseBlocks: a heading goes in front of the first fragment under it,   *)
(* with the headings before it that nothing sits under.                         *)
GroupIndex(list, id) ==
    IF \E g \in DOMAIN list.groups : list.groups[g].id = id
    THEN CHOOSE g \in DOMAIN list.groups : list.groups[g].id = id ELSE 0
Reached(list, n) ==
    Last({0} \cup {GroupIndex(list, list.fragments[k].group) : k \in 1 .. n})
WriteBlocks(rows, list, variables) ==
    LET Between(from, to) ==
            [k \in 1 .. to - from |-> WriteHeading(rows, list.groups[from + k])]
        Form(id) == SelectSeq(variables, LAMBDA v : v.fragment = id)
        upTo[n \in 0 .. Len(list.fragments)] ==
            IF n = 0 THEN <<>>
            ELSE upTo[n - 1] \o Between(Reached(list, n - 1), Reached(list, n))
                 \o <<WriteFragment(rows, list, Form(list.fragments[n].id), list.fragments[n])>>
        all == Len(list.fragments)
    IN upTo[all] \o Between(Reached(list, all), Len(list.groups))

(* writeSavedValues: a variable whose fragment is not on the list has no name to    *)
(* be kept under.                                                             *)
WriteSaved(rows, list, variables) ==
    LET kept == {v \in DOMAIN variables :
                    /\ variables[v].value # Null
                    /\ \E p \in DOMAIN list.fragments : list.fragments[p].id = variables[v].fragment}
        Under(v) == BlockName(rows, "_block", variables[v].fragment)
    IN [b \in {Under(v) : v \in kept} |->
           Obj([n \in {variables[v].name : v \in {w \in kept : Under(w) = b}} |->
                   variables[Last({v \in kept : Under(v) = b /\ variables[v].name = n})].value])]

(* restoreLumiversePreserved *)
MergeNested(body, preserved, key) ==
    IF FieldsAt(preserved, key) = <<>> THEN body
    ELSE key :> Obj(MergeAbsent(FieldsAt(body, key), FieldsAt(preserved, key))) @@ body

(* LumiverseModule.Write *)
WriteLumiverse(asset, rows) ==
    LET list == Written(asset, "prompt_fragments", NoPrompts)
        variables == Written(asset, "prompt_variables", <<>>)
        settings == Restrict(Written(asset, "sampler_settings", <<>>),
                        Slots(Lumiverse) \cap DOMAIN Written(asset, "sampler_settings", <<>>))
        sent == Written(asset, "prompt_nudges", <<>>)
        nudges == [n \in DOMAIN sent \cap Nudges(Lumiverse) |-> Str(sent[n])]
        saved == WriteSaved(rows, list, variables)
        scripts == WriteScripts(asset, Lumiverse, rows)
        kept == KeptFields(rows, TheAsset, Lumiverse)
        body == ("name" :> Str(asset.header.name)
                 @@ "blocks" :> List(WriteBlocks(rows, list, variables)))
                @@ WriteIfSet("description", asset.header.blurb # NoText, Str(asset.header.blurb))
                @@ WriteIfSet("promptVariables", saved # <<>>, Obj(saved))
                @@ WriteIfSet("samplerOverrides", settings # <<>>, Obj(settings))
                @@ WriteIfSet("promptBehavior", nudges # <<>>, Obj(nudges))
                @@ WriteIfSet("regex_scripts", scripts # <<>>, List(scripts))
                @@ WriteIfSet("extensions", scripts # <<>>, Obj("regex_scripts" :> List(scripts)))
        nested == MergeNested(MergeNested(body, kept, "samplerOverrides"), kept, "promptBehavior")
    IN PresetFile(Lumiverse, RestoreExtensions(MergeAbsent(nested, kept), rows, Lumiverse))

-----------------------------------------------------------------------------
(* Reading a SillyTavern preset: prompts, and beside them the order each character *)
(* sends them in.  One character's order is the live one.                         *)

LiveCharacter == "100001"
OrdersTaken(root) ==
    /\ Takes(root, "prompt_order", "array")
    /\ \A i \in DOMAIN ListOf(root, "prompt_order") :
           TypeOf(ListOf(root, "prompt_order")[i]) = "object"
IsLive(order) ==
    /\ Takes(order, "character_id", "number") /\ order["character_id"][2] = LiveCharacter
    /\ Takes(order, "order", "array")

(* takeLiveOrder *)
LiveIndex(root) ==
    LET orders == ListOf(root, "prompt_order")
        live == {i \in DOMAIN orders : OrdersTaken(root) /\ IsLive(FieldsOf(orders[i]))}
    IN IF live = {} THEN 0 ELSE First(live)
LiveOrder(root) ==
    LET lines == ListOf(FieldsOf(ListOf(root, "prompt_order")[LiveIndex(root)]), "order")
    IN IF LiveIndex(root) = 0 THEN <<>>
       ELSE Kept(lines, {i \in DOMAIN lines : StringAt(FieldsOf(lines[i]), "identifier")})
RemainingOrders(root) ==
    LET orders == ListOf(root, "prompt_order")
        rest == SelectSeq([i \in DOMAIN orders |-> i], LAMBDA i : i # LiveIndex(root))
    IN [k \in DOMAIN rest |-> orders[rest[k]]]

(* readSillyTavernPrompts *)
ReadPrompt(i, f, ordered) ==
    [id |-> ItemId(i), text |-> TextOf(f, "content"),
     role |-> IF TextOf(f, "role") \in KnownRoles THEN TextOf(f, "role") ELSE NoText,
     placement |-> IF Takes(f, "injection_position", "number") /\ f["injection_position"][2] = "1"
                   THEN "in_history" ELSE NoText,
     marker |-> IF IsSet(f, "marker", FALSE) THEN TextOf(f, "identifier") ELSE NoText,
     enabled |-> ~ordered, group |-> NoItem, protected |-> FALSE]
PromptLeftovers(f) ==
    Without(Consumes(f, [content |-> "string", marker |-> "boolean"]),
            {k \in {"role"} : StringAt(f, k) /\ f[k][2] \in KnownRoles}
            \cup {k \in {"identifier"} : StringAt(f, k) /\ f[k][2] = NoText}
            \cup {k \in {"injection_position"} :
                     Takes(f, k, "number") /\ f[k][2] \in {"0", "1"}})

(* The order first, each prompt once; then what the order does not list. *)
NamedBy(prompts, line) ==
    {i \in DOMAIN prompts : /\ TextOf(prompts[i], "identifier") # NoText
                            /\ TextOf(prompts[i], "identifier") = TextOf(line, "identifier")}
OrderedPrompts(read, prompts, live) ==
    LET Named(k) == NamedBy(prompts, FieldsOf(live[k]))
        Listed(n) == {First(Named(k)) : k \in {l \in 1 .. n : Named(l) # {}}}
        sent == Ordered({k \in DOMAIN live : Named(k) # {} /\ First(Named(k)) \notin Listed(k - 1)})
        rest == Ordered({i \in DOMAIN read : i \notin Listed(Len(live))})
    IN [n \in DOMAIN sent |->
           [read[First(Named(sent[n]))]
               EXCEPT !.enabled = IsSet(FieldsOf(live[sent[n]]), "enabled", FALSE)]]
       \o [n \in DOMAIN rest |-> read[rest[n]]]

SillyTavernSource(root) ==
    LET others == RemainingOrders(root)
        ordered == Without(root, {"prompts"} \cup (IF OrdersTaken(root) THEN {"prompt_order"} ELSE {}))
                   @@ WriteIfSet("prompt_order", OrdersTaken(root) /\ others # <<>>, List(others))
        flat == Without(ordered, Supplied(root, SillyTavern) \cup SentNudges(root, SillyTavern))
    IN IF TakesScripts(FieldsAt(root, "extensions"))
       THEN NestedLeft(flat, "extensions", {"regex_scripts"}) ELSE flat

(* The prompts that are objects, as their fields. *)
SillyTavernPrompts(root) ==
    LET raw == Objects(ListOf(root, "prompts"))
    IN [i \in DOMAIN raw |-> FieldsOf(raw[i])]
SillyTavernContent(root, prompts) ==
    LET read == [i \in DOMAIN prompts |-> ReadPrompt(i, prompts[i], LiveIndex(root) # 0)]
        settings == SettingsElement(root, SillyTavern)
        nudges == NudgesElement(root, SillyTavern)
        scripts == ScriptsIn(FieldsAt(root, "extensions"))
    IN [prompt_fragments |->
           [groups |-> <<>>, fragments |-> OrderedPrompts(read, prompts, LiveOrder(root))]]
       @@ WriteIfSet("sampler_settings", settings # <<>>, settings)
       @@ WriteIfSet("prompt_nudges", nudges # <<>>, nudges)
       @@ WriteIfSet("regex_scripts", scripts # <<>>, ReadScripts(SillyTavern, scripts))
SillyTavernRows(root, prompts) ==
    PresetRemainder(SillyTavern, SillyTavernSource(root))
    \cup UNION {RowIfAny(ItemId(i), SillyTavern \o "_prompt", Object(PromptLeftovers(prompts[i])))
                : i \in DOMAIN prompts}
    \cup ScriptRows(SillyTavern, ScriptsIn(FieldsAt(root, "extensions")))

(* SillyTavernModule.Parse *)
ParseSillyTavern(file) ==
    LET prompts == SillyTavernPrompts(file.root)
    IN IF ~Takes(file.root, "prompts", "array") THEN Unreadable
       ELSE Parsed("preset", SillyTavern, "none", Header(NoText, NoText, NoText),
                   SillyTavernContent(file.root, prompts), SillyTavernRows(file.root, prompts))

-----------------------------------------------------------------------------
(* Writing a SillyTavern preset *)

Identifier(rows, p) == ItemName(rows, SillyTavern \o "_prompt", p.id, "identifier")

(* writeSillyTavernPrompts: no heading, and a placement only inside the history. *)
WritePrompt(rows, p) ==
    Obj(Restored(
        "identifier" :> Str(Identifier(rows, p))
        @@ WriteIfSet("marker", p.marker # NoText, Flag(TRUE))
        @@ WriteIfSet("role", p.role # NoText, Str(p.role))
        @@ WriteIfSet("content", p.text # NoText \/ p.marker = NoText, Str(p.text))
        @@ WriteIfSet("injection_position", p.placement = "in_history", Num("1")),
        rows, p.id, SillyTavern \o "_prompt"))

(* writeSillyTavernOrder: behind the orders of the other characters. *)
WriteOrder(rows, fragments) ==
    LET sent == [i \in DOMAIN fragments |->
                    Obj("identifier" :> Str(Identifier(rows, fragments[i]))
                        @@ "enabled" :> Flag(fragments[i].enabled))]
    IN ListOf(KeptFields(rows, TheAsset, SillyTavern), "prompt_order")
       \o <<Obj("character_id" :> Num(LiveCharacter) @@ "order" :> List(sent))>>

(* SillyTavernModule.Write and restoreSillyTavernPreserved *)
WriteSillyTavern(asset, rows) ==
    LET list == Written(asset, "prompt_fragments", NoPrompts)
        settings == Written(asset, "sampler_settings", <<>>)
        filled == {n \in DOMAIN settings \cap Slots(SillyTavern) : settings[n] # Null}
        sent == Written(asset, "prompt_nudges", <<>>)
        scripts == WriteScripts(asset, SillyTavern, rows)
        body == ("prompts" :> List([i \in DOMAIN list.fragments |->
                                       WritePrompt(rows, list.fragments[i])])
                 @@ "prompt_order" :> List(WriteOrder(rows, list.fragments)))
                @@ Restrict(settings, filled)
                @@ [n \in DOMAIN sent \cap Nudges(SillyTavern) |-> Str(sent[n])]
                @@ WriteIfSet("extensions", scripts # <<>>, Obj("regex_scripts" :> List(scripts)))
    IN PresetFile(SillyTavern,
           RestoreExtensions(MergeAbsent(body, KeptFields(rows, TheAsset, SillyTavern)),
                             rows, SillyTavern))

-----------------------------------------------------------------------------
(* What each declares. *)

HasLooseVariable(variables) == \E v \in DOMAIN variables : variables[v].fragment = NoItem
HasHeadingOrHistoryPlacement(list) ==
    \E p \in DOMAIN list.fragments : list.fragments[p].group # NoItem
                                     \/ list.fragments[p].placement = "pre_history"
UnnamedSetting(settings, id) == \E n \in DOMAIN settings \ Slots(id) : settings[n] # Null
UnnamedNudge(sent, id) == DOMAIN sent \ Nudges(id) # {}

PresetReduces(id, role, c) ==
    CASE role = "prompt_fragments" -> id = SillyTavern /\ HasHeadingOrHistoryPlacement(c)
      [] role = "prompt_variables" -> HasLooseVariable(c)
      [] role = "sampler_settings" -> UnnamedSetting(c, id)
      [] role = "prompt_nudges" -> UnnamedNudge(c, id)
      [] OTHER -> FALSE

PresetRoles(id) ==
    [prompt_fragments |-> Support(Full, IF id = Lumiverse THEN Full ELSE Partial),
     prompt_variables |-> IF id = Lumiverse THEN Support(Full, Partial) ELSE Support(None, None),
     sampler_settings |-> Support(Full, Partial), prompt_nudges |-> Support(Full, Partial),
     regex_scripts |-> Support(Full, Full), gallery |-> Support(None, None)]

PresetDeclarations ==
    {[id |-> id, kind |-> "preset", read |-> TRUE, write |-> TRUE,
      recognition |->
        IF id = Lumiverse
        THEN <<Discriminator({"json"}, "schemaVersion", {"1", "2"}, {})>>
        ELSE <<Signature({"json"}, [prompts |-> "array", prompt_order |-> "array"], FALSE)>>,
      roles |-> PresetRoles(id), body |-> id, container |-> <<"extensions">>,
      header |-> IF id = Lumiverse THEN {"name", "blurb"} ELSE {},
      tested |-> {id, OriginIllarin} \cup (IF id = Lumiverse THEN {OriginV1} ELSE {}),
      preserves |-> IF id = Lumiverse THEN {OriginV1} ELSE {}]
        : id \in {Lumiverse, SillyTavern}}

=============================================================================
