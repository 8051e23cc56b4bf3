----------------------------- MODULE MCExchange -----------------------------
(* A few files of every format, chosen so that each reader meets what it reads, *)
(* what it leaves behind and what it refuses.                                 *)
EXTENDS Exchange

CardBody ==
    [name |-> Str("Ann"), description |-> Str("tall"), personality |-> Str("calm"),
     first_mes |-> Str("hello"), alternate_greetings |-> List(<<"bye">>),
     mes_example |-> <<"string", <<"Ann", "hi">>, <<"waves">>>>]
CardBook ==
    Book("body", "scan_depth" :> Num("2"),
         <<Object([keys |-> List(<<"k">>), content |-> Str("lore"), position |-> Str("after_char"),
                   extra |-> Num("1")]),
           Object([content |-> Str("more"), enabled |-> Flag(FALSE), selective |-> Flag(TRUE),
                   position |-> Str("at_depth")])>>)
Tagged == "tags" :> List(<<"t">>)

CardFiles ==
    {CardFile(V2, "json", CardBody @@ Tagged, "world" :> Str("w"), CardBook, {}, FALSE),
     CardFile(V2, "png", CardBody @@ "group_only_greetings" :> List(<<"all">>), <<>>, NoBook, {}, FALSE),
     CardFile(V2, "json", CardBody, "card" :> Obj("x" :> Num("1")), NoBook, {}, FALSE),
     CardFile(NoText, "json", CardBody @@ Tagged, <<>>, NoBook, {}, FALSE),
     CardFile(V3, "png", CardBody @@ "nickname" :> Str("A"), <<>>, NoBook, {}, TRUE),
     CardFile(V3, "json", CardBody @@ "group_only_greetings" :> List(<<"all">>), <<>>, CardBook, {}, TRUE),
     CardFile(V3, "zip", CardBody @@ Tagged, "world" :> Str("w"), NoBook,
              {"icon", "emotion", "x_gallery"}, FALSE),
     CardFile(V2, "json", "description" :> Num("1") @@ CardBody, <<>>, NoBook, {}, FALSE),
     CardFile(V3, "json", ("nickname" :> Null @@ "extensions" :> Str("x") @@ "description" :> Null)
                          @@ CardBody, <<>>, NoBook, {}, FALSE),
     CardFile("chara_card_v9", "json", CardBody, <<>>, NoBook, {}, FALSE)}

BookFiles ==
    {BookFile("lorebook", [name |-> Str("Atlas"), scan_depth |-> Num("2")], "ns" :> Num("1"),
              CardBook.entries \o <<NotAnObject>>),
     BookFile("lorebook", "name" :> Num("7") @@ "extensions" :> Str("x"), <<>>, CardBook.entries),
     BookFile("lorebook", "name" :> Null @@ "extensions" :> Null, <<>>, CardBook.entries),
     BookFile("lorebook_sillytavern", "name" :> Str("Atlas"), <<>>,
              <<NotAnObject,
                Object([key |-> List(<<"k">>), content |-> Str("lore"), disable |-> Flag(TRUE),
                        position |-> Num("1"), uid |-> Num("3")]),
                Object([content |-> Str("more"), excludeRecursion |-> Flag(TRUE),
                        position |-> Num("4")])>>)}

LumiverseBlock(id, text) ==
    [id |-> Str(id), content |-> Str(text), enabled |-> Flag(TRUE), role |-> Str("system")]
LumiverseHeading == [id |-> Str("h"), name |-> Str("Rules"), marker |-> Str("category"), open |-> Flag(TRUE)]
VariableDefinition(type) == Obj([id |-> Str("x"), name |-> Str("tone"), type |-> Str(type)])
LumiverseScript ==
    Obj([find_regex |-> Str("a"), disabled |-> Flag(TRUE), placement |-> List(<<Str("user_input")>>),
         target |-> List(<<Str("display")>>), note |-> Str("n")])
LumiverseRoot(blocks) ==
    [schemaVersion |-> Num("1"), name |-> Str("Plan"), blocks |-> List(blocks)]
PresetFiles ==
    {PresetFile(Lumiverse,
        LumiverseRoot(<<Obj(LumiverseHeading),
                        Obj("group" :> Str("h") @@ "position" :> Str("pre_history")
                            @@ "variables" :> List(<<VariableDefinition("switch")>>)
                            @@ LumiverseBlock("b1", "one")),
                        Obj("group" :> Str(NoText) @@ "depth" :> Num("3") @@ LumiverseBlock("b2", "two"))>>)
        @@ [promptVariables |-> Obj("b1" :> Obj("tone" :> Flag(TRUE))),
            samplerOverrides |-> Obj([temperature |-> Num("1"), topP |-> Null, custom |-> Num("2")]),
            promptBehavior |-> Obj([continueNudge |-> Str("go"), other |-> Str("x")]),
            extensions |-> Obj("ns" :> Num("1"))]),
     PresetFile(Lumiverse,
        LumiverseRoot(<<Obj("role" :> Str("narrator") @@ LumiverseBlock("b1", "one")),
                        Obj(LumiverseHeading), Obj(LumiverseBlock(NoText, "two"))>>)
        @@ [description |-> Str("long"), regex_scripts |-> List(<<LumiverseScript>>),
            extensions |-> Obj([regex_scripts |-> List(<<LumiverseScript>>), ns |-> Num("1")])]),
     PresetFile(Lumiverse,
        LumiverseRoot(<<Obj([sealed |-> Flag(TRUE), sealedKey |-> Str("k1")] @@ LumiverseBlock("b1", "secret"))>>)
        @@ "description" :> Str("short")),
     PresetFile(Lumiverse,
        LumiverseRoot(<<Obj([sealedKey |-> Str("k1")] @@ LumiverseBlock("b1", "one"))>>)),
     PresetFile(SillyTavern,
        [prompts |-> List(<<
            Obj([identifier |-> Str("main"), content |-> Str("one"), role |-> Str("system"), name |-> Str("Main")]),
            Obj([identifier |-> Str("chatHistory"), marker |-> Flag(TRUE)]),
            Obj([identifier |-> Str("jb"), content |-> Str("two"), injection_position |-> Num("1")])>>),
         prompt_order |-> List(<<
            Obj([character_id |-> Num("100000"), order |-> List(<<>>)]),
            Obj([character_id |-> Num("100001"), order |-> List(<<
                Obj([identifier |-> Str("jb"), enabled |-> Flag(TRUE)]),
                Obj([identifier |-> Str("gone"), enabled |-> Flag(TRUE)]),
                Obj([identifier |-> Str("main"), enabled |-> Flag(FALSE)])>>)])>>),
         temperature |-> Num("1"), top_p |-> Null, continue_nudge_prompt |-> Str("go"),
         extensions |-> Obj([ns |-> Num("1"),
            regex_scripts |-> List(<<Obj([findRegex |-> Str("a"), disabled |-> Flag(FALSE),
                placement |-> List(<<Num("1"), Num("5")>>), markdownOnly |-> Flag(TRUE)])>>)])])}

ThemeFiles ==
    {ThemeFile(LumiverseTheme, "zip",
        [format |-> Num("3"), name |-> Str("Dusk"), description |-> Str("short"),
         createdAt |-> Str("2024-05-01T00:00:00Z"),
         theme |-> Obj([baseColorsByMode |->
                            Obj([dark |-> Obj([primary |-> Str("red"), odd |-> Str("x")]),
                                 light |-> Obj([text |-> Str("blue")])]),
                        accent |-> Accent, fontScale |-> Null, radius |-> Num("4")]),
         globalCSS |-> Str("css"),
         components |-> Obj([chat |-> Obj([css |-> Str("c"), enabled |-> Flag(FALSE), note |-> Str("n")]),
                             menu |-> Obj([note |-> Str("n")])]),
         assets |-> List(<<Obj([archivePath |-> Str("font"), kind |-> Str("f")]),
                           Obj([archivePath |-> Str("lost")])>>)], {"font"}),
     ThemeFile(LumiverseTheme, "zip",
        [format |-> Num("3"), name |-> Str("Bare"), createdAt |-> Str("soon"), description |-> Null,
         components |-> Null, theme |-> Obj("accent" :> Null @@ "baseColorsByMode" :>
             Obj("dark" :> Obj("primary" :> Str("red")) @@ "menu" :> Null))], {}),
     ThemeFile(LumiverseTheme, "zip",
        [format |-> Num("3"), name |-> Str("Bare"), theme |-> Obj("baseColorsByMode" :> Obj(<<>>))], {}),
     ThemeFile(LumiverseTheme, "zip", [format |-> Num("4"), name |-> Str("Next")], {}),
     ThemeFile(SillyTavernTheme, "json",
        [name |-> Str("Dusk"), main_text_color |-> Str("red"), blur_strength |-> Num("1"),
         custom_css |-> Str("css"), font_scale |-> Null, chat_width |-> Num("50")], {})}

PackItem == [lumiaName |-> Str("Lu"), lumiaDefinition |-> Str("d"), genderIdentity |-> Num("0")]
PackFiles ==
    {PackFile([packName |-> Str("P"), version |-> Num("2"), loomItems |-> List(<<>>),
               lumiaItems |-> List(<<Obj(PackItem),
                                     Obj([lumiaName |-> Str("No"), genderIdentity |-> Num("9"), extra |-> Num("1")]),
                                     Obj("lumiaDefinition" :> Str("d"))>>)]),
     PackFile([packName |-> Str("P"), version |-> Str("v"), loomItems |-> List(<<>>),
               lumiaItems |-> List(<<Obj("lumiaDefinition" :> Num("1") @@ PackItem)>>)]),
     PackFile([packName |-> Str("P"), loomItems |-> List(<<>>), lumiaItems |-> List(<<>>)])}

OldCharacter ==
    [table |-> "characters", name |-> "Ann", nickname |-> "A", tagline |-> "short",
     description |-> "tall", personality |-> "calm", first |-> "hello", alternates |-> Null,
     group |-> List(<<"all">>), example |-> CardBody.mes_example, recovery |-> {"again"},
     images |-> <<"avatar", "gallery", "expression">>, assets |-> List(<<"a", "b">>),
     created |-> Num("7"), book |-> [CardBook EXCEPT !.place = "column"],
     extensions |-> Obj([lumihub_art_display |-> Num("1"), world |-> Str("w"),
                         lumiverse_modules |-> Obj([world_books |-> Num("1"), other |-> Num("1")])])]
OldPreset(blocks, sealed) ==
    [table |-> "presets", name |-> "Plan", description |-> "long", latest |-> "2", sealed |-> sealed,
     payload |-> PresetFile(Lumiverse, LumiverseRoot(blocks) @@ "presetVersion" :> Str("2"))]
OldSeal(version, intact) == [key |-> "k1", version |-> version, text |-> "secret", intact |-> intact]
PlaceholderBlock == <<Obj(LumiverseBlock("b1", Placeholder("k1"))), Obj(LumiverseBlock("b2", "two"))>>
OldTheme ==
    [table |-> "themes", name |-> "Dusk", description |-> "long", css |-> NoText,
     config |-> Obj([baseColorsByMode |-> Obj("dark" :> Obj("primary" :> Str("red"))), radius |-> Num("4")]),
     fonts |-> <<"font">>]
OldPack(items) ==
    [table |-> "dlc_packs", name |-> "P", description |-> "short", version |-> "2", items |-> List(items)]
MCOldRows ==
    {OldCharacter, [OldCharacter EXCEPT !.extensions = Str("x"), !.images = <<"perspective_layer">>],
     [OldCharacter EXCEPT !.alternates = List(<<"bye">>)],
     [OldCharacter EXCEPT !.recovery = {}, !.book = [NoBook EXCEPT !.place = "garbled"], !.images = <<>>,
                          !.first = NoText, !.alternates = List(<<"bye">>)],
     [table |-> "worldbooks", name |-> "Atlas", description |-> "short",
      entries |-> List(<<Object([key |-> List(<<"k">>), content |-> Str("lore"), disabled |-> Flag(TRUE),
                                 position |-> Num("4"), exclude_recursion |-> Flag(TRUE)])>>)],
     OldPreset(PlaceholderBlock, {OldSeal("1", TRUE), OldSeal("2", TRUE)}),
     OldPreset(PlaceholderBlock, {OldSeal("2", FALSE)}),
     OldPreset(<<Obj("variables" :> List(<<VariableDefinition("text")>>) @@ LumiverseBlock("b2", "two"))>>, {}),
     OldTheme, [OldTheme EXCEPT !.fonts = <<"../up">>],
     OldPack(<<Obj(PackItem)>>), OldPack(<<Obj(PackItem), Obj("lumiaDefinition" :> Str("d"))>>)}

MCPlaceholder(key) == "{{presetBlock::" \o key \o "}}"

MCFiles == CardFiles \cup BookFiles \cup PresetFiles \cup ThemeFiles \cup PackFiles

-----------------------------------------------------------------------------
BuiltHere(kind, content) ==
    Parsed(kind, OriginIllarin, "none", Header("Mine", NoText, "short"), content, {})
Fragment(id, text, group) ==
    [id |-> id, text |-> text, role |-> NoText, placement |-> NoText, marker |-> NoText, enabled |-> TRUE,
     group |-> group, protected |-> FALSE]
BuiltEntry == [BlankEntry(ItemId(1)) EXCEPT !.text = "lore", !.recursion = TRUE]
MCBuilds ==
    {BuiltHere("character", [description |-> "tall", greetings |-> Unnamed(<<"hello">>)]),
     BuiltHere("lorebook", [lorebook_entries |-> <<BuiltEntry>>]),
     BuiltHere("preset",
        [prompt_fragments |->
            [groups |-> <<[id |-> <<"g1">>, name |-> "Rules"], [id |-> <<"g2">>, name |-> "Rest"]>>,
             fragments |-> <<Fragment(<<"f1">>, "one", <<"g1">>), Fragment(<<"f2">>, "two", <<"g2">>)>>],
         prompt_variables |->
            <<[id |-> <<"v1">>, fragment |-> <<"f2">>, name |-> "tone", widget |-> "text", value |-> Str("warm")],
              [id |-> <<"v2">>, fragment |-> NoItem, name |-> "size", widget |-> "text", value |-> Null]>>,
         sampler_settings |-> "topP" :> Num("1") @@ "top_p" :> Num("1")]),
     BuiltHere("theme",
        [theme_tokens |-> <<[name |-> "dark", colors |-> [primary |-> "red", main_text_color |-> "red"]],
                            [name |-> "light", colors |-> [text |-> NoText]]>>,
         stylesheets |-> [NoStyles EXCEPT !.sheets =
            <<[id |-> <<"s1">>, name |-> "chat", css |-> "c", enabled |-> TRUE]>>]]),
     BuiltHere("pack", [pack_items |-> <<[id |-> <<"r1">>, name |-> "Lu", definition |-> NoText, gender |-> "2"]>>])}

Rest(list) == SubSeq(list, 2, Len(list))
Adding(list, item) ==
    IF \E i \in DOMAIN list : list[i].text = "new" THEN {} ELSE {list \o <<item>>}
Ungrouped(c) ==
    [groups |-> <<>>,
     fragments |-> [i \in DOMAIN c.fragments |-> [c.fragments[i] EXCEPT !.group = NoItem]]]

(* What a creator may do to each role. *)
MCEdits(a) ==
    [role \in DOMAIN a.content |->
        LET c == a.content[role]
        IN CASE role \in {"description", "personality"} -> {NoText, "edited"}
             [] role \in {"greetings", "group_greetings"} ->
                    {Rest(c), <<[name |-> "alt", text |-> "hello"]>>}
             [] role = "example_dialogue" ->
                    {<<>>, <<[speaker |-> NoText, lines |-> <<<<"at 10", "30">>>>]>>,
                     <<[speaker |-> "Ann", lines |-> <<<<"hi">>, <<"there">>>>]>>}
             [] role = "lorebook_entries" ->
                    {<<>>, Rest(c)} \cup Adding(c, [BlankEntry(<<"new">>) EXCEPT !.text = "new"])
             [] role = "prompt_fragments" ->
                    {[c EXCEPT !.fragments = Rest(c.fragments)], Ungrouped(c)}
                    \cup {[c EXCEPT !.fragments = more] :
                             more \in Adding(c.fragments, Fragment(<<"new">>, "new", NoItem))}
             [] role = "prompt_variables" -> {Rest(c)}
             [] role \in {"sampler_settings", "theme_controls"} -> {[n \in DOMAIN c |-> Null]}
             [] role = "prompt_nudges" -> {[n \in DOMAIN c |-> "on"]}
             [] role = "regex_scripts" -> {[i \in DOMAIN c |-> [c[i] EXCEPT !.affects = <<"display", "prompt">>]]}
             [] role = "theme_tokens" ->
                    {[c EXCEPT ![1].colors = [n \in DOMAIN c[1].colors |-> NoText]],
                     c \o <<[name |-> "menu", colors |-> [primary |-> "grey"]]>>}
             [] role = "stylesheets" ->
                    {[c EXCEPT !.global = NoText],
                     [c EXCEPT !.sheets = [i \in DOMAIN c.sheets |-> [c.sheets[i] EXCEPT !.enabled = ~c.sheets[i].enabled]]]}
             [] role = "pack_items" -> {[i \in DOMAIN c |-> [c[i] EXCEPT !.definition = NoText, !.gender = "2"]], Rest(c)}
             [] OTHER -> {<<>>}]
MCHeaders(kind) ==
    {[Header("Renamed", NoText, NoText) EXCEPT !.version = v] : v \in IF kind = "pack" THEN {NoText, "v2", "+1"} ELSE {NoText}}
=============================================================================
