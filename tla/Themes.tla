------------------------------- MODULE Themes -------------------------------
(***************************************************************************)
(* internal/format/theme: the Lumiverse theme bundle, an archive, and the     *)
(* SillyTavern theme, a flat document.                                      *)
(*                                                                         *)
(* Tokens are a sequence of modes, each its name and its colours by name;     *)
(* controls are settings by name, Null where unfilled; stylesheets are a      *)
(* global sheet, sheets by component and the files attached to them.         *)
(***************************************************************************)
EXTENDS FormatContract

LumiverseTheme == "theme_lumiverse"
SillyTavernTheme == "theme_sillytavern"

(* The files an archive holds besides the document are `files`. *)
ThemeFile(format, container, root, files) ==
    [format |-> format, container |-> container, root |-> root, files |-> files]

Colors(id) ==
    IF id = LumiverseTheme THEN {"primary", "text"} ELSE {"main_text_color", "border_color"}
Controls(id) ==
    IF id = LumiverseTheme THEN {"accent", "fontScale"} ELSE {"blur_strength", "font_scale"}

(* slices.Sorted over the names a file may use. *)
Sorted(names) == SelectSeq(<<"chat", "dark", "light", "menu">>, LAMBDA n : n \in names)
StyleId(kind, i) == <<kind, i>>
NoStyles == [global |-> NoText, sheets |-> <<>>, assets |-> <<>>]

(* An accent is an object in the file and its JSON text in a setting. *)
Accent == Obj("hue" :> Num("1"))
AccentText == Str("{hue: 1}")
NullText == Str("null")
AccentOf(text) == IF text = AccentText THEN Accent ELSE Null
(* What time.Parse accepts as RFC 3339. *)
Timestamps == {"2024-05-01T00:00:00Z"}

-----------------------------------------------------------------------------
(* Reading a Lumiverse theme *)

(* readLumiversePalette: the known colours of each mode that is an object. *)
ReadColors(colors, id) ==
    [n \in {m \in Colors(id) : Takes(colors, m, "string")} |-> colors[n][2]]
UnreadColors(colors, id) == Without(colors, DOMAIN ReadColors(colors, id))
ReadPalette(modes) ==
    LET known == {m \in DOMAIN modes : ReadColors(FieldsOf(modes[m]), LumiverseTheme) # <<>>}
        names == Sorted(known)
    IN [i \in DOMAIN names |->
           [name |-> names[i],
            colors |-> ReadColors(FieldsOf(modes[names[i]]), LumiverseTheme)]]
UnreadModes(modes) ==
    LET left == {m \in DOMAIN modes : \/ TypeOf(modes[m]) \notin {"object", "null"}
                                      \/ UnreadColors(FieldsOf(modes[m]), LumiverseTheme) # <<>>}
    IN [m \in left |-> IF TypeOf(modes[m]) # "object" THEN modes[m]
                       ELSE Obj(UnreadColors(FieldsOf(modes[m]), LumiverseTheme))]

(* readLumiverseControls and readSetting *)
ReadsControl(fields, name) ==
    /\ name \in DOMAIN fields
    /\ TypeOf(fields[name]) \in IF name = "accent" THEN {"null", "object"} ELSE {"null", "number"}
ReadControls(fields, id) ==
    [n \in {m \in Controls(id) : ReadsControl(fields, m)} |->
        IF n # "accent" THEN fields[n]
        ELSE IF TypeOf(fields[n]) = "object" THEN AccentText ELSE NullText]

(* readLumiverseStyles: a component needs its css, an attached file its place in    *)
(* the archive.                                                               *)
ReadableSheets(components) ==
    {n \in DOMAIN components : Takes(FieldsOf(components[n]), "css", "string")}
SafeArchivePath(name) == name # "../up"
ReadableAsset(descriptor, files) ==
    LET f == FieldsOf(descriptor)
    IN /\ Takes(f, "archivePath", "string") /\ SafeArchivePath(TextOf(f, "archivePath"))
       /\ TextOf(f, "archivePath") \in files
ReadStyles(root, files) ==
    LET components == FieldsAt(root, "components")
        names == Sorted(ReadableSheets(components))
        attached == SelectSeq(ListOf(root, "assets"), LAMBDA d : ReadableAsset(d, files))
    IN [global |-> TextOf(root, "globalCSS"),
        sheets |-> [i \in DOMAIN names |->
            [id |-> StyleId("sheet", i), name |-> names[i],
             css |-> TextOf(FieldsOf(components[names[i]]), "css"),
             enabled |-> IsSet(FieldsOf(components[names[i]]), "enabled", TRUE)]],
        assets |-> [i \in DOMAIN attached |->
            [id |-> StyleId("attached", i), path |-> TextOf(FieldsOf(attached[i]), "archivePath")]]]

SheetRows(root) ==
    LET components == FieldsAt(root, "components")
        names == Sorted(ReadableSheets(components))
    IN UNION {RowIfAny(StyleId("sheet", i), LumiverseTheme \o "_component",
                  Object(Consumes(FieldsOf(components[names[i]]),
                                  [css |-> "string", enabled |-> "boolean"])))
              : i \in DOMAIN names}
AttachedRows(root, files) ==
    LET attached == SelectSeq(ListOf(root, "assets"), LAMBDA d : ReadableAsset(d, files))
    IN UNION {RowIfAny(StyleId("attached", i), LumiverseTheme \o "_asset",
                  Object(Consumes(FieldsOf(attached[i]), [archivePath |-> "string"])))
              : i \in DOMAIN attached}

(* What readLumiverse leaves of the document.  When it was made is read, and is     *)
(* the asset's and not its content.                                           *)
UnreadTheme(theme) ==
    LET modes == UnreadModes(FieldsAt(theme, "baseColorsByMode"))
    IN Without(theme, {"baseColorsByMode"} \cup DOMAIN ReadControls(theme, LumiverseTheme))
       @@ WriteIfSet("baseColorsByMode", modes # <<>>, Obj(modes))
LumiverseThemeSource(root, files) ==
    LET components == FieldsAt(root, "components")
        unread == Without(components, ReadableSheets(components))
        detached == SelectSeq(ListOf(root, "assets"), LAMBDA d : ~ReadableAsset(d, files))
        theme == UnreadTheme(FieldsAt(root, "theme"))
        IfTaken(key, type) == IF Takes(root, key, type) THEN {key} ELSE {}
        IfRead(key, type) == IF Unmarshals(root, key, type) THEN {key} ELSE {}
        bound == {k \in {"description"} : TextOf(root, k) \in MaxBlurbRunes}
    IN Without(root, {"format", "theme"} \cup IfTaken("name", "string")
                     \cup IfTaken("globalCSS", "string") \cup IfRead("components", "object")
                     \cup IfRead("assets", "array") \cup (IfRead("description", "string") \cap bound)
                     \cup {k \in {"createdAt"} : TextOf(root, k) \in Timestamps})
       @@ WriteIfSet("theme", theme # <<>>, Obj(theme))
       @@ WriteIfSet("components", unread # <<>>, Obj(unread))
       @@ WriteIfSet("assets", detached # <<>>, List(detached))

StylesEmpty(styles) == Empty("stylesheets", styles)

(* readLumiverse *)
ParseLumiverseTheme(file) ==
    LET root == file.root
        theme == FieldsAt(root, "theme")
        palette == ReadPalette(FieldsAt(theme, "baseColorsByMode"))
        controls == ReadControls(theme, LumiverseTheme)
        styles == ReadStyles(root, file.files)
        blurb == TextOf(root, "description")
    IN IF palette = <<>> THEN Unreadable
       ELSE Parsed("theme", LumiverseTheme, "none",
                Header(TextOf(root, "name"), NoText, IF blurb \in MaxBlurbRunes THEN blurb ELSE NoText),
                [theme_tokens |-> palette]
                @@ WriteIfSet("theme_controls", controls # <<>>, controls)
                @@ WriteIfSet("stylesheets", ~StylesEmpty(styles), styles),
                RowIfAny(TheAsset, LumiverseTheme, Object(LumiverseThemeSource(root, file.files)))
                \cup SheetRows(root) \cup AttachedRows(root, file.files))

-----------------------------------------------------------------------------
(* Writing a Lumiverse theme: what the asset holds goes over what was kept. *)

KeptTheme(rows, owner, ns) == Restored(<<>>, rows, owner, ns)
FilledColors(mode, id) == [n \in {m \in DOMAIN mode.colors \cap Colors(id) : mode.colors[m] # NoText}
                              |-> Str(mode.colors[n])]
ColorsOfMode(palette, name) ==
    LET at == {i \in DOMAIN palette : palette[i].name = name}
    IN IF at = {} THEN <<>> ELSE FilledColors(palette[CHOOSE i \in at : TRUE], LumiverseTheme)
WritePalette(palette, preserved) ==
    [m \in DOMAIN preserved \cup {palette[i].name : i \in DOMAIN palette} |->
        Obj(MergeOver(FieldsAt(preserved, m), ColorsOfMode(palette, m)))]

WrittenControls(asset, id) ==
    LET controls == Written(asset, "theme_controls", <<>>)
        filled == {n \in DOMAIN controls \cap Controls(id) :
                      controls[n] # Null /\ (n = "accent" => controls[n] \in {AccentText, NullText})}
    IN [n \in filled |-> IF n = "accent" THEN AccentOf(controls[n]) ELSE controls[n]]

WriteLumiverseTheme(asset, rows) ==
    LET body == KeptTheme(rows, TheAsset, LumiverseTheme)
        palette == Written(asset, "theme_tokens", <<>>)
        kept == FieldsAt(body, "theme")
        modes == WritePalette(palette, FieldsAt(kept, "baseColorsByMode"))
        theme == WrittenControls(asset, LumiverseTheme)
                 @@ WriteIfSet("baseColorsByMode", palette # <<>>, Obj(modes)) @@ kept
        styles == Written(asset, "stylesheets", NoStyles)
        sheets == [n \in {styles.sheets[i].name : i \in DOMAIN styles.sheets} |->
                      LET s == styles.sheets[CHOOSE i \in DOMAIN styles.sheets :
                                                 styles.sheets[i].name = n]
                      IN Obj("css" :> Str(s.css) @@ "enabled" :> Flag(s.enabled)
                             @@ KeptTheme(rows, s.id, LumiverseTheme \o "_component"))]
        components == sheets @@ FieldsAt(body, "components")
        attached == ListOf(body, "assets")
                    \o [i \in DOMAIN styles.assets |->
                           Obj("archivePath" :> Str(styles.assets[i].path)
                               @@ KeptTheme(rows, styles.assets[i].id, LumiverseTheme \o "_asset"))]
    IN ThemeFile(LumiverseTheme, "zip",
           ("format" :> Num("3") @@ "name" :> Str(asset.header.name)
            @@ "description" :> Str(asset.header.blurb) @@ "theme" :> Obj(theme))
           @@ (IF StylesEmpty(styles) THEN <<>>
               ELSE "globalCSS" :> Str(styles.global)
                    @@ WriteIfSet("components", components # <<>>, Obj(components))
                    @@ WriteIfSet("assets", attached # <<>>, List(attached)))
           @@ body,
           {styles.assets[i].path : i \in DOMAIN styles.assets})

-----------------------------------------------------------------------------
(* readSillyTavern, and what it leaves. *)
ParseSillyTavernTheme(file) ==
    LET root == file.root
        colors == ReadColors(root, SillyTavernTheme)
        controls == ReadControls(root, SillyTavernTheme)
    IN Parsed("theme", SillyTavernTheme, "none", Header(TextOf(root, "name"), NoText, NoText),
           [theme_tokens |-> <<[name |-> NoText, colors |-> colors]>>]
           @@ WriteIfSet("theme_controls", controls # <<>>, controls)
           @@ WriteIfSet("stylesheets", Takes(root, "custom_css", "string"),
                  [NoStyles EXCEPT !.global = TextOf(root, "custom_css")]),
           RowIfAny(TheAsset, SillyTavernTheme,
               Object(Without(Consumes(root, [name |-> "string", custom_css |-> "string"]),
                              DOMAIN colors \cup DOMAIN controls))))

(* sillyTavernCSS: the main sheet alone, or all that is switched on, joined. *)
EnabledSheets(styles) ==
    SelectSeq(styles.sheets, LAMBDA s : s.enabled /\ s.css # NoText)
JoinedSheets(styles) ==
    IF EnabledSheets(styles) = <<>> THEN styles.global ELSE "joined"

(* SillyTavernModule.Write: the first mode, and only what is filled in. *)
WriteSillyTavernTheme(asset, rows) ==
    LET palette == Written(asset, "theme_tokens", <<>>)
        css == JoinedSheets(Written(asset, "stylesheets", NoStyles))
    IN ThemeFile(SillyTavernTheme, "json",
           "name" :> Str(asset.header.name)
           @@ (IF palette = <<>> THEN <<>> ELSE FilledColors(palette[1], SillyTavernTheme))
           @@ WrittenControls(asset, SillyTavernTheme)
           @@ WriteIfSet("custom_css", css # NoText, Str(css))
           @@ KeptTheme(rows, TheAsset, SillyTavernTheme), {})

-----------------------------------------------------------------------------
(* themeDeclaration and the conditions it names. *)

FilledIn(mode) == {n \in DOMAIN mode.colors : mode.colors[n] # NoText}
HasUnknownColors(palette, id) == \E i \in DOMAIN palette : FilledIn(palette[i]) \ Colors(id) # {}
HasNoKnownColors(palette, id) ==
    \A i \in DOMAIN palette : FilledIn(palette[i]) \cap Colors(id) = {}
HasUnknownControls(controls, id) ==
    \E n \in DOMAIN controls \ Controls(id) : controls[n] # Null

SillyTavernColorsReduced(palette) ==
    \/ HasUnknownColors(palette, SillyTavernTheme)
    \/ \E i \in DOMAIN palette \ {1} : FilledIn(palette[i]) # {}
SillyTavernColorsDropped(palette) ==
    palette # <<>> /\ FilledIn(palette[1]) \cap Colors(SillyTavernTheme) = {}
SillyTavernStylesDropped(styles) == styles.global = NoText /\ EnabledSheets(styles) = <<>>
SillyTavernStylesReduced(styles) ==
    (styles.assets # <<>> \/ styles.sheets # <<>>) /\ ~SillyTavernStylesDropped(styles)

ThemeReduces(id, role, c) ==
    CASE role = "theme_tokens" /\ id = SillyTavernTheme -> SillyTavernColorsReduced(c)
      [] role = "theme_tokens" -> HasUnknownColors(c, id)
      [] role = "theme_controls" -> HasUnknownControls(c, id)
      [] role = "stylesheets" -> id = SillyTavernTheme /\ SillyTavernStylesReduced(c)
      [] OTHER -> FALSE
ThemeDrops(id, role, c) ==
    CASE role = "theme_tokens" /\ id = SillyTavernTheme -> SillyTavernColorsDropped(c)
      [] role = "theme_tokens" -> HasNoKnownColors(c, id)
      [] role = "stylesheets" -> id = SillyTavernTheme /\ SillyTavernStylesDropped(c)
      [] OTHER -> FALSE

ThemeDeclarations ==
    {[id |-> id, kind |-> "theme", read |-> TRUE, write |-> TRUE,
      recognition |->
        IF id = LumiverseTheme THEN <<Discriminator({"zip"}, "format", {"3"}, {})>>
        ELSE <<Signature({"json"}, [main_text_color |-> "string", blur_strength |-> "number"],
                         FALSE)>>,
      roles |-> [theme_tokens |-> Support(Full, Partial), theme_controls |-> Support(Full, Partial),
                 stylesheets |-> Support(Full, IF id = LumiverseTheme THEN Full ELSE Partial)],
      body |-> id, container |-> <<>>,
      header |-> {"name"} \cup (IF id = LumiverseTheme THEN {"blurb"} ELSE {}),
      tested |-> {id, OriginIllarin} \cup (IF id = LumiverseTheme THEN {OriginV1} ELSE {}),
      preserves |-> IF id = LumiverseTheme THEN {OriginV1} ELSE {}]
        : id \in {LumiverseTheme, SillyTavernTheme}}

=============================================================================
