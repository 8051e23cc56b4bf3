----------------------------- MODULE LegacyRows -----------------------------
(***************************************************************************)
(* internal/format/v1: reading a row of the old site's database.  Presets,    *)
(* themes and packs are rows that hold a file of today's format; characters    *)
(* and lorebooks have columns of their own.                                  *)
(***************************************************************************)
EXTENDS Cards, Presets, Themes, Packs

(* v1's Module declares no file to recognise and nothing to write. *)
LegacyDeclaration ==
    [id |-> OriginV1, kind |-> "row", read |-> FALSE, write |-> FALSE, recognition |-> <<>>,
     roles |-> <<>>, body |-> OriginV1, container |-> <<>>, header |-> {}, tested |-> {OriginV1},
     preserves |-> {}]

(* stripRemainderKeys *)
StripRemainder(rows, ns, names) ==
    {r \in rows : r.owner # TheAsset \/ r.ns # ns}
    \cup UNION {RowIfAny(TheAsset, ns, Object(Without(r.payload.fields, names)))
                : r \in {s \in rows : s.owner = TheAsset /\ s.ns = ns}}

-----------------------------------------------------------------------------
(* readStrings: a list of text, or nothing. *)
ReadsStrings(value) == TypeOf(value) \in {"array", "null"}
Strings(value) == IF value = Null THEN <<>> ELSE Tail(value)

(* textItems: a first message nobody wrote is no greeting. *)
TextItems(first, rest) == Unnamed((IF first = NoText THEN <<>> ELSE <<first>>) \o rest)

LiftedNamespaces == {"lumihub_art_display", "landing_perspective_layers"}
GalleryTypes == {"gallery", "avatar_alt", "perspective_layer"}
ImageTypes == {"avatar", "expression"} \cup GalleryTypes
Images(row, types) == SelectSeq(row.images, LAMBDA t : t \in types)

(* recoverGalleryNames: the list is used up where it lines up with the gallery. *)
AssetsConsumed(row) ==
    \/ row.assets = Null
    \/ /\ TypeOf(row.assets) = "array" /\ Tail(row.assets) # <<>>
       /\ Len(Tail(row.assets)) = Len(Images(row, {"gallery"}))
       /\ \A i \in DOMAIN Tail(row.assets) : Tail(row.assets)[i] # NoText

(* The book column: absent, unreadable as a book, or a book. *)
BookRead(row) == row.book.place = "column"

(* characterRemainder.  Extensions that are no object are kept as they are, under    *)
(* a namespace of their own.                                                   *)
Modules(row) ==
    Without(FieldsAt(FieldsOf(row.extensions), "lumiverse_modules"),
            {"landing_perspective_layers"}
            \cup (IF BookRead(row) THEN {"world_books"} ELSE {})
            \cup (IF Images(row, ImageTypes \ {"avatar"}) # <<>> THEN {"expressions"} ELSE {}))
KeptExtensions(row) ==
    LET lifted == Without(FieldsOf(row.extensions), LiftedNamespaces)
    IN IF TypeOf(row.extensions) \notin {"object", "null"}
       THEN "v1_extensions" :> row.extensions
       ELSE IF ~Unmarshals(lifted, "lumiverse_modules", "object") THEN lifted
       ELSE Without(lifted, {"lumiverse_modules"})
            @@ WriteIfSet("lumiverse_modules", Modules(row) # <<>>, Obj(Modules(row)))
CharacterRemainder(row) ==
    RowIfAny(TheAsset, "card",
        Object(WriteIfSet("assets", ~AssetsConsumed(row), row.assets)
               @@ WriteIfSet("creation_date", row.created # Null, row.created)))
    \cup {Row(TheAsset, n, Object(n :> KeptExtensions(row)[n])) : n \in DOMAIN KeptExtensions(row)}
    \cup (IF row.book.place = "garbled"
          THEN {Row(TheAsset, "character_book", Object("character_book" :> Str("garbled")))} ELSE {})
    \cup (IF BookRead(row) THEN RowIfAny(TheBook, "character_book", Object(row.book.fields))
                                \cup EntryRows(row.book.entries, "character_book") ELSE {})

(* readCharacter.  A recovered greeting fills a list that is empty, and no other. *)
RecoveryFits(row) ==
    row.recovery # {} => Strings(row.alternates) = <<>> /\ NoText \notin row.recovery
ReadCharacter(row) ==
    LET recovered == IF row.recovery = {} THEN <<>> ELSE <<CHOOSE g \in row.recovery : TRUE>>
        group == Strings(row.group)
        expressions == Images(row, {"expression"})
        gallery == Images(row, GalleryTypes)
    IN IF \/ ~ReadsStrings(row.alternates) \/ ~ReadsStrings(row.group) \/ ~RecoveryFits(row)
          \/ \E i \in DOMAIN row.images : row.images[i] \notin ImageTypes
       THEN Unreadable
       ELSE Parsed("character", OriginV1,
                IF Images(row, {"avatar"}) = <<>> THEN "none" ELSE "png",
                Header(row.name, row.nickname, row.tagline),
                [description |-> row.description, personality |-> row.personality,
                 greetings |-> TextItems(row.first, Strings(row.alternates) \o recovered),
                 example_dialogue |-> DialogueTurns(row.example)]
                @@ WriteIfSet("group_greetings", group # <<>>, Unnamed(group))
                @@ WriteIfSet("lorebook_entries", BookRead(row), ReadEntries(row.book.entries))
                @@ WriteIfSet("expressions", expressions # <<>>, <<"picture">>)
                @@ WriteIfSet("gallery", gallery # <<>>, <<"picture">>),
                CharacterRemainder(row))

-----------------------------------------------------------------------------
(* readLorebookEntry: v1's own names for what a keyed book holds. *)
LegacyTypes == [content |-> "string", key |-> "array", selective |-> "boolean",
                disabled |-> "boolean"]
ReadLegacyEntry(id, f) ==
    [BlankEntry(id) EXCEPT
        !.text = TextOf(f, "content"), !.keys = ListOf(f, "key"),
        !.selective = IsSet(f, "selective", FALSE), !.enabled = ~IsSet(f, "disabled", FALSE),
        !.position = CASE KeyedPosition(f) = "0" -> "before_character"
                       [] KeyedPosition(f) = "1" -> "after_character"
                       [] OTHER -> NoText]
LegacyLeftovers(f) ==
    Without(Consumes(f, LegacyTypes), {k \in {"position"} : KeyedPosition(f) \in {"0", "1"}})

(* readLorebook *)
ReadLorebook(row) ==
    IF TypeOf(row.entries) # "array" THEN Unreadable
    ELSE LET payloads == Tail(row.entries)
         IN Parsed("lorebook", OriginV1, "none", Header(row.name, NoText, row.description),
                [lorebook_entries |-> [i \in DOMAIN payloads |->
                    IF payloads[i].object THEN ReadLegacyEntry(ItemId(i), payloads[i].fields)
                    ELSE BlankEntry(ItemId(i))]],
                UNION {RowIfAny(ItemId(i), "lorebook_entry",
                           IF payloads[i].object THEN Object(LegacyLeftovers(payloads[i].fields))
                           ELSE NotAnObject) : i \in DOMAIN payloads})

-----------------------------------------------------------------------------
(* activateCurrentSealedPrompts: a fragment whose text is a placeholder is sealed      *)
(* too, and every sealed prompt takes its text from the one row the old site kept      *)
(* for the latest version, checked against what was sent and against its digest.       *)
Placeheld(fragment) == \E k \in SourceKeys : fragment.text = Placeholder(k)
PlaceheldKey(fragment) == CHOOSE k \in SourceKeys : fragment.text = Placeholder(k)
CurrentPrompts(parsed) ==
    parsed.protected
    \cup {[fragment |-> f.id, key |-> PlaceheldKey(f), reuse |-> TRUE, text |-> NoText]
          : f \in {g \in Range(parsed.content["prompt_fragments"].fragments) : Placeheld(g)}}
SealedRows(row, key) ==
    {s \in row.sealed : s.key = key /\ s.version = (IF row.latest = NoText THEN "unversioned" ELSE row.latest)}
SealAgrees(row, prompt) ==
    \E s \in SealedRows(row, prompt.key) :
        /\ SealedRows(row, prompt.key) = {s}
        /\ prompt.reuse \/ prompt.text = s.text
        /\ s.text # Placeholder(prompt.key) /\ s.intact
SealsUnread(row, parsed) ==
    \/ \E p, q \in CurrentPrompts(parsed) : p # q /\ p.key = q.key
    \/ \E p \in CurrentPrompts(parsed) : ~SealAgrees(row, p)
ActivateLeavingText(row, parsed) == [parsed EXCEPT !.protected = CurrentPrompts(parsed)]
ActivateSealed(row, parsed) ==
    [parsed EXCEPT
        !.protected = {[p EXCEPT !.reuse = FALSE,
                                 !.text = (CHOOSE s \in SealedRows(row, p.key) : TRUE).text]
                       : p \in CurrentPrompts(parsed)},
        !.content["prompt_fragments"].fragments =
            [i \in DOMAIN @ |-> IF Placeheld(@[i]) THEN [@[i] EXCEPT !.text = NoText, !.protected = TRUE]
                                ELSE @[i]]]

(* readPreset: the payload has to be one the Lumiverse reader claims. *)
BoundBlurb(text) == IF text \in MaxBlurbRunes THEN text ELSE NoText
ReadPreset(row) ==
    LET parsed == ParseLumiverse(row.payload)
        schema == PayloadValue([root |-> row.payload.root], "schemaVersion")
    IN IF schema \cap {"1", "2"} = {} \/ parsed = Unreadable THEN Unreadable
       ELSE IF SealsUnread(row, parsed) THEN Unreadable
       ELSE [ActivateSealed(row, parsed) EXCEPT
                !.origin = OriginV1,
                !.header = [Header(row.name, NoText, BoundBlurb(row.description)) EXCEPT !.version = row.latest],
                !.preserved = StripRemainder(@, Lumiverse, {"name", "description", "presetVersion"})]

(* readTheme, readThemeFonts and attachThemeFonts: the row as a bundle, with the      *)
(* fonts of the bundle that was found for it.                                       *)
ThemeRoot(row) ==
    [format |-> Num("3"), name |-> Str(row.name), description |-> Str(row.description),
     theme |-> row.config, globalCSS |-> Str(row.css)]
AttachFonts(content, fonts) ==
    LET styles == IF "stylesheets" \in DOMAIN content THEN content["stylesheets"] ELSE NoStyles
        attached == [i \in DOMAIN fonts |-> [id |-> StyleId("font", i), path |-> fonts[i]]]
    IN IF fonts = <<>> THEN content
       ELSE "stylesheets" :> [styles EXCEPT !.assets = @ \o attached] @@ content
ReadTheme(row) ==
    LET parsed == ParseLumiverseTheme(ThemeFile(LumiverseTheme, "zip", ThemeRoot(row), {}))
    IN IF \/ TypeOf(row.config) # "object" \/ parsed = Unreadable
          \/ \E i \in DOMAIN row.fonts : ~SafeArchivePath(row.fonts[i])
       THEN Unreadable
       ELSE [parsed EXCEPT
                !.origin = OriginV1, !.content = AttachFonts(@, row.fonts),
                !.header = Header(row.name, NoText, BoundBlurb(row.description)),
                !.preserved = StripRemainder(@, LumiverseTheme, {"name", "description"})]

(* readPack: every item has to be one the pack reader reads. *)
ReadPack(row) ==
    LET parsed == ParsePack(PackFile([packName |-> Str(row.name), version |-> Num(row.version),
                                      lumiaItems |-> row.items, loomItems |-> List(<<>>)]))
    IN IF parsed = Unreadable THEN Unreadable
       ELSE IF Len(parsed.content["pack_items"]) # Len(Tail(row.items)) THEN Unreadable
       ELSE [parsed EXCEPT
                !.origin = OriginV1,
                !.header = [Header(row.name, NoText, row.description) EXCEPT !.version = row.version],
                !.preserved = StripRemainder(@, PackId,
                    {"packName", "packAuthor", "version", "loomItems", "packExtras", "loomTools"})]

(* Module.Read *)
ReadRow(row) ==
    CASE row.table = "characters" -> ReadCharacter(row)
      [] row.table = "worldbooks" -> ReadLorebook(row)
      [] row.table = "presets" -> ReadPreset(row)
      [] row.table = "themes" -> ReadTheme(row)
      [] row.table = "dlc_packs" -> ReadPack(row)
      [] OTHER -> Unreadable

=============================================================================
