------------------------------- MODULE Cards -------------------------------
(***************************************************************************)
(* internal/format/character: Character Card V2, V3 and CharX.  A card's      *)
(* body is a function from keys to values.  `personality` stands for every    *)
(* prose field a card always writes (scenario, system_prompt,                *)
(* post_history_instructions, creator_notes, creator, character_version) and  *)
(* `tags` for every key no reader consumes.                                  *)
(***************************************************************************)
EXTENDS Lorebooks

V2 == "chara_card_v2"
V3 == "chara_card_v3"
CharX == "charx"
Raster == {"png", "jpeg"}

(* A card file: the spec its payload names, what holds it, the card body, the    *)
(* keys of `extensions`, an embedded book, the archive's pictures by asset type, *)
(* and whether a v2 copy travels beside it.                                    *)
CardFile(spec, container, body, ext, book, pictures, copied) ==
    [format |-> "card", spec |-> spec, container |-> container, body |-> body, ext |-> ext,
     book |-> book, pictures |-> pictures, copied |-> copied]
NoBook == [place |-> "nowhere", fields |-> <<>>, entries |-> <<>>]
Book(place, fields, entries) == [place |-> place, fields |-> fields, entries |-> entries]

-----------------------------------------------------------------------------
(* declaration(id) *)

CardRoles(id) ==
    [description |-> Support(Full, Full), personality |-> Support(Full, Full),
     greetings |-> Support(Full, Partial), example_dialogue |-> Support(Full, Partial),
     lorebook_entries |-> Support(Full, Full),
     group_greetings |-> IF id = V2 THEN Support(None, None) ELSE Support(Full, Full),
     gallery |-> CASE id = V2 -> Support(None, None) [] id = V3 -> Support(None, Full)
                   [] OTHER -> Support(Full, Full),
     expressions |-> CASE id = V2 -> Support(None, None) [] id = V3 -> Support(None, Full)
                       [] OTHER -> Support(Full, Full)]

CardRecognition(id) ==
    CASE id = V2 -> <<Discriminator({"json"} \cup Raster, "spec", {V2}, {V3}),
                      Signature({"json"} \cup Raster,
                                [name |-> "string", description |-> "string",
                                 personality |-> "string", first_mes |-> "string"], TRUE)>>
      [] id = V3 -> <<Discriminator({"json"} \cup Raster, "spec", {V3}, {})>>
      [] id = CharX -> <<Discriminator({"zip"}, "spec", {V3}, {})>>

CardDeclarations ==
    {[id |-> id, kind |-> "character", read |-> TRUE, write |-> TRUE,
      recognition |-> CardRecognition(id), roles |-> CardRoles(id),
      body |-> "card", container |-> <<"extensions">>,
      header |-> {"name"} \cup (IF id = V2 THEN {} ELSE {"nickname"}),
      tested |-> {V2, V3, CharX, OriginIllarin, OriginV1}, preserves |-> {}]
        : id \in {V2, V3, CharX}}

(* The conditions under which greetings and an example exchange are reduced. *)
HasNamedText(texts) == \E i \in DOMAIN texts : texts[i].name # NoText
HasMultilineTurn(turns) == \E i \in DOMAIN turns : Len(turns[i].lines) > 1

-----------------------------------------------------------------------------
(* Reading.  A body and its v2 copy, or its legacy fields, are told apart by     *)
(* where the reader looks: `data` where the payload names a spec.               *)

ConsumedTypes(id) ==
    [name |-> "string", nickname |-> "string", description |-> "string",
     personality |-> "string", first_mes |-> "string", alternate_greetings |-> "array",
     mes_example |-> "string"]
    @@ (IF id = V2 THEN <<>> ELSE "group_only_greetings" :> "array")

Unnamed(texts) == [i \in DOMAIN texts |-> [name |-> NoText, text |-> texts[i]]]
Greetings(body) == Unnamed(<<TextOf(body, "first_mes")>> \o ListOf(body, "alternate_greetings"))

(* dialogueTurns.  A line is the parts its colons separate; the first part of    *)
(* several is the speaker.                                                     *)
DialogueTurns(value) ==
    [i \in 1 .. Len(value) - 1 |->
        LET line == value[i + 1]
        IN IF Len(line) = 1 THEN [speaker |-> NoText, lines |-> <<line>>]
           ELSE [speaker |-> Head(line), lines |-> <<Tail(line)>>]]
Dialogue(body) ==
    IF Takes(body, "mes_example", "string") THEN DialogueTurns(body["mes_example"]) ELSE <<>>

(* card.lorebook: the book beside the other fields, or one under extensions,      *)
(* whose entries have to be a list.                                            *)
Found(file) == file.book.place # "nowhere"

(* archivedImages: what the card names in its archive, by role. *)
Pictured(file, type) ==
    IF file.container = "zip" /\ type \in file.pictures THEN <<"picture">> ELSE <<>>

CardContent(id, file) ==
    [description |-> TextOf(file.body, "description"),
     personality |-> TextOf(file.body, "personality"),
     greetings |-> Greetings(file.body), example_dialogue |-> Dialogue(file.body)]
    @@ WriteIfSet("group_greetings",
           id # V2 /\ ListOf(file.body, "group_only_greetings") # <<>>,
           Unnamed(ListOf(file.body, "group_only_greetings")))
    @@ WriteIfSet("lorebook_entries", Found(file), ReadEntries(file.book.entries))
    @@ WriteIfSet("expressions", Pictured(file, "emotion") # <<>>, Pictured(file, "emotion"))
    @@ WriteIfSet("gallery", Pictured(file, "x_gallery") # <<>>, Pictured(file, "x_gallery"))

(* card.remainder.  An `extensions` that is no object, which would be a key of the  *)
(* body here, is left out of every row.                                        *)
CardRemainder(id, file) ==
    RowIfAny(TheAsset, "card",
        Object(CollidingBody(
            Unmarshalled(Without(file.body, {"extensions"}), ConsumedTypes(id)), file.ext, "card")))
    \cup (IF Found(file) THEN RowIfAny(TheBook, "character_book", Object(file.book.fields))
                              \cup EntryRows(file.book.entries, "character_book")
          ELSE {})
    \cup NamespaceRows(file.ext, "card")

CoverOf(file) ==
    CASE file.container \in Raster -> file.container
      [] file.container = "zip" /\ "icon" \in file.pictures -> "png"
      [] OTHER -> "none"

ParseCard(id, file) ==
    IF \E k \in {"description", "first_mes"} :
           k \in DOMAIN file.body /\ ~Unmarshals(file.body, k, "string") THEN Unreadable
    ELSE Parsed("character", id, CoverOf(file),
                Header(TextOf(file.body, "name"), TextOf(file.body, "nickname"), NoText),
                CardContent(id, file), CardRemainder(id, file))

-----------------------------------------------------------------------------
(* Writing *)

Texts(items) == [i \in DOMAIN items |-> items[i].text]

(* dialogueText: one line per turn, the speaker before its text. *)
Spoken(turn) ==
    (IF turn.speaker = NoText THEN <<>> ELSE <<turn.speaker>>) \o Head(turn.lines)
DialogueText(turns) ==
    LET lines[i \in 0 .. Len(turns)] ==
            IF i = 0 THEN <<"string">>
            ELSE lines[i - 1] \o <<Spoken(turns[i])>> \o Tail(turns[i].lines)
    IN lines[Len(turns)]

(* exportedPictures: the cover, the faces and the gallery. *)
ExportedPictures(asset) ==
    (IF asset.cover = "none" THEN {} ELSE {"icon"})
    \cup (IF Written(asset, "expressions", <<>>) = <<>> THEN {} ELSE {"emotion"})
    \cup (IF Written(asset, "gallery", <<>>) = <<>> THEN {} ELSE {"x_gallery"})

(* cardFields, with the asset list writeCard and writeCharX put beside them. *)
CardFields(asset, id) ==
    LET greetings == Written(asset, "greetings", <<>>)
        split == [first |-> IF greetings = <<>> THEN NoText ELSE Head(greetings).text,
                  rest |-> IF greetings = <<>> THEN <<>> ELSE Tail(greetings)]
    IN [name |-> Str(asset.header.name), description |-> Str(Written(asset, "description", NoText)),
        personality |-> Str(Written(asset, "personality", NoText)), first_mes |-> Str(split.first),
        alternate_greetings |-> List(Texts(split.rest)),
        mes_example |-> DialogueText(Written(asset, "example_dialogue", <<>>))]
       @@ (IF id = V2 THEN <<>>
           ELSE [nickname |-> Str(asset.header.nickname),
                 group_only_greetings |-> List(Texts(Written(asset, "group_greetings", <<>>))),
                 assets |-> <<"array", "pictures">>])

V3OnlyKeys == {"assets", "nickname", "group_only_greetings"}

(* RestorePreserved: MergeAbsent into the book the writer wrote.  Where there is   *)
(* no book and a row of its fields, that assigns into a nil map.                 *)
Panics(asset, rows) ==
    /\ Written(asset, "lorebook_entries", <<>>) = <<>>
    /\ \E r \in rows : r.owner = TheBook /\ r.payload.object

WrittenBook(asset, rows) ==
    IF Written(asset, "lorebook_entries", <<>>) = <<>> THEN NoBook
    ELSE Book("body", Restored(<<>>, rows, TheBook, "character_book"),
              WriteEntries(asset, rows, "character_book"))

(* writeCard and writeCharX *)
WriteCard(asset, id, rows) ==
    LET body == Restored(CardFields(asset, id), rows, TheAsset, "card")
        container == CASE id = CharX -> "zip" [] asset.cover = "png" -> "png" [] OTHER -> "json"
    IN CardFile(IF id = CharX THEN V3 ELSE id, container,
                Without(WrittenBody(body, rows, "card"), IF id = V2 THEN V3OnlyKeys ELSE {}),
                WrittenExtensions(body, rows, "card"), WrittenBook(asset, rows),
                IF id = CharX THEN ExportedPictures(asset) ELSE {}, id = V3)

(* What the registry sees: a picture may hold two cards, a JSON document repeats   *)
(* the legacy fields beside `data`, and a card without a spec is its body.        *)
CardPayloads(file) ==
    LET card == IF file.spec = NoText THEN file.body
                ELSE "spec" :> Str(file.spec)
                     @@ (IF file.copied /\ file.container = "json" THEN file.body ELSE <<>>)
    IN {[container |-> file.container, root |-> card]}
       \cup (IF file.copied /\ file.container \in Raster
             THEN {[container |-> file.container, root |-> "spec" :> Str(V2)]} ELSE {})

=============================================================================
