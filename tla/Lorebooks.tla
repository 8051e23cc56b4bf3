----------------------------- MODULE Lorebooks -----------------------------
(***************************************************************************)
(* internal/format/book and internal/format/lorebook: the listed lorebook    *)
(* and SillyTavern's keyed World Info, and the entry vocabulary a card's     *)
(* embedded book shares.                                                    *)
(*                                                                         *)
(* An entry keeps its text, its keys (which stand for its order too), the    *)
(* selective switch (which stands for every field written only where it is   *)
(* set), the enabled switch, its position and its recursion.                *)
(***************************************************************************)
EXTENDS FormatContract

BlankEntry(id) ==
    [id |-> id, text |-> NoText, keys |-> <<>>, selective |-> FALSE, enabled |-> TRUE,
     position |-> NoText, recursion |-> FALSE]

-----------------------------------------------------------------------------
(* book.ReadEntry, and the fields it did not consume. *)

ListedPositions == [before_char |-> "before_character", before_character |-> "before_character",
                    after_char |-> "after_character", after_character |-> "after_character"]
ListedTypes == [content |-> "string", keys |-> "array", selective |-> "boolean",
                enabled |-> "boolean"]

ReadEntry(id, f) ==
    [BlankEntry(id) EXCEPT
        !.text = TextOf(f, "content"), !.keys = ListOf(f, "keys"),
        !.selective = IsSet(f, "selective", FALSE), !.enabled = IsSet(f, "enabled", TRUE),
        !.position = IF TextOf(f, "position") \in DOMAIN ListedPositions
                     THEN ListedPositions[TextOf(f, "position")] ELSE NoText]
EntryLeftovers(f) ==
    Without(Consumes(f, ListedTypes),
            {k \in {"position"} : /\ Takes(f, k, "string")
                                  /\ f[k][2] \in {NoText} \cup DOMAIN ListedPositions})

(* book.Read, over entries that may not be objects. *)
ReadEntries(payloads) ==
    [i \in DOMAIN payloads |->
        IF payloads[i].object THEN ReadEntry(ItemId(i), payloads[i].fields)
        ELSE BlankEntry(ItemId(i))]
EntryRows(payloads, ns) ==
    UNION {RowIfAny(ItemId(i), ns,
               IF payloads[i].object THEN Object(EntryLeftovers(payloads[i].fields))
               ELSE NotAnObject) : i \in DOMAIN payloads}

(* book.Write: recursion has no place in a listed book. *)
WriteEntry(e) ==
    ("keys" :> List(e.keys) @@ "content" :> Str(e.text) @@ "enabled" :> Flag(e.enabled))
    @@ WriteIfSet("selective", e.selective, Flag(TRUE))
    @@ WriteIfSet("position", e.position # NoText,
           Str(IF e.position = "after_character" THEN "after_char" ELSE "before_char"))

RestoredEntry(entry, written, rows, ns) == Object(Restored(written, rows, entry.id, ns))
WriteEntries(asset, rows, ns) ==
    LET entries == Written(asset, "lorebook_entries", <<>>)
    IN [i \in DOMAIN entries |-> RestoredEntry(entries[i], WriteEntry(entries[i]), rows, ns)]

-----------------------------------------------------------------------------
(* readSillyTavernEntry and writeSillyTavernEntry: their own names, a switch    *)
(* that turns an entry off, numbered positions, and recursion.                *)

KeyedTypes == [content |-> "string", key |-> "array", selective |-> "boolean",
               disable |-> "boolean", excludeRecursion |-> "boolean"]
KeyedPosition(f) ==
    IF Takes(f, "position", "number") THEN f["position"][2] ELSE "unset"

ReadKeyedEntry(id, f) ==
    [BlankEntry(id) EXCEPT
        !.text = TextOf(f, "content"), !.keys = ListOf(f, "key"),
        !.selective = IsSet(f, "selective", FALSE), !.enabled = ~IsSet(f, "disable", FALSE),
        !.recursion = IsSet(f, "excludeRecursion", FALSE),
        !.position = CASE KeyedPosition(f) = "0" -> "before_character"
                       [] KeyedPosition(f) = "1" -> "after_character"
                       [] OTHER -> NoText]
KeyedLeftovers(f) ==
    Without(Consumes(f, KeyedTypes), {k \in {"position"} : KeyedPosition(f) \in {"0", "1"}})

WriteKeyedEntry(e) ==
    ("key" :> List(e.keys) @@ "content" :> Str(e.text) @@ "disable" :> Flag(~e.enabled))
    @@ WriteIfSet("selective", e.selective, Flag(TRUE))
    @@ WriteIfSet("excludeRecursion", e.recursion, Flag(TRUE))
    @@ WriteIfSet("position", e.position # NoText,
           <<"number", IF e.position = "after_character" THEN "1" ELSE "0">>)

-----------------------------------------------------------------------------
(* The documents.  A listed book's own keys are its body, the keys of its       *)
(* `extensions` are namespaces beside them.                                   *)

BookFile(format, body, ext, entries) ==
    [format |-> format, container |-> "json", body |-> body, ext |-> ext, entries |-> entries]

BookDeclaration(id, entriesType, container, header, tested, preserves) ==
    [id |-> id, kind |-> "lorebook", read |-> TRUE, write |-> TRUE,
     recognition |-> <<Signature({"json"}, "entries" :> entriesType, FALSE)>>,
     roles |-> [lorebook_entries |-> Support(Full, Full), gallery |-> Support(None, None),
                creator_notes |-> Support(None, None)],
     body |-> "lorebook", container |-> container, header |-> header,
     tested |-> tested, preserves |-> preserves]

BookDeclarations ==
    {BookDeclaration("lorebook", "array", <<"extensions">>, {"name"},
                     {"lorebook", OriginIllarin, OriginV1}, {OriginV1}),
     BookDeclaration("lorebook_sillytavern", "object", <<>>, {},
                     {"lorebook_sillytavern", OriginIllarin}, {})}

(* A key of the document's own namespace is kept nested under `extensions`. *)
CollidingBody(body, ext, ns) ==
    body @@ WriteIfSet("extensions", ns \in DOMAIN ext, <<"object", "nested">>)
NamespaceRows(ext, ns) ==
    {Row(TheAsset, n, Object(n :> ext[n])) : n \in DOMAIN ext \ {ns}}

(* Module.Parse and SillyTavernModule.Parse.  An `extensions` that is no object is a *)
(* key of the body, and stays one.                                             *)
ParseListed(file) ==
    Parsed("lorebook", "lorebook", "none", Header(TextOf(file.body, "name"), NoText, NoText),
        [lorebook_entries |-> ReadEntries(file.entries)],
        RowIfAny(TheAsset, "lorebook",
            Object(CollidingBody(
                Unmarshalled(file.body, [name |-> "string", extensions |-> "object"]),
                file.ext, "lorebook")))
        \cup NamespaceRows(file.ext, "lorebook")
        \cup EntryRows(file.entries, "lorebook_entry"))

ParseKeyed(file) ==
    Parsed("lorebook", "lorebook_sillytavern", "none", Header(NoText, NoText, NoText),
        [lorebook_entries |->
            [i \in DOMAIN file.entries |->
                IF file.entries[i].object THEN ReadKeyedEntry(ItemId(i), file.entries[i].fields)
                ELSE BlankEntry(ItemId(i))]],
        RowIfAny(TheAsset, "lorebook", Object(file.body))
        \cup UNION {RowIfAny(ItemId(i), "lorebook_sillytavern_entry",
                 IF file.entries[i].object THEN Object(KeyedLeftovers(file.entries[i].fields))
                 ELSE NotAnObject) : i \in DOMAIN file.entries})

(* restorePreserved.  The extensions are written last, over a nested collision  *)
(* the body got back, where there are any.                                    *)
Namespaces(rows, ns) ==
    LET named == {r \in rows : r.owner = TheAsset /\ r.ns # ns}
    IN [n \in {r.ns : r \in named} |-> (CHOOSE r \in named : r.ns = n).payload.fields[n]]
Nested(body) == "extensions" \in DOMAIN body /\ body["extensions"] = <<"object", "nested">>
WrittenExtensions(body, rows, ns) ==
    IF Namespaces(rows, ns) # <<>> THEN Namespaces(rows, ns)
    ELSE IF Nested(body) THEN ns :> <<"object">> ELSE <<>>
WrittenBody(body, rows, ns) ==
    IF Namespaces(rows, ns) # <<>> \/ Nested(body) THEN Without(body, {"extensions"}) ELSE body

WriteListed(asset, rows) ==
    LET body == Restored("name" :> Str(asset.header.name), rows, TheAsset, "lorebook")
    IN BookFile("lorebook", WrittenBody(body, rows, "lorebook"),
                WrittenExtensions(body, rows, "lorebook"),
                WriteEntries(asset, rows, "lorebook_entry"))

WriteKeyed(asset, rows) ==
    LET entries == Written(asset, "lorebook_entries", <<>>)
    IN BookFile("lorebook_sillytavern", Restored(<<>>, rows, TheAsset, "lorebook"), <<>>,
                [i \in DOMAIN entries |->
                    RestoredEntry(entries[i], WriteKeyedEntry(entries[i]), rows,
                                  "lorebook_sillytavern_entry")])

(* What the registry sees of such a file. *)
BookPayloads(file) ==
    {[container |-> "json",
      root |-> "entries" :> (IF file.format = "lorebook" THEN <<"array">> ELSE <<"object">>)
               @@ file.body]}

=============================================================================
