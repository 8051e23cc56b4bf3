------------------------------- MODULE Packs -------------------------------
(***************************************************************************)
(* internal/format/pack: the Lumiverse pack, a list of named records.  A      *)
(* record's definition stands for its other texts, its gender for its         *)
(* version, which is bounded the same way.                                  *)
(***************************************************************************)
EXTENDS FormatContract

PackId == "pack_lumiverse"
ItemNamespace == "pack_lumiverse_item"
PackFile(root) == [format |-> PackId, container |-> "json", root |-> root]

Genders == {"0", "1", "2"}
DefaultGender == "2"

(* readItems: an item without a name is kept as it is. *)
ReadableItem(item) == TextOf(FieldsOf(item), "lumiaName") # NoText
KnownGender(f) == Takes(f, "genderIdentity", "number") /\ f["genderIdentity"][2] \in Genders
ReadItem(i, f) ==
    [id |-> ItemId(i), name |-> TextOf(f, "lumiaName"), definition |-> TextOf(f, "lumiaDefinition"),
     gender |-> IF KnownGender(f) THEN f["genderIdentity"][2] ELSE DefaultGender]
ItemLeftovers(f) ==
    Without(Consumes(f, [lumiaName |-> "string", lumiaDefinition |-> "string"]),
            IF KnownGender(f) THEN {"genderIdentity"} ELSE {})

PackDeclarations ==
    {[id |-> PackId, kind |-> "pack", read |-> TRUE, write |-> TRUE,
      recognition |-> <<Signature({"json"}, [packName |-> "string", lumiaItems |-> "array",
                                             loomItems |-> "array"], FALSE)>>,
      roles |-> [pack_items |-> Support(Full, Full), gallery |-> Support(None, None)],
      body |-> PackId, container |-> <<>>, header |-> {"name", "version"},
      tested |-> {PackId, OriginIllarin, OriginV1}, preserves |-> {OriginV1}]}

(* Module.Parse *)
ParsePack(file) ==
    LET root == file.root
        items == SelectSeq(ListOf(root, "lumiaItems"), ReadableItem)
        unread == SelectSeq(ListOf(root, "lumiaItems"), LAMBDA v : ~ReadableItem(v))
        taken == Consumes(root, [packName |-> "string", version |-> "number",
                                 lumiaItems |-> "array"])
    IN IF TextOf(root, "packName") = NoText \/ ~Takes(root, "lumiaItems", "array") \/ items = <<>>
       THEN Unreadable
       ELSE Parsed("pack", PackId, "none",
                [Header(TextOf(root, "packName"), NoText, NoText) EXCEPT !.version =
                    IF Takes(root, "version", "number") THEN root["version"][2] ELSE NoText],
                [pack_items |-> [i \in DOMAIN items |-> ReadItem(i, FieldsOf(items[i]))]],
                RowIfAny(TheAsset, PackId,
                    Object(taken @@ WriteIfSet("lumiaItems", unread # <<>>, List(unread))))
                \cup UNION {RowIfAny(ItemId(i), ItemNamespace,
                                Object(ItemLeftovers(FieldsOf(items[i])))) : i \in DOMAIN items})

(* writeModeledUnlessUnread: what the file said stands where the record holds only   *)
(* the fallback.                                                               *)
WriteModeled(kept, key, value, fallback) ==
    WriteIfSet(key, ~(key \in DOMAIN kept /\ value = fallback), value)

WriteItem(rows, r) ==
    LET kept == Restored(<<>>, rows, r.id, ItemNamespace)
    IN Obj("lumiaName" :> Str(r.name)
           @@ WriteModeled(kept, "lumiaDefinition", Str(r.definition), Str(NoText))
           @@ WriteModeled(kept, "genderIdentity", Num(r.gender), Num(DefaultGender))
           @@ kept)

(* A version that parses as a number is written bare; not all of those are numbers  *)
(* to JSON, and the document cannot be encoded then.                             *)
ParsesAsFloat == {"1", "2", "+1"}
JSONNumbers == {"1", "2"}
VersionUnencodable(asset) == asset.header.version \in ParsesAsFloat \ JSONNumbers
WriteVersion(version, kept) ==
    CASE version = NoText -> WriteIfSet("version", "version" \notin DOMAIN kept, Num("1"))
      [] version \in ParsesAsFloat -> "version" :> Num(version)
      [] OTHER -> "version" :> Str(version)

(* Module.Write *)
WritePack(asset, rows) ==
    LET kept == Restored(<<>>, rows, TheAsset, PackId)
        records == Written(asset, "pack_items", <<>>)
    IN PackFile(
        ("packName" :> Str(asset.header.name)
         @@ "lumiaItems" :> List([i \in DOMAIN records |-> WriteItem(rows, records[i])]
                                 \o ListOf(kept, "lumiaItems")))
        @@ WriteVersion(asset.header.version, kept)
        @@ kept @@ "packExtras" :> List(<<>>) @@ "loomItems" :> List(<<>>))

=============================================================================
