------------------------------ MODULE Exchange ------------------------------
(***************************************************************************)
(* A file's way through Illarin: it is uploaded, recognised and read into an  *)
(* asset, the asset is edited, and it is downloaded again in any target it is  *)
(* offered, to be uploaded once more.  Only one asset and one file are          *)
(* followed, because no two of them meet in this code.                        *)
(***************************************************************************)
EXTENDS Formats

CONSTANTS
    Files,          \* the files a creator may bring
    OldRows,        \* the rows the old site's database may hold
    Builds,         \* the assets a creator may build here
    Edits(_),       \* what a role's content may be edited to
    Headers(_),     \* what the header may be edited to, by kind
    MaxEdits        \* bound on edits, over all of an asset's way

VARIABLES
    asset,      \* the asset, once there is one
    file,       \* the file in a creator's hands
    written,    \* the asset a downloaded file was written from, and the target
    fresh,      \* the asset has not been edited since it was read
    edits

vars == <<asset, file, written, fresh, edits>>

NoAsset == [kind |-> "none"]
NoFile == [format |-> "none"]
NotWritten == [target |-> "none"]

Init ==
    /\ asset = NoAsset /\ file = NoFile /\ written = NotWritten
    /\ fresh = FALSE /\ edits = 0

(* A creator brings a file from elsewhere. *)
Bring(f) ==
    /\ asset = NoAsset /\ file = NoFile
    /\ file' = f
    /\ UNCHANGED <<asset, written, fresh, edits>>

(* An asset built here: no origin and nothing preserved. *)
Build(a) ==
    /\ asset = NoAsset /\ file = NoFile
    /\ asset' = a /\ fresh' = FALSE
    /\ UNCHANGED <<file, written, edits>>

(* A row of the old site's database is read into an asset. *)
Migrate(row) ==
    /\ asset = NoAsset /\ file = NoFile
    /\ ReadRow(row) # Unreadable
    /\ asset' = ReadRow(row) /\ fresh' = TRUE
    /\ UNCHANGED <<file, written, edits>>

(* Registry.Resolve and Parse: one format claims the file and can read it. *)
Readable(f) ==
    LET id == Resolve(PayloadsOf(f))
    IN id \notin {NotRead, Ambiguous, Unsupported} /\ ParseBy(id, f) # Unreadable
Import ==
    /\ file # NoFile /\ asset = NoAsset /\ Readable(file)
    /\ asset' = ParseBy(Resolve(PayloadsOf(file)), file)
    /\ file' = NoFile /\ fresh' = TRUE
    /\ UNCHANGED <<written, edits>>

Refuse ==
    /\ file # NoFile /\ asset = NoAsset /\ ~Readable(file)
    /\ file' = NoFile /\ written' = NotWritten /\ edits' = 0
    /\ UNCHANGED <<asset, fresh>>

-----------------------------------------------------------------------------
(* Editing *)

(* block.ItemIDs, over what a role holds. *)
Ids(role, c) ==
    CASE role = "lorebook_entries" -> {TheBook} \cup {c[i].id : i \in DOMAIN c}
      [] role \in {"prompt_variables", "regex_scripts", "pack_items"} ->
            {c[i].id : i \in DOMAIN c}
      [] role = "prompt_fragments" ->
            {c.groups[i].id : i \in DOMAIN c.groups} \cup {c.fragments[i].id : i \in DOMAIN c.fragments}
      [] role = "stylesheets" ->
            {c.sheets[i].id : i \in DOMAIN c.sheets} \cup {c.assets[i].id : i \in DOMAIN c.assets}
      [] OTHER -> {}

(* dropUnownedPreservedData: rows whose item or element is gone go with it. *)
DropUnowned(rows, content) ==
    {r \in rows : r.owner \in {TheAsset} \cup UNION {Ids(role, content[role]) : role \in DOMAIN content}}

(* SaveBlock: one role's element is replaced. *)
EditRole(role) ==
    /\ asset # NoAsset /\ edits < MaxEdits /\ role \in DOMAIN asset.content
    /\ \E c \in Edits(asset)[role] :
        /\ c # asset.content[role]
        /\ LET content == [asset.content EXCEPT ![role] = c]
           IN asset' = [asset EXCEPT !.content = content,
                                     !.preserved = DropUnowned(asset.preserved, content)]
    /\ fresh' = FALSE /\ edits' = edits + 1 /\ written' = NotWritten
    /\ UNCHANGED file

(* UpdateIdentity: the header's own fields. *)
EditHeader ==
    /\ asset # NoAsset /\ edits < MaxEdits
    /\ \E h \in Headers(asset.kind) : h # asset.header /\ asset' = [asset EXCEPT !.header = h]
    /\ fresh' = FALSE /\ edits' = edits + 1 /\ written' = NotWritten
    /\ UNCHANGED file

(* DeletePreservedNamespace: every row of it, whoever owns it. *)
DeletePreservedNamespace(ns) ==
    /\ asset # NoAsset /\ edits < MaxEdits
    /\ \E r \in asset.preserved : r.ns = ns
    /\ asset' = [asset EXCEPT !.preserved = {r \in asset.preserved : r.ns # ns}]
    /\ fresh' = FALSE /\ edits' = edits + 1 /\ written' = NotWritten
    /\ UNCHANGED file

(* OpenExport and writeExport: a target on offer, no sealed prompts, and the rows that *)
(* travel to it.  A writer that fails gives no file.                               *)
MayOpen(a, target) == target \in OfferedTargets(a) /\ a.protected = {}
Download(target) ==
    /\ asset # NoAsset /\ file = NoFile /\ MayOpen(asset, target)
    /\ ~WriteFails(target, asset, Travelling(asset, target))
    /\ file' = WriteBy(target, asset, Travelling(asset, target))
    /\ written' = [target |-> target, asset |-> asset, fresh |-> fresh,
                    file |-> file']
    /\ asset' = NoAsset /\ fresh' = FALSE
    /\ UNCHANGED edits

DownloadFails(target) ==
    /\ asset # NoAsset /\ file = NoFile /\ MayOpen(asset, target)
    /\ WriteFails(target, asset, Travelling(asset, target))
    /\ UNCHANGED vars

(* The creator deletes the asset, or throws the file away. *)
Discard ==
    /\ asset # NoAsset \/ file # NoFile
    /\ asset' = NoAsset /\ file' = NoFile /\ written' = NotWritten
    /\ fresh' = FALSE /\ edits' = 0

Namespaced == {r.ns : r \in IF asset = NoAsset THEN {} ELSE asset.preserved}
Roles == IF asset = NoAsset THEN {} ELSE DOMAIN asset.content

Next ==
    \/ \E f \in Files : Bring(f)
    \/ \E a \in Builds : Build(a)
    \/ \E row \in OldRows : Migrate(row)
    \/ Import \/ Refuse \/ EditHeader \/ Discard
    \/ \E role \in Roles : EditRole(role)
    \/ \E ns \in Namespaced : DeletePreservedNamespace(ns)
    \/ \E d \in Registry : Download(d.id) \/ DownloadFails(d.id)

Spec == Init /\ [][Next]_vars

-----------------------------------------------------------------------------
(* What a role's content says, whatever ids its items were given. *)
IndexOf(list, id) ==
    IF \E i \in DOMAIN list : list[i].id = id
    THEN CHOOSE i \in DOMAIN list : list[i].id = id ELSE 0
Nameless(list) == [i \in DOMAIN list |-> [list[i] EXCEPT !.id = NoItem]]
Filled(values) == Restrict(values, {n \in DOMAIN values : values[n] # Null})
Prompts(content) ==
    IF "prompt_fragments" \in DOMAIN content THEN content["prompt_fragments"] ELSE NoPrompts
Meaning(content, role) ==
    LET c == content[role]
    IN CASE role \in {"lorebook_entries", "regex_scripts", "pack_items"} -> Nameless(c)
         [] role = "prompt_variables" ->
                [i \in DOMAIN c |-> [name |-> c[i].name, widget |-> c[i].widget, value |-> c[i].value,
                                     fragment |-> IndexOf(Prompts(content).fragments, c[i].fragment)]]
         [] role = "prompt_fragments" ->
                [groups |-> Nameless(c.groups),
                 fragments |-> [i \in DOMAIN c.fragments |->
                     <<[c.fragments[i] EXCEPT !.id = NoItem, !.group = NoItem],
                       IndexOf(c.groups, c.fragments[i].group)>>]]
         [] role \in {"sampler_settings", "theme_controls"} -> Filled(c)
         [] role = "theme_tokens" ->
                {<<c[i].name, Restrict(c[i].colors, FilledIn(c[i]))>> :
                     i \in {j \in DOMAIN c : FilledIn(c[j]) # {}}}
         [] role = "stylesheets" ->
                [c EXCEPT !.sheets = Nameless(c.sheets), !.assets = Nameless(c.assets)]
         [] OTHER -> c

(* A copy of an asset: what came back of it from the file it was written to. *)
Returned == asset # NoAsset /\ written # NotWritten
Target == Declaration(written.target)
SourceRoles == WrittenRoles(written.asset.content)
VerdictOn(role) == Verdict(Target, role, written.asset.content[role])
SameAsBefore(role) ==
    /\ role \in WrittenRoles(asset.content)
    /\ Meaning(asset.content, role) = Meaning(written.asset.content, role)

(* Types.  Registry.Resolve and Reader.Parse are the only ways from a file to an asset,  *)
(* so an asset always has a kind some module reads, and content.                    *)
TypeOK ==
    /\ asset = NoAsset \/ /\ asset.kind \in {d.kind : d \in Registry}
                          /\ DOMAIN asset.content # {} /\ IsFiniteSet(asset.preserved)
    /\ file = NoFile \/ file.format \in {"card"} \cup {d.id : d \in Registry}
    /\ written = NotWritten \/ Registered(written.target)
    /\ fresh \in BOOLEAN /\ edits \in 0 .. MaxEdits

(* Content that is reported carried and is not: recursion in a listed book, a name  *)
(* on a group greeting, a turn nobody speaks that reads as if somebody did, a variable whose fragment is gone,   *)
(* a fragment under no heading that a heading precedes, a heading nothing sits        *)
(* under, and a marker whose name went with the data that was preserved.           *)
Recursive(entries) == \E i \in DOMAIN entries : entries[i].recursion
Ambiguity(turns) ==
    \E i \in DOMAIN turns : turns[i].speaker = NoText /\ Len(Head(turns[i].lines)) > 1
Homeless(content) ==
    IF "prompt_variables" \notin DOMAIN content THEN {}
    ELSE {v.id : v \in {w \in Range(content["prompt_variables"]) :
                           IndexOf(Prompts(content).fragments, w.fragment) = 0}}
Stray(list) == \E i \in DOMAIN list.fragments : list.fragments[i].group = NoItem /\ Reached(list, i) # 0
Renames(a, list) ==
    \E i \in DOMAIN list.fragments :
        LET p == list.fragments[i]
        IN p.marker # NoText /\ Identifier(Travelling(a, SillyTavern), p) # p.marker
KnownLoss(target, a, role) ==
    LET c == a.content[role]
    IN CASE role = "lorebook_entries" -> target # "lorebook_sillytavern" /\ Recursive(c)
         [] role = "example_dialogue" -> Ambiguity(c)
         [] role = "group_greetings" -> HasNamedText(c)
         [] role = "prompt_variables" -> Homeless(a.content) # {}
         [] role = "prompt_fragments" ->
                IF target = Lumiverse THEN Stray(c) ELSE Renames(a, c) \/ c.groups # <<>>
         [] OTHER -> FALSE

(* The loss report a creator is shown before a download (lossReport, capability.go): a   *)
(* role it does not list is in the file, and the same module's reader makes of it what    *)
(* the asset held, whatever was edited in between.  The losses of KnownLoss apart.        *)
CarriedComesBack ==
    Returned => \A role \in SourceRoles :
        /\ VerdictOn(role) = Carried /\ Target.roles[role].read # None
        /\ ~KnownLoss(written.target, written.asset, role)
        => SameAsBefore(role)

(* The other half of that report: what it says is reduced really comes back different,   *)
(* and what it says is dropped does not come back at all.  A Partial grade without its     *)
(* Condition would warn a creator of nothing.                                          *)
LossIsReal ==
    Returned => \A role \in SourceRoles :
        /\ VerdictOn(role) = Reduced => ~SameAsBefore(role)
        /\ VerdictOn(role) = Dropped => role \notin WrittenRoles(asset.content)

(* Two writers put nothing in a file that tells their own reader what it is, unless  *)
(* the asset was read with it, or holds it.                                      *)
Signed(target, f) ==
    /\ target = Lumiverse => "schemaVersion" \in DOMAIN f.root
    /\ target = SillyTavernTheme => {"main_text_color", "blur_strength"} \subseteq DOMAIN f.root

(* The asset holds what its kind requires. *)
Complete(a) == RequiredRoles(a.kind) \subseteq WrittenRoles(a.content)

(* A file this site writes is one it reads: Registry.Resolve gives it to the module that  *)
(* wrote it, and to no other, although the v2 copy beside a v3 card, the legacy fields     *)
(* beside `data` and the signatures of other formats are in it too.                      *)
ExportIsReadable ==
    file # NoFile /\ written # NotWritten /\ Complete(written.asset) /\ Signed(written.target, file)
        => Readable(file) /\ Resolve(PayloadsOf(file)) = written.target

(* OfferedTargets leaves out a target that would drop a role the kind requires: a file      *)
(* written from an asset that has them all can be read by its own module, and what that       *)
(* makes of it has them all again, although conditions on a role's content decide it.         *)
RequiredSurvives ==
    file # NoFile /\ written # NotWritten /\ Complete(written.asset) =>
        LET back == ParseBy(written.target, file)
        IN /\ back # Unreadable
           /\ RequiredRoles(written.asset.kind) \subseteq WrittenRoles(back.content)

(* An asset read from a file and written back untouched to the same format gives the same   *)
(* file the second time as the first: reading and writing lose nothing more once a file     *)
(* has been through them (readers' remainder, writers' restore).                          *)
ExportIsStable ==
    Returned /\ written.fresh /\ written.asset.origin = written.target
        => WriteBy(written.target, asset, Travelling(asset, written.target)) = written.file

(* A download is read back: by the module that wrote it and no other, with all its kind    *)
(* requires, and to the same file when nothing was edited.                              *)
ExportReadsBack == ExportIsReadable /\ RequiredSurvives /\ ExportIsStable

(* Where the owner of a preserved row is in the copy. *)
Lists(content) ==
    {Prompts(content).groups, Prompts(content).fragments}
    \cup {content[role] : role \in DOMAIN content
              \cap {"lorebook_entries", "prompt_variables", "regex_scripts", "pack_items"}}
    \cup (IF "stylesheets" \in DOMAIN content
          THEN {content["stylesheets"].sheets, content["stylesheets"].assets} ELSE {})
SameItem(list, copy, a, b) == \E i \in DOMAIN list \cap DOMAIN copy : list[i].id = a /\ copy[i].id = b
SameOwner(a, b) ==
    \/ a = b /\ a \in {TheAsset, TheBook}
    \/ \E list \in Lists(written.asset.content), copy \in Lists(asset.content) :
           SameItem(list, copy, a, b)

WrittenOut(owner) ==
    /\ owner \notin Homeless(written.asset.content)
    /\ owner = TheAsset \/ \E role \in SourceRoles : owner \in Ids(role, written.asset.content[role])

(* The keys a writer writes itself, whatever was kept under them. *)
WriterKeys(target, ns) ==
    CASE ns = "card" -> DOMAIN CardFields(written.asset, V3) \cup {"extensions"}
      [] ns \in {"lorebook_entry", "character_book"} -> {"keys", "content", "enabled"}
      [] ns = "lorebook_sillytavern_entry" -> {"key", "content", "disable"}
      [] ns = "lorebook" -> IF target = "lorebook" THEN {"name", "extensions"} ELSE {}
      [] ns = "preset_lumiverse" -> {"name"}
      [] ns = "preset_lumiverse_block" -> {"content", "enabled"}
      [] ns = "preset_lumiverse_variable" -> {"name", "type"}
      [] ns = "theme_lumiverse" -> {"name", "description"}
      [] ns = "theme_lumiverse_component" -> {"enabled"}
      [] ns = "theme_sillytavern" -> {"name"}
      [] ns = PackId -> IF written.asset.header.version = NoText THEN {} ELSE {"version"}
      [] OTHER -> {}

(* What the reader of a download preserves again where r was preserved. *)
Again(r) == {back \in asset.preserved : back.ns = r.ns /\ SameOwner(r.owner, back.owner)}

(* What no reader understood is not lost: every field preserved for the asset, a book or an  *)
(* item that travels with a download is preserved again, for the same owner and with the     *)
(* same value, when the file is read again.  Two losses apart, and this says they are        *)
(* losses: the keys of WriterKeys, and a book's entry that was no object, which a reader     *)
(* keeps whole and restorePreserved takes apart as an object, so that it never comes back.   *)
LeftoversComeBack ==
    Returned => \A r \in {t \in Travelling(written.asset, written.target) : WrittenOut(t.owner)} :
        IF ~r.payload.object THEN \A back \in Again(r) : back.payload.object
        ELSE \A key \in DOMAIN r.payload.fields \ WriterKeys(written.target, r.ns) :
                 \E back \in Again(r) : /\ key \in DOMAIN back.payload.fields
                                        /\ back.payload.fields[key] = r.payload.fields[key]

(* TravelsWithOrigin: fields one application left behind, or a row of the old site that a      *)
(* module does not say it preserves, never appear in a file for another application.            *)
AtHome ==
    \/ written.asset.origin \in Target.preserves
    \/ Registered(written.asset.origin) /\ Declaration(written.asset.origin).body = Target.body
LeftoversStayHome ==
    Returned /\ ~AtHome => \A r \in written.asset.preserved :
        \A key \in DOMAIN r.payload.fields \ WriterKeys(written.target, r.ns) :
            ~ \E back \in asset.preserved : back.ns = r.ns /\ key \in DOMAIN back.payload.fields

(* What no reader understands travels exactly where TravelsWithOrigin lets it: back to      *)
(* the applications it came from, with the losses LeftoversComeBack names, and to no other.  *)
LeftoversTravel == LeftoversComeBack /\ LeftoversStayHome

SealedApart(a, f) ==
    LET prompts == {p \in a.protected : p.fragment = f.id}
    IN /\ f.protected => f.text = NoText /\ Cardinality(prompts) = 1
       /\ ~f.protected => prompts = {}
       /\ a.origin = OriginV1 =>
              /\ ~Placeheld(f)
              /\ \A p \in prompts : ~p.reuse /\ p.text # Placeholder(p.key)

(* A sealed prompt's text is never on the page a reader makes: readLumiverseSealedPrompt      *)
(* and activateCurrentSealedPrompts move it to Parsed.Protected, exactly one for each          *)
(* fragment marked protected, and no placeholder of the old site is left as a text.           *)
SealedStaysOut ==
    asset # NoAsset /\ fresh /\ "prompt_fragments" \in DOMAIN asset.content =>
        \A f \in Range(asset.content["prompt_fragments"].fragments) : SealedApart(asset, f)

(* Every header field a module declares (HeaderFields) is read back from what its writer     *)
(* wrote, a version that is not a number apart.                                           *)
HeaderComesBack ==
    Returned => \A field \in Target.header :
        LET before == written.asset.header[field]
        IN before # NoText /\ (field = "version" => before \in JSONNumbers) => asset.header[field] = before

(* The loss report is true in both directions, for content and for the header.           *)
LossReportHolds == TypeOK /\ CarriedComesBack /\ LossIsReal /\ HeaderComesBack

(* What a reader makes of a file, or of a row of the old site, finds a place on its kind's  *)
(* page: block.Place refuses an import for one role its catalog has nothing for, whatever   *)
(* the reader declared, and two tables in two packages decide it.                         *)
Page == INSTANCE PageCatalog WITH MaxCollectionItems <- 1
Tag(role) == [role |-> role, type |-> Page!RoleTypes[role], items |-> 1]
ImportsFindAPlace ==
    asset # NoAsset /\ fresh =>
        Page!HasPlaceForAll(asset.kind, [role \in DOMAIN asset.content |-> Tag(role)])

=============================================================================
