------------------------------ MODULE AssetLife ------------------------------
(***************************************************************************)
(* One asset under its owner's editing: internal/asset (blocks, identity,   *)
(* publish, deletion, withholding, preserved, generation, projection,       *)
(* facet, media, revision) with internal/protected.  Every edit is one      *)
(* transaction that takes the asset's row with FOR UPDATE, digests what a   *)
(* download would carry, writes, projects what it wrote, digests again and  *)
(* moves content_generation where the two digests differ.                   *)
(*                                                                         *)
(* The asset is a preset: its required block `core` pins the prompt list    *)
(* `prompts`, here of at most one fragment.  `nudges` is an optional block   *)
(* whose element a file may bring and a writer writes, `custom` one whose    *)
(* element has no role, so no writer writes it.                             *)
(***************************************************************************)
EXTENDS Integers, FiniteSets

CONSTANTS
    Tabs,          \* the owner's open pages, each with one request at a time
    Texts,         \* what the owner may write in a fragment
    Files,         \* replacement files, as a format module reads them
    MaxEdits,      \* bound: transactions that took the row
    MaxRevisions,  \* bound: replacement files accepted
    MaxDeploys     \* bound: restarts with a new export or facet contract

(* A file's prompt text, whether it is sealed, whether a sealed one is a      *)
(* keyed placeholder for a text Illarin already keeps, whether the file has   *)
(* nudges, a picture, and which owners its leftovers belong to.               *)
File == [text : Texts, sealed : BOOLEAN, reuse : BOOLEAN, nudges : BOOLEAN,
         picture : BOOLEAN, leftovers : SUBSET {"asset", "nudge"}]

Free == "free"   \* lock, when nobody holds the row

ASSUME LifeAssumption ==
    /\ Texts # {} /\ {"none", "blank"} \cap Texts = {} /\ Free \notin Tabs
    /\ Files \subseteq File
    /\ \A f \in Files : (f.reuse => f.sealed) /\ ("nudge" \in f.leftovers => f.nudges)
    /\ {MaxEdits, MaxRevisions, MaxDeploys} \subseteq Nat

VARIABLES
    header,     \* the assets row but for the columns below
    generation, \* content_generation
    rows,       \* asset_blocks: block -> its position and whether it is hidden
    els,        \* the elements those rows hold, by id
    payload,    \* protected_content: fragment -> its text and source key
    apps,       \* protected_delivery_apps
    preserved,  \* owners of asset_preserved_data rows
    cover,      \* cover_media_id: who brought the picture, and when
    proj,       \* asset_projections
    revision,   \* the current revision: every id a file brings is new with it
    ops,        \* replacement files accepted and not yet ingested
    lock,       \* who holds the asset's row
    tab,        \* each page: its request's step, its digest (a set), its prompt list
    edits, accepted, contract

page == <<rows, els, payload, apps, preserved>>
counters == <<edits, accepted, contract>>
vars == <<header, generation, page, cover, proj, revision, ops, lock, tab, counters>>

-----------------------------------------------------------------------------

Blocks == {"core", "nudges", "custom"}
Elements == {"prompts", "nudge", "note"}
Optional == {"nudges", "custom"}
Apps == {"lumiverse"}
NoDigest == {}

(* An element's block and body: "none" is one left empty, "blank" the text a  *)
(* sealed fragment's public row keeps.                                       *)
Body(block, text, sealed) == [block |-> block, text |-> text, sealed |-> sealed]
Written(e) == e.text # "none"
In(b) == {e \in DOMAIN els : els[e].block = b}

(* The element a tray or a file starts each optional block with. *)
Starts(b) == IF b = "nudges" THEN "nudge" ELSE "note"

Sealed(elements) == {e \in DOMAIN elements : elements[e].sealed}

(* RestorePromptFragments, which gives up when a sealed fragment has no        *)
(* payload.  A fragment's id is the revision that brought it.                 *)
Restorable == Sealed(els) # {} => revision \in DOMAIN payload
Restored(e) ==
    IF els[e].sealed /\ revision \in DOMAIN payload
    THEN payload[revision].text ELSE els[e].text
RestoredPage == [e \in DOMAIN els |-> [els[e] EXCEPT !.text = Restored(e)]]

(* contentFingerprint: elements by id, whatever their block, their order, or   *)
(* whether they are sealed, and empty ones left out.                          *)
Fingerprint ==
    [name |-> header.name, ids |-> revision, cover |-> cover, preserved |-> preserved,
     content |-> {<<e, Restored(e)>> : e \in {x \in DOMAIN els : Written(els[x])}}]

(* exportCapability and facetCounts, under the contract they were measured by. *)
ExportOf(stamp, elements) ==
    [stamp |-> stamp, roles |-> {e \in DOMAIN elements \ {"note"} : Written(elements[e])}]
FacetsOf(stamp, blocks, elements) ==
    [stamp |-> stamp,
     shown |-> {e \in DOMAIN elements :
                  Written(elements[e]) /\ ~blocks[elements[e].block].hidden}]

WriteFacetProjection == proj' = [proj EXCEPT !.facets = FacetsOf(contract, rows', els')]
WriteProjections ==
    proj' = [export |-> ExportOf(contract, els'), facets |-> FacetsOf(contract, rows', els')]

MoveContentGeneration(before) ==
    /\ Restorable'
    /\ generation' = generation + (IF Fingerprint' \in before THEN 0 ELSE 1)

Live == header.deleted = "no"
Editable == Live /\ ~header.withheld

-----------------------------------------------------------------------------
(* protected.SyncPromptFragments over the page `elements`, whose sealed        *)
(* fragment still holds its text; supplied is empty or holds the apps chosen.  *)

Blanked(elements) ==
    [e \in DOMAIN elements |->
        IF elements[e].sealed THEN [elements[e] EXCEPT !.text = "blank"] ELSE elements[e]]

PolicyFor(supplied) == IF supplied = {} THEN apps ELSE UNION supplied

(* replacePromptPayloads, which also removes what is no longer sealed. *)
Payload(id, text, key) == [f \in {id} |-> [text |-> text, key |-> key]]
KeyOf(id) == IF id \in DOMAIN payload THEN payload[id].key ELSE "no key"

SyncLeavesPolicy(elements, supplied) ==
    /\ els' = Blanked(elements)
    /\ \/ Sealed(elements) = {} /\ payload' = <<>> /\ apps' = apps
       \/ /\ Sealed(elements) # {} /\ PolicyFor(supplied) # {}
          /\ apps' = PolicyFor(supplied)
          /\ payload' = Payload(revision, elements["prompts"].text, KeyOf(revision))

SyncPromptFragments(elements, supplied) ==
    /\ els' = Blanked(elements)
    /\ \/ Sealed(elements) = {} /\ payload' = <<>> /\ apps' = {}
       \/ /\ Sealed(elements) # {} /\ PolicyFor(supplied) # {}
          /\ apps' = PolicyFor(supplied)
          /\ payload' = Payload(revision, elements["prompts"].text, KeyOf(revision))

(* Mutant: an element that changed its block counts as gone. *)
DropMovedPreservedData ==
    preserved' = preserved \cap
        ({"asset"} \cup {e \in DOMAIN els \cap DOMAIN els' : els'[e].block = els[e].block})

(* An edit leaves the rows of what is still on the page, and the file's own. *)
DropUnownedPreservedData == preserved' = preserved \cap ({"asset"} \cup DOMAIN els')

-----------------------------------------------------------------------------

(* The page Place makes of a file. *)
FilePage(f) ==
    [e \in {"prompts"} \cup (IF f.nudges THEN {"nudge"} ELSE {}) |->
        IF e = "prompts" THEN Body("core", IF f.sealed THEN "blank" ELSE f.text, f.sealed)
        ELSE Body("nudges", "prose", FALSE)]

FileRows(f) ==
    [b \in {"core"} \cup (IF f.nudges THEN {"nudges"} ELSE {}) |->
        [position |-> IF b = "core" THEN 0 ELSE 1, hidden |-> FALSE]]

Fresh ==
    /\ generation = 0 /\ revision = 1 /\ ops = {} /\ lock = Free
    /\ proj = [export |-> ExportOf(0, els), facets |-> FacetsOf(0, rows, els)]
    /\ tab = [t \in Tabs |-> [step |-> "idle", before |-> NoDigest,
                              view |-> [ids |-> 0, text |-> "none", sealed |-> FALSE]]]
    /\ edits = 0 /\ accepted = 0 /\ contract = 0

Draft(known) == [name |-> known, rated |-> known, published |-> FALSE, listed |-> TRUE,
                 withheld |-> FALSE, deleted |-> "no"]

(* A draft built here: an empty page with the required block. *)
StartFromNothing ==
    /\ header = Draft(FALSE)
    /\ rows = [b \in {"core"} |-> [position |-> 0, hidden |-> FALSE]]
    /\ els = [e \in {"prompts"} |-> Body("core", "none", FALSE)]
    /\ payload = <<>> /\ apps = {} /\ preserved = {}
    /\ cover = [by |-> "nobody", n |-> 0]
    /\ Fresh

(* A draft writeIngestResult made of an uploaded file. *)
IngestDraft(f) ==
    /\ header = Draft(TRUE)
    /\ rows = FileRows(f) /\ els = FilePage(f) /\ preserved = f.leftovers
    /\ IF f.sealed THEN payload = Payload(1, f.text, "key") /\ apps = Apps
                   ELSE payload = <<>> /\ apps = {}
    /\ cover = IF f.picture THEN [by |-> "file", n |-> 1] ELSE [by |-> "nobody", n |-> 0]
    /\ Fresh

Init == StartFromNothing \/ \E f \in {x \in Files : ~x.reuse} : IngestDraft(f)

(* The prompt list as an answer carries it. *)
OwnerView == [ids |-> revision, text |-> Restored("prompts"), sealed |-> els["prompts"].sealed]
RowView == [ids |-> revision, text |-> els["prompts"].text, sealed |-> els["prompts"].sealed]

(* Detail for the owner: sealed text restored in the page's own snapshot. *)
OpenPage(t) ==
    /\ tab[t].step = "idle" /\ Live /\ Restorable
    /\ tab' = [tab EXCEPT ![t].view = OwnerView]
    /\ UNCHANGED <<header, generation, page, cover, proj, revision, ops, lock, counters>>

(* lockEditableAsset, then contentFingerprint under that lock. *)
Locks(t) ==
    /\ tab[t].step = "idle" /\ edits < MaxEdits
    /\ lock' = t /\ edits' = edits + 1
    /\ tab' = [tab EXCEPT ![t].step = "editing", ![t].before = {Fingerprint}]
    /\ UNCHANGED <<header, generation, page, cover, proj, revision, ops, accepted, contract>>

LockTakenTwice(t) == Editable /\ Locks(t)
LockEditableAsset(t) == lock = Free /\ Editable /\ Locks(t)

(* The transaction ends: the row is released and the page shows the answer. *)
Ends(t, step, view) ==
    /\ lock' = Free
    /\ tab' = [tab EXCEPT ![t] = [step |-> step, before |-> NoDigest, view |-> view]]

(* A request refused after it locked the row, or one that failed. *)
Rollback(t) ==
    /\ Ends(t, "idle", tab[t].view)
    /\ UNCHANGED <<header, generation, page, cover, proj, revision, ops, counters>>

(* How every edit of the page's content ends. *)
Saved(t) ==
    /\ UNCHANGED <<header, cover, revision, ops, counters>>
    /\ WriteProjections
    /\ MoveContentGeneration(tab[t].before)

-----------------------------------------------------------------------------
(* The edits of blocks.go. *)

(* SaveBlock of the core block.  The sheet sends back the fragment its page    *)
(* shows or one the owner wrote; the answer is restored after the commit.      *)
SaveCore(t, text, sealed, supplied) ==
    /\ tab[t].view.ids = revision /\ Restorable
    /\ text \in Texts \cup {tab[t].view.text, "none"}
    /\ sealed => text # "none"
    /\ UNCHANGED rows
    /\ SyncPromptFragments([RestoredPage EXCEPT !["prompts"] = Body("core", text, sealed)],
                           supplied)
    /\ DropUnownedPreservedData
    /\ Saved(t)
    /\ Ends(t, IF sealed THEN "saved" ELSE "idle",
            [ids |-> revision, text |-> IF sealed THEN "blank" ELSE text, sealed |-> sealed])

(* SaveBlock of an optional block, which may leave elements out. *)
SaveOptional(t, b, kept, text) ==
    /\ b \in DOMAIN rows /\ Restorable
    /\ kept \subseteq In(b)
    /\ UNCHANGED rows
    /\ SyncPromptFragments(
           [e \in (DOMAIN els \ In(b)) \cup kept |->
               IF e \in kept THEN Body(b, text, FALSE) ELSE RestoredPage[e]], {})
    /\ DropUnownedPreservedData
    /\ Saved(t)
    /\ Ends(t, "idle", tab[t].view)

(* RestorePromptFragments through the pool, once the save has committed. *)
AnswerSave(t) ==
    /\ tab[t].step = "saved"
    /\ \/ /\ tab[t].view.ids \in DOMAIN payload
          /\ tab' = [tab EXCEPT ![t].step = "idle",
                                ![t].view.text = payload[tab[t].view.ids].text]
       \/ /\ tab[t].view.ids \notin DOMAIN payload
          /\ tab' = [tab EXCEPT ![t].step = "idle", ![t].view.ids = 0]
    /\ UNCHANGED <<header, generation, page, cover, proj, revision, ops, lock, counters>>

(* NewBlock at the foot of the page.  A second element of a singular role is   *)
(* refused by ValidateBuilderConstraints.                                     *)
AddBlock(t, b) ==
    /\ b \in Optional \ DOMAIN rows
    /\ Starts(b) \notin DOMAIN els
    /\ rows' = [x \in DOMAIN rows \cup {b} |->
                  IF x = b THEN [position |-> Cardinality(DOMAIN rows), hidden |-> FALSE]
                  ELSE rows[x]]
    /\ els' = [e \in DOMAIN els \cup {Starts(b)} |->
                 IF e = Starts(b) THEN Body(b, "none", FALSE) ELSE els[e]]
    /\ UNCHANGED <<payload, apps, preserved>>
    /\ Saved(t)
    /\ Ends(t, "idle", tab[t].view)

(* deleteBlockAndClosePositions *)
ClosePositions(b) ==
    [x \in DOMAIN rows \ {b} |->
        [rows[x] EXCEPT !.position = IF @ > rows[b].position THEN @ - 1 ELSE @]]

RemoveBlock(t, b) ==
    /\ b \in Optional \cap DOMAIN rows /\ Restorable
    /\ rows' = ClosePositions(b)
    /\ SyncPromptFragments([e \in DOMAIN els \ In(b) |-> RestoredPage[e]], {})
    /\ DropUnownedPreservedData
    /\ Saved(t)
    /\ Ends(t, "idle", tab[t].view)

(* MoveBlockContent: only `custom` has a layout with room to spare.  It answers *)
(* with the blocks it blanked.                                                *)
MoveBlockContent(t) ==
    /\ Optional \subseteq DOMAIN rows /\ Restorable /\ In("nudges") # {}
    /\ rows' = ClosePositions("nudges")
    /\ SyncPromptFragments(
           [e \in DOMAIN els |->
               IF e \in In("nudges") THEN [els[e] EXCEPT !.block = "custom"]
               ELSE RestoredPage[e]], {})
    /\ DropUnownedPreservedData
    /\ Saved(t)
    /\ Ends(t, "idle", RowView)

(* ArrangeBlocks: positions and hiding, no digest, and only the facets are     *)
(* projected again.  It answers with the rows it read.                        *)
Arranged(t, order, hidden) ==
    /\ \A b, c \in DOMAIN rows : order[b] = order[c] => b = c
    /\ hidden \subseteq Optional
    /\ rows' = [b \in DOMAIN rows |-> [position |-> order[b], hidden |-> b \in hidden]]
    /\ UNCHANGED <<els, payload, apps, preserved, header, generation, cover, revision, ops,
                   counters>>
    /\ Ends(t, "idle", RowView)

ArrangeUnprojected(t, order, hidden) == Arranged(t, order, hidden) /\ UNCHANGED proj
ArrangeBlocks(t, order, hidden) == Arranged(t, order, hidden) /\ WriteFacetProjection

-----------------------------------------------------------------------------
(* The header, the preserved panel, pictures and the life of the asset. *)

(* SetIdentity: a published asset cannot be unrated. *)
SetIdentity(t, name, rated) ==
    /\ rated \/ ~header.published
    /\ header' = [header EXCEPT !.name = name, !.rated = rated]
    /\ UNCHANGED <<page, proj, cover, revision, ops, counters>>
    /\ MoveContentGeneration(tab[t].before)
    /\ Ends(t, "idle", tab[t].view)

(* Publish: readiness over the rows as they are stored. *)
Publish(t) ==
    /\ ~header.published /\ header.name /\ header.rated /\ Written(els["prompts"])
    /\ header' = [header EXCEPT !.published = TRUE]
    /\ Ends(t, "idle", tab[t].view)
    /\ UNCHANGED <<generation, page, proj, cover, revision, ops, counters>>

DeletePreservedNamespace(t, owner) ==
    /\ owner \in preserved
    /\ preserved' = preserved \ {owner}
    /\ UNCHANGED <<header, rows, els, payload, apps, proj, cover, revision, ops, counters>>
    /\ MoveContentGeneration(tab[t].before)
    /\ Ends(t, "idle", tab[t].view)

(* AddMedia: an avatar becomes the cover; an alternate only where none stands. *)
AddMedia(t, role) ==
    /\ cover' = IF role = "avatar" \/ cover.by \in {"nobody", "alternate"}
                THEN [by |-> role, n |-> edits] ELSE cover
    /\ UNCHANGED <<header, page, proj, revision, ops, counters>>
    /\ MoveContentGeneration(tab[t].before)
    /\ Ends(t, "idle", tab[t].view)

(* AcceptRevision records the file for the ingest worker. *)
AcceptRevision(t, f) ==
    /\ accepted < MaxRevisions
    /\ ops' = ops \cup {[file |-> f, n |-> accepted]} /\ accepted' = accepted + 1
    /\ Ends(t, "idle", tab[t].view)
    /\ UNCHANGED <<header, generation, page, proj, cover, revision, edits, contract>>

(* Single statements, which wait for the row. *)
Statement(new) ==
    /\ lock = Free /\ header' = new
    /\ UNCHANGED <<generation, page, proj, cover, revision, ops, lock, tab, counters>>

Withhold == Editable /\ header.published /\ Statement([header EXCEPT !.withheld = TRUE])
ClearWithhold == Live /\ header.withheld /\ Statement([header EXCEPT !.withheld = FALSE])
SetDiscovery(listed) ==
    Editable /\ header.published /\ Statement([header EXCEPT !.listed = listed])
Delete == Editable /\ Statement([header EXCEPT !.deleted = "recoverable"])
WindowEnds ==
    header.deleted = "recoverable" /\ Statement([header EXCEPT !.deleted = "expired"])
Restore == header.deleted = "recoverable" /\ Statement([header EXCEPT !.deleted = "no"])

-----------------------------------------------------------------------------
(* writeIngestResult for a revision, in the worker's transaction. *)

(* promptTextBySourceKey: exactly one payload keeps the key. *)
KeyedTexts == {payload[f].text : f \in {x \in DOMAIN payload : payload[x].key = "key"}}

(* ImportPromptFragments keeps a policy that stands, and else the file's. *)
ImportPromptFragments(f) ==
    /\ f.reuse => Cardinality(KeyedTexts) = 1
    /\ apps' = IF apps = {} THEN Apps ELSE apps
    /\ payload' = Payload(revision', IF f.reuse THEN CHOOSE x \in KeyedTexts : TRUE ELSE f.text,
                          "key")

(* setCoverMedia, or clearSupersededCover where the file has no picture. *)
CoverAfter(f) ==
    IF f.picture THEN [by |-> "file", n |-> revision']
    ELSE IF cover.by = "file" THEN [by |-> "nobody", n |-> 0] ELSE cover

ReplacesPage(op) ==
    /\ lock = Free /\ Restorable
    /\ ops' = ops \ {op} /\ revision' = revision + 1
    /\ rows' = FileRows(op.file) /\ els' = FilePage(op.file)
    /\ preserved' = op.file.leftovers /\ cover' = CoverAfter(op.file)
    /\ IF op.file.sealed THEN ImportPromptFragments(op.file) ELSE payload' = <<>> /\ apps' = {}
    /\ WriteProjections
    /\ UNCHANGED <<header, lock, tab, counters>>
    /\ MoveContentGeneration({Fingerprint})

(* lockRevisionTarget refuses an asset that was withheld or deleted since. *)
IngestOverFrozen(op) == Live /\ ReplacesPage(op)
IngestRevision(op) == Editable /\ ReplacesPage(op)

(* The operation is given up: its asset is frozen or gone, or its file refused. *)
IngestFails(op) ==
    /\ ops' = ops \ {op}
    /\ UNCHANGED <<header, generation, page, cover, proj, revision, lock, tab, counters>>

(* A new process: requests are cut off, then every live asset measured under   *)
(* another contract is measured again before anything is served.              *)
Deploy ==
    /\ contract < MaxDeploys /\ contract' = contract + 1
    /\ lock' = Free
    /\ tab' = [t \in Tabs |-> [tab[t] EXCEPT !.step = "idle", !.before = NoDigest]]
    /\ proj' = IF Live THEN [export |-> ExportOf(contract', els),
                             facets |-> FacetsOf(contract', rows, els)] ELSE proj
    /\ UNCHANGED <<header, generation, page, cover, revision, ops, edits, accepted>>

Edit(t) ==
    /\ tab[t].step = "editing"
    /\ \/ \E text \in Texts \cup {"none", "blank"}, sealed \in BOOLEAN,
             supplied \in {{}, {{}}, {Apps}} : SaveCore(t, text, sealed, supplied)
       \/ \E b \in Optional, kept \in SUBSET Elements, text \in {"none", "prose"} :
             SaveOptional(t, b, kept, text)
       \/ \E b \in Optional : AddBlock(t, b) \/ RemoveBlock(t, b)
       \/ MoveBlockContent(t)
       \/ \E order \in [DOMAIN rows -> 0 .. Cardinality(DOMAIN rows) - 1], hidden \in SUBSET Optional :
             ArrangeBlocks(t, order, hidden)
       \/ \E name, rated \in BOOLEAN : SetIdentity(t, name, rated)
       \/ Publish(t)
       \/ \E owner \in preserved : DeletePreservedNamespace(t, owner)
       \/ \E role \in {"avatar", "alternate"} : AddMedia(t, role)
       \/ \E f \in Files : AcceptRevision(t, f)
       \/ Rollback(t)

Next ==
    \/ \E t \in Tabs : OpenPage(t) \/ LockEditableAsset(t) \/ Edit(t) \/ AnswerSave(t)
    \/ \E op \in ops : IngestRevision(op) \/ IngestFails(op)
    \/ Withhold \/ ClearWithhold \/ Delete \/ WindowEnds \/ Restore \/ Deploy
    \/ \E listed \in BOOLEAN : SetDiscovery(listed)

Spec == Init /\ [][Next]_vars

-----------------------------------------------------------------------------
(* Properties. *)

(* Every variable keeps its type. *)
TypeOK ==
    /\ header \in [name : BOOLEAN, rated : BOOLEAN, published : BOOLEAN, listed : BOOLEAN,
                   withheld : BOOLEAN, deleted : {"no", "recoverable", "expired"}]
    /\ generation \in Nat /\ revision \in Nat
    /\ rows \in [DOMAIN rows -> [position : Nat, hidden : BOOLEAN]] /\ DOMAIN rows \subseteq Blocks
    /\ els \in [DOMAIN els -> [block : Blocks, text : Texts \cup {"none", "blank", "prose"},
                               sealed : BOOLEAN]]
    /\ DOMAIN els \subseteq Elements
    /\ apps \subseteq Apps /\ preserved \subseteq {"asset"} \cup Elements
    /\ ops \subseteq [file : Files, n : Nat] /\ {edits, accepted, contract} \subseteq Nat
    /\ lock \in Tabs \cup {Free}
    /\ DOMAIN tab = Tabs /\ \A t \in Tabs : tab[t].step \in {"idle", "editing", "saved"}

(* A sealed fragment's text is in protected_content and nowhere else: the      *)
(* public row is blank, exactly the sealed fragments on the page have a        *)
(* payload, and an app policy stands exactly while one is sealed, across       *)
(* saves, removals, moves and replaced files (SyncPromptFragments,             *)
(* ImportPromptFragments).                                                    *)
SealedIsHeld ==
    /\ \A e \in DOMAIN els : els[e].sealed => els[e].text = "blank"
    /\ DOMAIN payload = IF Sealed(els) = {} THEN {} ELSE {revision}
    /\ apps = {} <=> Sealed(els) = {}

(* The page is in order after any sequence of adds, removals, moves and        *)
(* arrangements: positions run from zero without a gap, the required block     *)
(* holds its pinned element, and every element is in a block on the page.      *)
PageInOrder ==
    /\ {rows[b].position : b \in DOMAIN rows} = 0 .. Cardinality(DOMAIN rows) - 1
    /\ "core" \in DOMAIN rows /\ In("core") = {"prompts"}
    /\ \A e \in DOMAIN els : els[e].block \in DOMAIN rows

(* No preserved row outlives the element it belongs to                         *)
(* (dropUnownedPreservedData).                                                *)
PreservedIsOwned == preserved \subseteq {"asset"} \cup DOMAIN els

(* What the block tables hold stays sound: a page in order whose preserved     *)
(* rows have owners, after every edit, import and interleaving of two tabs.    *)
BlocksSound == TypeOK /\ PageInOrder /\ PreservedIsOwned

(* While a file's page is edited its preserved rows follow what they belong    *)
(* to: one goes only with its element, whichever blocks that moved through, or *)
(* because the creator took its namespace out, and none comes back.            *)
PreservedFollows ==
    [][ revision' = revision =>
          /\ preserved' \subseteq preserved
          /\ \A o \in preserved \ preserved' :
                \/ o # "asset" /\ o \notin DOMAIN els'
                \/ \E t \in Tabs : DeletePreservedNamespace(t, o) ]_vars

(* The block tables: sound in every state, and no preserved row lost or        *)
(* brought back between two of them.                                          *)
BlocksKept == []BlocksSound /\ PreservedFollows

(* What the download menu and the facets read is what the page holds, under    *)
(* the contract that measured it: no edit leaves a projection behind.          *)
ProjectionsFollowPage ==
    /\ proj.export = ExportOf(proj.export.stamp, els)
    /\ proj.facets = FacetsOf(proj.facets.stamp, rows, els)

(* What a download carries. *)
Download ==
    [name |-> header.name, cover |-> cover, preserved |-> preserved,
     content |-> {<<e, Restored(e)>> : e \in {x \in DOMAIN els \ {"note"} : Written(els[x])}}]

(* Whoever edits, and however two edits interleave, a change to what a          *)
(* download carries moves content_generation by one, so that an installed       *)
(* copy is known to be old (moveContentGeneration).                            *)
GenerationFollowsDownload ==
    [][ /\ generation' \in {generation, generation + 1}
        /\ Download' # Download => generation' = generation + 1 ]_vars

(* A withheld or deleted asset keeps its content: a request that read it        *)
(* before, and a replacement file accepted before, change nothing after.       *)
FrozenIsKept ==
    [][ ~Editable /\ ~Editable' => UNCHANGED <<page, cover, generation, revision>>
        /\ header'.name = header.name /\ header'.published = header.published ]_vars

(* The owner never clears a sealed prompt in this model, so its text is never   *)
(* lost: "RestorePromptFragments returns the owner or delivery view".          *)
SealedTextKept == \A f \in DOMAIN payload : payload[f].text # "blank"

=============================================================================
